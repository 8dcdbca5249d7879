----------------------------- MODULE FileStore -----------------------------
(***************************************************************************)
(* What a program that reads and writes files may rely on while nothing    *)
(* goes astray.  A write puts its words at the offsets it names, in order  *)
(* and in its own file, and may stop early.  A read goes no further than   *)
(* the size of the file allows; it fails only if it comes to an offset     *)
(* that holds nothing, and what it returns is what the file holds.         *)
(* Truncating or removing a file touches no other; a crash loses           *)
(* everything.  Words that share a block with the ones written, and were   *)
(* absent before, come out as anything.                                    *)
(***************************************************************************)
EXTENDS Integers

CONSTANTS Files, Length,   \* files, and the offsets 0 .. Length - 1 of each
          Blk,             \* words that become present together
          Absent,
          Own(_, _)        \* what a caller writes to a file at an offset

VARIABLES files,    \* those with a name or an open handle
          data,     \* data[f][o]: the word of f at offset o, or Absent
          size,     \* size[f]
          job,      \* the read or write in progress, or Nothing
          buf       \* buf[i]: what a read has put at i into its buffer

vars == <<files, data, size, job, buf>>

Offsets == 0 .. Length - 1
Empty   == [o \in Offsets |-> Absent]
Nothing == [op |-> "none", file |-> 0, from |-> 0, at |-> 0, to |-> 0]

OthersKept(f) ==
  \A g \in Files \ {f} : data'[g] = data[g] /\ size'[g] = size[g]

Init ==
  /\ files = {}
  /\ data = [f \in Files |-> Empty]
  /\ size = [f \in Files |-> 0]
  /\ job = Nothing

Create(f) ==
  /\ job = Nothing
  /\ f \notin files
  /\ files' = files \cup {f}
  /\ UNCHANGED <<data, size, job>>

\* The files of a set are gone, and nothing else has changed.
Gone(lost) ==
  /\ files' = files \ lost
  /\ data' = [f \in Files |-> IF f \in lost THEN Empty ELSE data[f]]
  /\ size' = [f \in Files |-> IF f \in lost THEN 0 ELSE size[f]]

Remove(f) ==
  /\ job = Nothing
  /\ Gone({f})
  /\ UNCHANGED job

(* To a smaller size: the block in which the new end lies is lost, and     *)
(* what lies behind the old end may be.                                    *)
Truncate(f) ==
  /\ job = Nothing
  /\ f \in files
  /\ size'[f] <= size[f]
  /\ OthersKept(f)
  /\ \A o \in Offsets :
       LET kept == o \div Blk < size'[f] \div Blk
       IN  \/ data'[f][o] = data[f][o] /\ (kept \/ o >= size[f])
           \/ data'[f][o] = Absent /\ ~kept
  /\ UNCHANGED <<files, job>>

(* A handle may have lost its file when it is used, and come to another.   *)
Begin ==
  /\ job = Nothing
  /\ job'.op \in {"read", "write"}
  /\ job'.file \in files /\ job'.at = job'.from /\ job'.from <= job'.to
  /\ job'.op = "read" => job'.to - job'.from <= size[job'.file]
  /\ \E lost \in SUBSET (files \ {job'.file}) : Gone(lost)

StoreWords ==
  LET f == job.file
  IN  /\ job.op = "write" /\ job.at < job.to
      /\ \E end \in job.at + 1 .. job.to :
           /\ job' = [job EXCEPT !.at = end]
           /\ \A o \in Offsets :
                \/ o \in job.at .. end - 1 /\ data'[f][o] = Own(f, o)
                \/ o \notin job.at .. end - 1 /\ data'[f][o] = data[f][o]
                \/ data[f][o] = Absent /\ o \notin job.at .. end - 1
                   /\ o \div Blk = job.at \div Blk
      /\ OthersKept(f) /\ size' = size
      /\ UNCHANGED files

\* Nothing is left to store into.
Shorten ==
  /\ job.op = "write" /\ job.at < job.to
  /\ job' = [job EXCEPT !.to = job.at]
  /\ UNCHANGED <<files, data, size>>

(* An overwrite makes the file as long as itself; what is written at or    *)
(* behind the end makes it longer, by its own length.                      *)
FinishWrite ==
  /\ job.op = "write" /\ job.at = job.to
  /\ LET n   == job.at - job.from
         old == size[job.file]
     IN  size' = [size EXCEPT ![job.file] = IF old > job.from THEN n ELSE n + old]
  /\ job' = Nothing
  /\ UNCHANGED <<files, data>>

FetchWords ==
  /\ job.op = "read" /\ job.at < job.to
  /\ \E end \in job.at + 1 .. job.to :
       /\ job' = [job EXCEPT !.at = end]
       /\ \A o \in job.from .. job.at - 1 : buf'[o - job.from] = buf[o - job.from]
       /\ \A o \in job.at .. end - 1 :
            o \in Offsets /\ data[job.file][o] \in {Absent, buf'[o - job.from]}
  /\ UNCHANGED <<files, data, size>>

FinishRead ==
  /\ job.op = "read" /\ job.at = job.to
  /\ job' = Nothing
  /\ UNCHANGED <<files, data, size>>

FailRead ==
  /\ job.op = "read"
  /\ \E o \in job.at .. job.to - 1 : o \notin Offsets \/ data[job.file][o] = Absent
  /\ job' = Nothing
  /\ UNCHANGED <<files, data, size>>

Lose ==
  /\ files' = {}
  /\ data' = [f \in Files |-> Empty]
  /\ size' = [f \in Files |-> 0]
  /\ job' = Nothing

Next ==
  \/ \E f \in Files : Create(f) \/ Remove(f) \/ Truncate(f)
  \/ Begin
  \/ StoreWords
  \/ Shorten
  \/ FinishWrite
  \/ FetchWords
  \/ FinishRead
  \/ FailRead
  \/ Lose

Spec == Init /\ [][Next]_vars

=============================================================================
