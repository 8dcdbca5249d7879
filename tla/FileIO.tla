------------------------------- MODULE FileIO -------------------------------
(***************************************************************************)
(* Contents of files: block pointers in inodes, the data blocks, the open  *)
(* handles of chisai-mount.c with their private copies of the inode, the   *)
(* REOPEN flag, and the position of the one file descriptor on the device. *)
(*                                                                         *)
(* The unit of data is the word, of the size of a block index, since the   *)
(* code may take either for the other.  A read or write request is a       *)
(* sequence of steps, one for each block it touches; no other request is   *)
(* served meanwhile.                                                       *)
(*                                                                         *)
(* An index that is 0, or that names no block, makes the seek fail, which  *)
(* nobody checks: the access happens where the previous one ended.  A      *)
(* write that has gone astray in this way changes blocks of other files,   *)
(* and the process goes on.                                                *)
(***************************************************************************)
EXTENDS BlockGroups

CONSTANTS
  Handles,    \* the file descriptions the kernel may have open
  NumFiles,   \* files are numbered: their words have to differ
  Direct,     \* DIRECT_BLKS_NUM
  BlkWords,   \* words in a block, and block indices in an indirect block
  Sector,     \* words in the 512 bytes that blkcnt counts
  Offs, Lens, \* bounds of the model: where requests begin, how long they are
  MaxEnd      \* and where the last of them ends

ASSUME SizesAssumption ==
  /\ {NumFiles, Direct, BlkWords, Sector, MaxEnd} \subseteq Nat \ {0}
  /\ \A off \in Offs, len \in Lens : off \in Nat /\ len \in Nat /\ off + len <= MaxEnd

\* dir.h: "a block should always be larger than 512 bytes"; it may be equal.
ASSUME SectorAssumption == Sector <= BlkWords

Files   == 1 .. NumFiles
Limit   == (Direct + BlkWords) * BlkWords   \* words an inode can record
Sizes   == 0 .. MaxEnd
RootBlk == 1                                \* the block of the root directory

(* A word of a data block is 0, a block index, what a program writes at an *)
(* offset of a file, or Any, one that is not followed: in a block that no  *)
(* file names, in a directory, or a program's after a write went astray.   *)
Any       == Total + 1
Own(f, o) == Any + 1 + f * MaxEnd + o
Words     == {0, Any} \cup Indices \cup {Own(f, o) : f \in Files, o \in Sizes}
Addresses == 0 .. Total * BlkWords - 1
Nowhere   == -1      \* a position outside the blocks of files

Pointers == {0} \cup Indices
Inodes   == [size : Sizes, blkcnt : 0 .. (MaxEnd \div Sector) + 1,
             direct : [0 .. Direct - 1 -> Pointers], indirect : Pointers]

NewInode == [size |-> 0, blkcnt |-> 0, direct |-> [i \in 0 .. Direct - 1 |-> 0],
             indirect |-> 0]
Closed   == [file |-> 0, inode |-> NewInode]
Freed    == [file |-> -1, inode |-> NewInode]   \* fi->fh dangles
Unset    == -1
Blank    == [i \in Sizes |-> 0]
Idle     == [op |-> "none", h |-> 0, off |-> 0, size |-> 0, total |-> 0,
             blk |-> Unset, buf |-> Blank]

Lost == {"lost_write", "lost_handle"}

VARIABLES
  phase,     \* "up", how the process ended, or how the model did
  blocks,    \* the block groups of the data blocks, in memory
  linked,    \* the files that a path leads to
  tab,       \* tab[f]: the inode of file f on the device
  disk,      \* disk[a]: the words of the data blocks on the device
  pos,       \* where the last access of the device ended
  handles,   \* what fi->fh points to: a file and a copy of its inode
  reopen,    \* REOPEN
  wild,      \* a write has gone astray since the volume was mounted
  req        \* the read or write in progress with its locals, or Idle

vars == <<phase, blocks, linked, tab, disk, pos, handles, reopen, wild, req>>

IsOpen(h) == handles[h].file \in Files

\* A file exists as long as a path or a handle leads to it.
Live == {f \in Files : f \in linked \/ \E h \in Handles : handles[h].file = f}

-----------------------------------------------------------------------------
(* The device                                                              *)

Addr(blk, at) == (blk - 1) * BlkWords + at

\* lseek and an access of n words at a, in chisai_device_read and _write.
Seek(a, blk, at) == IF blk \in Indices THEN Addr(blk, at) ELSE a

\* n words from a on lie in blocks of one group that files may have.
Within(a, n) ==
  /\ a \in Addresses /\ a \div BlkWords + 1 # RootBlk
  /\ (a % (BlkInodeNum * BlkWords)) + n <= BlkInodeNum * BlkWords

\* Where an access ends.
After(a, n) == IF Within(a, n + 1) THEN a + n ELSE Nowhere

WordAt(a) == IF a \in Addresses THEN disk[a] ELSE Any

\* Slip: the block keeps what it held.
Uncleared(dev, blk) == dev

Cleared(dev, blk) ==
  [a \in Addresses |-> IF a \div BlkWords = blk - 1 THEN 0 ELSE dev[a]]

Saved(dev, at, f, o, n) ==
  [a \in Addresses |-> IF a - at \in 0 .. n - 1 THEN Own(f, o + a - at) ELSE dev[a]]

\* What programs wrote is no longer told apart.
Blurred(dev) == [a \in Addresses |-> IF dev[a] \in Pointers THEN dev[a] ELSE Any]

\* The words of some blocks, and no others.
Aged(dev, named) ==
  [a \in Addresses |-> IF (a \div BlkWords) + 1 \in named THEN dev[a] ELSE Any]

-----------------------------------------------------------------------------
(* Inodes and block pointers                                               *)

\* Slip: blkcnt counts words.
SetSizeInWords(inode, size) == [inode EXCEPT !.size = size, !.blkcnt = size + 1]

SetSize(inode, size) ==
  [inode EXCEPT !.size = size, !.blkcnt = (size \div Sector) + 1]

\* fs_find_blk: where the index of block num is, from DIRECT_BLKS_NUM on.
Slot(inode, num) == Seek(pos, inode.indirect, num - Direct)

\* Slip: the first index of the indirect block is that of block 0.
find_from_start(inode, num) ==
  IF num < Direct THEN inode.direct[num]
  ELSE WordAt(Seek(pos, inode.indirect, num % BlkWords))

fs_find_blk(inode, num) ==
  IF num < Direct THEN inode.direct[num] ELSE WordAt(Slot(inode, num))

PosAfterFind(inode, num) == IF num < Direct THEN pos ELSE After(Slot(inode, num), 1)

\* What the loop of fs_truncate_file takes for direct_blks[i].
Pointer(inode, i) ==
  IF i < Direct THEN inode.direct[i] ELSE IF i = Direct THEN inode.indirect ELSE 0

\* Slip: the block that holds the new end is kept.
CutAfterEnd(inode, size) == (size \div BlkWords) + 1 .. inode.blkcnt - 1

Cut(inode, size) == (size \div BlkWords) .. (inode.blkcnt - 1)

\* Slip: the blocks are released and still named.
WithPointers(inode, cut) == inode

WithoutPointers(inode, cut) ==
  [inode EXCEPT !.direct = [i \in DOMAIN @ |-> IF i \in cut THEN 0 ELSE @[i]],
                !.indirect = IF Direct \in cut THEN 0 ELSE @]

Slots(inode) ==
  IF inode.indirect \in Indices
  THEN Addr(inode.indirect, 0) .. Addr(inode.indirect, BlkWords - 1) ELSE {}

NamedBy(inode) ==
  {inode.direct[i] : i \in DOMAIN inode.direct} \cup {inode.indirect}
    \cup {disk[a] : a \in Slots(inode)}

Named(files) == UNION {NamedBy(tab[f]) : f \in files}

\* blkgrps_data_release for each of some indices.
ReleasedAll(grps, idxs) ==
  [g \in GroupIds |->
     [grps[g] EXCEPT !.bitmap = {b \in @ : g * BlkInodeNum + b + 1 \notin idxs}]]

-----------------------------------------------------------------------------

\* A volume that was just formatted and mounted: the root directory is made.
FreshBlocks == Allocated(blkgrps_load([g \in GroupIds |-> {}]))
FreshDisk   == [a \in Addresses |-> Any]

Init ==
  /\ phase = "up"
  /\ blocks = FreshBlocks
  /\ linked = {}
  /\ tab = [f \in Files |-> NewInode]
  /\ disk = FreshDisk
  /\ pos = Nowhere
  /\ handles = [h \in Handles |-> Closed]
  /\ reopen = FALSE
  /\ wild = FALSE
  /\ req = Idle

\* What the memory of the process holds is lost, and the files with it.
MemoryLost ==
  /\ blocks' = FreshBlocks
  /\ linked' = {}
  /\ tab' = [f \in Files |-> NewInode]
  /\ disk' = FreshDisk
  /\ pos' = Nowhere
  /\ handles' = [h \in Handles |-> Closed]
  /\ reopen' = FALSE
  /\ wild' = FALSE
  /\ req' = Idle

(* The process ends, at any point, and the volume is mounted again: with   *)
(* the bitmaps as they were formatted and an empty root, over the old      *)
(* contents of the blocks.  After GiveUp it is another volume.             *)
Restart == phase' = "up" /\ MemoryLost

End(how) == phase' = how /\ MemoryLost

(* A write hits a directory, the inodes or a bitmap, or a request works on *)
(* memory that was freed: anything may follow, and nothing is said of it.  *)
(* The variables take their first values to have one state for it.         *)
GiveUp(how) == phase' = how /\ MemoryLost

Serving == phase = "up" /\ req = Idle

(* A file that no path leads to is gone with its last handle: nothing      *)
(* gives up its inode and its blocks.                                      *)
LastOf(h) ==
  /\ handles[h].file \notin linked
  /\ \A g \in Handles \ {h} : handles[g].file # handles[h].file

LetGo(h) ==
  IF LastOf(h)
  THEN /\ tab' = [tab EXCEPT ![handles[h].file] = NewInode]
       /\ disk' = Aged(disk, Named(Live \ {handles[h].file}))
  ELSE UNCHANGED <<tab, disk>>

-----------------------------------------------------------------------------
(* Requests that open, close and look at files                             *)

(* chisai_fuse_create, with an inode left.  The entry is not made in a     *)
(* full directory and not found again if the name has 28 characters, and   *)
(* the handle is good all the same.                                        *)
Create(h, f) ==
  /\ Serving
  /\ handles[h] = Closed
  /\ f \notin Live
  /\ linked' \in {linked, linked \cup {f}}
  /\ tab' = [tab EXCEPT ![f] = NewInode]
  /\ handles' = [handles EXCEPT ![h] = [file |-> f, inode |-> NewInode]]
  /\ pos' = Nowhere
  /\ UNCHANGED <<phase, blocks, disk, reopen, wild, req>>

\* chisai_fuse_open: the handle gets a copy of the inode.
Open(h, f) ==
  /\ Serving
  /\ handles[h] = Closed
  /\ f \in linked
  /\ handles' = [handles EXCEPT ![h] = [file |-> f, inode |-> tab[f]]]
  /\ pos' = Nowhere
  /\ UNCHANGED <<phase, blocks, linked, tab, disk, reopen, wild, req>>

Release(h) ==
  /\ Serving
  /\ IsOpen(h)
  /\ handles' = [handles EXCEPT ![h] = Closed]
  /\ LetGo(h)
  /\ UNCHANGED <<phase, blocks, linked, pos, reopen, wild, req>>

(* Then libfuse removes the name that it gave to a removed file; it has 28 *)
(* characters, fs_remove_file does not find it and its assertion fails.    *)
ReleaseHidden(h) ==
  /\ Serving
  /\ IsOpen(h) /\ LastOf(h)
  /\ End("aborted_unlink")

(* chisai_fuse_getattr, access, and every request that fails on its way to *)
(* a file, a create without an inode left among them: a path is walked,    *)
(* and an inode or a directory is the last thing that is read.             *)
LookUp ==
  /\ Serving
  /\ pos' = Nowhere
  /\ UNCHANGED <<phase, blocks, linked, tab, disk, handles, reopen, wild, req>>

\* Slip: the flag goes down and the copy stays.
CopyKept(h, f) == handles[h].inode

Copy(h, f) == tab[f]

\* Another file may have got the name that a handle was opened by.
PathTo(h) == IF handles[h].file \in linked THEN {handles[h].file} ELSE linked

(* chisai_fuse_reopen, called first by fgetattr, read and write: the copy  *)
(* is freed and made again, in the same memory, if REOPEN is up.           *)
Reopen(h) ==
  /\ IsOpen(h)
  /\ reopen' = FALSE
  /\ \/ ~reopen /\ UNCHANGED <<tab, disk, pos, handles>>
     \/ /\ reopen
        /\ \E f \in PathTo(h) :
             handles' = [handles EXCEPT ![h] = [file |-> f, inode |-> Copy(h, f)]]
        /\ LetGo(h)
        /\ pos' = Nowhere

\* The copy is freed and the path leads nowhere: REOPEN stays up.
ReopenFails(h) ==
  /\ Serving
  /\ IsOpen(h) /\ reopen /\ handles[h].file \notin linked
  /\ handles' = [handles EXCEPT ![h] = Freed]
  /\ LetGo(h)
  /\ pos' = Nowhere
  /\ UNCHANGED <<phase, blocks, linked, reopen, wild, req>>

(* The next use of such a handle, or its release, frees the memory again,  *)
(* or works on what it holds by then.                                      *)
UseFreed(h) ==
  /\ Serving
  /\ handles[h] = Freed
  /\ End("aborted_free") \/ GiveUp("lost_handle")

Fgetattr(h) ==
  /\ Serving
  /\ Reopen(h)
  /\ UNCHANGED <<phase, blocks, linked, wild, req>>

(* fs_remove_file, of a file that is not open: gives up the first direct   *)
(* block only.                                                             *)
Remove(f) ==
  /\ Serving
  /\ f \in linked
  /\ \A h \in Handles : handles[h].file # f
  /\ linked' = linked \ {f}
  /\ tab' = [tab EXCEPT ![f] = NewInode]
  /\ blocks' = Released(blocks, tab[f].direct[0])
  /\ disk' = Aged(disk, Named(Live \ {f}))
  /\ pos' = Nowhere
  /\ UNCHANGED <<phase, handles, reopen, wild, req>>

(* No path leads to a file any more: it was renamed into a full directory  *)
(* or to a name of 28 characters, as libfuse renames an open file that is  *)
(* to be removed (.fuse_hidden and 16 digits), or its directory is gone.   *)
LoseName(f) ==
  /\ Serving
  /\ f \in linked
  /\ linked' = linked \ {f}
  /\ IF \E h \in Handles : handles[h].file = f
     THEN UNCHANGED <<tab, disk>>
     ELSE /\ tab' = [tab EXCEPT ![f] = NewInode]
          /\ disk' = Aged(disk, Named(Live \ {f}))
  /\ pos' = Nowhere
  /\ UNCHANGED <<phase, blocks, handles, reopen, wild, req>>

-----------------------------------------------------------------------------
(* fs_truncate_file                                                        *)

\* The assertions: only to a smaller size, and every block cut is there.
TruncateAborts(f, size) ==
  \/ tab[f].size < size /\ End("aborted_size")
  \/ /\ tab[f].size >= size
     /\ \E i \in Cut(tab[f], size) : Pointer(tab[f], i) = 0
     /\ End("aborted_block")

TruncateDone(f, size) ==
  LET cut == Cut(tab[f], size)
  IN  /\ tab[f].size >= size
      /\ \A i \in cut : Pointer(tab[f], i) # 0
      /\ blocks' = ReleasedAll(blocks, {Pointer(tab[f], i) : i \in cut})
      /\ tab' = [tab EXCEPT ![f] = SetSize(WithoutPointers(@, cut), size)]
      /\ disk' = Aged(disk, UNION {NamedBy(tab'[g]) : g \in Live})
      /\ reopen' = TRUE
      /\ pos' = Nowhere
      /\ UNCHANGED <<phase, linked, handles, wild, req>>

(* By path, whatever handles are open.  Bound of the model: the loop does  *)
(* not begin behind the inode, which the copy on the stack ends with.      *)
Truncate(f, size) ==
  /\ Serving
  /\ f \in linked
  /\ size \div BlkWords <= Direct + 1
  /\ TruncateAborts(f, size) \/ TruncateDone(f, size)

-----------------------------------------------------------------------------
(* fs_write_file, fs_read_file                                             *)

Offset == req.off + req.total
Num    == Offset \div BlkWords

\* Slip: a chunk ends where the one before it would have.
ChunkFromBoundary == Min({req.size - req.total, Offset % BlkWords})

Chunk  == Min({req.size - req.total, BlkWords - (Offset % BlkWords)})
File   == handles[req.h].file
Inode  == handles[req.h].inode
Found  == fs_find_blk(Inode, Num)

Beyond  == Num >= Direct + BlkWords
Writing == req.op = "write" /\ req.total < req.size
Reading == req.op = "read" /\ req.total < req.size

(* A word that is no pointer of this file is taken for one: a word that is *)
(* not followed may be 0, an index, or too large for one.                  *)
IsStray == Found # 0 /\ (Found \notin Indices \/ (Num >= Direct /\ Inode.indirect = 0))

TakenFor(word) == IF word \in Indices THEN {word} ELSE Pointers

Request(op, h, off, size) ==
  [op |-> op, h |-> h, off |-> off, size |-> size, total |-> 0, blk |-> Unset,
   buf |-> Blank]

WriteBegin(h, off, size) ==
  /\ Serving
  /\ Reopen(h)
  /\ req' = Request("write", h, off, size)
  /\ UNCHANGED <<phase, blocks, linked, wild>>

SaveChunk(dev, blk) ==
  LET at    == Addr(blk, Offset % BlkWords)
      saved == Saved(dev, at, File, Offset, Chunk)
  IN  /\ disk' = IF wild THEN Blurred(saved) ELSE saved
      /\ pos' = After(at, Chunk)
      /\ req' = [req EXCEPT !.total = @ + Chunk, !.blk = blk]
      /\ UNCHANGED <<phase, linked, tab, reopen, wild>>

\* The data goes to a place that the file does not name.
SaveAstray(dev, blk, at) ==
  /\ Within(at, Chunk)
  /\ disk' = Blurred(Saved(dev, at, File, Offset, Chunk))
  /\ pos' = After(at, Chunk)
  /\ req' = [req EXCEPT !.total = @ + Chunk, !.blk = blk]
  /\ wild' = TRUE
  /\ UNCHANGED <<phase, linked, tab, reopen>>

Stray(blk, at) ==
  \/ SaveAstray(disk, blk, at) /\ UNCHANGED <<blocks, handles>>
  \/ ~Within(at, Chunk) /\ GiveUp("lost_write")

WriteFound ==
  /\ Writing /\ ~Beyond
  /\ Found # 0 /\ ~IsStray
  /\ SaveChunk(disk, Found)
  /\ UNCHANGED <<blocks, handles>>

\* The data goes to the block that this word happens to name, if any.
WriteStrays ==
  /\ Writing /\ ~Beyond /\ IsStray
  /\ \E blk \in TakenFor(Found) :
       Stray(blk, Seek(PosAfterFind(Inode, Num), blk, Offset % BlkWords))

(* CHISAI_ERR_CORRUPT is not ENOMEM: the data goes to the block of the     *)
(* previous round, or to one that was never set.                           *)
WriteBeyond ==
  /\ Writing /\ Beyond
  /\ \E blk \in IF req.blk = Unset THEN Pointers ELSE {req.blk} :
       Stray(blk, Seek(pos, blk, Offset % BlkWords))

Missing == Writing /\ ~Beyond /\ Found \notin Indices

WriteNoMemory ==
  /\ Missing
  /\ Exhausted(blocks)
  /\ req' = [req EXCEPT !.size = req.total]
  /\ pos' = PosAfterFind(Inode, Num)
  /\ UNCHANGED <<phase, blocks, linked, tab, disk, handles, reopen, wild>>

\* fs_alloc_blk, for a direct block and for one in an indirect block.
WriteDirect ==
  /\ Missing /\ HasRoom(blocks)
  /\ Num < Direct
  /\ LET blk == AllocIdx(blocks)
     IN  /\ handles' = [handles EXCEPT ![req.h].inode.direct[Num] = blk]
         /\ SaveChunk(disk, blk)
  /\ blocks' = Allocated(blocks)

WriteIndirect ==
  /\ Missing /\ HasRoom(blocks)
  /\ Num >= Direct /\ Inode.indirect # 0
  /\ LET blk == AllocIdx(blocks)
     IN  SaveChunk([disk EXCEPT ![Addr(Inode.indirect, Num - Direct)] = blk], blk)
  /\ blocks' = Allocated(blocks)
  /\ UNCHANGED handles

\* The first block becomes the indirect block, cleared; the second has data.
WriteNewIndirect ==
  /\ Missing /\ HasRoom(blocks) /\ HasRoom(Allocated(blocks))
  /\ Num >= Direct /\ Inode.indirect = 0
  /\ LET indirect == AllocIdx(blocks)
         blk      == AllocIdx(Allocated(blocks))
     IN  /\ handles' = [handles EXCEPT ![req.h].inode.indirect = indirect]
         /\ SaveChunk([Cleared(disk, indirect) EXCEPT
                         ![Addr(indirect, Num - Direct)] = blk], blk)
  /\ blocks' = Allocated(Allocated(blocks))

(* No second block: index 0 is recorded in the indirect block and taken    *)
(* for that of a block, so that the data is saved behind it.               *)
WriteStarved ==
  /\ Missing /\ HasRoom(blocks) /\ Exhausted(Allocated(blocks))
  /\ Num >= Direct /\ Inode.indirect = 0
  /\ LET indirect == AllocIdx(blocks)
         behind   == After(Addr(indirect, Num - Direct), 1)
     IN  \/ /\ SaveAstray(Cleared(disk, indirect), 0, behind)
            /\ handles' = [handles EXCEPT ![req.h].inode.indirect = indirect]
            /\ blocks' = Allocated(blocks)
         \/ ~Within(behind, Chunk) /\ GiveUp("lost_write")

WriteFaults ==
  /\ Missing
  /\ \/ Faults(blocks)
     \/ /\ HasRoom(blocks) /\ Faults(Allocated(blocks))
        /\ Num >= Direct /\ Inode.indirect = 0
  /\ End("crashed")

\* The size becomes what was written, or grows by it.
WriteEnd ==
  /\ req.op = "write" /\ req.total = req.size
  /\ LET old   == Inode.size
         inode == SetSize(Inode, IF old > req.off THEN req.total ELSE req.total + old)
     IN  /\ handles' = [handles EXCEPT ![req.h].inode = inode]
         /\ tab' = [tab EXCEPT ![File] = inode]
  /\ pos' = Nowhere
  /\ req' = Idle
  /\ UNCHANGED <<phase, blocks, linked, disk, reopen, wild>>

\* The length is cut to the size of the file, wherever the read begins.
ReadBegin(h, off, size) ==
  /\ Serving
  /\ Reopen(h)
  /\ req' = Request("read", h, off, Min({size, handles'[h].inode.size}))
  /\ UNCHANGED <<phase, blocks, linked, wild>>

\* Slip: every chunk is read to the start of the caller's buffer.
FilledFromStart(at) ==
  [i \in Sizes |->
     IF i \in 0 .. Chunk - 1 /\ Within(at, Chunk) THEN disk[at + i] ELSE req.buf[i]]

\* The caller's buffer with a chunk read at an address.
Filled(at) ==
  [i \in Sizes |->
     IF i - req.total \notin 0 .. Chunk - 1 THEN req.buf[i]
     ELSE IF Within(at, Chunk) THEN disk[at + i - req.total] ELSE Any]

ReadChunk ==
  /\ Reading /\ ~Beyond /\ Found # 0
  /\ \E blk \in TakenFor(Found) :
       LET at == Seek(PosAfterFind(Inode, Num), blk, Offset % BlkWords)
       IN  /\ req' = [req EXCEPT !.total = @ + Chunk, !.buf = Filled(at)]
           /\ pos' = After(at, Chunk)
  /\ UNCHANGED <<phase, blocks, linked, tab, disk, handles, reopen, wild>>

ReadFails ==
  /\ Reading
  /\ \/ Beyond /\ UNCHANGED pos
     \/ ~Beyond /\ Found \notin Indices /\ pos' = PosAfterFind(Inode, Num)
  /\ req' = Idle
  /\ UNCHANGED <<phase, blocks, linked, tab, disk, handles, reopen, wild>>

ReadEnd ==
  /\ req.op = "read" /\ req.total = req.size
  /\ req' = Idle
  /\ UNCHANGED <<phase, blocks, linked, tab, disk, pos, handles, reopen, wild>>

WriteStep ==
  \/ WriteFound    \/ WriteStrays   \/ WriteBeyond
  \/ WriteNoMemory \/ WriteDirect   \/ WriteIndirect
  \/ WriteNewIndirect \/ WriteStarved \/ WriteFaults \/ WriteEnd

ReadStep == ReadChunk \/ ReadFails \/ ReadEnd

-----------------------------------------------------------------------------

Next ==
  \/ Restart
  \/ \E h \in Handles, f \in Files : Create(h, f) \/ Open(h, f)
  \/ \E h \in Handles : Release(h) \/ ReleaseHidden(h) \/ UseFreed(h)
  \/ \E h \in Handles : Fgetattr(h) \/ ReopenFails(h)
  \/ LookUp
  \/ \E f \in Files : Remove(f) \/ LoseName(f)
  \/ \E f \in Files, size \in Sizes : Truncate(f, size)
  \/ \E h \in Handles, off \in Offs, size \in Lens :
       WriteBegin(h, off, size) \/ ReadBegin(h, off, size)
  \/ WriteStep
  \/ ReadStep

(* A request is a function call of a single thread: it takes its next      *)
(* step.  Nothing is promised about what programs or the kernel do.        *)
Spec == Init /\ [][Next]_vars /\ WF_vars(WriteStep \/ ReadStep)

-----------------------------------------------------------------------------

TypeOK ==
  /\ phase \in {"up", "aborted_size", "aborted_block", "aborted_unlink",
                "aborted_free", "crashed"} \cup Lost
  /\ blocks \in BlkGrps
  /\ linked \in SUBSET Files
  /\ tab \in [Files -> Inodes]
  /\ disk \in [Addresses -> Words]
  /\ pos \in Addresses \cup {Nowhere}
  /\ handles \in [Handles -> [file : Files, inode : Inodes] \cup {Closed, Freed}]
  /\ reopen \in BOOLEAN
  /\ wild \in BOOLEAN
  /\ req \in [op : {"read", "write"}, h : Handles, off : Sizes, size : Sizes,
              total : Sizes, blk : Pointers \cup {Unset},
              buf : [Sizes -> Words]] \cup {Idle}

-----------------------------------------------------------------------------
(* Properties                                                              *)

\* The inode a file has: the copy that a write is changing, or the device's.
View(f) ==
  IF req.op = "write" /\ File = f THEN Inode ELSE tab[f]

(* The places that hold a block index for file f, and the index in each.   *)
(* Once a write has gone astray, that may be what it has overwritten in an *)
(* indirect block, and the pointers in the inode are left.                 *)
Places(f) ==
  {<<f, i>> : i \in {j \in 0 .. Direct : Pointer(View(f), j) # 0}}
    \cup {<<f, Direct + 1, a>> :
            a \in {b \in Slots(View(f)) : ~wild /\ disk[b] # 0}}

IndexAt(place) ==
  IF place[2] <= Direct THEN Pointer(View(place[1]), place[2]) ELSE disk[place[3]]

(* A block is named in one place only, is allocated as long as it is, and  *)
(* is not the root directory's: neither the removal that releases          *)
(* direct_blks[0] alone, nor the truncation that runs from direct_blks     *)
(* into indirect_blk, nor a name that is lost, nor a write that ends in    *)
(* the middle gives a block to two owners, and later writes change no file *)
(* but their own.  A write that goes astray, as that of an allocation      *)
(* which stops halfway, spoils the words of indirect blocks; the pointers  *)
(* of the inodes stay as good as they were.  (Where such a write hits the  *)
(* inodes, a directory or a bitmap, the model ends: GiveUp.)               *)
BlocksPrivate ==
  phase = "up" =>
    LET places == UNION {Places(f) : f \in Live}
    IN  \A p \in places :
          /\ IndexAt(p) \in Used(blocks) \ {RootBlk}
          /\ \A q \in places \ {p} : IndexAt(q) # IndexAt(p)

(* With one handle, a copy that the REOPEN workaround of chisai-mount.c    *)
(* lets a request use is the inode on the device, whatever was truncated   *)
(* by path since the file was opened.  (It may also leave no copy at all:  *)
(* HandlesStayOpen.)                                                       *)
HandleFresh ==
  Serving /\ ~reopen =>
    \A h \in Handles : IsOpen(h) => handles[h].inode = tab[handles[h].file]

\* The word that an inode leads to at an offset, by pointers of its own.
Absent == -1
Lookup(inode, o) ==
  LET num == o \div BlkWords
      blk == IF num < Direct THEN inode.direct[num]
             ELSE IF inode.indirect = 0 THEN 0
             ELSE disk[Addr(inode.indirect, num - Direct)]
  IN  IF blk \in Indices THEN disk[Addr(blk, o % BlkWords)] ELSE Absent

Contents(f) ==
  [o \in 0 .. Limit - 1 |->
     IF phase = "up" /\ f \in Live THEN Lookup(View(f), o) ELSE Absent]

(* Until a write goes astray, pointers, blocks and copies of inodes        *)
(* implement files: a read returns what was written last, at its offset    *)
(* and in its file, and fails only where there is nothing, across requests *)
(* of several blocks, truncations, lost names and the reuse of blocks with *)
(* their old contents; sizes are those that fs_write_file gives.           *)
InControl == phase = "up" /\ ~wild

Store == INSTANCE FileStore WITH
           Length <- Limit,
           Blk    <- BlkWords,
           files  <- IF InControl THEN Live ELSE {},
           data   <- [f \in Files |-> IF InControl THEN Contents(f)
                                      ELSE [o \in 0 .. Limit - 1 |-> Absent]],
           size   <- [f \in Files |-> IF InControl /\ f \in Live
                                      THEN tab[f].size ELSE 0],
           job    <- IF InControl /\ req # Idle
                     THEN [op |-> req.op, file |-> File, from |-> req.off,
                           at |-> Offset, to |-> req.off + req.size]
                     ELSE [op |-> "none", file |-> 0, from |-> 0, at |-> 0, to |-> 0],
           buf    <- req.buf

ImplementsFileStore == Store!Spec

(* A write goes astray first where a file has no indirect block yet, or    *)
(* behind the last block it can have: the words of an indirect block are 0 *)
(* or blocks of this file, as it was cleared when it was taken.            *)
StraysLackIndirect ==
  [][phase = "up" /\ ~wild /\ (wild' \/ phase' = "lost_write") =>
       Num >= Direct /\ (Beyond \/ Inode.indirect = 0)]_vars

(* What a truncation gives up is what lies from the block of the new end   *)
(* to the old size, and nothing before it, although the loop counts the    *)
(* old blocks in sectors plus one and the new ones in blocks.              *)
TruncateCuts ==
  [][\A f \in Files, size \in Sizes :
       Truncate(f, size) /\ phase' = "up" =>
         \A o \in 0 .. Limit - 1 :
           /\ o \div BlkWords < size \div BlkWords => Contents(f)'[o] = Contents(f)[o]
           /\ o \div BlkWords >= size \div BlkWords /\ o < tab[f].size =>
                Contents(f)'[o] = Absent]_vars

(* The loops of fs_write_file and fs_read_file end, however a request lies *)
(* across blocks and whatever fails on the way.                            *)
RequestsReturn == req # Idle ~> req = Idle

-----------------------------------------------------------------------------
(* What comments and assertions of the source say, and the code does not   *)
(* do.                                                                     *)

(* chisai-mount.c on REOPEN: "When the flag is raised, any file operations *)
(* that depend on opened file should close it and reopen again."  Then no  *)
(* request uses a block that a truncation has given up.                    *)
CopiesNameLiveBlocks ==
  req # Idle =>
    \A i \in DOMAIN Inode.direct :
      Inode.direct[i] # 0 => exist(blocks, Inode.direct[i])

(* The same comment, "close it and reopen again": the handle of an open    *)
(* file stays open.                                                        *)
HandlesStayOpen == \A h \in Handles : handles[h] # Freed

(* fs_truncate_file: assert_ne(inode->direct_blks[idx], 0), a file that is *)
(* truncated to a size it has or had names every block that the loop       *)
(* visits.                                                                 *)
CutBlocksAreThere == phase # "aborted_block"

=============================================================================
