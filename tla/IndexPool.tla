----------------------------- MODULE IndexPool -----------------------------
(***************************************************************************)
(* What a caller may rely on when it asks for an inode or a data block: a  *)
(* pool of indices that hands out an index nobody holds, refuses only when *)
(* every index is held, and never touches another holder's index.  A       *)
(* restart brings back whatever was saved, and nothing a running process   *)
(* does changes what is saved.                                             *)
(***************************************************************************)
EXTENDS Integers

CONSTANT Indices

VARIABLES used,    \* the indices held
          saved,   \* the indices that are held again after a restart
          ret      \* what the last request returned, 0 for a refusal

vars == <<used, saved, ret>>

Init ==
  /\ saved \in SUBSET Indices
  /\ used = saved
  /\ ret = 0

Grant ==
  /\ \E idx \in Indices \ used : used' = used \cup {idx} /\ ret' = idx
  /\ UNCHANGED saved

Refuse ==
  /\ used = Indices
  /\ ret' = 0
  /\ UNCHANGED <<used, saved>>

\* Releasing an index that nobody holds changes nothing.
Release ==
  /\ \E idx \in Indices : used' = used \ {idx}
  /\ UNCHANGED <<saved, ret>>

Restart ==
  /\ used' = saved
  /\ UNCHANGED <<saved, ret>>

Next == Grant \/ Refuse \/ Release \/ Restart

Spec == Init /\ [][Next]_vars

=============================================================================
