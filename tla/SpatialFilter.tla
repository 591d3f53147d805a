---------------------------- MODULE SpatialFilter ----------------------------
(***************************************************************************)
(* What a spatial filter promises to Lucene, whatever its algorithm: for   *)
(* one segment and one query it collects documents one batch after the     *)
(* other, never one that it may not return, and it does not return before  *)
(* it has collected all that it must return.                               *)
(***************************************************************************)
CONSTANT Docs      \* the document numbers of the segment

VARIABLES
  required,        \* the documents that the filter must return
  allowed,         \* the documents that it may return
  bits,            \* the documents collected so far (the OpenBitSet)
  returned         \* getDocIdSet() has returned

vars == << required, allowed, bits, returned >>

TypeOK ==
  /\ required \in SUBSET Docs
  /\ allowed  \in SUBSET Docs
  /\ bits     \in SUBSET Docs
  /\ returned \in BOOLEAN

Init ==
  /\ required \in SUBSET Docs
  /\ allowed  \in SUBSET Docs
  /\ bits = {}
  /\ returned = FALSE

Collect ==
  /\ ~returned
  /\ bits' \in SUBSET (bits \cup allowed)
  /\ bits \subseteq bits'
  /\ UNCHANGED << required, allowed, returned >>

Return ==
  /\ ~returned
  /\ required \subseteq bits
  /\ returned' = TRUE
  /\ UNCHANGED << required, allowed, bits >>

Next == Collect \/ Return

Spec == Init /\ [][Next]_vars
=============================================================================
