--------------------------- MODULE DistanceSources ---------------------------
(***************************************************************************)
(* What the distance value sources of a strategy promise, whatever their   *)
(* caches: the distance of a document is that of the nearest of the shapes *)
(* indexed for it, and it is given only once the segment has been read     *)
(* for the field, which happens once.                                      *)
(***************************************************************************)
EXTENDS IndexedShapes

VARIABLES
  cached,       \* the readers and fields that have been read
  answers       \* of each thread: the distance it has been given, with its document

vars == << cached, answers >>

NoAnswer == << >>

Init ==
  /\ cached = {}
  /\ answers = [t \in Threads |-> NoAnswer]

Read(r, f) ==
  /\ << r, f >> \notin cached
  /\ cached' = cached \cup {<< r, f >>}
  /\ UNCHANGED answers

Ask(t) ==
  /\ answers' = [answers EXCEPT ![t] = NoAnswer]
  /\ UNCHANGED cached

Answer(t, r, f, d) ==
  /\ << r, f >> \in cached
  /\ answers' = [answers EXCEPT ![t] = << r, f, d, Nearest(r, f, d) >>]
  /\ UNCHANGED cached

Next ==
  \/ \E r \in Readers, f \in FieldNames : Read(r, f)
  \/ \E t \in Threads : Ask(t)
  \/ \E t \in Threads, r \in Readers, f \in FieldNames, d \in Docs : Answer(t, r, f, d)

Spec == Init /\ [][Next]_vars
=============================================================================
