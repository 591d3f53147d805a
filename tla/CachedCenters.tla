--------------------------- MODULE CachedCenters ---------------------------
(***************************************************************************)
(* What PrefixTreeStrategy.createField() adds a centre for: ShapeCaches on *)
(* segments in which every document of a field has its centre, a cell at   *)
(* full resolution, among its terms.                                       *)
(***************************************************************************)
EXTENDS ShapeCaches

CONSTANTS
  Centers     \* of each reader and field: where its documents' centres are

ASSUME CentersAssumption ==
  \A s \in Readers \X FieldNames :
    DOMAIN Centers[s] \subseteq Docs /\ HoldsCenters(Segments[s], Centers[s])

(* The centre of a shape, at full resolution, is among its cached shapes   *)
(* (PrefixTreeStrategy.java:68, "so that PrefixFieldCacheProvider has the  *)
(* center-points"), and a point has no other.                              *)
CentersAreCached ==
  \A t \in Threads : pc[t] = "double" =>
    \A d \in DOMAIN Centers[call[t]] :
      LET c == Centers[call[t]][d]
      IN  /\ c.cell \in shapes[idx[t]][d]
          /\ c.isPoint => shapes[idx[t]][d] = {c.cell}
=============================================================================
