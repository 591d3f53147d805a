------------------------------- MODULE Tokens -------------------------------
(***************************************************************************)
(* Cells of a prefix tree and the terms they are indexed under.            *)
(*                                                                         *)
(* A cell below the world cell is the sequence of choices that leads to    *)
(* it: 'A', 'B', 'C', 'D' of the quad tree are 1..4.  The world cell is    *)
(* << >>.  A term is a cell, or a cell followed by the leaf byte '+'.      *)
(* Terms are ordered as Lucene orders their bytes; the leaf byte sorts     *)
(* before every letter (Node.java:33), hence LeafByte = 0.                 *)
(***************************************************************************)
EXTENDS Integers, Sequences

CONSTANTS
  Arity,      \* getSubCellsSize(): the number of sub-cells of a cell
  MaxLevels   \* SpatialPrefixTree.maxLevels

ASSUME ArityAssumption     == Arity \in Nat /\ Arity >= 2
ASSUME MaxLevelsAssumption == MaxLevels \in Nat \ {0}

LeafByte == 0

WorldCell == << >>

(* The cells of one grid: never longer than MaxLevels.                     *)
Cells == { c \in Seq(1..Arity) : Len(c) \in 1..MaxLevels }

Marked(c) == Append(c, LeafByte)

IsMarked(term) == Len(term) > 0 /\ term[Len(term)] = LeafByte

(* The terms a field of one grid can hold.                                 *)
Terms == { t \in Seq(0..Arity) :
             \/ t \in Cells
             \/ /\ Len(t) \in 2..(MaxLevels + 1)
                /\ t[Len(t)] = LeafByte
                /\ \A i \in 1..(Len(t) - 1) : t[i] # LeafByte }

(* Mutant of CellOf: the leaf byte stays in the token.                     *)
CellOfTerm(term) == term

(* Node.b_fixLeaf(): a trailing leaf byte is not part of the token.        *)
CellOf(term) ==
  IF IsMarked(term) THEN SubSeq(term, 1, Len(term) - 1) ELSE term

Level(term) == IF IsMarked(term) THEN Len(term) - 1 ELSE Len(term)

(* Node.b_fixLeaf(): a node read back from the index is a leaf when its    *)
(* term carries the leaf byte, and also when it has the full length.       *)
IsLeafTerm(term) == IsMarked(term) \/ Len(term) = MaxLevels

(* StringHelper.startsWith(term, prefix).                                  *)
StartsWith(term, prefix) ==
  /\ Len(prefix) <= Len(term)
  /\ \A i \in 1..Len(prefix) : term[i] = prefix[i]

(* s and t differ, first at a position where s has the smaller byte.       *)
Before(s, t) ==
  \E i \in 1..Len(s) :
    /\ i <= Len(t)
    /\ s[i] < t[i]
    /\ \A j \in 1..(i - 1) : s[j] = t[j]

(* The byte order of terms: a proper prefix comes first.                   *)
Less(s, t) ==
  \/ Len(s) < Len(t) /\ StartsWith(t, s)
  \/ Before(s, t)

(* What createField() promises of a segment's postings: each of these      *)
(* documents is under its centre, a cell of full length, and a point under *)
(* no other leaf.                                                          *)
HoldsCenters(segment, centers) ==
  \A d \in DOMAIN centers :
    /\ centers[d].cell \in Cells /\ Len(centers[d].cell) = MaxLevels
    /\ \E i \in 1..Len(segment.terms) :
         segment.terms[i] = centers[d].cell /\ d \in segment.docs[i]
    /\ centers[d].isPoint =>
         \A i \in 1..Len(segment.terms) :
           IsLeafTerm(segment.terms[i]) /\ d \in segment.docs[i] =>
             CellOf(segment.terms[i]) = centers[d].cell
=============================================================================
