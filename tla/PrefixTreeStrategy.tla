------------------------- MODULE PrefixTreeStrategy -------------------------
(***************************************************************************)
(* Indexing with PrefixTreeStrategy: threads that share one grid each make *)
(* a field of a shape, createField(), and consume its token stream.  The   *)
(* one thing they share is the world cell, which the grid makes when it is *)
(* first asked for, without a lock, and which "is threadsafe, just like a  *)
(* spatial prefix grid is" (SpatialPrefixTree.java:101).  The initial and  *)
(* the next-state predicate are named after the field, so that a module can*)
(* have both the indexing and the search.                                  *)
(***************************************************************************)
EXTENDS QuadTree

CONSTANTS
  Threads,      \* the indexing threads
  Jobs,         \* what they may have to index, made by JobOf
  NoNode        \* null

(* A field to make, with createField()'s list of cells: when the world     *)
(* cell is found to be no leaf, and when it is one; and whether the former *)
(* calls setLeaf() on the world cell.                                      *)
JobOf(shape, detailLevel) ==
  [ shape          |-> shape,
    detailLevel    |-> detailLevel,
    cells          |-> FieldNodes(shape, detailLevel, FALSE),
    afterWorldLeaf |-> FieldNodes(shape, detailLevel, TRUE),
    makesWorldLeaf |-> MakesWorldLeaf(shape, detailLevel) ]

ASSUME JobAssumption ==
  \A j \in Jobs :
    /\ IsOfWorld(j.shape)
    /\ j.detailLevel \in DetailLevels(j.shape)
    /\ j = JobOf(j.shape, j.detailLevel)

ASSUME NoNodeAssumption == NoNode \notin Threads

VARIABLES
  worldNode,    \* SpatialPrefixTree.worldNode: NoNode, or the thread that made it
  worldLeafs,   \* the world cells on which setLeaf() was called
  stage,        \* where each thread is
  job,          \* its arguments
  world,        \* the world cell it works with
  iter,         \* the nodes that its token stream has yet to hand out
  pending,      \* nextTokenStringNeedingLeaf: << >> or << the cell >>
  tokens        \* the tokens handed out

fieldVars == << worldNode, worldLeafs, stage, job, world, iter, pending, tokens >>

FieldInit ==
  /\ worldNode = NoNode
  /\ worldLeafs = {}
  /\ stage = [t \in Threads |-> "create"]
  /\ job \in [Threads -> Jobs]
  /\ world = [t \in Threads |-> NoNode]
  /\ iter = [t \in Threads |-> << >>]
  /\ pending = [t \in Threads |-> << >>]
  /\ tokens = [t \in Threads |-> << >>]

GoTo(t, from, to) == stage[t] = from /\ stage' = [stage EXCEPT ![t] = to]

(* createField() of a point: its cells come without the world cell.        *)
CreatePointField(t) ==
  /\ GoTo(t, "create", "stream")
  /\ IsPoint(job[t].shape)
  /\ iter' = [iter EXCEPT ![t] = job[t].cells]
  /\ UNCHANGED << worldNode, worldLeafs, job, world, pending, tokens >>

(* getWorldNode(): the test for null, the assignment, and the read of the  *)
(* value that is returned are three steps of an unsynchronized method.     *)
FindWorldNode(t) ==
  /\ ~IsPoint(job[t].shape)
  /\ GoTo(t, "create", IF worldNode = NoNode THEN "make" ELSE "return")
  /\ UNCHANGED << worldNode, worldLeafs, job, world, iter, pending, tokens >>

MakeWorldNode(t) ==
  /\ GoTo(t, "make", "return")
  /\ worldNode' = t
  /\ UNCHANGED << worldLeafs, job, world, iter, pending, tokens >>

ReturnWorldNode(t) ==
  /\ GoTo(t, "return", "world")
  /\ world' = [world EXCEPT ![t] = worldNode]
  /\ UNCHANGED << worldNode, worldLeafs, job, iter, pending, tokens >>

(* Mutant of SkipCells: the world cell is always taken for a leaf.         *)
SkipCellsAlways(t) ==
  /\ GoTo(t, "world", "stream")
  /\ iter' = [iter EXCEPT ![t] = job[t].afterWorldLeaf]
  /\ UNCHANGED << worldNode, worldLeafs, job, world, pending, tokens >>

(* recursiveGetNodes() of a world cell that is a leaf returns at once, and *)
(* getNodes() removes the world cell from its result.                      *)
SkipCells(t) ==
  /\ GoTo(t, "world", "stream")
  /\ world[t] \in worldLeafs
  /\ iter' = [iter EXCEPT ![t] = job[t].afterWorldLeaf]
  /\ UNCHANGED << worldNode, worldLeafs, job, world, pending, tokens >>

EnterWorld(t) ==
  /\ GoTo(t, "world", "descend")
  /\ world[t] \notin worldLeafs
  /\ UNCHANGED << worldNode, worldLeafs, job, world, iter, pending, tokens >>

(* The rest of the recursion, on cells of this call alone, except when the *)
(* world cell itself is made a leaf.                                       *)
CreateCells(t) ==
  /\ GoTo(t, "descend", "stream")
  /\ worldLeafs' = IF job[t].makesWorldLeaf THEN worldLeafs \cup {world[t]} ELSE worldLeafs
  /\ iter' = [iter EXCEPT ![t] = job[t].cells]
  /\ UNCHANGED << worldNode, job, world, pending, tokens >>

(* Mutant of IncrementLeaf: nextTokenStringNeedingLeaf is not set to null, *)
(* and the stream hands out its leaf token for ever.  A second one is the  *)
(* last that is recorded.                                                  *)
IncrementLeafAgain(t) ==
  /\ GoTo(t, "stream", "stream")
  /\ pending[t] # << >>
  /\ LET leaf == Marked(Head(pending[t])) IN
       tokens' = [tokens EXCEPT ![t] =
                    IF Len(SelectSeq(@, LAMBDA m : m = leaf)) = 2 THEN @ ELSE Append(@, leaf)]
  /\ UNCHANGED << worldNode, worldLeafs, job, world, iter, pending >>

(* CellTokenStream.incrementToken(): the leaf byte's turn, a cell's turn,  *)
(* or the end.                                                             *)
IncrementLeaf(t) ==
  /\ GoTo(t, "stream", "stream")
  /\ pending[t] # << >>
  /\ tokens' = [tokens EXCEPT ![t] = Append(@, Marked(Head(pending[t])))]
  /\ pending' = [pending EXCEPT ![t] = << >>]
  /\ UNCHANGED << worldNode, worldLeafs, job, world, iter >>

IncrementCell(t) ==
  /\ GoTo(t, "stream", "stream")
  /\ pending[t] = << >>
  /\ iter[t] # << >>
  /\ LET node == Head(iter[t]) IN
       /\ tokens' = [tokens EXCEPT ![t] = Append(@, node.cell)]
       /\ pending' = [pending EXCEPT ![t] = IF node.leaf THEN << node.cell >> ELSE << >>]
  /\ iter' = [iter EXCEPT ![t] = Tail(@)]
  /\ UNCHANGED << worldNode, worldLeafs, job, world >>

EndOfStream(t) ==
  /\ GoTo(t, "stream", "done")
  /\ pending[t] = << >>
  /\ iter[t] = << >>
  /\ UNCHANGED << worldNode, worldLeafs, job, world, iter, pending, tokens >>

Thread(t) ==
  \/ CreatePointField(t)
  \/ FindWorldNode(t) \/ MakeWorldNode(t) \/ ReturnWorldNode(t)
  \/ SkipCells(t) \/ EnterWorld(t) \/ CreateCells(t)
  \/ IncrementLeaf(t) \/ IncrementCell(t) \/ EndOfStream(t)

FieldNext == \E t \in Threads : Thread(t)

(* No thread waits for another; each is scheduled as long as it can run.   *)
FieldSpec == FieldInit /\ [][FieldNext]_fieldVars /\ \A t \in Threads : WF_fieldVars(Thread(t))

-----------------------------------------------------------------------------

FieldTypeOK ==
  /\ worldNode \in Threads \cup {NoNode}
  /\ worldLeafs \subseteq Threads
  /\ stage \in [Threads -> {"create", "make", "return", "world", "descend", "stream", "done"}]
  /\ world \in [Threads -> Threads \cup {NoNode}]
  /\ \A t \in Threads :
       /\ \A i \in 1..Len(iter[t]) : iter[t][i].cell \in AllCells
       /\ ToSet(pending[t]) \subseteq AllCells
       /\ \A term \in ToSet(tokens[t]) : CellOf(term) \in AllCells

Done(t) == stage[t] = "done"

(* The cells of a finished field that stand for all that is below them:    *)
(* leaves, and the full-length cell of a point.                            *)
LeafCells(t) ==
  { CellOf(term) : term \in { m \in ToSet(tokens[t]) : IsMarked(m) } }
  \cup (IF IsPoint(job[t].shape) THEN {Last(tokens[t])} ELSE {})

(* The cells of the field's detail level that its leaves cover are those   *)
(* that the shape touches, no more and no fewer: neither the leaves that   *)
(* are within the shape, nor the ones that stand for four cells of the     *)
(* detail level, add or lose any ("intersecting & including cells",        *)
(* SpatialPrefixTree.java:134).                                            *)
Exact(t) ==
  LET touched == { c \in AllCells : /\ Len(c) = job[t].detailLevel
                                    /\ Relate(CellShape(c), job[t].shape) # "DISJOINT" }
      covered == { c \in AllCells : /\ Len(c) = job[t].detailLevel
                                    /\ \E l \in LeafCells(t) : StartsWith(c, l) }
  IN  IF IsPoint(job[t].shape) THEN LeafCells(t) \subseteq touched /\ LeafCells(t) # {}
                               ELSE covered = touched

(* A field is exact, or it has been made with a world cell that was turned *)
(* into a leaf, and consists of its centre alone.                          *)
ExactOrCentreOnly ==
  \A t \in Threads : Done(t) =>
    \/ Exact(t)
    \/ world[t] \in worldLeafs /\ Len(tokens[t]) = 1

(* The result "is a set of cells (no dups), sorted" (line 135): parents    *)
(* come before their sub-cells and those in order.  The centre is last.    *)
TokensSorted ==
  \A t \in Threads :
    LET n == IF Done(t) /\ ~IsPoint(job[t].shape) THEN Len(tokens[t]) - 1 ELSE Len(tokens[t])
    IN  Done(t) => \A i \in 1..(n - 1) : Less(tokens[t][i], tokens[t][i + 1])

(* What RecursivePrefixTreeFilter relies on: every cell of a field that is *)
(* not of full length is followed in the index by a longer term, a marked  *)
(* term comes with its cell's own, the parents of all cells but the centre *)
(* are there too, and the centre is below one of the leaves.               *)
SearchableFields ==
  \A t \in Threads : Done(t) =>
    LET terms   == ToSet(tokens[t])
        rooted(c) == \A n \in 1..Len(c) : SubSeq(c, 1, n) \in terms
        covered(c) == \E l \in LeafCells(t) : StartsWith(c, l)
    IN  /\ \A m \in terms :
             ~IsMarked(m) /\ Len(m) < MaxLevels =>
               \E u \in terms : u # m /\ StartsWith(u, m)
        /\ \A m \in terms : IsMarked(m) => CellOf(m) \in terms
        /\ \A i \in 1..Len(tokens[t]) :
             \/ rooted(CellOf(tokens[t][i]))
             \/ /\ i = Len(tokens[t])
                /\ covered(tokens[t][i]) \/ world[t] \in worldLeafs

(* "assert getLevel() != 0" in Node.setLeaf() (Node.java:96): the world    *)
(* cell is never made a leaf.                                              *)
WorldIsNoLeaf == worldLeafs = {}

(* Every field that is begun gets all its tokens.                          *)
FieldsFinish == \A t \in Threads : <>Done(t)
=============================================================================
