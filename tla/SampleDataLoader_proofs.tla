----------------------- MODULE SampleDataLoader_proofs -----------------------
(***************************************************************************)
(* SampleDataLoader for any number of pages, clicks, files and lines.      *)
(*                                                                         *)
(* The inductive invariant is IInv.  Two loads at a time clear the running *)
(* flag and the count of each other, so what they say of a load rests on   *)
(* that load being the only one under way: OverlapsAreKnown is added to    *)
(* RunningTellsOfLoads for that, and CountOfLoneLoad to                    *)
(* LoneLoadsCountRight, for which a load must also begin at its first line *)
(* (UnstartedLoads).  EndedLoadsAreIndexed needs to know where the lines   *)
(* that were read so far are (ReadLinesAreKept).                           *)
(***************************************************************************)
EXTENDS SampleDataLoader, TLAPS

UnstartedLoads ==
  \A l \in Loads : load[l].at \in {"none", "pooled"} => load[l].file = 1 /\ load[l].read = 0

OverlapsAreKnown ==
  \A l, m \in Loads : l # m /\ IsActive(l) /\ IsActive(m) => l \in overlapped

CountOfLoneLoad ==
  \A l \in Loads \ overlapped : load[l].at = "adding" => count = load[l].read

(* The lines of the current file are in the queue, with Solr or lost, those*)
(* of the earlier files are committed or lost.                             *)
ReadLinesAreKept ==
  \A l \in Loads : load[l].at = "adding" =>
    /\ \A i \in 1..load[l].read :
         \/ << load[l].file, i >> \in queue[l] \cup lost[l]
         \/ Files[load[l].file][i] \in stored
    /\ \A f \in 1..(load[l].file - 1) : \A i \in 1..Len(Files[f]) :
         Files[f][i] \in visible \/ << f, i >> \in lost[l]

IInv ==
  /\ TypeOK /\ UnstartedLoads /\ OverlapsAreKnown /\ RunningTellsOfLoads
  /\ CountOfLoneLoad /\ LoneLoadsCountRight
  /\ ReadLinesAreKept /\ EndedLoadsAreIndexed

States  == [at : {"none", "pooled", "adding", "ending", "ended", "failed"},
            file : 1..Len(Files), read : Nat]
Entries == [load : Loads, file : 1..Len(Files), count : Nat]

-----------------------------------------------------------------------------

LEMMA FileFacts ==
  /\ Len(Files) \in Nat \ {0}
  /\ \A f \in 1..Len(Files) : Files[f] \in Seq(Ids) /\ Len(Files[f]) \in Nat
  /\ \A f \in 1..Len(Files) : \A i \in 1..Len(Files[f]) : Files[f][i] \in Ids
<1>1. Files \in Seq(Seq(Ids)) /\ Files # << >>
  BY FilesAssumption
<1>2. \A f \in 1..Len(Files) : Files[f] \in Seq(Ids)
  BY <1>1
<1> QED BY <1>1, <1>2

LEMMA InitInvariant == Init => IInv
<1> SUFFICES ASSUME Init PROVE IInv
  OBVIOUS
<1>1. TypeOK
  <2>1. load \in [Loads -> States]
    BY FileFacts DEF Init, States
  <2>2. history \subseteq Entries
    BY DEF Init
  <2> QED BY <2>1, <2>2 DEF Init, TypeOK, Requests, Views, States, Entries
<1>2. \A l \in Loads : load[l].at = "none" /\ load[l].file = 1 /\ load[l].read = 0
  BY DEF Init
<1>3. history = {} /\ running = FALSE
  BY DEF Init
<1>4. UnstartedLoads /\ OverlapsAreKnown /\ CountOfLoneLoad /\ ReadLinesAreKept /\ EndedLoadsAreIndexed
  BY <1>2 DEF UnstartedLoads, OverlapsAreKnown, CountOfLoneLoad, ReadLinesAreKept,
              EndedLoadsAreIndexed, IsActive
<1>5. RunningTellsOfLoads /\ LoneLoadsCountRight
  BY <1>2, <1>3 DEF RunningTellsOfLoads, LoneLoadsCountRight, IsActive
<1> QED BY <1>1, <1>4, <1>5 DEF IInv

(* A step of a page changes nothing of the loader.                         *)
LEMMA LoaderUnchanged ==
  ASSUME IInv, TypeOK', UNCHANGED loadVars
  PROVE  IInv'
BY DEF IInv, loadVars, UnstartedLoads, OverlapsAreKnown, RunningTellsOfLoads, CountOfLoneLoad,
       LoneLoadsCountRight, ReadLinesAreKept, EndedLoadsAreIndexed, IsActive

-----------------------------------------------------------------------------

LEMMA BeginType ==
  ASSUME TypeOK, NEW l \in Loads, Begin(l)
  PROVE  TypeOK'
BY FileFacts DEF TypeOK, Begin, pageVars, OthersOf

LEMMA AddDocumentType ==
  ASSUME TypeOK, NEW l \in Loads, AddDocument(l)
  PROVE  TypeOK'
<1>1. load[l].file \in 1..Len(Files) /\ load[l].read \in Nat /\ load[l].read < Len(Files[load[l].file])
  BY DEF TypeOK, AddDocument
<1>2. << load[l].file, load[l].read + 1 >> \in Lines
  BY <1>1, FileFacts DEF Lines
<1>3. load' \in [Loads -> States]
  <2>1. load' = [load EXCEPT ![l] = [load[l] EXCEPT !.read = @ + 1]]
    BY DEF AddDocument
  <2>2. load \in [Loads -> States]
    BY DEF TypeOK, States
  <2>3. [load[l] EXCEPT !.read = @ + 1] \in States
    BY <1>1, <2>2 DEF States
  <2> QED BY <2>1, <2>2, <2>3
<1>4. queue' \in [Loads -> SUBSET Lines]
  BY <1>2 DEF TypeOK, AddDocument
<1>5. count' \in Nat
  BY DEF TypeOK, AddDocument
<1> QED BY <1>3, <1>4, <1>5 DEF TypeOK, AddDocument, pageVars, States

LEMMA CommitFileType ==
  ASSUME TypeOK, NEW l \in Loads, CommitFile(l)
  PROVE  TypeOK'
<1>1. load[l] \in States /\ load[l].file \in 1..Len(Files)
  BY DEF TypeOK, States
<1>2. load' \in [Loads -> States]
  <2>1. CASE HasNextFile(load[l].file)
    <3>1. load' = [load EXCEPT ![l] = [at |-> "adding", file |-> load[l].file + 1, read |-> 0]]
      BY <2>1 DEF CommitFile
    <3>2. [at |-> "adding", file |-> load[l].file + 1, read |-> 0] \in States
      BY <1>1, <2>1, FileFacts DEF HasNextFile, States
    <3> QED BY <3>1, <3>2 DEF TypeOK, States
  <2>2. CASE ~HasNextFile(load[l].file)
    <3>1. load' = [load EXCEPT ![l].at = "ending"]
      BY <2>2 DEF CommitFile
    <3> QED BY <1>1, <3>1 DEF TypeOK, States
  <2> QED BY <2>1, <2>2
<1>3. history' \subseteq Entries
  <2>1. history \subseteq Entries /\ [load |-> l, file |-> load[l].file, count |-> count] \in Entries
    BY <1>1 DEF TypeOK, Entries
  <2>2. history' = history \cup {[load |-> l, file |-> load[l].file, count |-> count]}
    BY DEF CommitFile
  <2> QED BY <2>1, <2>2
<1>4. count' \in Nat
  <2>1. count' \in {0, count}
    BY DEF CommitFile
  <2> QED BY <2>1 DEF TypeOK
<1>5. request' \in [Pages -> Requests]
  BY DEF CommitFile, TypeOK, Requests
<1> QED BY <1>2, <1>3, <1>4, <1>5 DEF CommitFile, TypeOK, States, Entries

LEMMA EndType ==
  ASSUME TypeOK, NEW l \in Loads, End(l) \/ Fail(l)
  PROVE  TypeOK'
<1>1. CASE End(l)
  BY <1>1 DEF TypeOK, End, pageVars
<1>2. CASE Fail(l)
  <2>1. [at |-> "failed", file |-> 1, read |-> 0] \in States
    BY FileFacts DEF States
  <2>2. load' \in [Loads -> States]
    BY <1>2, <2>1 DEF TypeOK, Fail, States
  <2> QED BY <1>2, <2>2 DEF TypeOK, Fail, pageVars, States
<1> QED BY <1>1, <1>2

LEMMA SendType ==
  ASSUME TypeOK, NEW l \in Loads, Send(l)
  PROVE  TypeOK'
<1>1. PICK line \in queue[l] : /\ queue' = [queue EXCEPT ![l] = @ \ {line}]
                              /\ \/ stored' = stored \cup {IdOf(line)} /\ lost' = lost
                                 \/ lost' = [lost EXCEPT ![l] = @ \cup {line}] /\ stored' = stored
  BY DEF Send
<1>2. line \in Lines /\ IdOf(line) \in Ids
  <2>1. line \in Lines
    BY <1>1 DEF TypeOK
  <2>2. PICK f \in 1..Len(Files) : line \in {f} \X (1..Len(Files[f]))
    BY <2>1 DEF Lines
  <2> QED BY <2>1, <2>2, FileFacts DEF IdOf
<1>3. queue' \in [Loads -> SUBSET Lines] /\ lost' \in [Loads -> SUBSET Lines]
  BY <1>1, <1>2 DEF TypeOK
<1>4. stored' \in SUBSET Ids /\ visible \subseteq stored'
  BY <1>1, <1>2 DEF TypeOK
<1> QED BY <1>3, <1>4 DEF TypeOK, Send, pageVars

LEMMA PageType ==
  ASSUME TypeOK, NEW p \in Pages, Serve(p) \/ Open(p)
  PROVE  TypeOK'
BY DEF TypeOK, Serve, RenderLink, RenderStatus, RenderHistory, RenderFails, Open,
       Requests, Views, loadVars

LEMMA ClickType ==
  ASSUME TypeOK, NEW p \in Pages, NEW l \in Loads, Click(p, l)
  PROVE  TypeOK'
BY DEF TypeOK, Click, Requests

LEMMA TickType ==
  ASSUME TypeOK, NEW l \in Loads, Tick(l)
  PROVE  TypeOK'
BY DEF TypeOK, Tick, TimerAfterTick, Requests, loadVars

LEMMA TypeStep == TypeOK /\ [Next]_vars => TypeOK'
<1> SUFFICES ASSUME TypeOK, [Next]_vars PROVE TypeOK'
  OBVIOUS
<1>1. ASSUME NEW l \in Loads, LoadStep(l) \/ Send(l) \/ Fail(l) \/ Tick(l) PROVE TypeOK'
  BY <1>1, BeginType, AddDocumentType, CommitFileType, EndType, SendType, TickType DEF LoadStep
<1>2. ASSUME NEW p \in Pages, Serve(p) \/ Open(p) PROVE TypeOK'
  BY <1>2, PageType
<1>3. ASSUME NEW p \in Pages, NEW l \in Loads, Click(p, l) PROVE TypeOK'
  BY <1>3, ClickType
<1>4. CASE UNCHANGED vars
  BY <1>4 DEF TypeOK, vars, loadVars, pageVars
<1> QED BY <1>1, <1>2, <1>3, <1>4 DEF Next

(* The variables of the loader keep their types: what is queued are lines  *)
(* of the files, and what a search finds was stored (SampleDataLoader.java *)
(* 15-61, SearchPage.java 238-292).                                        *)
THEOREM TypeCorrect == Spec => []TypeOK
<1>1. Init => TypeOK
  BY InitInvariant DEF IInv
<1> QED BY <1>1, TypeStep, PTL DEF Spec

-----------------------------------------------------------------------------

(* What a step of load l may do to the other loads, for the invariants     *)
(* about which loads are under way.                                        *)
LEMMA BeginKeeps ==
  ASSUME IInv, NEW l \in Loads, Begin(l), TypeOK'
  PROVE  IInv'
<1>1. /\ load[l].at = "pooled" /\ load[l].file = 1 /\ load[l].read = 0
      /\ load'[l].at = "adding" /\ load'[l].file = 1 /\ load'[l].read = 0
  BY DEF IInv, UnstartedLoads, Begin, TypeOK
<1>2. \A m \in Loads \ {l} : load'[m] = load[m]
  BY DEF IInv, TypeOK, Begin
<1>3. /\ running' = TRUE /\ count' = 0
      /\ UNCHANGED << history, queue, lost, stored, visible >>
      /\ overlapped \subseteq overlapped'
      /\ OthersOf(l) # {} => l \in overlapped' /\ OthersOf(l) \subseteq overlapped'
  BY DEF Begin
<1>4. UnstartedLoads'
  BY <1>1, <1>2 DEF IInv, UnstartedLoads
<1>5. OverlapsAreKnown'
  BY <1>1, <1>2, <1>3 DEF IInv, OverlapsAreKnown, IsActive, OthersOf
<1>6. RunningTellsOfLoads'
  BY <1>1, <1>2, <1>3 DEF IInv, RunningTellsOfLoads, IsActive
<1>7. CountOfLoneLoad'
  BY <1>1, <1>2, <1>3 DEF IInv, CountOfLoneLoad, IsActive, OthersOf
<1>8. LoneLoadsCountRight'
  BY <1>3 DEF IInv, LoneLoadsCountRight
<1>9. ReadLinesAreKept'
  BY <1>1, <1>2, <1>3 DEF IInv, ReadLinesAreKept
<1>10. EndedLoadsAreIndexed'
  BY <1>1, <1>2, <1>3 DEF IInv, EndedLoadsAreIndexed
<1> QED BY <1>4, <1>5, <1>6, <1>7, <1>8, <1>9, <1>10 DEF IInv

LEMMA AddDocumentKeeps ==
  ASSUME IInv, NEW l \in Loads, AddDocument(l), TypeOK'
  PROVE  IInv'
<1>1. /\ load[l].at = "adding" /\ load'[l].at = "adding"
      /\ load'[l].file = load[l].file /\ load[l].read \in Nat /\ load'[l].read = load[l].read + 1
  BY DEF IInv, AddDocument, TypeOK
<1>2. \A m \in Loads \ {l} : load'[m] = load[m] /\ queue'[m] = queue[m]
  BY DEF IInv, TypeOK, AddDocument
<1>3. /\ queue'[l] = queue[l] \cup {<< load[l].file, load[l].read + 1 >>}
      /\ count' = count + 1
      /\ UNCHANGED << running, history, lost, stored, visible, overlapped >>
  BY DEF IInv, TypeOK, AddDocument
<1>4. UnstartedLoads'
  BY <1>1, <1>2 DEF IInv, UnstartedLoads
<1>5. OverlapsAreKnown'
  BY <1>1, <1>2, <1>3 DEF IInv, OverlapsAreKnown, IsActive
<1>6. RunningTellsOfLoads'
  BY <1>1, <1>2, <1>3 DEF IInv, RunningTellsOfLoads, IsActive
<1>7. CountOfLoneLoad'
  BY <1>1, <1>2, <1>3 DEF IInv, CountOfLoneLoad, OverlapsAreKnown, IsActive
<1>8. LoneLoadsCountRight'
  BY <1>3 DEF IInv, LoneLoadsCountRight
<1>9. ReadLinesAreKept'
  <2>1. ASSUME NEW m \in Loads, load'[m].at = "adding", NEW i \in 1..load'[m].read
        PROVE  \/ << load'[m].file, i >> \in queue'[m] \cup lost'[m]
               \/ Files[load'[m].file][i] \in stored'
    <3>1. CASE m = l
      <4>1. i \in 1..load[l].read \/ i = load[l].read + 1
        BY <1>1, <2>1, <3>1
      <4> QED BY <1>1, <1>3, <3>1, <4>1 DEF IInv, ReadLinesAreKept
    <3>2. CASE m # l
      BY <1>2, <1>3, <2>1, <3>2 DEF IInv, ReadLinesAreKept
    <3> QED BY <3>1, <3>2
  <2>2. ASSUME NEW m \in Loads, load'[m].at = "adding", NEW f \in 1..(load'[m].file - 1),
               NEW i \in 1..Len(Files[f])
        PROVE  Files[f][i] \in visible' \/ << f, i >> \in lost'[m]
    BY <1>1, <1>2, <1>3, <2>2 DEF IInv, ReadLinesAreKept
  <2> QED BY <2>1, <2>2 DEF ReadLinesAreKept
<1>10. EndedLoadsAreIndexed'
  BY <1>1, <1>2, <1>3 DEF IInv, EndedLoadsAreIndexed
<1> QED BY <1>4, <1>5, <1>6, <1>7, <1>8, <1>9, <1>10 DEF IInv

(* The commit of a file finds all its lines with Solr that are not lost.   *)
LEMMA CommitFileKeeps ==
  ASSUME IInv, NEW l \in Loads, CommitFile(l), TypeOK'
  PROVE  IInv'
<1> DEFINE f == load[l].file
<1>1. /\ load[l].at = "adding" /\ f \in 1..Len(Files) /\ Len(Files) \in Nat
      /\ load[l].read = Len(Files[f]) /\ Len(Files[f]) \in Nat /\ queue[l] = {}
  BY FileFacts DEF IInv, CommitFile, TypeOK, AllSent
<1>2. \A m \in Loads \ {l} : load'[m] = load[m]
  BY DEF IInv, TypeOK, CommitFile
<1>3. /\ visible' = stored /\ visible \subseteq visible'
      /\ UNCHANGED << running, queue, lost, stored, overlapped >>
  BY DEF IInv, TypeOK, CommitFile
<1>4. \/ /\ load'[l].at = "adding" /\ load'[l].file = f + 1 /\ load'[l].read = 0 /\ count' = 0
      \/ load'[l].at = "ending" /\ f = Len(Files) /\ count' = count
  <2>1. CASE HasNextFile(f)
    <3>1. load' = [load EXCEPT ![l] = [at |-> "adding", file |-> f + 1, read |-> 0]] /\ count' = 0
      BY <2>1 DEF CommitFile
    <3> QED BY <3>1 DEF IInv, TypeOK
  <2>2. CASE ~HasNextFile(f)
    <3>1. load' = [load EXCEPT ![l].at = "ending"] /\ count' = count
      BY <2>2 DEF CommitFile
    <3>2. load'[l].at = "ending" /\ f = Len(Files)
      BY <1>1, <2>2, <3>1 DEF IInv, TypeOK, HasNextFile
    <3> QED BY <3>1, <3>2
  <2> QED BY <2>1, <2>2
<1>5. \A g \in 1..f : \A i \in 1..Len(Files[g]) : Files[g][i] \in visible' \/ << g, i >> \in lost[l]
  <2>1. ASSUME NEW i \in 1..Len(Files[f]) PROVE Files[f][i] \in stored \/ << f, i >> \in lost[l]
    BY <1>1, <2>1 DEF IInv, ReadLinesAreKept
  <2>2. ASSUME NEW g \in 1..(f - 1), NEW i \in 1..Len(Files[g])
        PROVE  Files[g][i] \in visible \/ << g, i >> \in lost[l]
    BY <1>1, <2>2 DEF IInv, ReadLinesAreKept
  <2>3. \A g \in 1..f : g = f \/ g \in 1..(f - 1)
    BY <1>1
  <2> QED BY <1>3, <2>1, <2>2, <2>3
<1>6. UnstartedLoads'
  BY <1>2, <1>4 DEF IInv, UnstartedLoads
<1>7. OverlapsAreKnown'
  BY <1>1, <1>2, <1>3, <1>4 DEF IInv, OverlapsAreKnown, IsActive
<1>8. RunningTellsOfLoads'
  BY <1>1, <1>2, <1>3, <1>4 DEF IInv, RunningTellsOfLoads, IsActive
<1>9. CountOfLoneLoad'
  BY <1>1, <1>2, <1>3, <1>4 DEF IInv, CountOfLoneLoad, OverlapsAreKnown, IsActive
<1>10. LoneLoadsCountRight'
  <2>1. history' = history \cup {[load |-> l, file |-> f, count |-> count]}
    BY DEF CommitFile
  <2>2. l \notin overlapped => count = Len(Files[f])
    BY <1>1 DEF IInv, CountOfLoneLoad
  <2>3. ASSUME NEW line \in history', line.load \notin overlapped
        PROVE  line.count = Len(Files[line.file])
    <3>1. CASE line \in history
      BY <2>3, <3>1 DEF IInv, LoneLoadsCountRight
    <3>2. CASE line = [load |-> l, file |-> f, count |-> count]
      BY <2>2, <2>3, <3>2
    <3> QED BY <2>1, <3>1, <3>2
  <2> QED BY <1>3, <2>3 DEF LoneLoadsCountRight
<1>11. ReadLinesAreKept'
  <2>1. ASSUME NEW m \in Loads \ {l}, load'[m].at = "adding"
        PROVE  /\ \A i \in 1..load'[m].read :
                    \/ << load'[m].file, i >> \in queue'[m] \cup lost'[m]
                    \/ Files[load'[m].file][i] \in stored'
               /\ \A g \in 1..(load'[m].file - 1) : \A i \in 1..Len(Files[g]) :
                    Files[g][i] \in visible' \/ << g, i >> \in lost'[m]
    BY <1>2, <1>3, <2>1 DEF IInv, ReadLinesAreKept
  <2>2. ASSUME load'[l].at = "adding"
        PROVE  /\ load'[l].read = 0
               /\ \A g \in 1..(load'[l].file - 1) : \A i \in 1..Len(Files[g]) :
                    Files[g][i] \in visible' \/ << g, i >> \in lost'[l]
    BY <1>1, <1>3, <1>4, <1>5, <2>2
  <2> QED BY <2>1, <2>2 DEF ReadLinesAreKept
<1>12. EndedLoadsAreIndexed'
  <2>1. ASSUME f = Len(Files), NEW line \in Lines PROVE IdOf(line) \in visible' \/ line \in lost[l]
    <3>1. PICK g \in 1..f : line \in {g} \X (1..Len(Files[g]))
      BY <2>1 DEF Lines
    <3> QED BY <1>5, <3>1 DEF IdOf
  <2>2. ASSUME NEW m \in Loads, load'[m].at \in {"ending", "ended"}, NEW line \in Lines
        PROVE  IdOf(line) \in visible' \/ line \in lost'[m]
    <3>1. CASE m = l
      BY <1>3, <1>4, <2>1, <2>2, <3>1
    <3>2. CASE m # l
      BY <1>2, <1>3, <2>2, <3>2 DEF IInv, EndedLoadsAreIndexed
    <3> QED BY <3>1, <3>2
  <2> QED BY <2>2 DEF EndedLoadsAreIndexed, IdOf, Lines
<1> QED BY <1>6, <1>7, <1>8, <1>9, <1>10, <1>11, <1>12 DEF IInv

(* Only another load can have been under way when a load clears the flag.  *)
LEMMA EndKeeps ==
  ASSUME IInv, NEW l \in Loads, End(l), TypeOK'
  PROVE  IInv'
<1>1. load[l].at = "ending" /\ load'[l].at = "ended"
  BY DEF IInv, End, TypeOK
<1>2. \A m \in Loads \ {l} : load'[m] = load[m]
  BY DEF IInv, TypeOK, End
<1>3. running' = FALSE /\ UNCHANGED << count, history, queue, lost, stored, visible, overlapped >>
  BY DEF End
<1>4. RunningTellsOfLoads'
  BY <1>1, <1>2, <1>3 DEF IInv, RunningTellsOfLoads, OverlapsAreKnown, IsActive
<1>5. UnstartedLoads' /\ CountOfLoneLoad' /\ LoneLoadsCountRight'
  BY <1>1, <1>2, <1>3 DEF IInv, UnstartedLoads, CountOfLoneLoad, LoneLoadsCountRight
<1>6. OverlapsAreKnown'
  BY <1>1, <1>2, <1>3 DEF IInv, OverlapsAreKnown, IsActive
<1>7. ReadLinesAreKept' /\ EndedLoadsAreIndexed'
  BY <1>1, <1>2, <1>3 DEF IInv, ReadLinesAreKept, EndedLoadsAreIndexed
<1> QED BY <1>4, <1>5, <1>6, <1>7 DEF IInv

LEMMA FailKeeps ==
  ASSUME IInv, NEW l \in Loads, Fail(l), TypeOK'
  PROVE  IInv'
<1>1. load[l].at = "adding" /\ load'[l].at = "failed"
  BY DEF IInv, Fail, TypeOK
<1>2. \A m \in Loads \ {l} : load'[m] = load[m]
  BY DEF IInv, TypeOK, Fail
<1>3. UNCHANGED << running, count, history, queue, lost, stored, visible, overlapped >>
  BY DEF Fail
<1>4. RunningTellsOfLoads'
  BY <1>1, <1>2, <1>3 DEF IInv, RunningTellsOfLoads, IsActive
<1>5. UnstartedLoads' /\ CountOfLoneLoad' /\ LoneLoadsCountRight'
  BY <1>1, <1>2, <1>3 DEF IInv, UnstartedLoads, CountOfLoneLoad, LoneLoadsCountRight
<1>6. OverlapsAreKnown'
  BY <1>1, <1>2, <1>3 DEF IInv, OverlapsAreKnown, IsActive
<1>7. ReadLinesAreKept' /\ EndedLoadsAreIndexed'
  BY <1>1, <1>2, <1>3 DEF IInv, ReadLinesAreKept, EndedLoadsAreIndexed
<1> QED BY <1>4, <1>5, <1>6, <1>7 DEF IInv

(* A line leaves the queue for Solr, or is lost.                           *)
LEMMA SendKeeps ==
  ASSUME IInv, NEW l \in Loads, Send(l), TypeOK'
  PROVE  IInv'
<1>1. PICK line \in queue[l] :
        /\ queue' = [queue EXCEPT ![l] = @ \ {line}]
        /\ \/ stored' = stored \cup {IdOf(line)} /\ lost' = lost
           \/ lost' = [lost EXCEPT ![l] = @ \cup {line}] /\ stored' = stored
        /\ UNCHANGED << running, count, history, load, visible, overlapped >>
  BY DEF Send
<1>2. /\ stored \subseteq stored'
      /\ \A m \in Loads : lost[m] \subseteq lost'[m] /\ queue[m] \ {line} \subseteq queue'[m]
      /\ IdOf(line) \in stored' \/ line \in lost'[l]
      /\ \A m \in Loads \ {l} : queue'[m] = queue[m]
  BY <1>1 DEF IInv, TypeOK
<1>3. ReadLinesAreKept'
  <2>1. ASSUME NEW m \in Loads, load[m].at = "adding", NEW i \in 1..load[m].read
        PROVE  \/ << load[m].file, i >> \in queue'[m] \cup lost'[m]
               \/ Files[load[m].file][i] \in stored'
    <3>1. \/ << load[m].file, i >> \in queue[m] \cup lost[m]
          \/ Files[load[m].file][i] \in stored
      BY <2>1 DEF IInv, ReadLinesAreKept
    <3>2. CASE m = l /\ << load[m].file, i >> = line
      BY <1>2, <3>2 DEF IdOf
    <3>3. CASE ~(m = l /\ << load[m].file, i >> = line)
      BY <1>2, <3>1, <3>3
    <3> QED BY <3>2, <3>3
  <2>2. ASSUME NEW m \in Loads, load[m].at = "adding", NEW f \in 1..(load[m].file - 1),
               NEW i \in 1..Len(Files[f])
        PROVE  Files[f][i] \in visible \/ << f, i >> \in lost'[m]
    BY <1>2, <2>2 DEF IInv, ReadLinesAreKept
  <2> QED BY <1>1, <2>1, <2>2 DEF ReadLinesAreKept
<1>4. EndedLoadsAreIndexed'
  <2>1. ASSUME NEW m \in Loads, load[m].at \in {"ending", "ended"}, NEW k \in Lines
        PROVE  IdOf(k) \in visible \/ k \in lost'[m]
    BY <1>2, <2>1 DEF IInv, EndedLoadsAreIndexed
  <2> QED BY <1>1, <2>1 DEF EndedLoadsAreIndexed, IdOf, Lines
<1>5. UnstartedLoads' /\ OverlapsAreKnown' /\ RunningTellsOfLoads' /\ CountOfLoneLoad'
      /\ LoneLoadsCountRight'
  BY <1>1 DEF IInv, UnstartedLoads, OverlapsAreKnown, RunningTellsOfLoads, CountOfLoneLoad,
              LoneLoadsCountRight, IsActive
<1> QED BY <1>3, <1>4, <1>5 DEF IInv

(* A click puts a load into the pool, where it is still unstarted.         *)
LEMMA ClickKeeps ==
  ASSUME IInv, NEW p \in Pages, NEW l \in Loads, Click(p, l), TypeOK'
  PROVE  IInv'
<1>1. /\ load[l].at = "none" /\ load'[l].at = "pooled"
      /\ load'[l].file = load[l].file /\ load'[l].read = load[l].read
  BY DEF IInv, Click, TypeOK
<1>2. \A m \in Loads \ {l} : load'[m] = load[m]
  BY DEF IInv, TypeOK, Click
<1>3. UNCHANGED << running, count, history, queue, lost, stored, visible, overlapped >>
  BY DEF Click
<1>4. RunningTellsOfLoads'
  BY <1>1, <1>2, <1>3 DEF IInv, RunningTellsOfLoads, IsActive
<1>5. UnstartedLoads' /\ CountOfLoneLoad' /\ LoneLoadsCountRight'
  BY <1>1, <1>2, <1>3 DEF IInv, UnstartedLoads, CountOfLoneLoad, LoneLoadsCountRight
<1>6. OverlapsAreKnown'
  BY <1>1, <1>2, <1>3 DEF IInv, OverlapsAreKnown, IsActive
<1>7. ReadLinesAreKept' /\ EndedLoadsAreIndexed'
  BY <1>1, <1>2, <1>3 DEF IInv, ReadLinesAreKept, EndedLoadsAreIndexed
<1> QED BY <1>4, <1>5, <1>6, <1>7 DEF IInv

-----------------------------------------------------------------------------

LEMMA StepInvariant == IInv /\ [Next]_vars => IInv'
<1> SUFFICES ASSUME IInv, [Next]_vars PROVE IInv'
  OBVIOUS
<1>1. TypeOK'
  BY TypeStep DEF IInv
<1>2. ASSUME NEW l \in Loads, LoadStep(l) \/ Send(l) \/ Fail(l) PROVE IInv'
  BY <1>1, <1>2, BeginKeeps, AddDocumentKeeps, CommitFileKeeps, EndKeeps, FailKeeps, SendKeeps
     DEF LoadStep
<1>3. ASSUME NEW p \in Pages, NEW l \in Loads, Click(p, l) PROVE IInv'
  BY <1>1, <1>3, ClickKeeps
<1>4. ASSUME NEW l \in Loads, Tick(l) PROVE IInv'
  BY <1>1, <1>4, LoaderUnchanged DEF Tick
<1>5. ASSUME NEW p \in Pages, Serve(p) \/ Open(p) PROVE IInv'
  <2>1. UNCHANGED loadVars
    BY <1>5 DEF Serve, Open, RenderLink, RenderStatus, RenderHistory, RenderFails
  <2> QED BY <1>1, <2>1, LoaderUnchanged
<1>6. CASE UNCHANGED vars
  BY <1>1, <1>6, LoaderUnchanged DEF vars
<1> QED BY <1>2, <1>3, <1>4, <1>5, <1>6 DEF Next

THEOREM Invariant == Spec => []IInv
<1> QED BY InitInvariant, StepInvariant, PTL DEF Spec

(* The running flag tells of loads, and of a load that no other overlaps   *)
(* all the time (SampleDataLoader.java:44, 61).                            *)
THEOREM RunningTells == Spec => []RunningTellsOfLoads
<1>1. IInv => RunningTellsOfLoads
  BY DEF IInv
<1> QED BY <1>1, Invariant, PTL

(* When a load has ended every line of every file can be found but those   *)
(* of its lines whose request failed, for any files and any number of      *)
(* loads, failed ones too (SampleDataLoader.java:31-36).                   *)
THEOREM EndedLoadsIndexed == Spec => []EndedLoadsAreIndexed
<1>1. IInv => EndedLoadsAreIndexed
  BY DEF IInv
<1> QED BY <1>1, Invariant, PTL

(* A load that no other overlaps enters the number of lines of each file   *)
(* into the history (SampleDataLoader.java:37).                            *)
THEOREM LoneLoadsCount == Spec => []LoneLoadsCountRight
<1>1. IInv => LoneLoadsCountRight
  BY DEF IInv
<1> QED BY <1>1, Invariant, PTL

(* A page stops polling during its load only when another load overlaps it *)
(* or the page has failed (SearchPage.java:253-263).                       *)
THEOREM PollingStopsAfterTheLoad == Spec => StopsAfterTheLoad
<1>1. ASSUME IInv, [Next]_vars, NEW l \in Loads, timer[l] # NoPage, timer'[l] = NoPage
      PROVE  ~IsActive(l) \/ l \in overlapped \/ view'[timer[l]] = "error"
  <2>1. timer \in [Loads -> Pages \cup {NoPage}] /\ view \in [Pages -> Views]
    BY <1>1 DEF IInv, TypeOK
  <2>2. ASSUME NEW m \in Loads, Tick(m) PROVE ~running
    BY <1>1, <2>1, <2>2 DEF Tick, TimerAfterTick
  <2>3. ASSUME NEW p \in Pages, Serve(p) PROVE view'[timer[l]] = "error"
    <3>1. RenderFails(p)
      BY <1>1, <2>3 DEF Serve, RenderLink, RenderStatus, RenderHistory
    <3>2. timer[l] = p
      BY <1>1, <2>1, <3>1 DEF RenderFails
    <3> QED BY <2>1, <3>1, <3>2 DEF RenderFails
  <2>4. ASSUME NEW p \in Pages, NEW m \in Loads, Click(p, m) PROVE FALSE
    BY <1>1, <2>1, <2>4, PageAssumption DEF Click
  <2>5. \/ \E m \in Loads : Tick(m)
        \/ \E p \in Pages : Serve(p)
    BY <1>1, <2>4 DEF Next, LoadStep, Begin, AddDocument, CommitFile, End, Send, Fail, Open,
                      vars, pageVars
  <2> QED BY <1>1, <2>2, <2>3, <2>5 DEF IInv, RunningTellsOfLoads
<1>2. IInv /\ [Next]_vars =>
        [\A l \in Loads : timer[l] # NoPage /\ timer'[l] = NoPage =>
           ~IsActive(l) \/ l \in overlapped \/ view'[timer[l]] = "error"]_vars
  BY <1>1
<1> QED BY <1>2, Invariant, PTL DEF Spec, StopsAfterTheLoad
=============================================================================
