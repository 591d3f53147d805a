-------------------------- MODULE SampleDataLoader --------------------------
(***************************************************************************)
(* The demo's background load of sample data (SampleDataLoader) and the    *)
(* search page that starts it and polls it (SearchPage).  One loader is    *)
(* shared by all pages and by the threads of a cached pool, its fields are *)
(* plain fields, and nothing keeps two loads apart.                        *)
(***************************************************************************)
EXTENDS Naturals, Sequences, FiniteSets

CONSTANTS
  Pages,       \* the pages that users open
  MaxClicks,   \* how often a link is clicked on, on any page (a bound)
  Files,       \* the files, in order: of each the ids of its lines
  QueueSize,   \* the queue of a StreamingUpdateSolrServer
  MaxLost,     \* how many lines are lost on the way to Solr (a bound)
  NoPage

(* A load for each click, in their order.                                  *)
Loads == 1..MaxClicks

Lines == UNION { {f} \X (1..Len(Files[f])) : f \in 1..Len(Files) }

Ids == UNION { { Files[f][i] : i \in 1..Len(Files[f]) } : f \in 1..Len(Files) }

ASSUME FilesAssumption == Files \in Seq(Seq(Ids)) /\ Files # << >>
ASSUME BoundAssumption == QueueSize \in Nat \ {0} /\ MaxClicks \in Nat /\ MaxLost \in Nat
ASSUME PageAssumption  == NoPage \notin Pages

VARIABLES
  running, count,              \* fields of the static loader
  history,     \* its list of the files loaded, as the set of its lines
  load,        \* of each load: where it is, its file, and the lines read of it
  queue,       \* of each load: the lines that its server object has not sent
  lost,        \* of each load: the lines that never got to the index (auxiliary)
  stored,      \* the ids of the lines that Solr has taken
  visible,     \* those of them that a search finds, since the last commit
  timer,       \* of each load: the page that polls since the click that began it
  request,     \* of each page: the request that its server works on
  view,        \* of each page: what its browser shows when there is no request
  overlapped   \* loads that were under way together with another (auxiliary)

loadVars == << running, count, history, load, queue, lost, stored, visible, overlapped >>
pageVars == << timer, request, view >>
vars     == << loadVars, pageVars >>

IsActive(l)  == load[l].at \in {"adding", "ending"}
OthersOf(l)  == { m \in Loads \ {l} : IsActive(m) }
IdOf(line)   == Files[line[1]][line[2]]

Views    == {"closed", "error", "link", "no link"}
Requests == {"none", "link", "status", "history", "grown history"}

TypeOK ==
  /\ running \in BOOLEAN
  /\ count \in Nat
  /\ history \subseteq [load : Loads, file : 1..Len(Files), count : Nat]
  /\ load \in [Loads -> [at   : {"none", "pooled", "adding", "ending", "ended", "failed"},
                         file : 1..Len(Files), read : Nat]]
  /\ queue \in [Loads -> SUBSET Lines]
  /\ lost \in [Loads -> SUBSET Lines]
  /\ visible \subseteq stored
  /\ stored \in SUBSET Ids
  /\ timer \in [Loads -> Pages \cup {NoPage}]
  /\ request \in [Pages -> Requests]
  /\ view \in [Pages -> Views]
  /\ overlapped \in SUBSET Loads

Init ==
  /\ running = FALSE
  /\ count = 0
  /\ history = {}
  /\ load = [l \in Loads |-> [at |-> "none", file |-> 1, read |-> 0]]
  /\ queue = [l \in Loads |-> {}]
  /\ lost = [l \in Loads |-> {}]
  /\ stored = {}
  /\ visible = {}
  /\ timer = [l \in Loads |-> NoPage]
  /\ request = [p \in Pages |-> "none"]
  /\ view = [p \in Pages |-> "closed"]
  /\ overlapped = {}

-----------------------------------------------------------------------------
(***************************************************************************)
(* loadSampleData(), by a thread of the pool.                              *)
(***************************************************************************)

(* Mutant of Begin: the count goes on from where the last load left it.    *)
BeginCounting(l) ==
  /\ load[l].at = "pooled"
  /\ load' = [load EXCEPT ![l].at = "adding"]
  /\ running' = TRUE
  /\ overlapped' = IF OthersOf(l) = {} THEN overlapped
                   ELSE overlapped \cup OthersOf(l) \cup {l}
  /\ UNCHANGED << count, history, queue, lost, stored, visible, pageVars >>

(* From the start of loadSampleData() the loader is running; the count is  *)
(* that of the first file.                                                 *)
Begin(l) ==
  /\ load[l].at = "pooled"
  /\ load' = [load EXCEPT ![l].at = "adding"]
  /\ running' = TRUE
  /\ count' = 0
  /\ overlapped' = IF OthersOf(l) = {} THEN overlapped
                   ELSE overlapped \cup OthersOf(l) \cup {l}
  /\ UNCHANGED << history, queue, lost, stored, visible, pageVars >>

(* One round of the loop over the lines: add() waits for a place in the    *)
(* queue.                                                                  *)
AddDocument(l) ==
  /\ load[l].at = "adding"
  /\ load[l].read < Len(Files[load[l].file])
  /\ Cardinality(queue[l]) < QueueSize
  /\ load' = [load EXCEPT ![l].read = @ + 1]
  /\ queue' = [queue EXCEPT ![l] = @ \cup {<< load[l].file, load[l].read + 1 >>}]
  /\ count' = count + 1
  /\ UNCHANGED << running, history, lost, stored, visible, overlapped, pageVars >>

(* Mutant of AllSent: the commit does not wait for the queue.              *)
SentOrNot(l) == TRUE

(* commit(true, true) waits for the queue of its server object to empty.   *)
AllSent(l) == queue[l] = {}

(* Mutant of HasNextFile: one file too many.                               *)
HasNextFileOrNot(f) == f <= Len(Files)

HasNextFile(f) == f < Len(Files)

(* The commit of a file and its line of history; the next file is counted  *)
(* from 0.  A page that lists the history has an iterator on it.           *)
CommitFile(l) ==
  LET f == load[l].file IN
  /\ load[l].at = "adding"
  /\ load[l].read = Len(Files[f])
  /\ AllSent(l)
  /\ visible' = stored
  /\ history' = history \cup {[load |-> l, file |-> f, count |-> count]}
  /\ IF HasNextFile(f)
     THEN /\ load' = [load EXCEPT ![l] = [at |-> "adding", file |-> f + 1, read |-> 0]]
          /\ count' = 0
     ELSE /\ load' = [load EXCEPT ![l].at = "ending"]
          /\ UNCHANGED count
  /\ request' = [p \in Pages |-> IF request[p] = "history" THEN "grown history" ELSE request[p]]
  /\ UNCHANGED << running, queue, lost, stored, overlapped, timer, view >>

(* Mutant of End: the loader stays running.                                *)
EndRunning(l) ==
  /\ load[l].at = "ending"
  /\ load' = [load EXCEPT ![l].at = "ended"]
  /\ UNCHANGED << running, count, history, queue, lost, stored, visible, overlapped, pageVars >>

(* The end of loadSampleData(), whatever other loads do.                   *)
End(l) ==
  /\ load[l].at = "ending"
  /\ load' = [load EXCEPT ![l].at = "ended"]
  /\ running' = FALSE
  /\ UNCHANGED << count, history, queue, lost, stored, visible, overlapped, pageVars >>

(* A file that cannot be read or parsed, an add or a commit that fails:    *)
(* run() prints the exception, and running stays as it is.                 *)
Fail(l) ==
  /\ load[l].at = "adding"
  /\ load' = [load EXCEPT ![l] = [at |-> "failed", file |-> 1, read |-> 0]]
  /\ UNCHANGED << running, count, history, queue, lost, stored, visible, overlapped, pageVars >>

(* The bound on the lines lost.                                            *)
MayLose == Cardinality(UNION { {l} \X lost[l] : l \in Loads }) < MaxLost

(* A thread of the StreamingUpdateSolrServer takes a line from the queue,  *)
(* in any order, and Solr indexes it; or the request is refused or breaks  *)
(* off, which the thread logs, add() having returned long ago.             *)
Send(l) ==
  \E line \in queue[l] :
    /\ queue' = [queue EXCEPT ![l] = @ \ {line}]
    /\ \/ stored' = stored \cup {IdOf(line)} /\ UNCHANGED lost
       \/ MayLose /\ lost' = [lost EXCEPT ![l] = @ \cup {line}] /\ UNCHANGED stored
    /\ UNCHANGED << running, count, history, load, visible, overlapped, pageVars >>

-----------------------------------------------------------------------------
(***************************************************************************)
(* SearchPage.  The server works on one request of a page at a time; a     *)
(* render reads loader.running once for the link and once for the status.  *)
(***************************************************************************)

Open(p) ==
  /\ view[p] = "closed"
  /\ request[p] = "none"
  /\ request' = [request EXCEPT ![p] = "link"]
  /\ UNCHANGED << timer, view, loadVars >>

(* onClick(): the load goes to the pool, which has a thread for every      *)
(* load, and the page gets a timer.  The sleep of 100 ms is what may pass  *)
(* until the page is rendered.                                             *)
Click(p, l) ==
  /\ request[p] = "none"
  /\ view[p] = "link"
  /\ load[l].at = "none"
  /\ \A m \in Loads : m < l => load[m].at # "none"
  /\ load' = [load EXCEPT ![l].at = "pooled"]
  /\ timer' = [timer EXCEPT ![l] = p]
  /\ request' = [request EXCEPT ![p] = "link"]
  /\ UNCHANGED << running, count, history, queue, lost, stored, visible, overlapped, view >>

(* Mutant of TimerAfterTick: the timer is never stopped.                   *)
TimerKept(l) == timer[l]

(* Mutant of TimerAfterTick: the timer is stopped while the load runs.     *)
TimerStoppedByTick(l) == IF running THEN NoPage ELSE timer[l]

(* onTimer(): the timer stops when the loader is not running.              *)
TimerAfterTick(l) == IF running THEN timer[l] ELSE NoPage

(* A request of a timer: the page, or its load panel, is rendered again.   *)
Tick(l) ==
  /\ timer[l] # NoPage
  /\ request[timer[l]] = "none"
  /\ timer' = [timer EXCEPT ![l] = TimerAfterTick(l)]
  /\ request' = [request EXCEPT ![timer[l]] = "link"]
  /\ UNCHANGED << view, loadVars >>

RenderLink(p) ==
  /\ request[p] = "link"
  /\ request' = [request EXCEPT ![p] = "status"]
  /\ view' = [view EXCEPT ![p] = IF running THEN "no link" ELSE "link"]
  /\ UNCHANGED << timer, loadVars >>

(* A hidden status ends the render, a visible one lists the history.       *)
RenderStatus(p) ==
  /\ request[p] = "status"
  /\ request' = [request EXCEPT ![p] = IF running THEN "history" ELSE "none"]
  /\ UNCHANGED << timer, view, loadVars >>

RenderHistory(p) ==
  /\ request[p] \in {"history", "grown history"}
  /\ request' = [request EXCEPT ![p] = "none"]
  /\ UNCHANGED << timer, view, loadVars >>

(* The list has grown under its iterator: ConcurrentModificationException, *)
(* where the iterator sees it.  The error page has none of the timers.     *)
RenderFails(p) ==
  /\ request[p] = "grown history"
  /\ view' = [view EXCEPT ![p] = "error"]
  /\ request' = [request EXCEPT ![p] = "none"]
  /\ timer' = [l \in Loads |-> IF timer[l] = p THEN NoPage ELSE timer[l]]
  /\ UNCHANGED loadVars

-----------------------------------------------------------------------------
LoadStep(l) == Begin(l) \/ AddDocument(l) \/ CommitFile(l) \/ End(l)
Serve(p)    == RenderLink(p) \/ RenderStatus(p) \/ RenderHistory(p) \/ RenderFails(p)

Next ==
  \/ \E l \in Loads : LoadStep(l) \/ Send(l) \/ Fail(l) \/ Tick(l)
  \/ \E p \in Pages : Serve(p) \/ Open(p)
  \/ \E p \in Pages, l \in Loads : Click(p, l)

(* Threads run, servers answer and timers fire; users need not do anything *)
(* and nothing need fail.                                                  *)
Fairness ==
  /\ \A l \in Loads : WF_vars(LoadStep(l)) /\ WF_vars(Send(l)) /\ WF_vars(Tick(l))
  /\ \A p \in Pages : WF_vars(Serve(p))

Spec == Init /\ [][Next]_vars /\ Fairness

-----------------------------------------------------------------------------
(* What loader.running, a plain field that every load sets and clears,     *)
(* still tells (SampleDataLoader.java:44, 61): it is set only while some   *)
(* load is under way or after one has failed, and it is set all through a  *)
(* load that no other overlaps.                                            *)
RunningTellsOfLoads ==
  /\ running => \E l \in Loads : IsActive(l) \/ load[l].at = "failed"
  /\ \A l \in Loads \ overlapped : IsActive(l) => running

(* Of a load that has ended normally a search finds every line of every    *)
(* file but those whose own request to Solr failed, in whatever order the  *)
(* lines went and whatever other loads add, lose, commit or fail to: no    *)
(* commit is ahead of a line of its load (SampleDataLoader.java:31, 36).   *)
EndedLoadsAreIndexed ==
  \A l \in Loads : load[l].at \in {"ending", "ended"} =>
    \A line \in Lines : IdOf(line) \in visible \/ line \in lost[l]

(* The counts in the history (SampleDataLoader.java:37) are the numbers of *)
(* lines of the files, for a load that no other overlaps: a load that      *)
(* failed before it leaves nothing in the count.                           *)
LoneLoadsCountRight ==
  \A line \in history : line.load \notin overlapped => line.count = Len(Files[line.file])

(* A page stops polling (SearchPage.java:257) during the load that it      *)
(* began only when another load has overlapped that one: otherwise the     *)
(* load is over, or has not begun since the click, or the page has failed. *)
StopsAfterTheLoad ==
  [][\A l \in Loads :
       timer[l] # NoPage /\ timer'[l] = NoPage =>
         ~IsActive(l) \/ l \in overlapped \/ view'[timer[l]] = "error"]_vars

(* Polling ends (SearchPage.java:253-263), for every page and whatever the *)
(* other pages do, unless a load has failed, after which running may stay  *)
(* set for good.                                                           *)
PollingEnds ==
  \A l \in Loads :
    timer[l] # NoPage ~> timer[l] = NoPage \/ \E m \in Loads : load[m].at = "failed"
=============================================================================
