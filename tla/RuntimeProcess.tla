--------------------------- MODULE RuntimeProcess ---------------------------
(***************************************************************************)
(* One runtime process: the registries of what it is running, admission,   *)
(* starts and resumptions, cancellation and shutdown.                      *)
(*                                                                         *)
(* An element of Executions is one ExecutionState, made by one start,      *)
(* resumption or recovery.  Two callers work on it: the one that advances  *)
(* the run's generator (the driver) and one that cancels it while nobody   *)
(* does (the canceller).  They share its fields, and every await is a      *)
(* place where the other may go on.  What a synchronous stretch of code    *)
(* does is one step.  Module DurableRuns has the store and the lease in    *)
(* detail; here the store answers, refuses or throws.                      *)
(***************************************************************************)
EXTENDS Naturals, FiniteSets

CONSTANTS
  Executions, Runs, Sessions,
  None,
  HomeOf,         \* run -> its session
  MaxActiveRuns,  \* admission.maxActiveRuns
  Streaming,      \* whether consumers hold runs between events (streamAgent)
  LateSnapshot,   \* the store copies the run some time after it was called
  MaxRevision,    \* bound on the revisions progress and other processes make
  MaxFailures     \* bound on the store calls that throw

ASSUME RuntimeAssumption ==
  /\ IsFiniteSet(Executions)
  /\ HomeOf \in [Runs -> Sessions]
  /\ None \notin Executions
  /\ MaxActiveRuns \in Nat \ {0} /\ MaxRevision \in Nat /\ MaxFailures \in Nat
  /\ Streaming \in BOOLEAN /\ LateSnapshot \in BOOLEAN

VARIABLES
  stored,          \* run -> status and revision in the store
  lease,           \* run -> the execution whose token the store accepts
  said,            \* run -> its stored terminal events
  history,         \* runs whose interaction is in the history of their session
  local,           \* execution -> its ExecutionState and who works on it
  activeRuns,      \* run -> the execution registered for it
  activeSessions,
  pendingStarts,
  shutdown,        \* how far the shutdown is
  failures         \* store calls that threw so far

store      == <<stored, lease, said, history>>
registries == <<activeRuns, activeSessions, pendingStarts>>
vars       == <<store, local, registries, shutdown, failures>>

Terminal == {"completed", "failed", "cancelled"}
Active   == {"running", "paused"}

\* A commit on its way: what it was called with, and its answer.
NoFlight == [phase |-> "none", expected |-> 0, status |-> "running", event |-> "progress"]

Flight == [phase : {"none", "sent", "accepted", "refused", "thrown"},
           expected : Nat, status : Active \cup Terminal,
           event : {"progress", "paused"} \cup Terminal]

Advancing == {"working", "committing", "releasing"}
Driving   == {"yielded", "working", "committing"}
Starting  == {"admitting", "reading", "creating"}
Resuming  == {"locating", "located", "acquiring", "resuming"}

Execution == [phase : {"idle", "done"} \cup Advancing \cup Driving \cup Starting \cup Resuming,
              run : Runs \cup {None}, status : Active \cup Terminal, revision : Nat,
              streamed : BOOLEAN, abandoned : BOOLEAN,
              aborted : BOOLEAN, leaseLost : BOOLEAN, timed : BOOLEAN,
              flight : Flight, canceller : {"none", "committing", "releasing", "done"},
              cancellation : Flight]

IdleExecution ==
  [phase |-> "idle", run |-> None, status |-> "running", revision |-> 0,
   streamed |-> FALSE, abandoned |-> FALSE,
   aborted |-> FALSE, leaseLost |-> FALSE, timed |-> FALSE,
   flight |-> NoFlight, canceller |-> "none", cancellation |-> NoFlight]

Init ==
  /\ stored = [r \in Runs |-> [status |-> "absent", revision |-> 0]]
  /\ lease = [r \in Runs |-> None]
  /\ said = [r \in Runs |-> {}] /\ history = {}
  /\ local = [x \in Executions |-> IdleExecution]
  /\ activeRuns = [r \in Runs |-> None] /\ activeSessions = {} /\ pendingStarts = 0
  /\ shutdown = [phase |-> "open", timedOut |-> FALSE, todo |-> {}, cancelling |-> None]
  /\ failures = 0

In(x, phase) == local[x].phase = phase
Put(x, e)    == local' = [local EXCEPT ![x] = e]
Over(e)      == [e EXCEPT !.phase = "done"]
Home(x)      == HomeOf[local[x].run]
Closed       == shutdown.phase # "open"
Fails        == failures < MaxFailures /\ failures' = failures + 1

Registered == {x \in Executions : \E r \in Runs : activeRuns[r] = x}
IsIdle     == Registered = {}

-----------------------------------------------------------------------------
(* The store.                                                              *)

Reserved(s) == \E r \in Runs : HomeOf[r] = s /\ stored[r].status \in Active

Write(r, status, event) ==
  /\ stored' = [stored EXCEPT ![r] = [status |-> status, revision |-> @.revision + 1]]
  /\ said' = [said EXCEPT ![r] = @ \cup ({event} \cap Terminal)]
  /\ history' = IF event = "completed" THEN history \cup {r} ELSE history

Sent(e, status, event) ==
  [phase |-> "sent", expected |-> e.revision, status |-> status, event |-> event]

\* Mutant: a commit that does not compare the revision.
AcceptsUnversioned(x, f) == f.phase = "sent" /\ lease[local[x].run] = x

Accepts(x, f) ==
  f.phase = "sent" /\ lease[local[x].run] = x /\ stored[local[x].run].revision = f.expected

\* commitExecution, called by the driver (flight) or by the canceller: accepted,
\* accepted with the answer lost, refused or thrown.  An accepted commit sets the
\* revision of the run it was given.
Execute(x, which) ==
  LET e == local[x]
      f == e[which]
      snapshot == IF LateSnapshot THEN e.status ELSE f.status
      Answered(answer) == [e EXCEPT ![which].phase = answer]
  IN
  /\ f.phase = "sent"
  /\ \/ /\ Accepts(x, f)
        /\ Write(e.run, snapshot, f.event)
        /\ \/ /\ Put(x, [Answered("accepted") EXCEPT !.revision = f.expected + 1])
              /\ UNCHANGED failures
           \/ Put(x, Answered("thrown")) /\ Fails
     \/ /\ ~ Accepts(x, f)
        /\ Put(x, Answered("refused"))
        /\ UNCHANGED <<stored, said, history, failures>>
     \/ /\ Put(x, Answered("thrown")) /\ Fails
        /\ UNCHANGED <<stored, said, history>>
  /\ UNCHANGED <<lease, registries, shutdown>>

ExpireLease(r) ==
  /\ lease[r] # None
  /\ lease' = [lease EXCEPT ![r] = None]
  /\ UNCHANGED <<stored, said, history, local, registries, shutdown, failures>>

\* Another token, of this process (cancelStoredAgent) or of another, takes the
\* run over and leaves it in some status.
ChangeElsewhere(r, status) ==
  /\ lease[r] = None /\ stored[r].status \in Active
  /\ stored[r].revision < MaxRevision
  /\ Write(r, status, status)
  /\ UNCHANGED <<lease, local, registries, shutdown, failures>>

-----------------------------------------------------------------------------
(* Starting a run in a known session.                                      *)

\* The runs that count are the registered ones that were not aborted.
Running == Cardinality({x \in Registered : ~ local[x].aborted})

\* Mutant: starts on their way do not count.
AdmissibleUncounted == ~ Closed /\ Running < MaxActiveRuns

Admissible == ~ Closed /\ Running + pendingStarts < MaxActiveRuns

AdmitStart(x, r) ==
  /\ In(x, "idle") /\ stored[r].status = "absent"
  /\ \A y \in Executions : local[y].run # r
  /\ Admissible
  /\ pendingStarts' = pendingStarts + 1
  /\ \E streamed \in {FALSE, Streaming} :
       Put(x, [IdleExecution EXCEPT !.phase = "admitting", !.run = r, !.streamed = streamed])
  /\ UNCHANGED <<store, activeRuns, activeSessions, shutdown, failures>>

\* The caller is told that there is no run; its reservation is given back.
GiveUp(x) ==
  /\ Put(x, Over(local[x]))
  /\ pendingStarts' = pendingStarts - 1

Authorize(x) ==
  /\ In(x, "admitting")
  /\ \/ /\ ~ Closed
        /\ Put(x, [local[x] EXCEPT !.phase = "reading"])
        /\ UNCHANGED pendingStarts
     \/ GiveUp(x)
  /\ UNCHANGED <<store, activeRuns, activeSessions, shutdown, failures>>

ReserveSession(x) ==
  /\ In(x, "reading")
  /\ IF Home(x) \in activeSessions THEN GiveUp(x) /\ UNCHANGED activeSessions
     ELSE /\ activeSessions' = activeSessions \cup {Home(x)}
          /\ Put(x, [local[x] EXCEPT !.phase = "creating"])
          /\ UNCHANGED pendingStarts
  /\ UNCHANGED <<store, activeRuns, shutdown, failures>>

Register(x) ==
  /\ activeRuns' = [activeRuns EXCEPT ![local[x].run] = x]
  /\ activeSessions' = activeSessions \cup {Home(x)}
  /\ pendingStarts' = pendingStarts - 1
  /\ Put(x, [local[x] EXCEPT !.phase = IF @ = "creating" /\ local[x].streamed
                                       THEN "yielded" ELSE "working",
                             !.status = "running", !.timed = TRUE, !.flight = NoFlight,
                             !.revision = IF local[x].phase = "creating" THEN 1 ELSE @])

Create(x) ==
  LET r == local[x].run
      created == /\ ~ Reserved(Home(x))
                 /\ stored' = [stored EXCEPT ![r] = [status |-> "running", revision |-> 1]]
                 /\ lease' = [lease EXCEPT ![r] = x]
      rejected == /\ GiveUp(x)
                  /\ activeSessions' = activeSessions \ {Home(x)}
                  /\ UNCHANGED activeRuns
  IN
  /\ In(x, "creating")
  /\ \/ created /\ Register(x) /\ UNCHANGED failures
     \/ created /\ rejected /\ Fails
     \/ rejected /\ UNCHANGED <<stored, lease, failures>>
  /\ UNCHANGED <<said, history, shutdown>>

-----------------------------------------------------------------------------
(* Resuming or recovering a stored run.                                    *)

AdmitResume(x, r) ==
  /\ In(x, "idle") /\ stored[r].status \in Active
  /\ Admissible
  /\ pendingStarts' = pendingStarts + 1
  /\ Put(x, [IdleExecution EXCEPT !.phase = "locating", !.run = r])
  /\ UNCHANGED <<store, activeRuns, activeSessions, shutdown, failures>>

\* Unlike a start, a resumption does not look again whether the runtime closed.
\* It may be denied, find the definition changed or the deadline passed.
ReadRun(x) ==
  LET run == stored[local[x].run] IN
  /\ In(x, "locating")
  /\ \/ /\ run.status \in Active
        /\ Put(x, [local[x] EXCEPT !.phase = "located", !.status = run.status,
                                   !.revision = run.revision])
        /\ UNCHANGED pendingStarts
     \/ GiveUp(x)
  /\ UNCHANGED <<store, activeRuns, activeSessions, shutdown, failures>>

\* Mutant: a resumption does not look whether this process already runs it.
CheckSessionNot(x) ==
  /\ In(x, "located")
  /\ Put(x, [local[x] EXCEPT !.phase = "acquiring"])
  /\ UNCHANGED <<store, registries, shutdown, failures>>

CheckSession(x) ==
  /\ In(x, "located")
  /\ IF Home(x) \in activeSessions THEN GiveUp(x)
     ELSE Put(x, [local[x] EXCEPT !.phase = "acquiring"]) /\ UNCHANGED pendingStarts
  /\ UNCHANGED <<store, activeRuns, activeSessions, shutdown, failures>>

AcquireLease(x) ==
  LET e == local[x] IN
  /\ In(x, "acquiring")
  /\ \/ /\ lease[e.run] = None
        /\ lease' = [lease EXCEPT ![e.run] = x]
        /\ Put(x, [e EXCEPT !.phase = "resuming", !.status = "running",
                            !.flight = Sent(e, "running", "progress")])
        /\ UNCHANGED pendingStarts
     \/ GiveUp(x) /\ UNCHANGED lease
  /\ UNCHANGED <<stored, said, history, activeRuns, activeSessions, shutdown, failures>>

Resumed(x) ==
  /\ In(x, "resuming") /\ local[x].flight.phase \notin {"none", "sent"}
  /\ IF local[x].flight.phase = "accepted" THEN Register(x) /\ UNCHANGED lease
     ELSE /\ GiveUp(x)
          /\ \/ lease' = [lease EXCEPT ![local[x].run] = IF @ = x THEN None ELSE @]
             \/ UNCHANGED lease
          /\ UNCHANGED <<activeRuns, activeSessions>>
  /\ UNCHANGED <<stored, said, history, shutdown, failures>>

-----------------------------------------------------------------------------
(* The driver: commits, the catch of executeAgent, and the release.        *)

\* Mutant: the end of a run gives its start's reservation back once more.
DeregisterAgain(x) ==
  /\ activeRuns' = [activeRuns EXCEPT ![local[x].run] = None]
  /\ activeSessions' = activeSessions \ {Home(x)}
  /\ pendingStarts' = pendingStarts - 1

\* releaseExecution forgets the run and the session before it awaits the store.
Deregister(x) ==
  /\ activeRuns' = [activeRuns EXCEPT ![local[x].run] = None]
  /\ activeSessions' = activeSessions \ {Home(x)}
  /\ UNCHANGED pendingStarts

ReleaseExecution(x, e) ==
  /\ Put(x, [e EXCEPT !.phase = "releasing", !.timed = FALSE])
  /\ Deregister(x)

Commit(e, status, event) ==
  [e EXCEPT !.phase = "committing", !.status = status, !.flight = Sent(e, status, event)]

Only(x, e) == Put(x, e) /\ UNCHANGED registries

Throw(x, e) ==
  IF e.aborted
  THEN CASE e.leaseLost            -> ReleaseExecution(x, e)
         [] ~ e.leaseLost /\ e.status \in Terminal -> Only(x, Over(e))
         [] OTHER                  -> Only(x, Commit(e, "cancelled", "cancelled"))
  ELSE IF e.status = "running" THEN Only(x, Commit(e, "failed", "failed"))
       ELSE ReleaseExecution(x, e)

Advance(x) ==
  /\ In(x, "yielded")
  /\ Put(x, [local[x] EXCEPT !.phase = "working"])
  /\ UNCHANGED <<store, registries, shutdown, failures>>

\* A consumer that leaves its stream aborts the run and drains it.
Abandon(x) ==
  LET e == local[x] IN
  /\ In(x, "yielded")
  /\ IF e.status = "running"
     THEN Put(x, [e EXCEPT !.phase = "working", !.abandoned = TRUE, !.aborted = TRUE])
     ELSE Put(x, Over(e))
  /\ UNCHANGED <<store, registries, shutdown, failures>>

\* Not every stretch of work looks at the signal before it commits.
SendCommit(x) ==
  LET e == local[x] IN
  /\ In(x, "working") /\ ~ e.leaseLost
  /\ \/ e.revision < MaxRevision /\ Put(x, Commit(e, e.status, "progress"))
     \/ Put(x, Commit(e, "paused", "paused"))
     \/ Put(x, Commit(e, "completed", "completed"))
  /\ UNCHANGED <<store, registries, shutdown, failures>>

Fail(x) ==
  /\ In(x, "working")
  /\ Throw(x, local[x])
  /\ UNCHANGED <<store, shutdown, failures>>

Lost(e) == [e EXCEPT !.leaseLost = TRUE, !.aborted = TRUE]

Accepted(x) ==
  LET e == local[x] IN
  /\ In(x, "committing") /\ e.flight.phase = "accepted"
  /\ IF e.flight.event = "progress"
     THEN \E phase \in {"working"} \cup (IF e.streamed /\ ~ e.abandoned
                                         THEN {"yielded"} ELSE {}) :
            Only(x, [e EXCEPT !.phase = phase, !.flight = NoFlight])
     ELSE ReleaseExecution(x, [e EXCEPT !.flight = NoFlight])
  /\ UNCHANGED <<store, shutdown, failures>>

\* A failed run is released whatever became of the commit, a cancelled one only
\* when the commit went through.
Rejected(x) ==
  LET e == [local[x] EXCEPT !.flight = NoFlight]
      f == local[x].flight
      told == IF f.phase = "refused" THEN Lost(e) ELSE e
  IN
  /\ In(x, "committing") /\ f.phase \in {"refused", "thrown"}
  /\ CASE f.event = "cancelled" -> Only(x, Over(told))
       [] f.event = "failed"    -> ReleaseExecution(x, told)
       [] OTHER                 -> Throw(x, told)
  /\ UNCHANGED <<store, shutdown, failures>>

\* notifyIdle, once the store has been told, ends a shutdown that drains.
Notified ==
  IF shutdown.phase \in {"draining", "cleaning"} /\ IsIdle
  THEN [shutdown EXCEPT !.phase = "returned"] ELSE shutdown

ReleaseLease(x) ==
  /\ \/ lease' = [lease EXCEPT ![local[x].run] = IF @ = x THEN None ELSE @]
     \/ UNCHANGED lease
  /\ shutdown' = Notified
  /\ UNCHANGED <<stored, said, history, failures>>

\* Leaving a stream whose lease was lost cancels, that is releases, once more.
Released(x) ==
  LET e == local[x] IN
  /\ In(x, "releasing")
  /\ ReleaseLease(x)
  /\ IF e.abandoned /\ e.status = "running"
     THEN ReleaseExecution(x, [e EXCEPT !.abandoned = FALSE])
     ELSE Only(x, Over(e))

\* The renewal failed, or the expiry watchdog went off.
LoseLease(x) ==
  /\ local[x].timed
  /\ Put(x, [Lost(local[x]) EXCEPT !.timed = FALSE])
  /\ UNCHANGED <<store, registries, shutdown, failures>>

-----------------------------------------------------------------------------
(* Cancelling.                                                             *)

\* The deadline or the signal of the request: the driver will notice.
AbortRun(x) ==
  /\ x \in Registered /\ ~ local[x].aborted
  /\ Put(x, [local[x] EXCEPT !.aborted = TRUE])
  /\ UNCHANGED <<store, registries, shutdown, failures>>

\* cancelExecution by somebody else than the driver; one at a time.
Cancelled(e) ==
  IF e.status \in Terminal \/ e.canceller = "committing" THEN e
  ELSE [e EXCEPT !.status = "cancelled", !.canceller = "committing",
                 !.cancellation = Sent(e, "cancelled", "cancelled")]

CancelRun(r) ==
  LET x == activeRuns[r]
      e == [local[x] EXCEPT !.aborted = TRUE]
  IN
  /\ x # None /\ ~ local[x].aborted
  /\ Put(x, IF e.phase \in Advancing THEN e ELSE Cancelled(e))
  /\ UNCHANGED <<store, registries, shutdown, failures>>

CancellationAnswered(x) ==
  LET e == local[x]
      answer == e.cancellation.phase
  IN
  /\ e.canceller = "committing" /\ answer \notin {"none", "sent"}
  /\ IF answer = "accepted"
     THEN /\ Put(x, [e EXCEPT !.canceller = "releasing", !.timed = FALSE])
          /\ Deregister(x)
     ELSE Only(x, [(IF answer = "refused" THEN Lost(e) ELSE e) EXCEPT !.canceller = "done"])
  /\ UNCHANGED <<store, shutdown, failures>>

CancellationReleased(x) ==
  /\ local[x].canceller = "releasing"
  /\ ReleaseLease(x)
  /\ Only(x, [local[x] EXCEPT !.canceller = "done"])

-----------------------------------------------------------------------------
(* Shutting down.                                                          *)

BeginShutdown ==
  /\ shutdown.phase = "open"
  /\ shutdown' = [shutdown EXCEPT !.phase = IF IsIdle THEN "returned" ELSE "draining"]
  /\ UNCHANGED <<store, local, registries, failures>>

\* Shutting down looks at the runs one after the other and waits for each it
\* cancels.  It passes over the ones somebody advances and the ended ones.
PassedOver(e) == e.phase \in Advancing \/ (~ e.leaseLost /\ e.status \in Terminal)

\* With the lease lost, cancelling comes down to a release.
BeginCancelling(x, states) ==
  LET e == states[x] IN
  IF e.leaseLost
  THEN /\ local' = [states EXCEPT ![x].canceller = "releasing", ![x].timed = FALSE]
       /\ Deregister(x)
  ELSE local' = [states EXCEPT ![x] = Cancelled(e)] /\ UNCHANGED registries

CancelNext(todo, states) ==
  LET passable == {x \in todo : PassedOver(states[x])} IN
  /\ \/ \E x \in todo \ passable, passed \in SUBSET passable :
          /\ shutdown' = [phase |-> "cancelling", timedOut |-> TRUE,
                          todo |-> todo \ (passed \cup {x}), cancelling |-> x]
          /\ BeginCancelling(x, states)
     \/ /\ passable = todo
        /\ shutdown' = [phase |-> IF IsIdle THEN "returned" ELSE "cleaning",
                        timedOut |-> TRUE, todo |-> {}, cancelling |-> None]
        /\ local' = states /\ UNCHANGED registries
  /\ UNCHANGED <<store, failures>>

GraceExpires ==
  /\ shutdown.phase = "draining"
  /\ CancelNext(Registered, [x \in Executions |->
                  IF x \in Registered THEN [local[x] EXCEPT !.aborted = TRUE] ELSE local[x]])

GoOnCancelling ==
  /\ shutdown.phase = "cancelling" /\ local[shutdown.cancelling].canceller = "done"
  /\ CancelNext(shutdown.todo, local)

\* Mutant: cleaning up has no deadline.
CleanupWaits ==
  /\ shutdown.phase = "cleaning" /\ IsIdle
  /\ shutdown' = [shutdown EXCEPT !.phase = "returned"]
  /\ UNCHANGED <<store, local, registries, failures>>

CleanupExpires ==
  /\ shutdown.phase = "cleaning"
  /\ shutdown' = [shutdown EXCEPT !.phase = "returned"]
  /\ UNCHANGED <<store, local, registries, failures>>

-----------------------------------------------------------------------------
Caller(x) ==
  \/ Authorize(x) \/ ReserveSession(x) \/ Create(x)
  \/ ReadRun(x) \/ CheckSession(x) \/ AcquireLease(x) \/ Resumed(x)
  \/ SendCommit(x) \/ Fail(x) \/ Accepted(x) \/ Rejected(x) \/ Released(x)
  \/ Execute(x, "flight") \/ Execute(x, "cancellation")
  \/ CancellationAnswered(x) \/ CancellationReleased(x)

Host(x) ==
  \/ \E r \in Runs : AdmitStart(x, r) \/ AdmitResume(x, r)
  \/ Advance(x) \/ Abandon(x) \/ AbortRun(x) \/ LoseLease(x)

Next ==
  \/ \E x \in Executions : Caller(x) \/ Host(x)
  \/ \E r \in Runs : CancelRun(r) \/ ExpireLease(r)
  \/ \E r \in Runs, status \in Active \cup Terminal : ChangeElsewhere(r, status)
  \/ BeginShutdown \/ GraceExpires \/ GoOnCancelling \/ CleanupExpires

Spec == Init /\ [][Next]_vars

\* Store calls answer, abandoned and background runs go on, timers go off; a
\* consumer may hold its stream for ever.
FairSpec ==
  /\ Spec
  /\ \A x \in Executions : WF_vars(Caller(x))
  /\ WF_vars(GraceExpires) /\ WF_vars(GoOnCancelling) /\ WF_vars(CleanupExpires)
-----------------------------------------------------------------------------
(* Properties.                                                             *)

TypeOK ==
  /\ stored \in [Runs -> [status : {"absent"} \cup Active \cup Terminal, revision : Nat]]
  /\ lease \in [Runs -> Executions \cup {None}]
  /\ said \in [Runs -> SUBSET Terminal] /\ history \subseteq Runs
  /\ local \in [Executions -> Execution]
  /\ activeRuns \in [Runs -> Executions \cup {None}]
  /\ activeSessions \subseteq Sessions
  /\ pendingStarts \in 0 .. Cardinality(Executions)
  /\ shutdown \in [phase : {"open", "draining", "cancelling", "cleaning", "returned"},
                   timedOut : BOOLEAN, todo : SUBSET Executions,
                   cancelling : Executions \cup {None}]
  /\ failures \in 0 .. MaxFailures

\* Concurrent starts and resumptions never pass the limit together, whatever
\* their rejections and exceptions give back.
AdmissionIsBounded == Running + pendingStarts <= MaxActiveRuns

\* Whoever advances a run is the one cancelRun and shutdown find for it.
WorkersAreFindable ==
  \A x \in Executions : local[x].phase \in Driving => activeRuns[local[x].run] = x

\* The stored status and the stored events tell the same story: one terminal
\* event, the one of the status.
EventsTellTheStatus ==
  \A r \in Runs : said[r] = {stored[r].status} \cap Terminal

\* Only a completed interaction is in the history of its session, however
\* completion races with cancellation.
HistoryIsOfCompletedRuns == \A r \in history : stored[r].status = "completed"

\* No consumer has held a run between its events so far.
Backgrounded == \A x \in Executions : ~ local[x].streamed

\* The limit of active runs holds while starts wait for the store. A process
\* that runs one at a time, in the background, has whoever works on a run in the
\* registries that cancelRun and shutdown look into, until a shutdown runs out
\* of its grace.
WorkIsAdmittedAndFindable ==
  /\ AdmissionIsBounded
  /\ Backgrounded /\ MaxActiveRuns = 1 /\ ~ shutdown.timedOut => WorkersAreFindable

\* What is stored agrees: the history of a session and the stored status of its
\* runs always, the terminal events and the status as long as no run is streamed.
StoreTellsOneStory ==
  HistoryIsOfCompletedRuns /\ (Backgrounded => EventsTellTheStatus)

\* A run that was cancelled does not affect the next prompt.
CancelledRunsStayOutOfHistory == \A r \in history : "cancelled" \notin said[r]

\* Once no stored run reserves a session and nobody here works for it, this
\* process accepts a new run in it.
Busy(x) ==
  local[x].phase \notin {"idle", "done"} \/ local[x].canceller \in {"committing", "releasing"}

SettledRunsFreeTheirSession ==
  \A s \in activeSessions :
    Reserved(s) \/ \E x \in Executions : local[x].run # None /\ Home(x) = s /\ Busy(x)

\* A shutdown that did not time out leaves no run at work.
ShutdownDrains ==
  shutdown.phase = "returned" /\ ~ shutdown.timedOut =>
    \A x \in Executions : local[x].phase \notin Driving

\* A stored terminal run stays as it is.
TerminalIsFinal ==
  [][\A r \in Runs : stored[r].status \in Terminal => stored'[r] = stored[r]]_vars

\* A shutdown comes back, although the runs it waits for may never end.
ShutdownReturns == Closed ~> shutdown.phase = "returned"
-----------------------------------------------------------------------------
(* The inductive invariant.                                                *)

Started == Driving \cup {"releasing", "done"}

\* The starts and resumptions on their way.
Pending == {x \in Executions : local[x].phase \in Starting \cup Resuming}

\* An execution is made once; whoever cancels it found it registered.
HasForm(e) ==
  /\ e.phase = "idle" => e = IdleExecution
  /\ e.phase # "idle" => e.run \in Runs
  /\ e.canceller # "none" \/ e.cancellation.phase # "none" => e.phase \in Started
  /\ e.flight.phase = "sent" =>
       e.phase = "committing" \/ (e.phase = "resuming" /\ e.flight.event = "progress")

\* Nobody knows, or expects, a revision the store has not reached.
IsBehind(e, s) ==
  /\ e.revision <= s.revision
  /\ e.flight.phase = "sent" => e.flight.expected <= e.revision
  /\ e.cancellation.phase = "sent" => e.cancellation.expected <= e.revision
  /\ e.phase \in Starting => s.status = "absent"
  /\ e.phase \in {"located", "acquiring"} => s.status # "absent"

\* Who has no commit left to send.
IsOver(e) ==
  /\ e.status \in Terminal
  /\ \/ e.phase \in {"releasing", "done"}
     \/ e.phase = "committing" /\ e.flight.phase # "sent" /\ e.flight.event \in Terminal
  /\ e.cancellation.phase = "sent" => e.cancellation.expected < e.revision

\* Who knows the last revision of a run in the history ended the run itself.
LeavesHistory(e, s, completed) ==
  /\ e.flight.phase = "sent" /\ e.flight.event = "completed" =>
       e.status = "completed" /\ e.flight.status = "completed"
  /\ e.cancellation.phase = "sent" => e.cancellation.event = "cancelled"
  /\ completed /\ e.revision = s.revision => IsOver(e)

\* In the background nobody cancels an execution that its driver still advances,
\* so that a commit tells what the execution is.
IsAlone(e, s) ==
  /\ e.phase # "yielded" /\ ~ e.abandoned
  /\ e.canceller = "committing" \/ e.cancellation.phase = "sent" =>
       e.phase = "done" /\ e.status = "cancelled"
  /\ e.cancellation.phase = "sent" => e.cancellation.status = "cancelled"
  /\ e.phase \in {"working", "resuming"} => e.status = "running"
  /\ e.phase \in {"committing", "resuming"} =>
       /\ e.flight.status = e.status
       /\ e.flight.event = IF e.status = "running" THEN "progress" ELSE e.status
  /\ s.status \in Terminal /\ e.revision = s.revision => IsOver(e)

\* The registries of a process that runs one at a time: who advances or cancels
\* a run is registered for it, whoever is about to register finds the session
\* free, and no two runs of one session are registered.
IsReserved(x) ==
  LET e == local[x] IN
  /\ e.phase \in Driving \/ e.canceller = "committing" => activeRuns[e.run] = x
  /\ e.phase \in {"acquiring", "resuming"} => Home(x) \notin activeSessions
  /\ e.phase = "creating" =>
       /\ Home(x) \in activeSessions
       /\ \A r \in Runs : activeRuns[r] # None => HomeOf[r] # Home(x)

FormInv ==
  /\ TypeOK
  /\ pendingStarts = Cardinality(Pending)
  /\ \A x \in Executions : HasForm(local[x])
  /\ \A r \in Runs : LET x == activeRuns[r] IN
       x # None => local[x].run = r /\ local[x].phase \in Started
  /\ \A x \in shutdown.todo : local[x].phase \in Started
  /\ shutdown.cancelling # None => local[shutdown.cancelling].phase \in Started
  /\ shutdown.phase = "cancelling" => shutdown.cancelling # None
  /\ shutdown.phase \in {"cancelling", "cleaning"} => shutdown.timedOut

StoreInv ==
  /\ \A r \in Runs :
       IF stored[r].status = "absent"
       THEN stored[r].revision = 0 /\ said[r] = {} /\ r \notin history /\ lease[r] = None
       ELSE stored[r].revision > 0
  /\ \A x \in Executions : ~ In(x, "idle") => IsBehind(local[x], stored[local[x].run])
  /\ \A x, y \in Executions :
       local[x].phase \in Starting /\ local[y].run = local[x].run => x = y

HistoryInv ==
  /\ HistoryIsOfCompletedRuns
  /\ \A x \in Executions : ~ In(x, "idle") =>
       LeavesHistory(local[x], stored[local[x].run], local[x].run \in history)

BackgroundInv ==
  Backgrounded =>
    /\ EventsTellTheStatus
    /\ \A x \in Executions : ~ In(x, "idle") => IsAlone(local[x], stored[local[x].run])

RegistryInv ==
  Backgrounded /\ MaxActiveRuns = 1 /\ ~ shutdown.timedOut =>
    /\ \A x \in Executions : IsReserved(x)
    /\ \A r \in Runs : activeRuns[r] # None => HomeOf[r] \in activeSessions
    /\ \A q, r \in Runs :
         activeRuns[q] # None /\ activeRuns[r] # None /\ HomeOf[q] = HomeOf[r] => q = r

RuntimeInv ==
  FormInv /\ StoreInv /\ HistoryInv /\ BackgroundInv /\ AdmissionIsBounded /\ RegistryInv
=============================================================================
