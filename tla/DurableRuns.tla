----------------------------- MODULE DurableRuns -----------------------------
(***************************************************************************)
(* Agent runs over the durable store, seen from the lease tokens that      *)
(* drive them.  Each start, resume, recovery or out-of-band cancellation   *)
(* draws a fresh owner id, so one element of Owners is one attempt of one  *)
(* process to work on one run, with everything that attempt has read:      *)
(* snapshots that may be stale by the time it uses them.                   *)
(*                                                                         *)
(* A store call is one step, but the steps of an attempt interleave with   *)
(* every other attempt at each await.  A call may also fail without effect *)
(* or lose its answer after taking effect, a renewal may arrive late, and  *)
(* a process may crash anywhere.  The attempts are those of different      *)
(* processes: the registries one process keeps only refuse more, and are   *)
(* the subject of module RuntimeProcess.                                  *)
(***************************************************************************)
EXTENDS RunStore

CONSTANTS
  NoRun,        \* the run of an attempt that has none
  LeaseTerm,    \* LEASE_MS
  MaxNow,       \* bound on the clock
  MaxPosition,  \* bound on the checkpoint positions of a run
  MaxEvents     \* bound on the events of a run

ASSUME ConstantsAssumption ==
  /\ LeaseTerm \in Nat \ {0}
  /\ MaxNow \in Nat /\ MaxPosition \in Nat /\ MaxEvents \in Nat
  /\ NoRun \notin Runs /\ NoSession \notin Sessions /\ NoOwner \notin Owners

VARIABLES
  exec,      \* owner id -> what that attempt holds in memory
  minted     \* run and session ids crypto.randomUUID has already returned

vars == <<storeVars, exec, minted>>

Phases == {"idle", "creating", "compacting", "located", "checked", "contending",
           "leased", "caughtUp", "owning", "releasing", "done"}

ExecRecord == [phase : Phases, run : Runs \cup {NoRun},
               session : Sessions \cup {NoSession}, cancels : BOOLEAN,
               revision : Nat, status : Active \cup Terminal, position : Nat,
               snapshot : SessionRecord, sequence : Nat,
               generation : Nat, expires : Nat, renewal : Nat]

IdleExec == [phase |-> "idle", run |-> NoRun, session |-> NoSession, cancels |-> FALSE,
             revision |-> 0, status |-> "running", position |-> 0,
             snapshot |-> AbsentSession, sequence |-> 0,
             generation |-> 0, expires |-> 0, renewal |-> 0]

\* What is left of an attempt that will not commit again: its lease token.
Token(e) == [IdleExec EXCEPT !.phase = "releasing", !.run = e.run,
                             !.generation = e.generation, !.renewal = e.renewal]

\* The attempt is over; only a renewal already on its way keeps the token.
Retired(e) == IF e.renewal = 0 THEN [IdleExec EXCEPT !.phase = "done"]
              ELSE [Token(e) EXCEPT !.phase = "done"]

Init ==
  /\ StoreInit
  /\ exec = [o \in Owners |-> IdleExec]
  /\ minted = {}

Become(o, e) == exec' = [exec EXCEPT ![o] = e]
In(o, phase) == exec[o].phase = phase

-----------------------------------------------------------------------------
(* Starting a run: read the session, then create the execution.            *)

Prepared(r, s) ==
  [IdleExec EXCEPT !.phase = "creating", !.run = r, !.session = s,
                   !.snapshot = session[s], !.expires = now + LeaseTerm]

PrepareNewSession(o, r, s) ==
  /\ In(o, "idle")
  /\ r \notin minted /\ s \notin minted
  /\ minted' = minted \cup {r, s}
  /\ Become(o, Prepared(r, s))
  /\ UNCHANGED storeVars

PrepareKnownSession(o, r, s) ==
  /\ In(o, "idle")
  /\ session[s].revision > 0
  /\ r \notin minted
  /\ minted' = minted \cup {r}
  /\ Become(o, Prepared(r, s))
  /\ UNCHANGED storeVars

\* The expiry was computed between the session read and the arrival of the
\* call.  An unanswered creation leaves a running run nobody drives.
Create(o) ==
  LET e == exec[o]
      allowed == CreateAllowed(e.run, e.session, e.snapshot.revision)
  IN
  /\ In(o, "creating")
  /\ UNCHANGED minted
  /\ \/ /\ allowed
        /\ \E expires \in e.expires .. (now + LeaseTerm) :
             /\ CreateExecution(e.run, e.session, e.snapshot, o, expires)
             /\ \/ Become(o, [e EXCEPT !.phase = "owning", !.revision = 1,
                                       !.status = "running", !.position = 1, !.sequence = 1,
                                       !.generation = 1, !.expires = expires,
                                       !.snapshot = StoredSession(@)])
                \/ Become(o, Retired(e))
     \/ /\ Become(o, Retired(e))
        /\ UNCHANGED storeVars

-----------------------------------------------------------------------------
(* Rewriting the history of a session as a summary (compactSession).       *)

ReadForCompaction(o, s) ==
  /\ In(o, "idle")
  /\ session[s].revision > 0
  /\ Become(o, [IdleExec EXCEPT !.phase = "compacting", !.session = s,
                                !.snapshot = session[s]])
  /\ UNCHANGED <<storeVars, minted>>

SaveCompaction(o) ==
  LET e == exec[o] IN
  /\ In(o, "compacting")
  /\ Become(o, Retired(e))
  /\ \/ /\ SaveSessionAllowed(e.session, e.snapshot.revision)
        /\ SaveSession(e.session, e.snapshot)
     \/ UNCHANGED storeVars
  /\ UNCHANGED minted

-----------------------------------------------------------------------------
(* Taking a stored run over: the run, the checkpoint and the session are   *)
(* read before the lease is asked for; the events after it is granted.     *)

\* Mutant: a run that is over, or not there, is taken over.
LocateAny(o, r) ==
  /\ In(o, "idle")
  /\ Become(o, [IdleExec EXCEPT !.phase = "located", !.run = r,
                                !.session = run[r].session,
                                !.revision = run[r].revision,
                                !.status = run[r].status])
  /\ UNCHANGED <<storeVars, minted>>

Locate(o, r) ==
  /\ In(o, "idle")
  /\ run[r].status \in Active
  /\ Become(o, [IdleExec EXCEPT !.phase = "located", !.run = r,
                                !.session = run[r].session,
                                !.revision = run[r].revision,
                                !.status = run[r].status])
  /\ UNCHANGED <<storeVars, minted>>

ReadCheckpoint(o) ==
  LET e == exec[o] IN
  /\ In(o, "located")
  /\ Become(o, IF checkpoint[e.run] = 0 THEN Retired(e)
               ELSE [e EXCEPT !.phase = "checked", !.position = checkpoint[e.run]])
  /\ UNCHANGED <<storeVars, minted>>

ReadSession(o) ==
  LET e == exec[o] IN
  /\ In(o, "checked")
  /\ Become(o, IF session[e.session].revision = 0 THEN Retired(e)
               ELSE [e EXCEPT !.phase = "contending", !.snapshot = session[e.session],
                              !.expires = now + LeaseTerm])
  /\ UNCHANGED <<storeVars, minted>>

\* cancelStoredAgent needs neither checkpoint nor session for its commit.
LocateToCancel(o) ==
  LET e == exec[o] IN
  /\ In(o, "located")
  /\ Become(o, [e EXCEPT !.phase = "contending", !.cancels = TRUE,
                         !.expires = now + LeaseTerm])
  /\ UNCHANGED <<storeVars, minted>>

Acquire(o) ==
  LET e == exec[o] IN
  /\ In(o, "contending")
  /\ UNCHANGED minted
  /\ \/ /\ AcquireAllowed(e.run)
        /\ AcquireLease(e.run, o, e.expires)
        /\ \/ Become(o, [e EXCEPT !.phase = "leased",
                                  !.generation = lease[e.run].generation + 1])
           \/ Become(o, Retired(e))
     \/ /\ Become(o, Retired(e))
        /\ UNCHANGED storeVars

\* Mutant: the numbering of the events starts again.
ReadEventsAfresh(o) ==
  /\ In(o, "leased")
  /\ Become(o, [exec[o] EXCEPT !.phase = "caughtUp", !.sequence = 0])
  /\ UNCHANGED <<storeVars, minted>>

ReadEvents(o) ==
  LET e == exec[o]
      stored == events[e.run]
  IN
  /\ In(o, "leased")
  /\ Become(o, [e EXCEPT !.phase = "caughtUp",
                         !.sequence = IF stored = <<>> THEN 0 ELSE stored[Len(stored)]])
  /\ UNCHANGED <<storeVars, minted>>

-----------------------------------------------------------------------------
(* Commits.  createEvent advances the local sequence before the store is   *)
(* asked; commitExecution answers true, answers false (ownership or        *)
(* revision lost: stop and release), or throws, with or without having     *)
(* been applied.                                                           *)

CommitOf(o, status, position, withSession, eventCount) ==
  LET e == exec[o] IN
  [run |-> e.run, expectedRevision |-> e.revision,
   owner |-> o, generation |-> e.generation, status |-> status,
   checkpoint |-> position, session |-> withSession,
   events |-> IF eventCount = 0 THEN <<>> ELSE <<e.sequence + 1>>]

\* The attempt after an answer, and after an exception, which has only moved
\* the local sequence; both go on working or turn to releasing the lease.
Answered(o, c) ==
  LET e == exec[o] IN
  [e EXCEPT !.phase = "owning", !.revision = e.revision + 1, !.status = c.status,
            !.sequence = e.sequence + Len(c.events),
            !.position = IF c.checkpoint = {} THEN @ ELSE Only(c.checkpoint),
            !.snapshot = IF c.session = {} THEN @ ELSE StoredSession(Only(c.session))]

Thrown(o, c) == [exec[o] EXCEPT !.phase = "owning", !.sequence = @ + Len(c.events)]

CommitStep(o, c, answered, refused, thrown) ==
  /\ UNCHANGED minted
  /\ \/ /\ CommitAllowed(c)
        /\ CommitExecution(c)
        /\ Become(o, answered) \/ Become(o, thrown)
     \/ /\ ~ CommitAllowed(c)
        /\ Become(o, refused)
        /\ UNCHANGED storeVars
     \/ /\ Become(o, thrown)
        /\ UNCHANGED storeVars

\* A commit the attempt means to continue after, and one it ends with.
Continue(o, c) == CommitStep(o, c, Answered(o, c), Token(exec[o]), Thrown(o, c))
Conclude(o, c) == CommitStep(o, c, Token(exec[o]), Token(exec[o]), Token(exec[o]))

\* Recovery and resumption write the checkpoint they read back with the run;
\* if the commit throws they release the lease.
TakeOver(o) ==
  LET c == CommitOf(o, "running", {exec[o].position}, {}, 1) IN
  /\ In(o, "caughtUp") /\ ~ exec[o].cancels
  /\ CommitStep(o, c, Answered(o, c), Token(exec[o]), Token(exec[o]))

\* A stored run is cancelled, or the resolution rejects its approval.
TakeOverToCancel(o) ==
  /\ In(o, "caughtUp")
  /\ exec[o].cancels \/ exec[o].status = "paused"
  /\ Conclude(o, CommitOf(o, "cancelled", {0}, {}, 1))

EmitEvent(o) ==
  /\ In(o, "owning")
  /\ exec[o].sequence < MaxEvents
  /\ Continue(o, CommitOf(o, "running", {}, {}, 1))

SaveProgress(o) ==
  /\ In(o, "owning")
  /\ exec[o].position < MaxPosition
  /\ Continue(o, CommitOf(o, "running", {exec[o].position + 1}, {}, 0))

\* In-run compaction stores the summary and the checkpoint in one commit.
CompactInRun(o) ==
  /\ In(o, "owning")
  /\ exec[o].position < MaxPosition /\ exec[o].sequence < MaxEvents
  /\ Continue(o, CommitOf(o, "running", {exec[o].position + 1}, {exec[o].snapshot}, 1))

Pause(o) ==
  /\ In(o, "owning")
  /\ exec[o].position < MaxPosition /\ exec[o].sequence < MaxEvents
  /\ Conclude(o, CommitOf(o, "paused", {exec[o].position + 1}, {}, 1))

\* Completion pushes the interaction and commits it with the session.
Complete(o) ==
  LET e == exec[o] IN
  /\ In(o, "owning")
  /\ Conclude(o, CommitOf(o, "completed", {0},
                          {[e.snapshot EXCEPT !.history = @ \cup {e.run}]}, 1))

\* Mutant: the checkpoint of a run that ends is not deleted.
AbandonResumably(o, status) ==
  /\ In(o, "owning")
  /\ CommitStep(o, CommitOf(o, status, {}, {}, 1),
                Token(exec[o]), Token(exec[o]), Token(exec[o]))

\* Failing releases the lease even when the commit does not go through;
\* cancelling then leaves the lease to expire.
Abandon(o, status) ==
  LET unsaved == IF status = "cancelled" THEN Retired(exec[o]) ELSE Token(exec[o]) IN
  /\ In(o, "owning")
  /\ CommitStep(o, CommitOf(o, status, {0}, {}, 1), Token(exec[o]), unsaved, unsaved)

-----------------------------------------------------------------------------
(* Keeping and giving back the lease.                                      *)

\* The timer computes the new expiry when it fires; one renewal at a time.
IssueRenewal(o) ==
  /\ In(o, "owning")
  /\ exec[o].renewal = 0
  /\ exec[o].expires < now + LeaseTerm
  /\ Become(o, [exec[o] EXCEPT !.renewal = now + LeaseTerm])
  /\ UNCHANGED <<storeVars, minted>>

\* The renewal reaches the store whenever it does, even after the release;
\* its answer matters only while the attempt still runs.
ApplyRenewal(o) ==
  LET e == exec[o]
      answered == [e EXCEPT !.renewal = 0]
      renewed == IF e.phase = "owning" THEN [answered EXCEPT !.expires = e.renewal]
                 ELSE IF e.phase = "done" THEN Retired(answered) ELSE answered
      lost == IF e.phase = "owning" THEN Token(answered)
              ELSE IF e.phase = "done" THEN Retired(answered) ELSE answered
  IN
  /\ e.renewal # 0
  /\ UNCHANGED minted
  /\ \/ /\ LeaseValid(e.run, o, e.generation)
        /\ RenewLease(e.run, e.renewal)
        /\ Become(o, renewed) \/ Become(o, lost)
     \/ /\ Become(o, lost)
        /\ UNCHANGED storeVars

\* The expiry watchdog: the lease this attempt knows of has run out.
LoseLease(o) ==
  /\ In(o, "owning")
  /\ exec[o].expires <= now
  /\ Become(o, Token(exec[o]))
  /\ UNCHANGED <<storeVars, minted>>

\* Best effort: the call may fail, the attempt is over either way.
Release(o) ==
  LET e == exec[o] IN
  /\ In(o, "releasing")
  /\ Become(o, Retired(e))
  /\ \/ ReleaseLease(e.run, o, e.generation)
     \/ UNCHANGED storeVars
  /\ UNCHANGED minted

\* Elsewhere a crash is an attempt that never takes its next step.
Crash(o) ==
  /\ In(o, "owning")
  /\ Become(o, Retired(exec[o]))
  /\ UNCHANGED <<storeVars, minted>>

Purge(R) ==
  /\ R # {}
  /\ PurgeRuns(R)
  /\ UNCHANGED <<exec, minted>>

Tick ==
  /\ now < MaxNow
  /\ now' = now + 1
  /\ UNCHANGED <<run, session, checkpoint, lease, events, exec, minted>>

-----------------------------------------------------------------------------
Attempt(o) ==
  \/ \E r \in Runs, s \in Sessions : PrepareNewSession(o, r, s)
  \/ \E r \in Runs, s \in Sessions : PrepareKnownSession(o, r, s)
  \/ Create(o)
  \/ \E s \in Sessions : ReadForCompaction(o, s)
  \/ SaveCompaction(o)
  \/ \E r \in Runs : Locate(o, r)
  \/ ReadCheckpoint(o) \/ ReadSession(o) \/ LocateToCancel(o)
  \/ Acquire(o) \/ ReadEvents(o) \/ TakeOver(o) \/ TakeOverToCancel(o)
  \/ EmitEvent(o) \/ SaveProgress(o) \/ CompactInRun(o) \/ Pause(o) \/ Complete(o)
  \/ \E status \in {"failed", "cancelled"} : Abandon(o, status)
  \/ IssueRenewal(o) \/ ApplyRenewal(o) \/ LoseLease(o) \/ Release(o) \/ Crash(o)

Next ==
  \/ \E o \in Owners : Attempt(o)
  \/ \E R \in SUBSET Purgeable : Purge(R)
  \/ Tick

Spec == Init /\ [][Next]_vars
-----------------------------------------------------------------------------
(* Properties.                                                             *)

TypeOK ==
  /\ StoreTypeOK
  /\ exec \in [Owners -> ExecRecord]
  /\ minted \subseteq (Runs \cup Sessions)

\* A session is the reservation of at most one running or paused run, whatever
\* stale snapshots the starts, takeovers and history rewrites race with.
OneActiveRunPerSession ==
  \A s \in Sessions : \A r1, r2 \in Runs :
    Holds(r1, s) /\ Holds(r2, s) => r1 = r2

\* Optimistic concurrency on the session never loses an interaction: the
\* history accounts for every stored completed run of the session, and for
\* nothing that did not complete.
HistoryIsTheCompletedRuns ==
  /\ \A r \in Runs : run[r].status = "completed" => r \in session[run[r].session].history
  /\ \A s \in Sessions : \A r \in session[s].history :
       run[r].status \in {"completed", "absent"}

\* A run can be taken over exactly as long as it is active: it then has a
\* checkpoint, and a terminal run has none.
CheckpointIffActive ==
  \A r \in Runs : checkpoint[r] # 0 <=> run[r].status \in Active

\* Event sequence numbers are increasing along a run: two attempts never
\* append the same number and none appends behind what a reader has seen.
EventsIncrease ==
  \A r \in Runs : \A i, j \in DOMAIN events[r] :
    i < j => events[r][i] < events[r][j]

\* With one clock, at most one attempt works on a run believing that its lease
\* has not run out: late renewals and lost answers never create a second one.
Believes(o) == In(o, "owning") /\ exec[o].expires > now

OneBelieverPerRun ==
  \A o1, o2 \in Owners :
    Believes(o1) /\ Believes(o2) /\ exec[o1].run = exec[o2].run => o1 = o2

\* A terminal run never changes again, except by being purged.
TerminalIsFinal ==
  [][\A r \in Runs : run[r].status \in Terminal => run'[r] \in {run[r], AbsentRun}]_vars

\* No takeover, resumption or late commit sends an active run back behind its
\* last checkpoint.
CheckpointsAdvance ==
  [][\A r \in Runs : run[r].status \in Active /\ run'[r].status \in Active
       => checkpoint'[r] >= checkpoint[r]]_vars

\* From the acquisition of the lease to the commit that takes the run over, an
\* unexpired lease keeps everybody else from changing the run, the attempt that
\* lost it included: what was read is what the takeover replaces.
TakingOver(o) ==
  /\ exec[o].phase \in {"leased", "caughtUp"}
  /\ run[exec[o].run].revision = exec[o].revision
  /\ LeaseValid(exec[o].run, o, exec[o].generation)

TakeoversAreNotOvertaken ==
  [][\A o \in Owners : TakingOver(o) /\ exec'[o] = exec[o]
       => run'[exec[o].run] = run[exec[o].run]]_vars

\* A purged session does not come back with the history it had: a session that
\* is not stored is only ever stored again as a new, empty one.
SessionsAreBornEmpty ==
  [][\A s \in Sessions : session[s].revision = 0
       => session'[s] \in {AbsentSession, [revision |-> 1, history |-> {}]}]_vars
-----------------------------------------------------------------------------
(* The run store and its attempts implement the reservation of sessions.   *)

Standing(r) ==
  CASE run[r].status \in Active                  -> "active"
    [] run[r].status \in {"failed", "cancelled"} -> "abandoned"
    [] OTHER                                     -> run[r].status

Reservation == INSTANCE SessionReservation
  WITH standing <- [r \in Runs |-> Standing(r)],
       home     <- [r \in Runs |-> run[r].session],
       history  <- [s \in Sessions |-> session[s].history]

\* Every interleaving of stale starts, takeovers, lost answers and purges is,
\* seen through the stored runs and histories, one of reserve, complete,
\* abandon and forget.
ReservesSessions == Reservation!Spec

-----------------------------------------------------------------------------
(* What makes the invariants inductive.                                    *)

\* The attempts that hold a view of a run that exists.
Following == {"located", "checked", "contending", "leased", "caughtUp", "owning"}

\* An attempt that will use a run or a session has one, and a stored run has
\* a session and a positive revision.
IsEngaged(e) ==
  /\ e.phase \in Following \cup {"creating", "releasing"} \/ e.renewal # 0
       => e.run \in Runs
  /\ e.phase \in Following \cup {"creating", "compacting"} => e.session \in Sessions

Engaged == \A o \in Owners : IsEngaged(exec[o])

StoredRunsAreWhole ==
  \A r \in Runs :
    /\ run[r].status = "absent" <=> run[r].revision = 0
    /\ run[r].status # "absent" => run[r].session \in Sessions

WellFormed == TypeOK /\ Engaged /\ StoredRunsAreWhole

\* Ids are drawn once: a run that is to be created is not in use anywhere.
CreatedOnce ==
  /\ \A r \in Runs : r \notin minted => run[r].status = "absent"
  /\ \A o \in Owners : exec[o].run \in Runs => exec[o].run \in minted
  /\ \A o, p \in Owners : exec[o].phase = "creating" =>
       /\ run[exec[o].run].status = "absent"
       /\ p # o => exec[p].run # exec[o].run

\* A view at the stored revision is the stored run; an older one is behind.
ViewsAreAccurate ==
  \A o \in Owners : exec[o].phase \in Following =>
    LET stored == run[exec[o].run] IN
    /\ exec[o].revision > 0 /\ exec[o].status \in Active
    /\ stored.status # "absent" => exec[o].revision <= stored.revision
    /\ stored.revision = exec[o].revision =>
         stored.status = exec[o].status /\ stored.session = exec[o].session

ReservationInv ==
  /\ WellFormed
  /\ CreatedOnce
  /\ ViewsAreAccurate
  /\ OneActiveRunPerSession

\* The attempts that may still write the session they read.
HasSnapshot(e) ==
  \/ e.phase \in {"creating", "compacting", "owning"}
  \/ e.phase \in {"contending", "leased", "caughtUp"} /\ ~ e.cancels

\* A session id is drawn once, and a session that is not stored is empty.
SessionsAreWhole ==
  \A s \in Sessions : /\ session[s].revision = 0 => session[s].history = {}
                      /\ s \notin minted => session[s].revision = 0

\* A snapshot at the stored revision is the stored session, an older one is
\* behind, until the session is purged for good; only a start that draws the
\* session's id has a snapshot of a session that was never stored.
SnapshotsAreAccurate ==
  \A o \in Owners : HasSnapshot(exec[o]) =>
    LET stored == session[exec[o].session]
        read   == exec[o].snapshot
    IN
    /\ exec[o].session \in minted
    /\ stored.revision # 0 => read.revision <= stored.revision
    /\ stored.revision = read.revision => stored.history = read.history
    /\ read.revision = 0 => In(o, "creating") /\ stored.revision = 0

\* Nobody else has a snapshot of a session that was never stored.
NewSessionsAreUnshared ==
  \A o, p \in Owners :
    /\ o # p /\ exec[o].session = exec[p].session
    /\ HasSnapshot(exec[o]) /\ HasSnapshot(exec[p])
    => exec[o].snapshot.revision # 0

\* A run whose interaction is in a history is not about to be created.
HistoriesAreSettled ==
  \A s \in Sessions : \A r \in session[s].history :
    r \in minted /\ \A o \in Owners : In(o, "creating") => exec[o].run # r

HistoryInv ==
  /\ ReservationInv
  /\ SessionsAreWhole
  /\ SnapshotsAreAccurate
  /\ NewSessionsAreUnshared
  /\ HistoriesAreSettled
  /\ HistoryIsTheCompletedRuns

\* Whoever believes to hold the lease of a run holds it, for as long as it
\* believes; and a run whose driver holds its lease is active.
BeliefsAreRight ==
  \A o \in Owners : In(o, "owning") =>
    LET e == exec[o] IN
    /\ LeaseValid(e.run, o, e.generation) => run[e.run].status \in Active
    /\ e.expires > now => /\ LeaseValid(e.run, o, e.generation)
                          /\ lease[e.run].expires >= e.expires

\* A lease that was granted, and has not been used yet, is the one that was
\* asked for; it is renewed only once its run was taken over.
GrantsAreKept ==
  \A o \in Owners :
    LET e == exec[o] IN
    /\ e.renewal # 0 => e.phase \in {"owning", "releasing", "done"}
    /\ /\ e.phase \in {"leased", "caughtUp"}
       /\ lease[e.run].owner = o /\ lease[e.run].generation = e.generation
       => e.generation > 0 /\ lease[e.run].expires >= e.expires

BeliefInv == ReservationInv /\ BeliefsAreRight /\ GrantsAreKept

=============================================================================
