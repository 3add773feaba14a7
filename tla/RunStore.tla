------------------------------ MODULE RunStore ------------------------------
(***************************************************************************)
(* The durable run store: its tables of runs, sessions, checkpoints,       *)
(* leases and events, and the operations of the DurableRunStore interface  *)
(* as indivisible steps over them.  Module ToolCalls has the table of tool *)
(* execution records.                                                      *)
(*                                                                         *)
(* The in-memory store runs each operation in one synchronous tick, the    *)
(* SQLite store in one synchronous transaction, the PostgreSQL store in    *)
(* one transaction under row locks; this module is the contract the three  *)
(* share.  The operations are written as tests (CreateAllowed, ...) and    *)
(* updates (CreateExecution, ...) so that the modules that use the store   *)
(* decide what the caller does with the answer.                            *)
(***************************************************************************)
EXTENDS Naturals, Sequences, FiniteSets

CONSTANTS
  Runs,        \* run ids
  Sessions,    \* session ids
  Owners,      \* lease owner ids; the engines draw a fresh one per acquisition
  NoSession,   \* the session of a run that is not stored
  NoOwner      \* the owner of a lease that was never granted

VARIABLES
  now,            \* the clock the store compares expiry times with
  run,            \* run id -> stored run record
  session,        \* session id -> stored session
  checkpoint,     \* run id -> position the checkpoint resumes from, 0 if none
  lease,          \* run id -> stored lease
  events          \* run id -> sequence numbers of the appended events

storeVars == <<now, run, session, checkpoint, lease, events>>

Terminal == {"completed", "failed", "cancelled"}
Active   == {"running", "paused"}

RunRecord == [status   : Active \cup Terminal \cup {"absent"},
              revision : Nat,
              session  : Sessions \cup {NoSession}]

\* The interactions a session's history accounts for, verbatim or through a
\* summary, named by the runs that produced them.  Revision 0: not stored.
SessionRecord == [revision : Nat, history : SUBSET Runs]

LeaseRecord == [owner : Owners \cup {NoOwner}, generation : Nat, expires : Nat]

AbsentRun     == [status |-> "absent", revision |-> 0, session |-> NoSession]
AbsentSession == [revision |-> 0, history |-> {}]
AbsentLease   == [owner |-> NoOwner, generation |-> 0, expires |-> 0]

StoreInit ==
  /\ now = 1
  /\ run = [r \in Runs |-> AbsentRun]
  /\ session = [s \in Sessions |-> AbsentSession]
  /\ checkpoint = [r \in Runs |-> 0]
  /\ lease = [r \in Runs |-> AbsentLease]
  /\ events = [r \in Runs |-> <<>>]

StoreTypeOK ==
  /\ now \in Nat
  /\ run \in [Runs -> RunRecord]
  /\ session \in [Sessions -> SessionRecord]
  /\ checkpoint \in [Runs -> Nat]
  /\ lease \in [Runs -> LeaseRecord]
  /\ events \in [Runs -> Seq(Nat)]

-----------------------------------------------------------------------------
(* What the store tests before it answers true.                            *)

Holds(r, s) == run[r].session = s /\ run[r].status \in Active

SessionBusyExcept(s, except) == \E r \in Runs \ except : Holds(r, s)

\* Mutant: only the expiry is tested, not the owner and the generation.
LeaseValidUnfenced(r, owner, generation) == lease[r].expires > now

LeaseValid(r, owner, generation) ==
  /\ generation > 0
  /\ lease[r].owner = owner
  /\ lease[r].generation = generation
  /\ lease[r].expires > now

\* Mutants: the reservation, or the session's revision, is not tested.
CreateAllowedUnreserved(r, s, sessionRevision) ==
  run[r].status = "absent" /\ session[s].revision = sessionRevision

CreateAllowedUnversioned(r, s, sessionRevision) ==
  run[r].status = "absent" /\ ~ SessionBusyExcept(s, {})

CreateAllowed(r, s, sessionRevision) ==
  /\ run[r].status = "absent"
  /\ ~ SessionBusyExcept(s, {})
  /\ session[s].revision = sessionRevision

\* Mutant: the run's revision is not tested.
CommitAllowedUnversioned(c) ==
  /\ run[c.run].status # "absent"
  /\ LeaseValid(c.run, c.owner, c.generation)
  /\ \A s \in c.session :
       /\ session[run[c.run].session].revision = s.revision
       /\ ~ SessionBusyExcept(run[c.run].session, {c.run})

(* A commit carries what ExecutionCommit carries: the run and its expected *)
(* revision, the lease token, the new status, events, and, each optional,  *)
(* a checkpoint position (0 deletes it) and the session.  An optional      *)
(* field is a set with at most one element.                                *)
CommitAllowed(c) ==
  /\ run[c.run].status # "absent"
  /\ run[c.run].revision = c.expectedRevision
  /\ LeaseValid(c.run, c.owner, c.generation)
  /\ \A s \in c.session :
       /\ session[run[c.run].session].revision = s.revision
       /\ ~ SessionBusyExcept(run[c.run].session, {c.run})

\* Mutant: a lease is granted although another one has not expired.
AcquireAllowedUnexpired(r) == TRUE

AcquireAllowed(r) == lease[r].generation = 0 \/ lease[r].expires <= now

SaveSessionAllowed(s, sessionRevision) ==
  /\ ~ SessionBusyExcept(s, {})
  /\ session[s].revision = sessionRevision

-----------------------------------------------------------------------------
(* What the store writes when the test passed.                             *)

Only(S) == CHOOSE x \in S : TRUE

StoredSession(s) == [revision |-> s.revision + 1, history |-> s.history]

CreateExecution(r, s, snapshot, owner, expires) ==
  /\ run' = [run EXCEPT ![r] = [status |-> "running", revision |-> 1, session |-> s]]
  /\ session' = [session EXCEPT ![s] = StoredSession(snapshot)]
  /\ checkpoint' = [checkpoint EXCEPT ![r] = 1]
  /\ events' = [events EXCEPT ![r] = <<1>>]
  /\ lease' = [lease EXCEPT ![r] =
                 [owner |-> owner, generation |-> 1, expires |-> expires]]
  /\ UNCHANGED now

CommitExecution(c) ==
  LET s == run[c.run].session IN
  /\ run' = [run EXCEPT ![c.run].status = c.status,
                        ![c.run].revision = c.expectedRevision + 1]
  /\ session' = IF c.session = {} THEN session
                ELSE [session EXCEPT ![s] =
                        StoredSession(Only(c.session))]
  /\ checkpoint' = IF c.checkpoint = {} THEN checkpoint
                   ELSE [checkpoint EXCEPT ![c.run] = Only(c.checkpoint)]
  /\ events' = [events EXCEPT ![c.run] = @ \o c.events]
  /\ UNCHANGED <<now, lease>>

AcquireLease(r, owner, expires) ==
  /\ lease' = [lease EXCEPT ![r] = [owner |-> owner,
                                    generation |-> lease[r].generation + 1,
                                    expires |-> expires]]
  /\ UNCHANGED <<now, run, session, checkpoint, events>>

RenewLease(r, expires) ==
  /\ lease' = [lease EXCEPT ![r].expires = expires]
  /\ UNCHANGED <<now, run, session, checkpoint, events>>

\* The generation survives the release, so the next acquisition exceeds it.
ReleaseLease(r, owner, generation) ==
  /\ lease' = IF generation > 0 /\ lease[r].owner = owner
                 /\ lease[r].generation = generation
              THEN [lease EXCEPT ![r].expires = 0]
              ELSE lease
  /\ UNCHANGED <<now, run, session, checkpoint, events>>

SaveSession(s, snapshot) ==
  /\ session' = [session EXCEPT ![s] = StoredSession(snapshot)]
  /\ UNCHANGED <<now, run, checkpoint, lease, events>>

(* purgeRuns deletes the candidates its filter selects (terminal statuses, *)
(* an age, a limit) and then every affected session no stored run uses.    *)
PurgeRuns(R) ==
  LET emptied == {s \in Sessions : /\ \E r \in R : run[r].session = s
                                   /\ \A r \in Runs \ R : run[r].session # s}
  IN /\ run' = [r \in Runs |-> IF r \in R THEN AbsentRun ELSE run[r]]
     /\ checkpoint' = [r \in Runs |-> IF r \in R THEN 0 ELSE checkpoint[r]]
     /\ lease' = [r \in Runs |-> IF r \in R THEN AbsentLease ELSE lease[r]]
     /\ events' = [r \in Runs |-> IF r \in R THEN <<>> ELSE events[r]]
     /\ session' = [s \in Sessions |->
                      IF s \in emptied THEN AbsentSession ELSE session[s]]
     /\ UNCHANGED now

Purgeable == {r \in Runs : run[r].status \in Terminal}
=============================================================================
