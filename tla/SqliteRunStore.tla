--------------------------- MODULE SqliteRunStore ---------------------------
(***************************************************************************)
(* The SQLite run store: every call is one BEGIN IMMEDIATE transaction run *)
(* without an await, so one step.  One session with its runs: a row of the *)
(* sessions table is its revision, 0 when there is none.  What the callers *)
(* know (revisions, generations) is what the store holds or the call fails *)
(* and changes nothing, so the steps below are the calls that succeed.     *)
(***************************************************************************)
EXTENDS Naturals, TLAPS

CONSTANTS Runs,          \* run identifiers
          MaxRevision,   \* the last revision a session or a run reaches
          MaxGeneration  \* the last generation of a lease

ASSUME SqliteAssumption == MaxRevision \in Nat \ {0} /\ MaxGeneration \in Nat \ {0}

VARIABLES session, run, lease
vars == <<session, run, lease>>

NoRun == [status |-> "none", rev |-> 0]
NoLease == [gen |-> 0, live |-> FALSE]
Statuses == {"none", "active", "ended"}

Init ==
  /\ session = 0
  /\ run = [r \in Runs |-> NoRun]
  /\ lease = [r \in Runs |-> NoLease]

Exists(r) == run[r].status # "none"
Active(r) == run[r].status = "active"

\* #sessionBusy: a run of the session, other than r, is running or paused.
BusyBut(r) == \E q \in Runs \ {r} : Active(q)

\* Mutant of Busy: only the revision of the session guards a creation.
NeverBusy == FALSE

Busy == \E q \in Runs : Active(q)

SaveSession ==
  /\ ~Busy /\ session < MaxRevision
  /\ session' = session + 1
  /\ UNCHANGED <<run, lease>>

Create(r) ==
  /\ ~Exists(r) /\ ~Busy /\ session < MaxRevision
  /\ session' = session + 1
  /\ run' = [run EXCEPT ![r] = [status |-> "active", rev |-> 1]]
  /\ lease' = [lease EXCEPT ![r] = [gen |-> 1, live |-> TRUE]]

\* The clock may pass the lease's end before the call returns.
ClockMoves(r) ==
  \E live \in {lease[r].live, FALSE} : lease' = [lease EXCEPT ![r].live = live]

\* A commit of the run core is of an active run; it may end it and may save
\* the session.
Commit(r, status, saves) ==
  /\ Active(r) /\ lease[r].live /\ run[r].rev < MaxRevision
  /\ run' = [run EXCEPT ![r] = [status |-> status, rev |-> @.rev + 1]]
  /\ IF saves THEN /\ ~BusyBut(r) /\ session < MaxRevision
                   /\ session' = session + 1
     ELSE UNCHANGED session
  /\ ClockMoves(r)

AcquireLease(r) ==
  /\ Exists(r) /\ ~lease[r].live /\ lease[r].gen < MaxGeneration
  /\ lease' = [lease EXCEPT ![r] = [gen |-> @.gen + 1, live |-> TRUE]]
  /\ UNCHANGED <<session, run>>

\* A renewal in time moves the end of the lease; too late, it changes nothing.
RenewLease(r) ==
  /\ lease[r].live
  /\ ClockMoves(r)
  /\ UNCHANGED <<session, run>>

ReleaseLease(r) ==
  /\ lease' = [lease EXCEPT ![r].live = FALSE]
  /\ UNCHANGED <<session, run>>

\* Mutant of PurgeRuns: the session goes with the first of its runs.
PurgeWithSession(purged) ==
  /\ purged # {} /\ \A r \in purged : run[r].status = "ended"
  /\ run' = [r \in Runs |-> IF r \in purged THEN NoRun ELSE run[r]]
  /\ lease' = [r \in Runs |-> IF r \in purged THEN NoLease ELSE lease[r]]
  /\ session' = 0

\* "before" and "limit" choose among the runs that have ended; the session
\* goes when no run is left.
PurgeRuns(purged) ==
  /\ purged # {} /\ \A r \in purged : run[r].status = "ended"
  /\ run' = [r \in Runs |-> IF r \in purged THEN NoRun ELSE run[r]]
  /\ lease' = [r \in Runs |-> IF r \in purged THEN NoLease ELSE lease[r]]
  /\ session' = IF \A r \in Runs \ purged : ~Exists(r) THEN 0 ELSE session

Next ==
  \/ SaveSession
  \/ \E r \in Runs :
       \/ Create(r)
       \/ \E status \in {"active", "ended"}, saves \in BOOLEAN : Commit(r, status, saves)
       \/ AcquireLease(r)
       \/ RenewLease(r)
       \/ ReleaseLease(r)
  \/ \E purged \in SUBSET Runs : PurgeRuns(purged)

Spec == Init /\ [][Next]_vars

----------------------------------------------------------------------------

TypeOK ==
  /\ session \in 0 .. MaxRevision
  /\ run \in [Runs -> [status : Statuses, rev : 0 .. MaxRevision]]
  /\ lease \in [Runs -> [gen : 0 .. MaxGeneration, live : BOOLEAN]]

\* A session has at most one run that is running or paused.
OneActiveRun == \A r, q \in Runs : Active(r) /\ Active(q) => r = q

\* A run has the session it belongs to, and a lease row, until it is purged:
\* no order of saves, purges and creations leaves a run without history.
RunsHaveSessions ==
  \A r \in Runs : /\ Exists(r) => session > 0
                  /\ Exists(r) <=> lease[r].gen > 0

-----------------------------------------------------------------------------
(* The proofs: the store keeps at most one active run per session, and a   *)
(* run's session and lease as long as the run, for any number of runs.     *)

\* The conjunction is inductive: a lease row is of a run that exists, so that
\* a commit that finds its lease live finds its run and its session too.
IInv == TypeOK /\ OneActiveRun /\ RunsHaveSessions

\* The tables start empty.
LEMMA InitInv == Init => IInv
BY SqliteAssumption DEF Init, IInv, TypeOK, OneActiveRun, RunsHaveSessions, NoRun, NoLease, Exists, Active, Statuses

\* Saving a session needs no run to be active.
LEMMA SaveInv == ASSUME IInv, SaveSession PROVE IInv'
BY SqliteAssumption DEF SaveSession, IInv, TypeOK, OneActiveRun, RunsHaveSessions, Exists, Active

\* The reservation: the new run is the only active one.
LEMMA CreateInv == ASSUME NEW r \in Runs, IInv, Create(r) PROVE IInv'
<1> USE DEF IInv, Exists, Active
<1>1. TypeOK'
  BY SqliteAssumption DEF Create, TypeOK, Statuses
<1>2. OneActiveRun'
  BY DEF Create, TypeOK, OneActiveRun, Busy
<1>3. RunsHaveSessions'
  BY SqliteAssumption DEF Create, TypeOK, RunsHaveSessions
<1> QED BY <1>1, <1>2, <1>3

\* A commit keeps the run's row and lease; one that saves finds no other
\* active run, one that does not leaves the session as it is.
LEMMA CommitInv ==
  ASSUME NEW r \in Runs, NEW status \in {"active", "ended"}, NEW saves \in BOOLEAN,
         IInv, Commit(r, status, saves)
  PROVE  IInv'
<1> USE DEF IInv, Exists, Active
<1>1. PICK live \in {lease[r].live, FALSE} : lease' = [lease EXCEPT ![r].live = live]
  BY DEF Commit, ClockMoves
<1>2. /\ run' = [run EXCEPT ![r] = [status |-> status, rev |-> run[r].rev + 1]]
      /\ run[r].status = "active" /\ run[r].rev < MaxRevision
      /\ session' \in {session, session + 1} /\ session' <= MaxRevision
  BY SqliteAssumption DEF Commit, TypeOK
<1>3. TypeOK'
  <2>1. run' \in [Runs -> [status : Statuses, rev : 0 .. MaxRevision]]
    BY <1>2, SqliteAssumption DEF TypeOK, Statuses
  <2>2. lease' \in [Runs -> [gen : 0 .. MaxGeneration, live : BOOLEAN]]
    BY <1>1 DEF TypeOK
  <2> QED BY <1>2, <2>1, <2>2, SqliteAssumption DEF TypeOK
<1>4. OneActiveRun'
  BY <1>2 DEF OneActiveRun, TypeOK
<1>5. RunsHaveSessions'
  <2>1. \A q \in Runs : lease'[q].gen = lease[q].gen
    BY <1>1 DEF TypeOK
  <2> QED BY <1>2, <2>1 DEF RunsHaveSessions, TypeOK
<1> QED BY <1>3, <1>4, <1>5

\* Leases change hands without touching runs or sessions.
LEMMA LeaseInv ==
  ASSUME NEW r \in Runs, IInv, AcquireLease(r) \/ RenewLease(r) \/ ReleaseLease(r)
  PROVE  IInv'
<1> USE DEF IInv, Exists, Active
<1>1. UNCHANGED <<session, run>>
  BY DEF AcquireLease, RenewLease, ReleaseLease
<1>2. lease' \in [Runs -> [gen : 0 .. MaxGeneration, live : BOOLEAN]]
  <2>1. CASE AcquireLease(r) BY <2>1, SqliteAssumption DEF AcquireLease, TypeOK
  <2>2. CASE RenewLease(r) BY <2>2 DEF RenewLease, ClockMoves, TypeOK
  <2>3. CASE ReleaseLease(r) BY <2>3 DEF ReleaseLease, TypeOK
  <2> QED BY <2>1, <2>2, <2>3
<1>3. \A q \in Runs : lease[q].gen > 0 <=> lease'[q].gen > 0
  <2>1. CASE AcquireLease(r) BY <2>1 DEF AcquireLease, TypeOK, RunsHaveSessions
  <2>2. CASE RenewLease(r) BY <2>2 DEF RenewLease, ClockMoves, TypeOK
  <2>3. CASE ReleaseLease(r) BY <2>3 DEF ReleaseLease, TypeOK
  <2> QED BY <2>1, <2>2, <2>3
<1> QED BY <1>1, <1>2, <1>3 DEF TypeOK, OneActiveRun, RunsHaveSessions

\* A purge takes a run with its lease, and the session only with the last.
LEMMA PurgeInv == ASSUME NEW purged \in SUBSET Runs, IInv, PurgeRuns(purged) PROVE IInv'
<1> USE DEF IInv, Exists, Active
<1>1. TypeOK'
  BY SqliteAssumption DEF PurgeRuns, TypeOK, NoRun, NoLease, Statuses
<1>2. OneActiveRun'
  BY DEF PurgeRuns, OneActiveRun, NoRun
<1>3. RunsHaveSessions'
  BY DEF PurgeRuns, RunsHaveSessions, NoRun, NoLease
<1> QED BY <1>1, <1>2, <1>3

\* Every state the store can be in satisfies the conjunction.
THEOREM SqliteStoreIsSound == Spec => []IInv
<1>1. Init => IInv
  BY InitInv
<1>2. IInv /\ [Next]_vars => IInv'
  <2> SUFFICES ASSUME IInv, [Next]_vars PROVE IInv'
    OBVIOUS
  <2>1. CASE SaveSession BY <2>1, SaveInv
  <2>2. ASSUME NEW r \in Runs, Create(r) PROVE IInv' BY <2>2, CreateInv
  <2>3. ASSUME NEW r \in Runs, NEW status \in {"active", "ended"}, NEW saves \in BOOLEAN,
               Commit(r, status, saves)
        PROVE  IInv'
    BY <2>3, CommitInv
  <2>4. ASSUME NEW r \in Runs, AcquireLease(r) \/ RenewLease(r) \/ ReleaseLease(r) PROVE IInv'
    BY <2>4, LeaseInv
  <2>5. ASSUME NEW purged \in SUBSET Runs, PurgeRuns(purged) PROVE IInv' BY <2>5, PurgeInv
  <2>6. CASE UNCHANGED vars
    BY <2>6 DEF IInv, TypeOK, OneActiveRun, RunsHaveSessions, Exists, Active, vars
  <2> QED BY <2>1, <2>2, <2>3, <2>4, <2>5, <2>6 DEF Next
<1> QED BY <1>1, <1>2, PTL DEF Spec

\* However creations, commits, takeovers and purges follow each other, a
\* session has at most one run that is running or paused.
THEOREM SqliteOneActiveRun == Spec => []OneActiveRun
<1>1. IInv => OneActiveRun
  BY DEF IInv
<1> QED BY <1>1, SqliteStoreIsSound, PTL

\* No run loses its session or its lease row before it is purged.
THEOREM SqliteRunsHaveSessions == Spec => []RunsHaveSessions
<1>1. IInv => RunsHaveSessions
  BY DEF IInv
<1> QED BY <1>1, SqliteStoreIsSound, PTL
=============================================================================
