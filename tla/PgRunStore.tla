----------------------------- MODULE PgRunStore -----------------------------
(***************************************************************************)
(* The PostgreSQL run store: a call is a transaction of several statements *)
(* at the default level, READ COMMITTED.  A statement reads what has been  *)
(* committed, waits for the row locks it needs and keeps them to the end;  *)
(* a transaction's writes appear when it ends.  The server breaks a cycle  *)
(* of waits by aborting one transaction of it, and a lost connection is a  *)
(* rollback.  A lease row's live says that expires_at > clock_timestamp(). *)
(***************************************************************************)
EXTENDS Naturals, Sequences

CONSTANTS Clients,      \* connections of the pools of all processes
          Runs,         \* run identifiers, all of one session
          Purgers,      \* the connections that may purge
          NoOne,        \* a row that no transaction holds
          MaxCalls      \* calls that the connections make

PgAssumption == Purgers \subseteq Clients /\ NoOne \notin Clients /\ MaxCalls \in Nat

VARIABLES session, run, lease,   \* the committed rows
          lock,                  \* [row -> the transaction that holds it]
          at, tx,                \* the statement a connection is at; its call
          calls,                 \* calls made so far
          content, writes        \* which write the session row holds; writes so far
rows == <<session, run, lease>>
vars == <<session, run, lease, lock, at, tx, calls, content, writes>>

SessionRow == <<"session">>
RunRow(r) == <<"run", r>>
LeaseRow(r) == <<"lease", r>>
Rows == {SessionRow} \cup {<<k, r>> : k \in {"run", "lease"}, r \in Runs}

NoRun == [status |-> "none", rev |-> 0]
NoLease == [gen |-> 0, live |-> FALSE]
Exists(r) == run[r].status # "none"
Active(r) == run[r].status = "active"

\* A call: its kind, the run, the revisions and the generation its caller
\* has read, what it writes, and for a purge the rows it deletes.
NoCall == [op |-> "none", run |-> CHOOSE r \in Runs : TRUE, seen |-> 0, seenContent |-> 0,
           rev |-> 0, gen |-> 0, saves |-> FALSE, status |-> "none", todo |-> {}, gone |-> {}]

Init ==
  /\ session = 0 /\ content = 0 /\ writes = 0
  /\ run = [r \in Runs |-> NoRun]
  /\ lease = [r \in Runs |-> NoLease]
  /\ lock = [row \in Rows |-> NoOne]
  /\ at = [c \in Clients |-> "idle"]
  /\ tx = [c \in Clients |-> NoCall]
  /\ calls = 0

Goto(c, where) == at' = [at EXCEPT ![c] = where]
Free(c, row) == lock[row] \in {c, NoOne}
Take(c, row) == lock' = [lock EXCEPT ![row] = c]
\* Mutant of Released: the client returns to its pool without ROLLBACK or COMMIT.
Kept(c) == lock

Released(c) == [row \in Rows |-> IF lock[row] = c THEN NoOne ELSE lock[row]]

\* ROLLBACK: nothing is written, the call answers false or throws.
Rollback(c) ==
  /\ lock' = Released(c)
  /\ Goto(c, "idle")
  /\ tx' = [tx EXCEPT ![c] = NoCall]
  /\ UNCHANGED <<rows, calls, content, writes>>

Step(c, where) == Goto(c, where) /\ UNCHANGED <<rows, tx, calls, content, writes>>

----------------------------------------------------------------------------
(* Calls.  What the caller knows was read before, and ages until it is used. *)

Call(c, first, args) ==
  /\ at[c] = "idle" /\ calls < MaxCalls
  /\ Goto(c, first)
  /\ tx' = [tx EXCEPT ![c] = args]
  /\ calls' = calls + 1
  /\ UNCHANGED <<rows, lock, content, writes>>

Reading(op) == [NoCall EXCEPT !.op = op, !.seen = session, !.seenContent = content]

CreateExecution(c, r) ==
  Call(c, "insertSession",
       [Reading("create") EXCEPT !.run = r, !.rev = 0, !.gen = 1, !.saves = TRUE, !.status = "active"])

\* Mutant of CommitOrder: a commit that saves the session checks its lease first.
LeaseFirst(saves) ==
  IF saves THEN <<"lockSession", "checkSession", "lockLease", "checkLease", "lockRun", "ending">>
  ELSE <<"lockRun", "lockLease", "checkLease", "ending">>

\* "Match creation's session-before-run lock order, including duplicate run IDs."
CommitOrder(saves) ==
  IF saves THEN <<"lockSession", "checkSession", "lockRun", "lockLease", "checkLease", "ending">>
  ELSE <<"lockRun", "lockLease", "checkLease", "ending">>

CreateOrder == <<"insertSession", "lockSession", "checkSession", "upsertSession", "insertRun", "ending">>
SaveOrder == <<"insertSession", "lockSession", "checkSession", "upsertSession", "ending">>

Order(c) == CASE tx[c].op = "create" -> CreateOrder
              [] tx[c].op = "save" -> SaveOrder
              [] tx[c].op = "commit" -> CommitOrder(tx[c].saves)
              [] tx[c].op = "renew" -> <<"lockLease", "checkLease", "ending">>
Advance(c) ==
  LET i == CHOOSE j \in 1 .. Len(Order(c)) : Order(c)[j] = at[c] IN Step(c, Order(c)[i + 1])

CommitExecution(c, r) ==
  \E status \in {"active", "ended"}, saves \in BOOLEAN :
    /\ Active(r)
    /\ Call(c, CommitOrder(saves)[1],
            [Reading("commit") EXCEPT !.run = r, !.rev = run[r].rev, !.gen = lease[r].gen,
                                      !.saves = saves, !.status = status])

SaveSession(c) == Call(c, "insertSession", [Reading("save") EXCEPT !.saves = TRUE])

RenewLease(c, r) ==
  /\ lease[r].gen > 0
  /\ Call(c, "lockLease", [NoCall EXCEPT !.op = "renew", !.run = r, !.gen = lease[r].gen])

\* The rows are found when the DELETE begins; a limit takes some of them.
PurgeRuns(c) ==
  /\ c \in Purgers
  /\ \E ended \in SUBSET {r \in Runs : run[r].status = "ended"} :
       /\ ended # {}
       /\ Call(c, "deleteRuns",
               [NoCall EXCEPT !.op = "purge", !.todo = {<<k, r>> : k \in {"run", "lease"}, r \in ended}])

----------------------------------------------------------------------------
(* #lockSession, #sessionBusy and #upsertSession. *)

\* A row that is being inserted or deleted by another transaction.
InDoubt(c, row, present) ==
  /\ ~Free(c, row)
  /\ ~present \/ tx[lock[row]].op = "purge"

\* INSERT ... ON CONFLICT DO NOTHING: waits for a row in doubt.
InsertSession(c) ==
  /\ at[c] = "insertSession" /\ ~InDoubt(c, SessionRow, session > 0)
  /\ IF session = 0 THEN Take(c, SessionRow) ELSE UNCHANGED lock
  /\ Advance(c)

\* Mutant of LockSession: the row is read, not locked.
ReadSession(c) ==
  /\ at[c] = "lockSession"
  /\ UNCHANGED lock
  /\ Advance(c)

\* SELECT ... FOR UPDATE: a row that is not there is not locked.
LockSession(c) ==
  /\ at[c] = "lockSession"
  /\ session > 0 => Free(c, SessionRow)
  /\ IF session > 0 THEN Take(c, SessionRow) ELSE UNCHANGED lock
  /\ Advance(c)

\* Mutant of SessionBusy: only the session's revision is compared.
NotBusy(c) == FALSE

BusyBut(r) == \E q \in Runs \ {r} : Active(q)
SessionBusy(c) == IF tx[c].op = "commit" THEN BusyBut(tx[c].run) ELSE \E r \in Runs : Active(r)

CheckSession(c) ==
  /\ at[c] = "checkSession"
  /\ LET accepted == /\ tx[c].seen = session
                     /\ tx[c].op = "commit" => session > 0
                     /\ ~SessionBusy(c)
     IN \/ ~accepted /\ Rollback(c)
        \/ /\ accepted
           /\ Advance(c)
           /\ UNCHANGED lock

\* Takes the lock of a row that was not there to be locked.  (A commit
\* writes the session last and holds the lock already.)
UpsertSession(c) ==
  /\ at[c] = "upsertSession" /\ Free(c, SessionRow)
  /\ Take(c, SessionRow)
  /\ Advance(c)

----------------------------------------------------------------------------
(* Runs and leases. *)

\* INSERT ... ON CONFLICT DO NOTHING RETURNING id.
InsertRun(c) ==
  LET r == tx[c].run IN
  /\ at[c] = "insertRun" /\ ~InDoubt(c, RunRow(r), Exists(r))
  /\ \/ Exists(r) /\ Rollback(c)
     \/ ~Exists(r) /\ Take(c, RunRow(r)) /\ Advance(c)

\* Mutant of LockRun: the revision is read without a lock.
ReadRun(c) ==
  LET r == tx[c].run IN
  /\ at[c] = "lockRun"
  /\ \/ ~Exists(r) /\ Rollback(c)
     \/ Exists(r) /\ run[r].rev # tx[c].rev /\ Rollback(c)
     \/ Exists(r) /\ run[r].rev = tx[c].rev /\ UNCHANGED lock /\ Advance(c)

LockRun(c) ==
  LET r == tx[c].run IN
  /\ at[c] = "lockRun"
  /\ \/ ~Exists(r) /\ Rollback(c)
     \/ Exists(r) /\ Free(c, RunRow(r)) /\ run[r].rev # tx[c].rev /\ Rollback(c)
     \/ Exists(r) /\ Free(c, RunRow(r)) /\ run[r].rev = tx[c].rev
        /\ Take(c, RunRow(r)) /\ Advance(c)

\* Mutant of LockLease: the lease is read, not locked.
ReadLease(c) == at[c] = "lockLease" /\ UNCHANGED lock /\ Advance(c)

\* The lease is locked first, the clock read after.
LockLease(c) ==
  LET r == tx[c].run IN
  /\ at[c] = "lockLease"
  /\ lease[r].gen > 0 => Free(c, LeaseRow(r))
  /\ IF lease[r].gen > 0 THEN Take(c, LeaseRow(r)) ELSE UNCHANGED lock
  /\ Advance(c)

CheckLease(c) ==
  LET held == lease[tx[c].run].live /\ lease[tx[c].run].gen = tx[c].gen IN
  /\ at[c] = "checkLease"
  /\ \/ ~held /\ Rollback(c)
     \/ held /\ Advance(c) /\ UNCHANGED lock

\* One statement each, so that it waits and then takes effect at once.
AcquireLease(r) ==
  /\ calls < MaxCalls /\ calls' = calls + 1
  /\ Exists(r) /\ lock[LeaseRow(r)] = NoOne /\ ~lease[r].live
  /\ lease' = [lease EXCEPT ![r] = [gen |-> @.gen + 1, live |-> TRUE]]
  /\ UNCHANGED <<session, run, lock, at, tx, content, writes>>

ReleaseLease(r) ==
  /\ lease[r].live /\ lock[LeaseRow(r)] = NoOne
  /\ lease' = [lease EXCEPT ![r].live = FALSE]
  /\ UNCHANGED <<session, run, lock, at, tx, calls, content, writes>>

\* The clock passes the end of a lease, whoever holds its row.
Expire(r) ==
  /\ lease[r].live
  /\ lease' = [lease EXCEPT ![r].live = FALSE]
  /\ UNCHANGED <<session, run, lock, at, tx, calls, content, writes>>

----------------------------------------------------------------------------
(* A purge: the runs, the rows that go with them, then the session. *)

\* Rows go one by one, the runs before what the cascade deletes.
NextRow(c) ==
  CHOOSE row \in tx[c].todo : row[1] = "lease" => \A other \in tx[c].todo : other[1] = "lease"

DeleteRow(c) ==
  /\ at[c] = "deleteRuns" /\ tx[c].todo # {}
  /\ LET row == NextRow(c) IN
       /\ Free(c, row)
       /\ Take(c, row)
       /\ tx' = [tx EXCEPT ![c].todo = @ \ {row},
                           ![c].gone = IF row[1] = "run" /\ Exists(row[2]) THEN @ \cup {row[2]} ELSE @]
  /\ UNCHANGED <<rows, at, calls, content, writes>>

\* NOT EXISTS reads what is committed when the second DELETE begins.
FindSession(c) ==
  /\ at[c] = "deleteRuns" /\ tx[c].todo = {}
  /\ Step(c, IF \/ tx[c].gone = {}
                \/ \E r \in Runs \ tx[c].gone : Exists(r)
             THEN "ending" ELSE "deleteSession")
  /\ UNCHANGED lock

\* Mutant of ReferencesHold: runs.session_id has no REFERENCES.
NoReferences(c) == TRUE

\* runs.session_id REFERENCES sessions(id): checked against what is
\* committed by then.
ReferencesHold(c) == \A r \in Runs \ tx[c].gone : ~Exists(r)

DeleteSession(c) ==
  /\ at[c] = "deleteSession" /\ Free(c, SessionRow)
  /\ \/ ~ReferencesHold(c) /\ Rollback(c)
     \/ /\ ReferencesHold(c)
        /\ Take(c, SessionRow)
        /\ Goto(c, "ending")
        /\ tx' = [tx EXCEPT ![c].saves = TRUE]
        /\ UNCHANGED <<rows, calls, content, writes>>

----------------------------------------------------------------------------

\* COMMIT: the writes of the transaction appear, its locks go.
EndCreateOrSave(c) ==
  /\ tx[c].op \in {"create", "save"}
  /\ session' = tx[c].seen + 1
  /\ IF tx[c].op = "create"
     THEN /\ run' = [run EXCEPT ![tx[c].run] = [status |-> "active", rev |-> 1]]
          /\ lease' = [lease EXCEPT ![tx[c].run] = [gen |-> 1, live |-> TRUE]]
     ELSE UNCHANGED <<run, lease>>

EndCommit(c) ==
  /\ tx[c].op = "commit"
  /\ run' = [run EXCEPT ![tx[c].run] = [status |-> tx[c].status, rev |-> tx[c].rev + 1]]
  /\ session' = IF tx[c].saves THEN tx[c].seen + 1 ELSE session
  /\ UNCHANGED lease

EndRenew(c) ==
  /\ tx[c].op = "renew"
  /\ lease' = [lease EXCEPT ![tx[c].run].live = TRUE]
  /\ UNCHANGED <<session, run>>

EndPurge(c) ==
  /\ tx[c].op = "purge"
  /\ run' = [r \in Runs |-> IF r \in tx[c].gone THEN NoRun ELSE run[r]]
  /\ lease' = [r \in Runs |-> IF r \in tx[c].gone THEN NoLease ELSE lease[r]]
  /\ session' = IF tx[c].saves THEN 0 ELSE session

End(c) ==
  /\ at[c] = "ending"
  /\ EndCreateOrSave(c) \/ EndCommit(c) \/ EndRenew(c) \/ EndPurge(c)
  /\ IF tx[c].saves
     THEN content' = (IF tx[c].op = "purge" THEN 0 ELSE writes + 1) /\ writes' = writes + 1
     ELSE UNCHANGED <<content, writes>>
  /\ lock' = Released(c)
  /\ Goto(c, "idle")
  /\ tx' = [tx EXCEPT ![c] = NoCall]
  /\ UNCHANGED calls

----------------------------------------------------------------------------
(* The server: cycles of waits, and lost connections. *)

\* The rows whose holders the next statement of c waits for.
Wanted(c) ==
  CASE at[c] = "insertSession" -> IF InDoubt(c, SessionRow, session > 0) THEN {SessionRow} ELSE {}
    [] at[c] = "lockSession" -> IF session > 0 THEN {SessionRow} ELSE {}
    [] at[c] \in {"upsertSession", "deleteSession"} -> {SessionRow}
    [] at[c] = "insertRun" -> IF InDoubt(c, RunRow(tx[c].run), Exists(tx[c].run)) THEN {RunRow(tx[c].run)} ELSE {}
    [] at[c] = "lockRun" -> IF Exists(tx[c].run) THEN {RunRow(tx[c].run)} ELSE {}
    [] at[c] = "lockLease" -> IF lease[tx[c].run].gen > 0 THEN {LeaseRow(tx[c].run)} ELSE {}
    [] at[c] = "deleteRuns" -> IF tx[c].todo = {} THEN {} ELSE {NextRow(c)}
    [] OTHER -> {}

WaitsFor(c, d) == \E row \in Wanted(c) : lock[row] = d /\ d # c
Deadlocked(group) == group # {} /\ \A c \in group : \E d \in group : WaitsFor(c, d)

AbortVictim(c) ==
  /\ \E group \in SUBSET Clients : c \in group /\ Deadlocked(group)
  /\ Rollback(c)

Disconnect(c) == at[c] # "idle" /\ Rollback(c)

Statement(c) ==
  \/ InsertSession(c) \/ LockSession(c) \/ CheckSession(c) \/ UpsertSession(c)
  \/ InsertRun(c) \/ LockRun(c) \/ LockLease(c) \/ CheckLease(c)
  \/ DeleteRow(c) \/ FindSession(c) \/ DeleteSession(c)
  \/ End(c)

Next ==
  \/ \E c \in Clients :
       \/ \E r \in Runs : CreateExecution(c, r) \/ CommitExecution(c, r) \/ RenewLease(c, r)
       \/ SaveSession(c) \/ PurgeRuns(c)
       \/ Statement(c)
       \/ AbortVictim(c) \/ Disconnect(c)
  \/ \E r \in Runs : AcquireLease(r) \/ ReleaseLease(r) \/ Expire(r)

Spec == Init /\ [][Next]_vars

\* A statement that waits for no one runs; a cycle of waits is broken.
FairSpec == Spec /\ \A c \in Clients : WF_vars(Statement(c)) /\ WF_vars(AbortVictim(c))

----------------------------------------------------------------------------

TypeOK ==
  /\ session \in Nat
  /\ run \in [Runs -> [status : {"none", "active", "ended"}, rev : Nat]]
  /\ lease \in [Runs -> [gen : Nat, live : BOOLEAN]]
  /\ lock \in [Rows -> Clients \cup {NoOne}]
  /\ \A row \in Rows : lock[row] # NoOne => at[lock[row]] # "idle"

\* A session has at most one run that is running or paused.
OneActiveRun == \A r, q \in Runs : Active(r) /\ Active(q) => r = q

\* A run has its session and its lease: no purge takes them from under a
\* creation or a commit.
RunsHaveSessions ==
  \A r \in Runs : /\ Exists(r) => session > 0
                  /\ Exists(r) <=> lease[r].gen > 0

\* What a commit writes it writes under the generation that is current as it
\* ends: a takeover is before its check or after its end, never between.
CommitsAreFenced ==
  \A c \in Clients : at[c] = "ending" /\ tx[c].op \in {"commit", "renew"} =>
    lease[tx[c].run].gen = tx[c].gen

\* The session row is replaced only by a call that was made from it: no write
\* of a conversation is lost, however two calls interleave.
WritesWhatItSaw ==
  session' # session /\ session' > 0 =>
    \E c \in Clients : at[c] = "ending" /\ at'[c] = "idle" /\ tx[c].seenContent = content
NoLostUpdate == [][WritesWhatItSaw]_vars

\* Creations, commits, saves, renewals and takeovers never wait in a circle:
\* they take the session before the run and the run before the lease.
NoDeadlock == \A group \in SUBSET Clients : ~Deadlocked(group)

\* A transaction that has begun ends, purges and their circles included.
CallsEnd == \A c \in Clients : (at[c] # "idle") ~> (at[c] = "idle")

\* A purge leaves no session without runs behind: what one that has deleted
\* the last run does not take, no later purge finds.
NoSessionLeftBehind ==
  [][(\E r \in Runs : Exists(r)) /\ (\A r \in Runs : ~Exists(r)') => session' = 0]_vars

\* The transactions are as good as the single steps of the SQLite store.  A
\* lease counts as live while a transaction that has checked it ends.
Checked(r) == \E c \in Clients : at[c] = "ending" /\ tx[c].run = r /\ tx[c].op \in {"commit", "renew"}
Atomic == INSTANCE SqliteRunStore WITH
            lease <- [r \in Runs |-> [lease[r] EXCEPT !.live = @ \/ Checked(r)]],
            MaxRevision <- MaxCalls + 1, MaxGeneration <- MaxCalls + 1
AtomicSpec == Atomic!Spec
=============================================================================
