------------------------------ MODULE HttpApi -------------------------------
(***************************************************************************)
(* The request handler of packages/fevex/src/http/transport.ts in the host *)
(* examples/nest-api: a request resolves its actor, is authorized against  *)
(* the host's map of owners, looks the run up and performs its operation,  *)
(* with an await between any two of these.  Runs go on meanwhile, in this  *)
(* process or in another one, and the host may crash and restart with the  *)
(* owners it has on disk.                                                  *)
(***************************************************************************)
EXTENDS Naturals, FiniteSets

CONSTANTS Requests, Runs, Sessions,
          Actors, Nobody,    \* bearers of a token, and a caller without one
          NoRun, NoSession,
          Operations,        \* the operations that requests ask for
          MaxCrashes,        \* bound on restarts of the host
          MaxMoves           \* bound on the pauses and resumptions of a run

VARIABLES run,      \* the store's record of each run
          request,  \* a handler's progress with each request
          owner,    \* run owners of the host: in memory and on disk
          holder,   \* session owners of the host: in memory and on disk
          crashes

vars == <<run, request, owner, holder, crashes>>

Terminal == {"completed", "cancelled"}
Active == {"running", "paused"}

(* at is who has the lease of a run: the work of this process or of    *)
(* another one, a cancellation, or nobody.  moves stands for the revision. *)
(* escaped is history: the run was taken up again, or paused although it   *)
(* had been told to stop.                                                  *)
NoRecord == [status |-> "none", session |-> NoSession, by |-> Nobody, at |-> "nobody",
             aborting |-> FALSE, moves |-> 0, escaped |-> FALSE]
Working == {"here", "elsewhere"}

(* start names a session or asks for a new one; the others name a run. *)
Fresh(op, actor, target, session) ==
  [op |-> op, actor |-> actor, run |-> target, session |-> session,
   at |-> "received", seen |-> "none", moves |-> 0, reply |-> 0]

Init ==
  /\ run = [r \in Runs |-> NoRecord]
  /\ request = [q \in Requests |-> Fresh("none", Nobody, NoRun, NoSession)]
  /\ owner = [memory |-> [r \in Runs |-> Nobody], disk |-> [r \in Runs |-> Nobody]]
  /\ holder = [memory |-> [s \in Sessions |-> Nobody], disk |-> [s \in Sessions |-> Nobody]]
  /\ crashes = 0

At(q, where) == request[q].op # "none" /\ request[q].at = where
Move(q, where) == request' = [request EXCEPT ![q].at = where]
Reply(q, code) == request' = [request EXCEPT ![q].at = "replied", ![q].reply = code]
Exists(r) == r \in Runs /\ run[r].status # "none"
SessionBusy(s) == \E r \in Runs : run[r].session = s /\ run[r].status \in Active

Receive(q) ==
  /\ request[q].op = "none"
  /\ \E op \in Operations, a \in Actors \cup {Nobody} :
       \/ /\ op = "start"
          /\ \E s \in Sessions \cup {NoSession} :
               request' = [request EXCEPT ![q] = Fresh(op, a, NoRun, s)]
       \/ /\ op # "start"
          /\ \E r \in Runs : request' = [request EXCEPT ![q] = Fresh(op, a, r, NoSession)]
  /\ UNCHANGED <<run, owner, holder, crashes>>

(* Mutant: the owner of a session is not looked at. *)
AuthorizedOnAnySession(q) ==
  LET rq == request[q] IN
  IF rq.op = "start" THEN TRUE ELSE owner.memory[rq.run] = rq.actor

(* DemoAuthorization.authorize, with the owners in memory. *)
Authorized(q) ==
  LET rq == request[q] IN
  IF rq.op = "start"
  THEN rq.session = NoSession \/ holder.memory[rq.session] = rq.actor
  ELSE owner.memory[rq.run] = rq.actor

(* Mutant: the run is looked up before the caller is authorized. *)
AuthorizeAfterLookup(q) ==
  /\ At(q, "received")
  /\ CASE request[q].actor = Nobody                         -> Reply(q, 401)
       [] request[q].op # "start" /\ ~Exists(request[q].run) -> Reply(q, 404)
       [] ~Authorized(q)                                    -> Reply(q, 403)
       [] OTHER                                             -> Move(q, "authorized")
  /\ UNCHANGED <<run, owner, holder, crashes>>

(* A caller without a token stops before the handler; the handler          *)
(* authorizes before it looks at the run.                                  *)
Authorize(q) ==
  /\ At(q, "received")
  /\ CASE request[q].actor = Nobody -> Reply(q, 401)
       [] ~Authorized(q)            -> Reply(q, 403)
       [] OTHER                     -> Move(q, "authorized")
  /\ UNCHANGED <<run, owner, holder, crashes>>

(* fevex.startAgent: the run is created and begins at once. *)
Start(q) ==
  /\ At(q, "authorized") /\ request[q].op = "start"
  /\ \/ /\ request[q].session # NoSession /\ SessionBusy(request[q].session)
        /\ Reply(q, 409)
        /\ UNCHANGED run
     \/ /\ request[q].session = NoSession \/ ~SessionBusy(request[q].session)
        /\ \E r \in Runs, s \in Sessions :
             /\ ~Exists(r)
             /\ IF request[q].session = NoSession
                THEN holder.memory[s] = Nobody /\ \A o \in Runs : run[o].session # s
                ELSE s = request[q].session
             /\ run' = [run EXCEPT ![r] = [NoRecord EXCEPT !.status = "running", !.session = s,
                                             !.by = request[q].actor, !.at = "here"]]
             /\ request' = [request EXCEPT ![q].at = "claiming", ![q].run = r, ![q].session = s]
  /\ UNCHANGED <<owner, holder, crashes>>

Claimable(q) == holder.memory[request[q].session] \in {Nobody, request[q].actor}
Claims(q, map, key) == [map EXCEPT ![key] = request[q].actor]

(* Mutant: the reply does not wait for the owners to be saved. *)
ClaimUnsaved(q) ==
  /\ At(q, "claiming") /\ Claimable(q)
  /\ owner' = [owner EXCEPT !.memory = Claims(q, @, request[q].run)]
  /\ holder' = [holder EXCEPT !.memory = Claims(q, @, request[q].session)]
  /\ Reply(q, 202)
  /\ UNCHANGED <<run, crashes>>

(* onRunStarted: DemoAuthorization.claim writes both maps, then the file. *)
Claim(q) ==
  /\ At(q, "claiming") /\ Claimable(q)
  /\ owner' = [memory |-> Claims(q, owner.memory, request[q].run),
               disk |-> Claims(q, owner.memory, request[q].run)]
  /\ holder' = [memory |-> Claims(q, holder.memory, request[q].session),
                disk |-> Claims(q, holder.memory, request[q].session)]
  /\ Reply(q, 202)
  /\ UNCHANGED <<run, crashes>>

(* claim refuses the session, or the file cannot be written. *)
ClaimFails(q) ==
  /\ At(q, "claiming")
  /\ \/ ~Claimable(q) /\ UNCHANGED <<owner, holder>>
     \/ /\ Claimable(q)
        /\ owner' = [owner EXCEPT !.memory = Claims(q, @, request[q].run)]
        /\ holder' = [holder EXCEPT !.memory = Claims(q, @, request[q].session)]
  /\ Move(q, "undoing")
  /\ UNCHANGED <<run, crashes>>

(* fevex.cancelRun: a run of this process is told to stop, one that is     *)
(* over is left alone, any other is cancelled in the store.                *)
Abortable(r) == run[r].at = "here" /\ ~run[r].aborting
Told(r) == [run EXCEPT ![r].aborting = TRUE]

(* What cancelRun answers goes into the reply to a DELETE; a start that    *)
(* failed ignores it.                                                      *)
Cancelled(q, done) ==
  CASE request[q].op = "start" -> Reply(q, 500)
    [] done                    -> Reply(q, 204)
    [] OTHER                   -> Move(q, "checking")

CancelRun(q) ==
  LET r == request[q].run IN
  /\ IF Abortable(r) THEN run' = Told(r) ELSE UNCHANGED run
  /\ CASE Abortable(r)             -> Cancelled(q, TRUE)
       [] run[r].status \in Active -> Move(q, "storing")
       [] OTHER                    -> Cancelled(q, FALSE)
  /\ UNCHANGED <<owner, holder, crashes>>

(* cancelStoredAgent looks at the registry and at the store again; a run   *)
(* that came back here is told to stop and waited for, for a second.       *)
StoredCancel(q) ==
  /\ At(q, "storing")
  /\ LET r == request[q].run IN
     \/ Abortable(r) /\ run' = Told(r) /\ \E done \in BOOLEAN : Cancelled(q, done)
     \/ ~Abortable(r) /\ run[r].status \in Terminal /\ Cancelled(q, TRUE) /\ UNCHANGED run
     \/ /\ ~Abortable(r) /\ run[r].status \in Active
        /\ request' = [request EXCEPT ![q].at = "leasing", ![q].moves = run[r].moves]
        /\ UNCHANGED run
  /\ UNCHANGED <<owner, holder, crashes>>

CancelLease(q) ==
  /\ At(q, "leasing")
  /\ LET r == request[q].run IN
     IF run[r].at = "nobody"
     THEN Move(q, "committing") /\ run' = [run EXCEPT ![r].at = "canceller"]
     ELSE Cancelled(q, FALSE) /\ UNCHANGED run
  /\ UNCHANGED <<owner, holder, crashes>>

(* The commit of what was read before the lease: refused when the run has  *)
(* moved since; the lease is given back.                                   *)
CancelCommit(q) ==
  /\ At(q, "committing")
  /\ LET r == request[q].run
         fits == run[r].status \in Active /\ run[r].moves = request[q].moves IN
     /\ run' = [run EXCEPT ![r].at = "nobody", ![r].status = IF fits THEN "cancelled" ELSE @]
     /\ Cancelled(q, fits)
  /\ UNCHANGED <<owner, holder, crashes>>

(* Mutant: a run that is not at work here by now is left alone. *)
UndoHere(q) ==
  /\ At(q, "undoing")
  /\ LET r == request[q].run IN IF Abortable(r) THEN run' = Told(r) ELSE UNCHANGED run
  /\ Reply(q, 500)
  /\ UNCHANGED <<owner, holder, crashes>>

UndoStart(q) == At(q, "undoing") /\ CancelRun(q)

(* getRun after authorization; what it says is used by the steps below. *)
Lookup(q) ==
  /\ At(q, "authorized") /\ request[q].op # "start"
  /\ LET r == request[q].run IN
     CASE ~Exists(r)                                                   -> Reply(q, 404)
       [] request[q].op \in {"read", "observe"}                        -> Reply(q, 200)
       [] request[q].op = "cancel" /\ run[r].status \in Terminal       -> Reply(q, 204)
       [] OTHER -> request' = [request EXCEPT ![q].at = "found", ![q].seen = run[r].status]
  /\ UNCHANGED <<run, owner, holder, crashes>>

(* resumeRun and recoverRun answer 409 to a run in another state, or whose *)
(* lease somebody has.                                                     *)
TakeUp(r, where) ==
  run' = [run EXCEPT ![r].status = "running", ![r].at = where, ![r].moves = @ + 1,
                     ![r].escaped = TRUE]

Proceed(q) ==
  /\ At(q, "found") /\ request[q].op \in {"resume", "recover"}
  /\ LET r == request[q].run
         wanted == IF request[q].op = "resume" THEN "paused" ELSE "running" IN
     IF run[r].status = wanted /\ run[r].at = "nobody"
     THEN TakeUp(r, "here") /\ Reply(q, 202)
     ELSE Reply(q, 409) /\ UNCHANGED run
  /\ UNCHANGED <<owner, holder, crashes>>

(* DELETE: cancelRun answers whether it did anything. *)
Cancel(q) == At(q, "found") /\ request[q].op = "cancel" /\ CancelRun(q)

(* A refused cancellation is a conflict when the run is as it was found. *)
CheckCancelled(q) ==
  /\ At(q, "checking")
  /\ Reply(q, IF run[request[q].run].status = request[q].seen THEN 409 ELSE 204)
  /\ UNCHANGED <<run, owner, holder, crashes>>

(* A pause is committed whatever the signal says by then. *)
RunPauses(r) ==
  /\ run[r].status = "running" /\ run[r].at \in Working /\ run[r].moves < MaxMoves
  /\ run' = [run EXCEPT ![r].status = "paused", ![r].at = "nobody", ![r].moves = @ + 1,
                        ![r].aborting = FALSE, ![r].escaped = @ \/ run[r].aborting]
  /\ UNCHANGED <<request, owner, holder, crashes>>

(* Another process of the host resumes or recovers a run whose owner is on *)
(* record.                                                                 *)
TakenElsewhere(r) ==
  /\ run[r].status \in Active /\ run[r].at = "nobody"
  /\ owner.disk[r] # Nobody /\ run[r].moves < MaxMoves
  /\ TakeUp(r, "elsewhere")
  /\ UNCHANGED <<request, owner, holder, crashes>>

(* It dies too, with or without another event on record. *)
ElsewhereDies(r) ==
  /\ run[r].at = "elsewhere"
  /\ \E n \in {0, 1} :
       run' = [run EXCEPT ![r].at = "nobody", ![r].moves = @ + n]
  /\ UNCHANGED <<request, owner, holder, crashes>>

RunEnds(r) ==
  /\ run[r].status = "running" /\ run[r].at \in Working
  /\ \E st \in IF run[r].aborting THEN Terminal ELSE {"completed"} :
       run' = [run EXCEPT ![r].status = st, ![r].at = "nobody", ![r].aborting = FALSE]
  /\ UNCHANGED <<request, owner, holder, crashes>>

(* The host dies: its handlers and its runs stop, the owners are reloaded. *)
CrashAndRestart ==
  /\ crashes < MaxCrashes
  /\ crashes' = crashes + 1
  /\ run' = [r \in Runs |->
       IF run[r].at \in {"here", "canceller"}
       THEN [run[r] EXCEPT !.at = "nobody", !.aborting = FALSE] ELSE run[r]]
  /\ request' = [q \in Requests |->
       IF request[q].op = "none" \/ request[q].at = "replied" THEN request[q]
       ELSE [request[q] EXCEPT !.at = "lost"]]
  /\ owner' = [owner EXCEPT !.memory = owner.disk]
  /\ holder' = [holder EXCEPT !.memory = holder.disk]

Next ==
  \/ \E q \in Requests :
       \/ Receive(q) \/ Authorize(q) \/ Start(q) \/ Claim(q) \/ ClaimFails(q) \/ UndoStart(q)
       \/ Lookup(q) \/ Proceed(q) \/ Cancel(q) \/ CheckCancelled(q)
       \/ StoredCancel(q) \/ CancelLease(q) \/ CancelCommit(q)
  \/ \E r \in Runs : RunPauses(r) \/ TakenElsewhere(r) \/ ElsewhereDies(r) \/ RunEnds(r)
  \/ CrashAndRestart

Spec == Init /\ [][Next]_vars

-----------------------------------------------------------------------------
Replied(q, op) == request[q].op = op /\ request[q].at = "replied"

TypeOK ==
  /\ \A r \in Runs :
       /\ run[r].status \in {"none"} \cup Active \cup Terminal
       /\ run[r].at \in {"nobody", "canceller"} \cup Working
       /\ run[r].at \in Working => run[r].status = "running"
       /\ run[r].aborting => run[r].at = "here"
       /\ run[r].at = "canceller" => \E q \in Requests : At(q, "committing") /\ request[q].run = r
  /\ \A q \in Requests :
       /\ request[q].reply \in {0, 200, 202, 204, 401, 403, 404, 409, 500}
       /\ (request[q].reply # 0) <=> (request[q].at = "replied")

(* "Authenticate and authorize before revealing whether the run exists"    *)
(* (transport.ts:217): an answer that depends on the run goes to its owner *)
(* on record only; to everybody else an absent run and a foreign one look  *)
(* the same, whatever starts, crashes and restarts in between.             *)
OnlyTheOwnerLearns ==
  \A q \in Requests :
    /\ request[q].op \notin {"none", "start"}
    /\ request[q].at = "replied" /\ request[q].reply \notin {401, 403}
    => request[q].actor = run[request[q].run].by

(* A run accepted with 202 has its owner on disk: a crash does not take it *)
(* from the caller who was told its id.                                    *)
AcceptedIsOwned ==
  \A q \in Requests :
    (Replied(q, "start") /\ request[q].reply = 202) => owner.disk[request[q].run] = request[q].actor

(* A start that failed leaves no run at work that nobody took up: its run  *)
(* has ended, has been told to stop, or is being cancelled, unless it was  *)
(* resumed or recovered by somebody since it began, paused over the signal *)
(* to stop, or the host has crashed (transport.ts:82).                     *)
FailedStart(q) == Replied(q, "start") /\ request[q].reply = 500 /\ crashes = 0
Stopped(r) == run[r].status \in Terminal \/ run[r].aborting \/ run[r].at = "canceller"
FailedStartIsUndone ==
  \A q \in Requests :
    FailedStart(q) => Stopped(request[q].run) \/ run[request[q].run].escaped

(* "If it throws, the handler cancels the new run and returns 500"         *)
(* (protocol.ts:112), without exception but for a crash.                   *)
FailedStartIsCancelled ==
  \A q \in Requests : FailedStart(q) => Stopped(request[q].run)

(* No run is ever created in a session somebody else has on record. *)
SessionsAreTheirOwners ==
  \A r \in Runs : Exists(r) => holder.disk[run[r].session] \in {Nobody, run[r].by}

(* "disconnecting observation does not cancel, while DELETE does"          *)
(* (http/index.test.ts:67): when 204 is sent the run has ended or has been *)
(* told to.                                                                *)
DeleteCancels ==
  [][\A q \in Requests :
       (Replied(q, "cancel"))' /\ request'[q].reply = 204 /\ request[q].reply = 0
         => Stopped(request[q].run)']_vars
=============================================================================
