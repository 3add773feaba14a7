---------------------------- MODULE McpProvider -----------------------------
(***************************************************************************)
(* The MCP tool provider (packages/mcp/src/index.ts): tool calls that share *)
(* one discovery and one set of headers, answer the server's requests for   *)
(* input in rounds, and follow a task by polling until it is settled, runs  *)
(* past its deadline or the caller aborts; and the subscription that opens  *)
(* after the discovery.  The server is any server: it answers, asks, makes  *)
(* tasks, fails and stays silent as it likes.                               *)
(***************************************************************************)
EXTENDS Naturals, FiniteSets

CONSTANTS Calls,
          Keys, NoKey,      \* header sets that callers resolve to
          NoCall,
          MaxInputRounds,
          Aborts,           \* whether callers abort
          Outages           \* whether requests fail on the way

McpAssumption == MaxInputRounds \in Nat /\ NoKey \notin Keys /\ NoCall \notin Calls

VARIABLES call,       \* the adapter's progress with each call
          task,       \* the task of each call on the server
          identity,   \* the headers the provider is bound to
          discovery,  \* none, sent or known
          leader,     \* the call whose signal the shared discovery uses
          listener,   \* the subscription: off, open, or off for good
          closed      \* whether close() was called

vars == <<call, task, identity, discovery, leader, listener, closed>>

Ended == {"done", "failed"}
Settled == {"completed", "failed", "cancelled"}
NewCall == [at |-> "new", key |-> NoKey, round |-> 0, sent |-> 0, seen |-> "none",
            aborted |-> FALSE, expired |-> FALSE, cancels |-> FALSE, lost |-> FALSE,
            refused |-> FALSE]

Init ==
  /\ call = [c \in Calls |-> NewCall]
  /\ task = [c \in Calls |-> "none"]
  /\ identity = NoKey
  /\ discovery = "none" /\ leader = NoCall
  /\ listener = "off" /\ closed = FALSE

At(c, where) == call[c].at = where
Goto(c, where) == call' = [call EXCEPT ![c].at = where]
connection == <<identity, discovery, leader, listener, closed>>

(* Mutant: every caller brings its own headers. *)
BeginUnbound(c) ==
  /\ At(c, "new")
  /\ \E k \in Keys :
       /\ identity' = IF identity = NoKey THEN k ELSE identity
       /\ call' = [call EXCEPT ![c].at = "ready", ![c].key = k]
  /\ UNCHANGED <<task, discovery, leader, listener, closed>>

(* connectionHeaders: the first caller binds the provider. *)
Begin(c) ==
  /\ At(c, "new")
  /\ \E k \in Keys :
       /\ identity' = IF identity = NoKey THEN k ELSE identity
       /\ call' = [call EXCEPT ![c].at = IF identity \in {NoKey, k} THEN "ready" ELSE "failed",
                               ![c].key = k]
  /\ UNCHANGED <<task, discovery, leader, listener, closed>>

(* ensureDiscovered: the first caller's request serves all that wait. *)
Discover(c) ==
  /\ At(c, "ready")
  /\ CASE discovery = "known" -> Goto(c, "calling") /\ UNCHANGED <<discovery, leader>>
       [] discovery = "sent"  -> Goto(c, "waiting") /\ UNCHANGED <<discovery, leader>>
       [] OTHER -> Goto(c, "waiting") /\ discovery' = "sent" /\ leader' = c
  /\ UNCHANGED <<task, identity, listener, closed>>

Waiting == {c \in Calls : At(c, "waiting")}
AllWaiting(where) == call' = [c \in Calls |-> IF c \in Waiting THEN [call[c] EXCEPT !.at = where] ELSE call[c]]

(* Mutant: those who wait are left waiting. *)
DiscoveryFailsLeader ==
  /\ discovery = "sent" /\ (Outages \/ call[leader].aborted)
  /\ discovery' = "none" /\ leader' = NoCall
  /\ Goto(leader, "failed")
  /\ UNCHANGED <<task, identity, listener, closed>>

(* An outage, a timeout, an unsupported server, or the leader's abort. *)
DiscoveryFails ==
  /\ discovery = "sent" /\ (Outages \/ call[leader].aborted)
  /\ discovery' = "none" /\ leader' = NoCall
  /\ AllWaiting("failed")
  /\ UNCHANGED <<task, identity, listener, closed>>

(* startSubscription follows the discovery, whatever happened to the host. *)
DiscoveryAnswered ==
  /\ discovery = "sent"
  /\ discovery' = "known" /\ leader' = NoCall
  /\ listener' = "open"
  /\ AllWaiting("calling")
  /\ UNCHANGED <<task, identity, closed>>

-----------------------------------------------------------------------------
(* A request whose signal is aborted, or that is lost, throws in the call; *)
(* so does what the adapter cannot read or answer.                         *)
Throws(c) == call[c].aborted \/ Outages
Lose(c) == Throws(c) /\ call' = [call EXCEPT ![c].at = "failed", ![c].lost = TRUE]
Refuse(c) == call' = [call EXCEPT ![c].at = "failed", ![c].refused = TRUE]

(* tools/call, with the answers of the last round. *)
SendCall(c) ==
  /\ At(c, "calling")
  /\ IF call[c].round > MaxInputRounds
     THEN Goto(c, "failed")
     ELSE call' = [call EXCEPT ![c].at = "called", ![c].sent = @ + 1]
  /\ UNCHANGED <<task, connection>>

(* The server may have made a task all the same. *)
CallLost(c) ==
  /\ At(c, "called") /\ Lose(c)
  /\ task' = [task EXCEPT ![c] = "working"] \/ UNCHANGED task
  /\ UNCHANGED connection

CallAnswered(c) ==
  /\ At(c, "called")
  /\ \/ \E e \in Ended : Goto(c, e) /\ UNCHANGED task
     \/ Goto(c, "eliciting") /\ UNCHANGED task
     \/ /\ call' = [call EXCEPT ![c].at = "task", ![c].seen = "working"] \/ Refuse(c)
        /\ task' = [task EXCEPT ![c] = "working"]
  /\ UNCHANGED connection

(* Mutant: only a rejected request for input counts as a round. *)
ElicitUncounted(c) ==
  /\ At(c, "eliciting")
  /\ Goto(c, "calling") \/ Goto(c, "failed")
  /\ UNCHANGED <<task, connection>>

(* resolveInputRequests: the host answers, or the request is not one it    *)
(* can answer.                                                             *)
Elicit(c) ==
  /\ At(c, "eliciting")
  /\ \/ call' = [call EXCEPT ![c].at = "calling", ![c].round = @ + 1]
     \/ Goto(c, "failed")
  /\ UNCHANGED <<task, connection>>

-----------------------------------------------------------------------------
(* The task of a call on the server. *)
TaskAdvances(c) ==
  /\ \/ task[c] = "working" /\ \E s \in {"completed", "failed", "input_required"} : task' = [task EXCEPT ![c] = s]
     \/ task[c] = "input_required" /\ task' = [task EXCEPT ![c] = "cancelled"]
  /\ UNCHANGED <<call, connection>>

(* Mutant: a task that was cancelled counts as completed. *)
ReadAnyTask(c) ==
  /\ At(c, "task")
  /\ CASE call[c].seen \in Settled -> Goto(c, "done")
       [] call[c].seen = "input_required" -> Goto(c, "updating")
       [] OTHER -> Goto(c, "deadline")
  /\ UNCHANGED <<task, connection>>

(* One turn of resolveTask, by the status last read; a completed task may *)
(* lack its result.                                                        *)
ReadTask(c) ==
  /\ At(c, "task")
  /\ CASE call[c].seen = "completed"             -> \E e \in Ended : Goto(c, e)
       [] call[c].seen \in {"failed", "cancelled"} -> Goto(c, "failed")
       [] call[c].seen = "input_required"        -> Goto(c, "updating")
       [] OTHER                                  -> Goto(c, "deadline")
  /\ UNCHANGED <<task, connection>>

(* tasks/update with the host's answers, on which the server goes on with  *)
(* the task; a request that the host cannot answer throws, and nothing is  *)
(* sent.                                                                   *)
Updated(c) == [task EXCEPT ![c] = IF @ = "input_required" THEN "working" ELSE @]
Update(c) ==
  /\ At(c, "updating")
  /\ \/ Goto(c, "deadline") /\ task' = Updated(c)
     \/ Lose(c) /\ task' \in {task, Updated(c)}
     \/ Refuse(c) /\ UNCHANGED task
  /\ UNCHANGED connection

(* cancelTask with a signal of its own, whose failure is ignored; the      *)
(* server may have settled the task.                                       *)
CancelTask(c) ==
  \/ /\ call' = [call EXCEPT ![c].at = "failed", ![c].cancels = TRUE]
     /\ task' = [task EXCEPT ![c] = IF @ \in Settled THEN @ ELSE "cancelled"]
  \/ /\ Outages /\ UNCHANGED task
     /\ call' = [call EXCEPT ![c].at = "failed", ![c].cancels = TRUE, ![c].lost = TRUE]

(* maxTaskWaitMs, or the limit of polls, is looked at once a turn. *)
Expires(c) == At(c, "task") /\ ~call[c].expired /\ call' = [call EXCEPT ![c].expired = TRUE] /\ UNCHANGED <<task, connection>>

(* Mutant: an expired call leaves its task alone. *)
CheckDeadlineOnly(c) ==
  /\ At(c, "deadline")
  /\ IF call[c].expired THEN Goto(c, "failed") ELSE Goto(c, "sleeping")
  /\ UNCHANGED <<task, connection>>

(* Mutant: there is no deadline. *)
CheckNothing(c) == At(c, "deadline") /\ Goto(c, "sleeping") /\ UNCHANGED <<task, connection>>

CheckDeadline(c) ==
  /\ At(c, "deadline")
  /\ IF call[c].expired THEN CancelTask(c) ELSE Goto(c, "sleeping") /\ UNCHANGED task
  /\ UNCHANGED connection

(* The pause before the next poll; an abort ends it. *)
Sleep(c) ==
  /\ At(c, "sleeping")
  /\ IF call[c].aborted THEN CancelTask(c) ELSE Goto(c, "polling") /\ UNCHANGED task
  /\ UNCHANGED connection

(* tasks/get; a status that the adapter does not know throws. *)
Poll(c) ==
  /\ At(c, "polling")
  /\ \/ call' = [call EXCEPT ![c].at = "task", ![c].seen = task[c]]
     \/ Lose(c)
     \/ Refuse(c)
  /\ UNCHANGED <<task, connection>>

-----------------------------------------------------------------------------
(* The caller and the host. *)
Abort(c) ==
  /\ Aborts /\ call[c].at \notin Ended \cup {"new"} /\ ~call[c].aborted
  /\ call' = [call EXCEPT ![c].aborted = TRUE]
  /\ UNCHANGED <<task, connection>>

Close ==
  /\ ~closed /\ closed' = TRUE
  /\ listener' = "off"
  /\ UNCHANGED <<call, task, identity, discovery, leader>>

Turn(c) ==
  \/ Begin(c) \/ Discover(c) \/ SendCall(c) \/ CallLost(c) \/ CallAnswered(c) \/ Elicit(c)
  \/ ReadTask(c) \/ Update(c) \/ CheckDeadline(c) \/ Sleep(c) \/ Poll(c)

Next ==
  \/ \E c \in Calls : Turn(c) \/ TaskAdvances(c) \/ Expires(c) \/ Abort(c)
  \/ DiscoveryFails \/ DiscoveryAnswered \/ Close

Spec == Init /\ [][Next]_vars

(* Requests time out, timers fire and the deadline passes; nothing is      *)
(* assumed of the server's tasks.                                          *)
FairSpec ==
  /\ Spec
  /\ WF_vars(DiscoveryFails \/ DiscoveryAnswered)
  /\ \A c \in Calls : WF_vars(Turn(c)) /\ SF_vars(Expires(c))

-----------------------------------------------------------------------------
TypeOK ==
  /\ \A c \in Calls :
       /\ call[c].at \in Ended \cup {"new", "ready", "waiting", "calling", "called", "eliciting",
                                     "task", "updating", "deadline", "sleeping", "polling"}
       /\ call[c].round \in 0 .. MaxInputRounds + 1
       /\ task[c] \in Settled \cup {"none", "working", "input_required"}
  /\ (discovery = "sent") <=> (leader # NoCall)
  /\ Waiting # {} => discovery = "sent"

(* "Use one provider instance per identity" (packages/mcp/README.md:112):   *)
(* whichever caller comes first, no request is ever sent under two header  *)
(* sets.                                                                   *)
OneIdentity == \A c \in Calls : call[c].at \notin {"new", "failed"} => call[c].key = identity

(* maxInputRounds bounds the requests one call makes of the server. *)
RoundsAreBounded == \A c \in Calls : call[c].sent <= MaxInputRounds + 1

(* A call succeeds only with the result of a task that did. *)
SuccessIsTheTasks == \A c \in Calls : (At(c, "done") /\ task[c] # "none") => task[c] = "completed"

(* A call that ended, at its deadline, by an abort between two polls or by *)
(* its task, left no task working, unless a request was lost or the server *)
(* said something the adapter could not read or answer.                    *)
GivenUpTasksAreCancelled ==
  \A c \in Calls :
    (call[c].at \in Ended /\ ~call[c].lost /\ ~call[c].refused) => task[c] \in Settled \cup {"none"}

(* "sends tasks/update for input_required task input, and cancels          *)
(* best-effort" (packages/mcp/README.md:82): a call that cannot answer its *)
(* task, or read it, does not leave it working or waiting.                 *)
RefusedTasksAreCancelled ==
  \A c \in Calls : (call[c].refused /\ call[c].seen # "none") => call[c].cancels

(* Every call returns, however long the server works and whoever led the   *)
(* discovery it waited for.                                                *)
EveryCallReturns == \A c \in Calls : ~At(c, "new") ~> call[c].at \in Ended

(* "cancels best-effort on abort or deadline" (packages/mcp/README.md:83): *)
(* a call that was aborted has asked the server to stop its task.          *)
AbortedTasksAreCancelled ==
  \A c \in Calls :
    (At(c, "failed") /\ call[c].aborted /\ call[c].seen \in {"working", "input_required"}) => call[c].cancels

(* The listener "stays open until provider.close() aborts it"              *)
(* (packages/mcp/README.md:101).                                            *)
ClosedMeansSilent == closed => listener = "off"
=============================================================================
