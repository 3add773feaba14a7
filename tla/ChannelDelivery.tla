-------------------------- MODULE ChannelDelivery --------------------------
(***************************************************************************)
(* handleChannelInput and deliverChannelRun (handle-channel-input.ts): a   *)
(* message of a channel becomes a run, and the answer of the run, or the   *)
(* question it pauses for, goes back through the adapter.  A host repeats  *)
(* a delivery that failed, from another call, and the person at the other  *)
(* end answers a question, which lets the run go on to its next question   *)
(* or its end.  The adapter's transport drops a delivery whose deliveryId  *)
(* it has seen; an answer of the transport may be lost.                    *)
(*                                                                         *)
(* A message is the calls made for it: the first one handles it and makes  *)
(* its run, the others deliver that run again.                             *)
(***************************************************************************)
EXTENDS Naturals, Sequences, FiniteSets

CONSTANTS Messages,
          Handles,      \* the call that handles each message
          Redeliveries, \* the deliveries that a host makes again
          MaxQuestions, \* how often a run pauses for a question
          CanAsk,       \* whether the adapter has deliverElicitation
          MayExpire     \* whether questions have an expiry

ChannelAssumption == MaxQuestions \in Nat /\ CanAsk \in BOOLEAN /\ MayExpire \in BOOLEAN

Calls == Handles \cup Redeliveries

VARIABLES run,       \* the run of each message
          call,      \* where each call is
          events,    \* the channel events each call told, in order
          answer,    \* what each call returned or threw
          accepted,  \* the deliveries the transport took, in order
          expired    \* the questions whose time is over

vars == <<run, call, events, answer, accepted, expired>>

NoRun == [status |-> "none", question |-> 0]
Idle == [phase |-> "idle", message |-> CHOOSE m \in Messages : TRUE, output |-> <<>>]

Init ==
  /\ run = [m \in Messages |-> NoRun]
  /\ call = [c \in Calls |-> Idle]
  /\ events = [c \in Calls |-> <<>>] /\ answer = [c \in Calls |-> "none"]
  /\ accepted = <<>> /\ expired = {}

Goto(c, phase) == call' = [call EXCEPT ![c].phase = phase]
Tell(c, event) == events' = [events EXCEPT ![c] = Append(@, event)]

\* The call throws, and tells why where the code does.
Throws(c, why) == Goto(c, "ended") /\ answer' = [answer EXCEPT ![c] = why]

----------------------------------------------------------------------------
(* handleChannelInput.                                                     *)

\* adapter.parse fails, has nothing to do, or gives the message.
Parse(c, m) ==
  /\ c \in Handles /\ call[c].phase = "idle" /\ run[m].status = "none"
  /\ \A d \in Handles \ {c} : call[d].phase = "idle" \/ call[d].message # m
  /\ \/ /\ call' = [call EXCEPT ![c] = [@ EXCEPT !.phase = "running", !.message = m]]
        /\ Tell(c, "received") /\ UNCHANGED answer
     \/ Throws(c, "CHANNEL_PARSE_FAILED") /\ Tell(c, "failed")
     \/ Throws(c, "ignored") /\ UNCHANGED events
  /\ UNCHANGED <<run, accepted, expired>>

\* runAgent returns the result or throws RunPausedError for a question.
RunEnds(c) ==
  LET m == call[c].message
  IN /\ call[c].phase = "running"
     /\ \/ run' = [run EXCEPT ![m].status = "completed"]
        \/ MaxQuestions > 0 /\ run' = [run EXCEPT ![m] = [status |-> "paused", question |-> 1]]
     /\ Goto(c, "reading")
     /\ UNCHANGED <<events, answer, accepted, expired>>

\* It fails, or pauses for something that a channel does not ask.
RunFails(c) ==
  /\ call[c].phase = "running"
  /\ run' = [run EXCEPT ![call[c].message].status = "failed"]
  /\ Throws(c, "CHANNEL_RUN_FAILED") /\ Tell(c, "failed")
  /\ UNCHANGED <<accepted, expired>>

----------------------------------------------------------------------------
(* deliverChannelRun, after a run or from a host that repeats it.          *)

Repeat(c, m) ==
  /\ c \in Redeliveries /\ call[c].phase = "idle" /\ run[m].status # "none"
  /\ call' = [call EXCEPT ![c] = [@ EXCEPT !.phase = "reading", !.message = m]]
  /\ UNCHANGED <<run, events, answer, accepted, expired>>

\* MUTANT of DeliveryId: a question has the id of the message.
DeliveryOfMessage(m, r) == <<"message", m>>

\* The stable key of a delivery: the question's, or the message's.
DeliveryId(m, r) ==
  IF r.status = "paused" THEN <<"elicitation", m, r.question>> ELSE <<"message", m>>

\* getRun: the run is asked for again, since it may have gone on.
ReadRun(c) ==
  LET r == run[call[c].message]
  IN /\ call[c].phase = "reading"
     /\ IF r.status \in {"completed", "paused"}
        THEN /\ call' = [call EXCEPT ![c].phase = "sending",
                           ![c].output = <<DeliveryId(call[c].message, r), r>>]
             /\ UNCHANGED <<events, answer>>
        ELSE Throws(c, "CHANNEL_RUN_FAILED") /\ Tell(c, "failed")
     /\ UNCHANGED <<run, accepted, expired>>

\* The store cannot be read, or the caller has gone: thrown as it is.
ReadFails(c) ==
  /\ call[c].phase = "reading"
  /\ Throws(c, "STORE_FAILED")
  /\ UNCHANGED <<run, events, accepted, expired>>

Asks(c) == call[c].output[2].status = "paused"

\* MUTANT of Refuse: the refusal is thrown only.
RefuseSilently(c) ==
  /\ call[c].phase = "sending" /\ Asks(c)
  /\ ~CanAsk \/ call[c].output[1] \in expired
  /\ Throws(c, IF CanAsk THEN "CHANNEL_ELICITATION_EXPIRED" ELSE "CHANNEL_ELICITATION_UNSUPPORTED")
  /\ UNCHANGED <<run, events, accepted, expired>>

\* An adapter that cannot ask, and a question that is too late.
Refuse(c) ==
  /\ call[c].phase = "sending" /\ Asks(c)
  /\ ~CanAsk \/ call[c].output[1] \in expired
  /\ Throws(c, IF CanAsk THEN "CHANNEL_ELICITATION_EXPIRED" ELSE "CHANNEL_ELICITATION_UNSUPPORTED")
  /\ Tell(c, "failed")
  /\ UNCHANGED <<run, accepted, expired>>

\* MUTANT of Send: the id is the one the run has at the time of sending.
SendNow(c) ==
  /\ call[c].phase = "sending"
  /\ Asks(c) => CanAsk /\ call[c].output[1] \notin expired
  /\ accepted' = Append(accepted, [id |-> DeliveryId(call[c].message, run[call[c].message]), of |-> call[c].output[2], by |-> c])
  /\ Goto(c, "listing") /\ Tell(c, "delivered") /\ UNCHANGED answer
  /\ UNCHANGED <<run, expired>>

\* The transport takes the delivery; its answer may be lost.
Send(c) ==
  /\ call[c].phase = "sending"
  /\ Asks(c) => CanAsk /\ call[c].output[1] \notin expired
  /\ accepted' = Append(accepted, [id |-> call[c].output[1], of |-> call[c].output[2], by |-> c])
  /\ \/ Goto(c, "listing") /\ Tell(c, "delivered") /\ UNCHANGED answer
     \/ Throws(c, "CHANNEL_DELIVERY_FAILED") /\ Tell(c, "failed")
  /\ UNCHANGED <<run, expired>>

\* MUTANT of SendFails: deliver is not waited for.
SendUnawaited(c) ==
  /\ call[c].phase = "sending"
  /\ Asks(c) => CanAsk /\ call[c].output[1] \notin expired
  /\ Goto(c, "listing") /\ Tell(c, "delivered")
  /\ UNCHANGED <<run, answer, accepted, expired>>

SendFails(c) ==
  /\ call[c].phase = "sending"
  /\ Asks(c) => CanAsk /\ call[c].output[1] \notin expired
  /\ Throws(c, "CHANNEL_DELIVERY_FAILED") /\ Tell(c, "failed")
  /\ UNCHANGED <<run, accepted, expired>>

\* MUTANT of Return: what fails after the delivery is told as its failure.
ReturnFailed(c) ==
  /\ call[c].phase = "listing"
  /\ \/ Throws(c, "delivered") /\ UNCHANGED events
     \/ Throws(c, "STORE_FAILED") /\ Tell(c, "failed")
  /\ UNCHANGED <<run, accepted, expired>>

\* listEvents, for the result: its failure is thrown as it is.
Return(c) ==
  /\ call[c].phase = "listing"
  /\ \E how \in {"delivered", "STORE_FAILED"} : Throws(c, how)
  /\ UNCHANGED <<run, events, accepted, expired>>

----------------------------------------------------------------------------
(* The other end.                                                          *)

\* A question that was delivered is answered: the run is resumed.
Answer(m) ==
  /\ run[m].status = "paused"
  /\ \E i \in 1..Len(accepted) : accepted[i].id = DeliveryId(m, run[m])
  /\ DeliveryId(m, run[m]) \notin expired
  /\ run' = [run EXCEPT ![m].status = "running"]
  /\ UNCHANGED <<call, events, answer, accepted, expired>>

\* The resumed run pauses again or ends.
GoesOn(m) ==
  /\ run[m].status = "running"
  /\ \/ run' = [run EXCEPT ![m].status = "completed"]
     \/ run' = [run EXCEPT ![m].status = "failed"]
     \/ run[m].question < MaxQuestions /\ run' = [run EXCEPT ![m] = [status |-> "paused", question |-> @.question + 1]]
  /\ UNCHANGED <<call, events, answer, accepted, expired>>

Expire(m) ==
  /\ MayExpire /\ run[m].status = "paused" /\ DeliveryId(m, run[m]) \notin expired
  /\ expired' = expired \cup {DeliveryId(m, run[m])}
  /\ UNCHANGED <<run, call, events, answer, accepted>>

Next ==
  \/ \E c \in Calls, m \in Messages : Parse(c, m) \/ Repeat(c, m)
  \/ \E c \in Calls : RunEnds(c) \/ RunFails(c) \/ ReadRun(c) \/ ReadFails(c) \/ Refuse(c) \/ Send(c) \/ SendFails(c) \/ Return(c)
  \/ \E m \in Messages : Answer(m) \/ GoesOn(m) \/ Expire(m)

Spec == Init /\ [][Next]_vars
----------------------------------------------------------------------------
(* Properties.                                                             *)

\* The variables have their types.
TypeOK ==
  /\ \A m \in Messages : run[m].status \in {"none", "running", "paused", "completed", "failed"}
  /\ \A m \in Messages : run[m].question \in 0..MaxQuestions
  /\ \A c \in Calls : Len(events[c]) <= 2

\* What has the same delivery id is the same delivery, so that a transport that
\* drops the second of them drops nothing that is new, and two that differ are
\* both shown (channel.ts, "preserved across delivery retries").
SameIdSameDelivery ==
  \A i, j \in 1..Len(accepted) :
    LET Of(k) == <<accepted[k].of.status, IF accepted[k].of.status = "paused" THEN accepted[k].of.question ELSE 0,
                   call[accepted[k].by].message>>
    IN (accepted[i].id = accepted[j].id) <=> (Of(i) = Of(j))

\* A call that ended with a result, and no other, told that it delivered, except
\* when the events could not be listed afterwards; every other one told that it
\* failed, once, unless it had nothing to do or the store could not be read.
OutcomesAreTold ==
  \A c \in Calls : call[c].phase = "ended" =>
    LET told == {i \in 1..Len(events[c]) : events[c][i] \in {"delivered", "failed"}}
    IN CASE answer[c] \in {"delivered", "STORE_FAILED"} -> \A i \in told : events[c][i] = "delivered" /\ i = Len(events[c])
         [] answer[c] = "ignored" -> events[c] = <<>>
         [] OTHER -> Cardinality(told) = 1 /\ events[c][Len(events[c])] = "failed"

\* A call never tells a delivery that the transport did not take.
DeliveredIsAccepted ==
  \A c \in Calls : "delivered" \in {events[c][i] : i \in 1..Len(events[c])} =>
    \E i \in 1..Len(accepted) : accepted[i].by = c /\ accepted[i].id = call[c].output[1]

\* What the person sees, which is the first delivery of each id, comes in the
\* order in which the run asked, and its end last, although a call may take a
\* question to the transport that was answered meanwhile.
Shown == {i \in 1..Len(accepted) : \A j \in 1..i - 1 : accepted[j].id # accepted[i].id}
ShownInOrder ==
  \A i, j \in Shown :
    /\ i < j /\ call[accepted[i].by].message = call[accepted[j].by].message
    => /\ accepted[i].of.status = "paused"
       /\ accepted[j].of.status = "paused" => accepted[i].of.question < accepted[j].of.question
============================================================================
