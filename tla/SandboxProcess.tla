-------------------------- MODULE SandboxProcess ---------------------------
(***************************************************************************)
(* One process that a sandbox runs: the command itself (local-sandbox.ts)  *)
(* or the docker command that stands for it (docker-executor.ts).  Its     *)
(* timer and the caller's signal end it with SIGTERM and, 100 ms later,    *)
(* with SIGKILL; the answer waits for `close`, which comes when the        *)
(* process has ended and nothing holds its output any more; the output is  *)
(* cut at a number of bytes, and a character that is cut is left out.      *)
(*                                                                         *)
(* A character is the number of its bytes.                                 *)
(***************************************************************************)
EXTENDS Naturals, Sequences, SequencesExt

CONSTANTS Docker,     \* whether the process is the docker CLI
          HoldsPipe,  \* whether a process it left behind may hold its output
          Limit,      \* maxOutputBytes
          Chunks,     \* what the process may write at once
          MaxWritten  \* how many characters it writes at most

ASSUME ProcessAssumption == {Docker, HoldsPipe} \subseteq BOOLEAN /\ Limit \in Nat \ {0}

VARIABLES proc,       \* "none", "running", "failed" to start, "exited", "closed"
          held,       \* a process it started holds the pipe
          signal,     \* whether the caller's signal has fired
          timer,      \* "off" or "armed"
          killTimer,  \* "unset", "armed", "fired" or "cleared"
          sent,       \* the signals sent to the process, in order
          killers,    \* the `docker kill` commands that were started
          timedOut, aborted,
          answer,     \* "none", "exit", "timedOut", "aborted" or "error"
          written,    \* the characters the process wrote
          output      \* [bytes, text] kept of them

limits == <<signal, timer, killTimer, sent, killers, timedOut, aborted>>
vars == <<proc, held, limits, answer, written, output>>

Bytes(chars) == FoldSeq(LAMBDA c, n : c + n, 0, chars)

\* The characters of chars that are whole within n bytes.
Whole(chars, n) ==
  SubSeq(chars, 1, CHOOSE k \in 0..Len(chars) :
    /\ Bytes(SubSeq(chars, 1, k)) <= n
    /\ k = Len(chars) \/ Bytes(SubSeq(chars, 1, k + 1)) > n)

Init ==
  /\ proc = "none" /\ held = FALSE /\ signal = FALSE
  /\ timer = "off" /\ killTimer = "unset" /\ sent = <<>> /\ killers = 0
  /\ timedOut = FALSE /\ aborted = FALSE
  /\ answer = "none" /\ written = <<>> /\ output = [bytes |-> 0, text |-> <<>>]

\* The promise: throwIfAborted, then spawn, which may fail in an event.
Start ==
  /\ proc = "none" /\ answer = "none"
  /\ IF signal
     THEN /\ answer' = "aborted" /\ UNCHANGED <<proc, timer>>
     ELSE /\ \E p \in {"running", "failed"} : proc' = p
          /\ timer' = "armed" /\ UNCHANGED answer
  /\ UNCHANGED <<held, signal, killTimer, sent, killers, timedOut, aborted, written, output>>

\* MUTANT of Terminate: no SIGKILL follows.
TerminateKindly ==
  IF killTimer = "unset"
  THEN /\ killers' = killers + (IF Docker THEN 1 ELSE 0)
       /\ sent' = Append(sent, "SIGTERM")
       /\ killTimer' = "cleared"
  ELSE UNCHANGED <<killers, sent, killTimer>>

\* MUTANT of Terminate: the signal repeats what the timer did.
TerminateAgain ==
  /\ killers' = killers + (IF Docker THEN 1 ELSE 0)
  /\ sent' = Append(sent, "SIGTERM")
  /\ killTimer' = "armed"

Terminate ==
  IF killTimer = "unset"
  THEN /\ killers' = killers + (IF Docker THEN 1 ELSE 0)
       /\ sent' = Append(sent, "SIGTERM")
       /\ killTimer' = "armed"
  ELSE UNCHANGED <<killers, sent, killTimer>>

TimerFires ==
  /\ timer = "armed"
  /\ timer' = "off" /\ timedOut' = TRUE
  /\ Terminate
  /\ UNCHANGED <<proc, held, signal, aborted, answer, written, output>>

\* The listener is attached from the spawn to the answer.
SignalFires ==
  /\ ~signal /\ signal' = TRUE
  /\ IF proc # "none" /\ answer = "none"
     THEN aborted' = TRUE /\ timer' = "off" /\ Terminate
     ELSE UNCHANGED <<aborted, timer, killers, sent, killTimer>>
  /\ UNCHANGED <<proc, held, timedOut, answer, written, output>>

KillTimerFires ==
  /\ killTimer = "armed"
  /\ killTimer' = "fired" /\ sent' = Append(sent, "SIGKILL")
  /\ UNCHANGED <<proc, held, signal, timer, killers, timedOut, aborted, answer, written, output>>

\* MUTANT of Cleanup: the timer of SIGKILL is left.
CleanupTimer ==
  /\ timer' = "off"
  /\ UNCHANGED <<killTimer, signal, sent, killers, timedOut, aborted>>

Cleanup ==
  /\ timer' = "off"
  /\ killTimer' = IF killTimer = "armed" THEN "cleared" ELSE killTimer
  /\ UNCHANGED <<signal, sent, killers, timedOut, aborted>>

SpawnFails ==
  /\ proc = "failed" /\ proc' = "closed"
  /\ answer' = "error" /\ Cleanup
  /\ UNCHANGED <<held, written, output>>

\* MUTANT of AppendLimited: only the bytes of whole characters count.
AppendByText(o, chunk) ==
  LET kept == Whole(chunk, Limit - o.bytes)
  IN [bytes |-> o.bytes + Bytes(kept), text |-> o.text \o kept]

\* MUTANT of AppendLimited: the bytes that are left out count as well.
AppendUncut(o, chunk) ==
  LET remaining == Limit - o.bytes
  IN IF remaining <= 0 THEN o ELSE [bytes |-> o.bytes + Bytes(chunk), text |-> o.text \o Whole(chunk, remaining)]

AppendLimited(o, chunk) ==
  LET remaining == Limit - o.bytes
      size == Bytes(chunk)
  IN IF remaining <= 0 THEN o
     ELSE [bytes |-> o.bytes + (IF size < remaining THEN size ELSE remaining),
           text |-> o.text \o Whole(chunk, remaining)]

\* The process, or one it left behind, writes and the chunk arrives.
Write(chunk) ==
  /\ proc = "running" \/ held
  /\ Len(written) + Len(chunk) <= MaxWritten
  /\ written' = written \o chunk
  /\ output' = AppendLimited(output, chunk)
  /\ UNCHANGED <<proc, held, limits, answer>>

\* The process ends, by itself, at SIGTERM or at SIGKILL.
Exits ==
  /\ proc = "running" /\ proc' = "exited"
  /\ \E h \in {FALSE, HoldsPipe} : held' = h
  /\ UNCHANGED <<limits, answer, written, output>>

LetsGo == held /\ held' = FALSE /\ UNCHANGED <<proc, limits, answer, written, output>>

\* MUTANT of Close: the timer is asked before the signal.
CloseByTimer ==
  /\ proc = "exited" /\ ~held /\ proc' = "closed"
  /\ answer' = IF timedOut THEN "timedOut" ELSE IF aborted THEN "aborted" ELSE "exit"
  /\ Cleanup
  /\ UNCHANGED <<held, written, output>>

Close ==
  /\ proc = "exited" /\ ~held /\ proc' = "closed"
  /\ answer' = IF aborted THEN "aborted" ELSE IF timedOut THEN "timedOut" ELSE "exit"
  /\ Cleanup
  /\ UNCHANGED <<held, written, output>>

Next ==
  \/ Start \/ TimerFires \/ SignalFires \/ KillTimerFires \/ SpawnFails \/ Exits \/ LetsGo \/ Close
  \/ \E chunk \in Chunks : Write(chunk)

Spec == Init /\ [][Next]_vars

\* Timers fire and events are delivered; SIGKILL ends a process, and nothing
\* but it is sure to.
FairSpec ==
  /\ Spec
  /\ WF_vars(Start) /\ WF_vars(TimerFires) /\ WF_vars(KillTimerFires)
  /\ WF_vars(SpawnFails) /\ WF_vars(Close)
  /\ WF_vars("SIGKILL" \in Range(sent) /\ Exits)
----------------------------------------------------------------------------
(* Properties.                                                             *)

\* The variables have their types.
TypeOK ==
  /\ proc \in {"none", "running", "failed", "exited", "closed"}
  /\ timer \in {"off", "armed"} /\ killTimer \in {"unset", "armed", "fired", "cleared"}
  /\ answer \in {"none", "exit", "timedOut", "aborted", "error"}
  /\ output.bytes \in 0..Limit

\* What is kept is what was written up to the limit, without the character that
\* crosses it and without anything after it, however the output was cut in chunks.
OutputIsAPrefix == output.text = Whole(written, Limit)

\* A process that outlives its timer and the caller's signal is told to end
\* once, first kindly, and its container is killed once.
TerminatedOnce ==
  /\ sent \in {<<>>, <<"SIGTERM">>, <<"SIGTERM", "SIGKILL">>}
  /\ killers = IF Docker /\ sent # <<>> THEN 1 ELSE 0

\* No timer is left when the call has answered: a late SIGKILL would go to
\* whatever process has the number by then.
NothingIsArmed == answer # "none" => timer = "off" /\ killTimer # "armed"

\* A call whose signal fired before it answered never answers with a result,
\* and one that was stopped by its timer says so.
AnswersTellTheCause ==
  [][/\ answer = "none" /\ answer' = "exit" => ~signal /\ sent = <<>>
     /\ answer = "none" /\ answer' = "timedOut" => ~signal /\ sent # <<>>]_vars

\* A command that is past its limit ends although it ignores SIGTERM
\* (local-sandbox.ts, "must not outlive the limit").
LimitsHold == (timedOut \/ aborted) ~> answer # "none"

\* Every process answers.
Answers == (proc = "running") ~> answer # "none"
============================================================================
