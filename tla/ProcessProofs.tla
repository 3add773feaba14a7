--------------------------- MODULE ProcessProofs ---------------------------
(* However the timer, the caller's signal, the timer of SIGKILL and the end of *)
(* the process follow each other: the process is signalled once, nothing is    *)
(* armed after the answer, and the answer tells the cause.                     *)
EXTENDS SandboxProcess, SequenceTheorems, TLAPS

(* The state of the kill timer tells which signals were sent.                  *)
Signalled ==
  /\ killTimer \in {"unset", "armed", "fired", "cleared"}
  /\ killTimer = "unset" => sent = <<>>
  /\ killTimer \in {"armed", "cleared"} => sent = <<"SIGTERM">>
  /\ killTimer = "fired" => sent = <<"SIGTERM", "SIGKILL">>

Killed == killers = IF Docker /\ killTimer # "unset" THEN 1 ELSE 0

(* A process is told to end for a reason, and for a reason it is told.         *)
ForAReason ==
  /\ killTimer # "unset" <=> timedOut \/ aborted
  /\ signal /\ proc # "none" /\ answer = "none" => aborted

Unstarted == proc = "none" => timer = "off" /\ killTimer = "unset"

IInv == Signalled /\ Killed /\ ForAReason /\ Unstarted /\ NothingIsArmed

LEMMA Signals ==
  /\ Append(<<>>, "SIGTERM") = <<"SIGTERM">>
  /\ Append(<<"SIGTERM">>, "SIGKILL") = <<"SIGTERM", "SIGKILL">>
  /\ <<"SIGTERM">> # <<>> /\ <<"SIGTERM", "SIGKILL">> # <<>>
<1> DEFINE t == "SIGTERM"  k == "SIGKILL"
<1> HIDE DEF t, k
<1>1. Append(<<>>, t) = <<t>>
  OBVIOUS
<1>2. Append(<<t>>, k) = <<t, k>>
  <2> DEFINE a == Append(<<t>>, k)
             b == <<t, k>>
  <2>1. <<t>> \in Seq({t, k}) /\ Len(<<t>>) = 1
    OBVIOUS
  <2>2. a \in Seq({t, k}) /\ Len(a) = 2 /\ a[1] = t /\ a[2] = k
    BY <2>1, AppendProperties
  <2>3. b \in Seq({t, k}) /\ Len(b) = 2 /\ b[1] = t /\ b[2] = k
    OBVIOUS
  <2>4. \A i \in 1 .. 2 : a[i] = b[i]
    BY <2>2, <2>3
  <2> HIDE DEF a, b
  <2>5. a = b
    BY <2>2, <2>3, <2>4, SeqEqual
  <2> QED BY <2>5 DEF a, b
<1>3. <<t>> # <<>> /\ <<t, k>> # <<>>
  OBVIOUS
<1> QED BY <1>1, <1>2, <1>3 DEF t, k

LEMMA InitInv == Init => IInv
BY DEF Init, IInv, Signalled, Killed, ForAReason, Unstarted, NothingIsArmed

(* Terminate sends SIGTERM unless it was sent, and arms the kill timer.        *)
LEMMA TerminateStep ==
  ASSUME Signalled, Killed, Terminate
  PROVE  Signalled' /\ Killed' /\ killTimer' # "unset"
<1>1. CASE killTimer = "unset"
  <2>1. /\ sent' = <<"SIGTERM">> /\ killTimer' = "armed"
        /\ killers' = killers + (IF Docker THEN 1 ELSE 0)
    BY <1>1, Signals DEF Terminate, Signalled
  <2> QED BY <1>1, <2>1 DEF Signalled, Killed
<1>2. CASE killTimer # "unset"
  BY <1>2 DEF Terminate, Signalled, Killed
<1> QED BY <1>1, <1>2

LEMMA NextInv == IInv /\ [Next]_vars => IInv'
<1> SUFFICES ASSUME IInv, [Next]_vars PROVE IInv'
  OBVIOUS
<1> USE DEF IInv
<1>1. CASE Start
  BY <1>1 DEF Start, Signalled, Killed, ForAReason, Unstarted, NothingIsArmed
<1>2. CASE TimerFires
  <2>1. Signalled' /\ Killed' /\ killTimer' # "unset"
    BY <1>2, TerminateStep DEF TimerFires
  <2>2. answer = "none"
    BY <1>2 DEF TimerFires, NothingIsArmed
  <2> QED BY <1>2, <2>1, <2>2 DEF TimerFires, ForAReason, Unstarted, NothingIsArmed
<1>3. CASE SignalFires
  <2>1. CASE proc # "none" /\ answer = "none"
    <3>1. /\ aborted' = TRUE /\ timer' = "off" /\ Terminate
          /\ UNCHANGED <<proc, answer, timedOut>>
      BY <1>3, <2>1 DEF SignalFires
    <3>2. Signalled' /\ Killed' /\ killTimer' # "unset"
      BY <3>1, TerminateStep
    <3> QED BY <2>1, <3>1, <3>2 DEF ForAReason, Unstarted, NothingIsArmed
  <2>2. CASE ~(proc # "none" /\ answer = "none")
    BY <1>3, <2>2 DEF SignalFires, Signalled, Killed, ForAReason, Unstarted, NothingIsArmed
  <2> QED BY <2>1, <2>2
<1>4. CASE KillTimerFires
  <2>1. sent' = <<"SIGTERM", "SIGKILL">> /\ killTimer = "armed" /\ killTimer' = "fired"
    BY <1>4, Signals DEF KillTimerFires, Signalled
  <2> QED BY <1>4, <2>1 DEF KillTimerFires, Signalled, Killed, ForAReason, Unstarted, NothingIsArmed
<1>5. CASE SpawnFails
  BY <1>5 DEF SpawnFails, Cleanup, Signalled, Killed, ForAReason, Unstarted, NothingIsArmed
<1>6. CASE Exits
  BY <1>6 DEF Exits, limits, Signalled, Killed, ForAReason, Unstarted, NothingIsArmed
<1>7. CASE LetsGo
  BY <1>7 DEF LetsGo, limits, Signalled, Killed, ForAReason, Unstarted, NothingIsArmed
<1>8. CASE Close
  BY <1>8 DEF Close, Cleanup, Signalled, Killed, ForAReason, Unstarted, NothingIsArmed
<1>9. CASE \E chunk \in Chunks : Write(chunk)
  BY <1>9 DEF Write, limits, Signalled, Killed, ForAReason, Unstarted, NothingIsArmed
<1>10. CASE UNCHANGED vars
  BY <1>10 DEF vars, limits, Signalled, Killed, ForAReason, Unstarted, NothingIsArmed
<1> QED
  BY <1>1, <1>2, <1>3, <1>4, <1>5, <1>6, <1>7, <1>8, <1>9, <1>10 DEF Next

LEMMA Invariant == Spec => []IInv
<1> QED BY InitInv, NextInv, PTL DEF Spec

(* A process, and the container the docker CLI stands for, is signalled once:  *)
(* SIGTERM, and SIGKILL only after it (terminate of local-sandbox.ts and       *)
(* docker-executor.ts).                                                        *)
THEOREM ProcessesAreTerminatedOnce == Spec => []TerminatedOnce
<1>1. IInv => TerminatedOnce
  BY Signals DEF IInv, Signalled, Killed, TerminatedOnce
<1> QED BY <1>1, Invariant, PTL

(* Whatever ends a call, its answer leaves no timer (cleanup).                 *)
THEOREM NothingIsLeftArmed == Spec => []NothingIsArmed
<1>1. IInv => NothingIsArmed
  BY DEF IInv
<1> QED BY <1>1, Invariant, PTL

(* A call that was stopped never answers with a result, and a cancelled one    *)
(* never with a timeout (the order of the questions in `close`).               *)
THEOREM TheCauseIsTold == Spec => AnswersTellTheCause
<1> DEFINE Told ==
      /\ answer = "none" /\ answer' = "exit" => ~signal /\ sent = <<>>
      /\ answer = "none" /\ answer' = "timedOut" => ~signal /\ sent # <<>>
<1>1. ASSUME IInv, Close PROVE Told
  <2>1. proc = "exited" /\ answer' = IF aborted THEN "aborted"
                                     ELSE IF timedOut THEN "timedOut" ELSE "exit"
    BY <1>1 DEF Close
  <2>2. CASE aborted
    BY <2>1, <2>2
  <2>3. CASE ~aborted /\ timedOut
    <3>1. answer' = "timedOut" /\ (answer = "none" => ~signal)
      BY <1>1, <2>1, <2>3 DEF IInv, ForAReason
    <3>2. sent # <<>>
      BY <1>1, <2>3, Signals DEF IInv, ForAReason, Signalled
    <3> QED BY <3>1, <3>2
  <2>4. CASE ~aborted /\ ~timedOut
    <3>1. answer' = "exit" /\ (answer = "none" => ~signal)
      BY <1>1, <2>1, <2>4 DEF IInv, ForAReason
    <3>2. sent = <<>>
      BY <1>1, <2>4 DEF IInv, ForAReason, Signalled
    <3> QED BY <3>1, <3>2
  <2> QED BY <2>2, <2>3, <2>4
<1>2. ASSUME [Next]_vars, ~Close PROVE Told
  <2>1. answer' = answer \/ answer' \in {"aborted", "error"}
    BY <1>2 DEF Next, vars, limits, Start, TimerFires, SignalFires, KillTimerFires,
                SpawnFails, Exits, LetsGo, Write
  <2> QED BY <2>1
<1>3. IInv /\ [Next]_vars => [Told]_vars
  BY <1>1, <1>2
<1> QED BY <1>3, Invariant, PTL DEF Spec, AnswersTellTheCause
=============================================================================
