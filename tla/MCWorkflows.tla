----------------------------- MODULE MCWorkflows -----------------------------
(* Workflows small enough for TLC.  The one the properties of WorkflowEngine *)
(* and its theorems are about has every kind of item but an event; next to   *)
(* it, in variables of their own, a chain of steps whose children pause and  *)
(* a fan-out whose children pause and expire.  A behaviour belongs to one of *)
(* them.                                                                     *)
EXTENDS WorkflowEngine, TLC

CONSTANTS
  Parts,        \* which workflows run
  p1, p2        \* attempts

VARIABLES
  part,                        \* which of them does: chosen once
  x1, x2, x3, x4, x5, x6, x7   \* the variables of the others

flow    == <<x1, x2, x3, x4, x5, x6, x7>>
allVars == <<part, vars, flow>>

\* A compensated step, a timer, then two steps in parallel.
ForkProgram == << [kind |-> "agent", id |-> "a", tasks |-> <<"a">>],
                  [kind |-> "timer", id |-> "t", tasks |-> <<>>],
                  [kind |-> "parallel", id |-> "p", tasks |-> <<"b", "c">>] >>
\* The same without the timer.
FanOutProgram == << ForkProgram[1], ForkProgram[3] >>
\* Its items the other way round: work follows a parallel step.
UnwoundProgram == << ForkProgram[3], ForkProgram[2], ForkProgram[1] >>
\* One step, a timer, a second step.
ChainProgram == << ForkProgram[1], ForkProgram[2],
                   [kind |-> "agent", id |-> "b", tasks |-> <<"b">>] >>

Chain == INSTANCE WorkflowEngine WITH
  Agents <- {"a", "b"}, Program <- ChainProgram, Compensated <- {"a"}, MaxChildren <- 2,
  Outcomes <- {"completed", "failed", "paused"}, stored <- x1, child <- x2, exec <- x3,
  failures <- x4, crashes <- x5, finished <- x6, undone <- x7
Pauses == INSTANCE WorkflowEngine WITH
  Program <- FanOutProgram, MaxChildren <- 1, MaxFailures <- 0,
  Outcomes <- {"completed", "failed", "paused", "expired"}, stored <- x1, child <- x2,
  exec <- x3, failures <- x4, crashes <- x5, finished <- x6, undone <- x7

ASSUME InstancesAreSound == Chain!ConstantsAssumption /\ Pauses!ConstantsAssumption

------------------------------------------------------------------------------
\* A part has its variables for itself and leaves those of the others.
Rest == "rest"

AllInit ==
  /\ part \in Parts /\ Init
  /\ \/ /\ part = "fork" /\ x1 = Rest /\ x2 = Rest /\ x3 = Rest /\ x4 = Rest /\ x5 = Rest
        /\ x6 = Rest /\ x7 = Rest
     \/ part = "chain" /\ Chain!Init
     \/ part = "pauses" /\ Pauses!Init

\* One thing goes wrong: a store call throws, a lease is lost, or a process dies.
OneFault == failures + crashes <= 1

AllNext ==
  \/ part = "fork" /\ Next /\ OneFault' /\ UNCHANGED <<part, flow>>
  \/ part = "chain" /\ Chain!Next /\ UNCHANGED <<part, vars>>
  \/ part = "pauses" /\ Pauses!Next /\ UNCHANGED <<part, vars>>

AllSpec == AllInit /\ [][AllNext]_allVars

\* Attempts are interchangeable.
Symmetry == Permutations({p1, p2})
------------------------------------------------------------------------------
\* What holds of the fork holds over pauses too: a step is done by one child,
\* in its place, and a failure undoes what was done; and steps are undone in the
\* reverse order of their records, whatever pauses, expires or crashes in
\* between.
PausedWorkIsOfOnePiece ==
  /\ part = "chain" => /\ Chain!TypeOK /\ Chain!WorkIsDoneOnce /\ Chain!CompletionIsWhole
                       /\ Chain!FailureIsCompensated /\ Chain!HandlersAreBack
  /\ part = "pauses" => Pauses!HandlersAreBack /\ Pauses!CompensationReversesTheRecord
==============================================================================
