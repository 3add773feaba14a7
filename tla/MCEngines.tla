------------------------------ MODULE MCEngines ------------------------------
(* One process with its registries (RuntimeProcess), and the delegations of *)
(* one team, in instances small enough for TLC. A behaviour belongs to one  *)
(* of them.                                                                 *)
EXTENDS RuntimeProcess, Sequences, TLC

CONSTANTS
  Parts,        \* who may take the steps of a behaviour
  p1, p2,       \* executions
  r1, r2, s1,   \* runs of one session
  Unset, Off    \* a limit not given, a limit turned off

VARIABLES
  part,  \* who takes them: chosen once
  x1, x2, x3, x4, x5, x6, x7, x8, x9  \* its variables

flow    == <<x1, x2, x3, x4, x5, x6, x7, x8, x9>>
allVars == <<part, vars, flow>>

\* Every run is of the one session.
OneHome == [r \in Runs |-> s1]

\* Delegations one after the other and side by side, too many of them, one to a
\* stranger, one that is begun twice.
D(id, agent) == [id |-> id, agent |-> agent]
TeamPrograms ==
  { << <<D("d1", "a")>>, <<D("d2", "b"), D("d3", "a")>>, <<D("d4", "b")>> >>,
    << <<D("d1", "a"), D("d2", "b"), D("d3", "a")>> >>,
    << <<D("d1", "a"), D("d2", "b")>>, <<D("d3", "b")>> >>,
    << <<D("d1", "a")>>, <<D("d2", "b"), D("d3", "a")>> >>,
    << <<D("d1", "a"), D("d2", "stranger")>>, <<D("d1", "a")>> >> }

Team == INSTANCE TeamBudget WITH
  Members <- {"a", "b"}, Programs <- TeamPrograms, TeamLimits <- {Unset, Off, 2},
  RequestLimits <- {Unset, 1, 3}, MaxDelegations <- 3, MaxParallel <- 2,
  MaxStepsOfChild <- 3, MaxCrashes <- 2, limits <- x1, budget <- x2, record <- x3,
  status <- x4, program <- x5, pc <- x6, task <- x7, delegations <- x8, crashes <- x9

ASSUME TeamIsSound == Team!TeamBudgetAssumption

------------------------------------------------------------------------------
\* The team has variables for itself; it leaves those of the process.
Rest == "rest"

\* The process either runs in the background or streams; one run is enough then.
OneRun == \E r \in Runs : \A x \in Executions : local[x].run \in {None, r}

AllInit ==
  /\ part \in Parts /\ Init
  /\ \/ /\ part \in {"background", "streams"} /\ x1 = Rest /\ x2 = Rest /\ x3 = Rest
        /\ x4 = Rest /\ x5 = Rest /\ x6 = Rest /\ x7 = Rest /\ x8 = Rest /\ x9 = Rest
     \/ part = "team" /\ Team!Init

AllNext ==
  \/ part = "background" /\ Next /\ Backgrounded' /\ UNCHANGED <<part, flow>>
  \/ part = "streams" /\ Next /\ OneRun' /\ UNCHANGED <<part, flow>>
  \/ part = "team" /\ Team!Next /\ UNCHANGED <<part, vars>>

AllSpec == AllInit /\ [][AllNext]_allVars

\* Executions are interchangeable, and so are the runs of a session.
Symmetry == Permutations({p1, p2}) \cup Permutations({r1, r2})
------------------------------------------------------------------------------
\* A team never delegates more often or wider than its limits over crashes and
\* replays, a child keeps both the team's and the request's limit, and the
\* shared budget is overspent by no more than what children got side by side.
TeamsKeepTheirLimits ==
  part = "team" =>
    /\ Team!TypeOK /\ Team!DelegationsAreBounded /\ Team!ChildrenKeepBothLimits
    /\ Team!OverspendIsBounded /\ Team!CompletedInBudget
==============================================================================
