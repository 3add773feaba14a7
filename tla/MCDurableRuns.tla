--------------------------- MODULE MCDurableRuns ---------------------------
(* Instances of DurableRuns for TLC: a run with a long life, or two runs   *)
(* of a session with shorter ones.                                         *)
EXTENDS DurableRuns, TLC

Alone == \E r \in Runs : Runs \cap minted \subseteq {r}
Brief == now < MaxNow
(* Every attempt begins or takes over, and one of them ends the run.       *)
Terse ==
  \A r \in Runs :
    Len(events[r]) <= lease[r].generation + (IF run[r].status \in Terminal THEN 1 ELSE 0)
EarlyOn == \A r \in Runs : checkpoint[r] <= 1

Small ==
  \/ Alone /\ (Brief \/ Terse)
  \/ Brief /\ Terse /\ EarlyOn

SmallSpec == Init /\ [][Next /\ Small']_vars

Symmetry == Permutations(Owners) \cup Permutations(Runs) \cup Permutations(Sessions)
=============================================================================
