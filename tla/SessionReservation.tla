------------------------- MODULE SessionReservation -------------------------
(***************************************************************************)
(* What the durable store and the engines promise together about a         *)
(* conversation: a run reserves its session from its creation until it     *)
(* settles, only a run that completes adds to the history, and history is  *)
(* forgotten only together with every run of the session.                  *)
(***************************************************************************)
CONSTANTS Runs, Sessions, NoSession

VARIABLES
  standing,   \* run id -> what is known of the run
  home,       \* run id -> the session of the run
  history     \* session id -> the runs whose interactions it accounts for

vars == <<standing, home, history>>

Init ==
  /\ standing = [r \in Runs |-> "absent"]
  /\ home = [r \in Runs |-> NoSession]
  /\ history = [s \in Sessions |-> {}]

Reserved(s) == \E r \in Runs : standing[r] = "active" /\ home[r] = s

Reserve(r, s) ==
  /\ standing[r] = "absent"
  /\ ~ Reserved(s)
  /\ standing' = [standing EXCEPT ![r] = "active"]
  /\ home' = [home EXCEPT ![r] = s]
  /\ UNCHANGED history

Complete(r) ==
  /\ standing[r] = "active"
  /\ standing' = [standing EXCEPT ![r] = "completed"]
  /\ history' = [history EXCEPT ![home[r]] = @ \cup {r}]
  /\ UNCHANGED home

Abandon(r) ==
  /\ standing[r] = "active"
  /\ standing' = [standing EXCEPT ![r] = "abandoned"]
  /\ UNCHANGED <<home, history>>

Forget(R) ==
  LET emptied == {s \in Sessions : /\ \E r \in R : home[r] = s
                                   /\ \A r \in Runs \ R : home[r] # s}
  IN /\ \A r \in R : standing[r] \in {"completed", "abandoned"}
     /\ standing' = [r \in Runs |-> IF r \in R THEN "absent" ELSE standing[r]]
     /\ home' = [r \in Runs |-> IF r \in R THEN NoSession ELSE home[r]]
     /\ history' = [s \in Sessions |-> IF s \in emptied THEN {} ELSE history[s]]

Next ==
  \/ \E r \in Runs, s \in Sessions : Reserve(r, s)
  \/ \E r \in Runs : Complete(r) \/ Abandon(r)
  \/ \E R \in SUBSET Runs : Forget(R)

Spec == Init /\ [][Next]_vars
=============================================================================
