----------------------------- MODULE StepLedger -----------------------------
(***************************************************************************)
(* What a durable workflow promises about its steps, whatever processes    *)
(* come and go: a step is completed at most once and after the steps       *)
(* before it, a completed step may be compensated once while the workflow  *)
(* runs, and a workflow completes only with all its steps.                 *)
(***************************************************************************)
CONSTANTS Steps,
          Before   \* Before[s]: the steps that s comes after

VARIABLES status,  \* of the run
          done,    \* completed steps
          undone   \* compensated steps

vars == <<status, done, undone>>

Init == status = "none" /\ done = {} /\ undone = {}

Begin ==
  /\ status = "none" /\ status' = "running"
  /\ UNCHANGED <<done, undone>>

Completable(s) == s \in Steps \ done /\ Before[s] \subseteq done

Complete(s) ==
  /\ status = "running" /\ Completable(s)
  /\ done' = done \cup {s}
  /\ UNCHANGED <<status, undone>>

Undo(s) ==
  /\ status = "running" /\ s \in done \ undone
  /\ undone' = undone \cup {s}
  /\ UNCHANGED <<status, done>>

Pause ==
  /\ status = "running" /\ status' = "paused"
  /\ UNCHANGED <<done, undone>>

(* A wait is completed by the resolution that resumes the workflow. *)
Resume ==
  /\ status = "paused" /\ status' = "running"
  /\ \/ UNCHANGED done
     \/ \E s \in Steps : Completable(s) /\ done' = done \cup {s}
  /\ UNCHANGED undone

Succeed ==
  /\ status = "running" /\ done = Steps
  /\ status' = "completed"
  /\ UNCHANGED <<done, undone>>

(* A cancellation, or the deadline of a step that is being resumed, may    *)
(* come while the workflow is paused.                                      *)
Stop(how) ==
  /\ status \in {"running", "paused"}
  /\ status' = how
  /\ UNCHANGED <<done, undone>>

Next ==
  \/ Begin \/ Pause \/ Resume \/ Succeed
  \/ \E s \in Steps : Complete(s) \/ Undo(s)
  \/ \E how \in {"failed", "cancelled"} : Stop(how)

Spec == Init /\ [][Next]_vars
=============================================================================
