---------------------------- MODULE MCToolCalls ----------------------------
(* Instances of ToolCalls for TLC: a few workers and the two calls of one  *)
(* answer.                                                                 *)
EXTENDS ToolCalls, TLC

CONSTANTS a, b  \* the calls

TwoCalls == <<a, b>>

\* A tool without a key has one attempt by default; it may be declared with more.
AttemptsOfKeyed == a :> 1 @@ b :> 2
AttemptsOfAll   == a :> 2 @@ b :> 2

WorkerSymmetry == Permutations(Workers)
=============================================================================
