---------------------------- MODULE MCPrediction ----------------------------
(* Small instances of Prediction for TLC. *)
EXTENDS Prediction, TLC

CONSTANTS r1, r2, ma, mb

\* One request for both models, one for the first of them.
TwoRequests == r1 :> <<ma, mb>> @@ r2 :> <<ma>>

\* The second model is downgraded sometimes, or always; the first never.
SecondOnly == { [m \in Models |-> IF m = mb THEN n ELSE 0] : n \in {30, 100} }
=============================================================================
