--------------------------- MODULE MCGatewayCreate ---------------------------
(* GatewayCreate on a small instance: two intents, which may start with    *)
(* the same key; or, for the liveness run, one whose own lost requests     *)
(* make the duplicates.                                                    *)
EXTENDS GatewayCreate, TLC

\* Intents and keys are interchangeable (for the safety run).
Symmetry == Permutations(Intents) \cup Permutations(Keys)
=============================================================================
