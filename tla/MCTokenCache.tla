---------------------------- MODULE MCTokenCache ----------------------------
(* TokenCache on small instances.  One tick is 60 seconds: the refresh     *)
(* window is 1 tick and the fixed lifetime 5 (300 s), or 2 where the run   *)
(* wants a token to leave its window within few ticks.                     *)
EXTENDS TokenCache, TLC

\* The fixed lifetime; an absolute expiry that is soon past; a reply without
\* an expiry; a reply that is not a Bearer token.
MCReplies ==
    { [wellFormed |-> TRUE, inSeconds |-> FixedLifetime, at |-> 0],
      [wellFormed |-> TRUE, inSeconds |-> 0, at |-> 1],
      [wellFormed |-> FALSE, inSeconds |-> FixedLifetime, at |-> 0] }

\* Callers are interchangeable (for the safety run).
Symmetry == Permutations(Callers)
=============================================================================
