---------------------------- MODULE MCAuthRetry ----------------------------
(* AuthRetry on a small instance.  Every caller makes one call, which is   *)
(* up to two Token calls and one Invalidate.                               *)
EXTENDS AuthRetry

\* One caller reads the identity back; the other makes a call of any kind.
Somebody == CHOOSE c \in Callers : TRUE
MCLoops ==
    { [c \in Callers |-> IF c = Somebody THEN k ELSE "checked"] : k \in Kinds }

MCReplies ==
    { [wellFormed |-> TRUE, inSeconds |-> FixedLifetime, at |-> 0] }
=============================================================================
