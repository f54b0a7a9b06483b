--------------------------- MODULE CertificatePair ---------------------------
(***************************************************************************)
(* What a connection may rely on when certificates are rotated: there is   *)
(* one current pair, and a handshake that succeeds presents that one.      *)
(***************************************************************************)
EXTENDS Naturals

CONSTANT Dials              \* connections being opened, one handshake at a time

VARIABLES
    current,                \* the generation of the pair in force
    presented               \* the generation each dial presented last, 0: none

Init == current = 1 /\ presented = [d \in Dials |-> 0]

Rotate == current' = current + 1 /\ UNCHANGED presented
Present(d) ==
    presented' = [presented EXCEPT ![d] = current] /\ UNCHANGED current

Next == Rotate \/ \E d \in Dials : Present(d)
Spec == Init /\ [][Next]_<<current, presented>>
=============================================================================
