------------------------------ MODULE MTLSReload ------------------------------
(***************************************************************************)
(* The client certificate of the SDK's mTLS connections (mtls.go).  The    *)
(* configuration holds none: GetClientCertificate reads the certificate    *)
(* and then the key from their files at every handshake, while an operator *)
(* -- not this repository's code -- replaces the two files, each at once,  *)
(* in either order.  A certificate and a key fit if they are of the same   *)
(* generation.                                                             *)
(***************************************************************************)
EXTENDS Naturals

CONSTANTS
    Dials,              \* connections being opened: HTTP and gRPC, concurrently
    MaxGeneration       \* bound: generations of the pair

ASSUME MTLSAssumption == MaxGeneration \in Nat

VARIABLES
    cert, key,          \* generation in each file
    dial,               \* where each dial is
    read,               \* generation of the certificate it has read
    presented           \* generation of the pair it presented last, 0: none

mtlsVars == <<cert, key, dial, read, presented>>

\* The last generation that is in both files.
Complete == IF cert < key THEN cert ELSE key

\* NewTLSConfig reads the pair once, to be sure there is one.
MTLSInit ==
    /\ cert = 1 /\ key = 1
    /\ dial = [d \in Dials |-> "idle"]
    /\ read = [d \in Dials |-> 0]
    /\ presented = [d \in Dials |-> 0]

\* The operator replaces one file, then the other.
BeginRotation ==
    /\ cert = key /\ cert < MaxGeneration
    /\ \/ cert' = cert + 1 /\ UNCHANGED key
       \/ key' = key + 1 /\ UNCHANGED cert
    /\ UNCHANGED <<dial, read, presented>>
EndRotation ==
    /\ cert # key
    /\ cert' = IF cert < key THEN key ELSE cert
    /\ key' = cert'
    /\ UNCHANGED <<dial, read, presented>>

\* LoadX509KeyPair: the certificate, then the key.
ReadCertificate(d) ==
    /\ dial[d] \in {"idle", "failed"}
    /\ dial' = [dial EXCEPT ![d] = "reading"]
    /\ read' = [read EXCEPT ![d] = cert]
    /\ UNCHANGED <<cert, key, presented>>

\* A pair that does not fit fails the handshake closed.
FitsMutant(d) == key >= read[d]         \* a newer key will do
Fits(d) == key = read[d]
ReadKey(d) ==
    /\ dial[d] = "reading"
    /\ IF Fits(d)
       THEN /\ dial' = [dial EXCEPT ![d] = "open"]
            /\ presented' = [presented EXCEPT ![d] = read[d]]
       ELSE /\ dial' = [dial EXCEPT ![d] = "failed"]
            /\ UNCHANGED presented
    /\ UNCHANGED <<cert, key, read>>

\* The connection goes away; the next request dials again.
Drop(d) ==
    /\ dial[d] = "open"
    /\ dial' = [dial EXCEPT ![d] = "idle"]
    /\ UNCHANGED <<cert, key, read, presented>>

Rotation == BeginRotation \/ EndRotation
Handshake(d) == ReadCertificate(d) \/ ReadKey(d)
MTLSNext == Rotation \/ \E d \in Dials : Handshake(d) \/ Drop(d)
MTLSSpec == MTLSInit /\ [][MTLSNext]_mtlsVars
-----------------------------------------------------------------------------
\* A handshake that succeeds presents the pair that is complete on disk at that
\* very moment, whatever was being replaced while it read; one that cannot,
\* fails.  (GetClientCertificate, mtls.go:48-56)
OnePair == INSTANCE CertificatePair WITH current <- Complete
PresentsOnePair == OnePair!Spec

\* The files are at most one rotation apart, and nothing newer than the
\* certificate on disk was ever read.
MTLSTypeOK ==
    /\ cert \in Nat \ {0} /\ key \in Nat \ {0}
    /\ dial \in [Dials -> {"idle", "reading", "open", "failed"}]
    /\ read \in [Dials -> Nat] /\ presented \in [Dials -> Nat]
MTLSInv ==
    /\ MTLSTypeOK
    /\ cert <= key + 1 /\ key <= cert + 1
    /\ \A d \in Dials : read[d] <= cert
=============================================================================
