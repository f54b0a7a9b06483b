-------------------------- MODULE GatewayRequest_proofs -------------------------
(***************************************************************************)
(* Proofs about GatewayRequest, for any calls, dials and rotations, with   *)
(* those about MTLSReload and about the paths and lines of GatewayPath.    *)
(*                                                                         *)
(* Why no handshake presents a superseded pair: the key it reads last is   *)
(* the certificate's, no certificate read is newer than the one on disk,   *)
(* so that key is the older of the two files -- the complete generation.   *)
(*                                                                         *)
(* Why no call can be taken for another: ids have neither slashes nor line *)
(* ends in them, so the first slash, or line end, that is found is the one *)
(* that was put there, and what is before it has one length only.  All of  *)
(* it goes symbol by symbol: Joined says where the symbols of s \o t are.  *)
(* For the body, CanonicalJSON_proofs has that one canonical form is one   *)
(* value.                                                                  *)
(*                                                                         *)
(* Why the signer finds nothing that the client did not find: a fault of a *)
(* body is at a place in it, and the places of the body are those of its   *)
(* sections, one or two steps further down.                                *)
(***************************************************************************)
EXTENDS GatewayRequest, CanonicalJSON_proofs

\* The files are at most one rotation apart and nothing read is newer than the
\* certificate on disk (LoadX509KeyPair, mtls.go:49).
LEMMA MTLSInvStep == MTLSInv /\ [MTLSNext]_mtlsVars => MTLSInv'
<1> SUFFICES ASSUME MTLSInv, [MTLSNext]_mtlsVars PROVE MTLSInv'
    OBVIOUS
<1> USE DEF MTLSInv, MTLSTypeOK
<1>1. CASE BeginRotation
    BY <1>1 DEF BeginRotation
<1>2. CASE EndRotation
    BY <1>2 DEF EndRotation
<1>3. ASSUME NEW d \in Dials, ReadCertificate(d) PROVE MTLSInv'
    BY <1>3 DEF ReadCertificate
<1>4. ASSUME NEW d \in Dials, ReadKey(d) PROVE MTLSInv'
    BY <1>4 DEF ReadKey
<1>5. ASSUME NEW d \in Dials, Drop(d) PROVE MTLSInv'
    BY <1>5 DEF Drop
<1>6. CASE UNCHANGED mtlsVars
    BY <1>6 DEF mtlsVars
<1>. QED
    BY <1>1, <1>2, <1>3, <1>4, <1>5, <1>6 DEF MTLSNext, Rotation, Handshake

\* The type invariant and the order of what is read and what is on disk
\* (GetClientCertificate, mtls.go:48-56).
THEOREM MTLSInvariant == MTLSSpec => []MTLSInv
<1>1. MTLSInit => MTLSInv
    BY DEF MTLSInit, MTLSInv, MTLSTypeOK
<1>2. QED
    BY <1>1, MTLSInvStep, PTL DEF MTLSSpec

\* A key that fits a certificate read earlier is of the complete generation.
LEMMA FittingPairIsComplete ==
    ASSUME MTLSInv, NEW d \in Dials, Fits(d)
    PROVE  read[d] = Complete
BY DEF MTLSInv, MTLSTypeOK, Fits, Complete

\* Every step is a rotation, a presentation of the current pair, or neither.
LEMMA PairStep ==
    MTLSInv /\ [MTLSNext]_mtlsVars => [OnePair!Next]_<<Complete, presented>>
<1> SUFFICES ASSUME MTLSInv, [MTLSNext]_mtlsVars
             PROVE  [OnePair!Next]_<<Complete, presented>>
    OBVIOUS
<1> USE DEF MTLSInv, MTLSTypeOK
<1>1. CASE BeginRotation
    BY <1>1 DEF BeginRotation, Complete
<1>2. CASE EndRotation
    <2>1. Complete' = Complete + 1
        BY <1>2 DEF EndRotation, Complete
    <2>2. UNCHANGED presented
        BY <1>2 DEF EndRotation
    <2>. QED
        BY <2>1, <2>2 DEF OnePair!Next, OnePair!Rotate
<1>3. ASSUME NEW d \in Dials, ReadCertificate(d)
      PROVE UNCHANGED <<Complete, presented>>
    BY <1>3 DEF ReadCertificate, Complete
<1>4. ASSUME NEW d \in Dials, ReadKey(d)
      PROVE [OnePair!Next]_<<Complete, presented>>
    <2>1. UNCHANGED Complete
        BY <1>4 DEF ReadKey, Complete
    <2>2. CASE Fits(d)
        <3>1. presented' = [presented EXCEPT ![d] = Complete]
            BY <1>4, <2>2, FittingPairIsComplete DEF ReadKey
        <3>. QED
            BY <2>1, <3>1 DEF OnePair!Next, OnePair!Present
    <2>3. CASE ~Fits(d)
        BY <1>4, <2>1, <2>3 DEF ReadKey
    <2>. QED
        BY <2>2, <2>3
<1>5. ASSUME NEW d \in Dials, Drop(d) PROVE UNCHANGED <<Complete, presented>>
    BY <1>5 DEF Drop, Complete
<1>6. CASE UNCHANGED mtlsVars
    BY <1>6 DEF mtlsVars, Complete
<1>. QED
    BY <1>1, <1>2, <1>3, <1>4, <1>5, <1>6 DEF MTLSNext, Rotation, Handshake

\* Reading two files one after the other, while they are replaced, is as good as
\* reading one current pair (mtls.go:48-56).
THEOREM ReloadPresentsOnePair == MTLSSpec => PresentsOnePair
<1>1. MTLSInit => OnePair!Init
    BY DEF MTLSInit, OnePair!Init, Complete
<1>2. QED
    BY <1>1, MTLSInvariant, PairStep, PTL DEF MTLSSpec, PresentsOnePair, OnePair!Spec
-----------------------------------------------------------------------------
(* Paths and lines.  Symbols is any set that holds what paths are made of.  *)

Vocabulary(Symbols) ==
    {Prefix, "/", "artifacts", NL, "POST", "GET", "DELETE"} \subseteq Symbols

\* A call as an application can make it, whatever it puts into it.
Call(c, Symbols) ==
    /\ c.route \in Routes
    /\ c.ids \in Seq(Seq(Symbols)) /\ c.actor \in Seq(Symbols) /\ c.key \in Seq(Symbols)

\* The ids of a call with as many ids as its route takes.
LEMMA IdsAre ==
    ASSUME NEW Symbols, NEW c, Call(c, Symbols), Len(c.ids) = IdsOf(c.route)
    PROVE  /\ c.route = "create" => c.ids = <<>>
           /\ c.route \in {"get", "cancel"} =>
                c.ids = <<c.ids[1]>> /\ c.ids[1] \in Seq(Symbols) /\ DOMAIN c.ids = {1}
           /\ c.route = "get_artifact" =>
                /\ c.ids = <<c.ids[1], c.ids[2]>> /\ DOMAIN c.ids = {1, 2}
                /\ c.ids[1] \in Seq(Symbols) /\ c.ids[2] \in Seq(Symbols)
<1>1. c.ids \in Seq(Seq(Symbols)) /\ Len(c.ids) = IdsOf(c.route) /\ DOMAIN c.ids = 1..Len(c.ids)
    BY DEF Call
<1>2. CASE c.route = "create"
    BY <1>1, <1>2 DEF IdsOf
<1>3. CASE c.route \in {"get", "cancel"}
  <2>1. Len(c.ids) = 1 /\ DOMAIN c.ids = {1}
    BY <1>1, <1>3 DEF IdsOf
  <2>2. c.ids[1] \in Seq(Symbols) /\ c.ids = <<c.ids[1]>>
    BY <1>1, <2>1
  <2>3. QED
    BY <1>3, <2>1, <2>2
<1>4. CASE c.route = "get_artifact"
  <2>1. Len(c.ids) = 2 /\ DOMAIN c.ids = {1, 2}
    BY <1>1, <1>4 DEF IdsOf
  <2>2. c.ids[1] \in Seq(Symbols) /\ c.ids[2] \in Seq(Symbols) /\ c.ids = <<c.ids[1], c.ids[2]>>
    BY <1>1, <2>1
  <2>3. QED
    BY <1>4, <2>1, <2>2
<1>5. QED
    BY <1>2, <1>3, <1>4 DEF Call, Routes

\* Where the symbols of a path are: the path of an invocation ...
InvocationPath(p, i) ==
    /\ Len(p) = 2 + Len(i) /\ p[1] = Prefix /\ p[2] = "/"
    /\ \A k \in 1..Len(i) : p[2 + k] = i[k]
\* ... and of an artifact.
ArtifactPath(p, i, j) ==
    /\ Len(p) = 5 + Len(i) + Len(j) /\ p[1] = Prefix /\ p[2] = "/"
    /\ \A k \in 1..Len(i) : p[2 + k] = i[k]
    /\ p[3 + Len(i)] = "/" /\ p[4 + Len(i)] = "artifacts" /\ p[5 + Len(i)] = "/"
    /\ \A k \in 1..Len(j) : p[5 + Len(i) + k] = j[k]

\* What it is to be two sequences put together ...
Joint(q, s, t) ==
    /\ Len(q) = Len(s) + Len(t)
    /\ \A k \in 1..Len(s) : q[k] = s[k]
    /\ \A k \in 1..Len(t) : q[Len(s) + k] = t[k]

\* ... and that \o does.
LEMMA Joined ==
    ASSUME NEW S, NEW s \in Seq(S), NEW t \in Seq(S)
    PROVE  s \o t \in Seq(S) /\ Joint(s \o t, s, t)
<1>1. Len(s) \in Nat /\ Len(t) \in Nat
    OBVIOUS
<1>2. /\ s \o t \in Seq(S) /\ Len(s \o t) = Len(s) + Len(t)
      /\ \A k \in 1..Len(s) + Len(t) :
            (s \o t)[k] = IF k <= Len(s) THEN s[k] ELSE t[k - Len(s)]
    BY ConcatProperties, Zenon
<1> DEFINE q == s \o t
<1> HIDE DEF q
<1>3. /\ q \in Seq(S) /\ Len(q) = Len(s) + Len(t)
      /\ \A k \in 1..Len(s) + Len(t) : q[k] = IF k <= Len(s) THEN s[k] ELSE t[k - Len(s)]
    BY <1>2, Zenon DEF q
<1>4. q \in Seq(S) /\ Joint(q, s, t)
  <2>1. \A k \in 1..Len(s) : q[k] = s[k]
    BY <1>1, <1>3
  <2>2. ASSUME NEW k \in 1..Len(t) PROVE q[Len(s) + k] = t[k]
    <3>1. Len(s) + k \in 1..Len(s) + Len(t) /\ ~(Len(s) + k <= Len(s)) /\ (Len(s) + k) - Len(s) = k
      BY <1>1
    <3>2. QED
      BY <1>3, <3>1
  <2>3. QED
    BY <1>3, <2>1, <2>2 DEF Joint
<1>5. QED
    BY <1>4, Zenon DEF q

\* What CanonicalGatewayPath puts together.
LEMMA PathIs ==
    ASSUME NEW Symbols, Vocabulary(Symbols), NEW c, Call(c, Symbols),
           Len(c.ids) = IdsOf(c.route)
    PROVE  /\ Path(c) \in Seq(Symbols)
           /\ c.route = "create" => Path(c) = <<Prefix>>
           /\ c.route \in {"get", "cancel"} => InvocationPath(Path(c), c.ids[1])
           /\ c.route = "get_artifact" => ArtifactPath(Path(c), c.ids[1], c.ids[2])
<1> DEFINE i == c.ids[1]
           j == c.ids[2]
           front == <<Prefix, "/">>
           middle == <<"/", "artifacts", "/">>
<1>1. /\ front \in Seq(Symbols) /\ Len(front) = 2 /\ front[1] = Prefix /\ front[2] = "/"
      /\ middle \in Seq(Symbols) /\ Len(middle) = 3
      /\ middle[1] = "/" /\ middle[2] = "artifacts" /\ middle[3] = "/"
    BY DEF Vocabulary
<1>2. CASE c.route = "create"
    BY <1>2 DEF Path, Vocabulary
<1>3. CASE c.route \in {"get", "cancel"}
  <2>1. i \in Seq(Symbols) /\ Len(i) \in Nat
    BY <1>3, IdsAre
  <2>2. Path(c) = front \o i
    BY <1>3 DEF Path
  <2> HIDE DEF front, i
  <2>3. Path(c) \in Seq(Symbols) /\ Joint(Path(c), front, i)
    BY <1>1, <2>1, <2>2, Joined, Zenon
  <2>4. InvocationPath(Path(c), i)
    BY <1>1, <2>1, <2>3 DEF InvocationPath, Joint
  <2>5. QED
    BY <1>3, <2>3, <2>4 DEF i
<1>4. CASE c.route = "get_artifact"
  <2>1. i \in Seq(Symbols) /\ Len(i) \in Nat /\ j \in Seq(Symbols) /\ Len(j) \in Nat
    BY <1>4, IdsAre
  <2>2. Path(c) = ((front \o i) \o middle) \o j
    BY <1>4 DEF Path
  <2> HIDE DEF front, middle, i, j
  <2> DEFINE q == front \o i
             r == q \o middle
             p == r \o j
  <2>3. q \in Seq(Symbols) /\ Joint(q, front, i)
    BY <1>1, <2>1, Joined, Zenon
  <2> HIDE DEF q
  <2>4. r \in Seq(Symbols) /\ Joint(r, q, middle)
    BY <1>1, <2>3, Joined, Zenon
  <2> HIDE DEF r
  <2>5. p \in Seq(Symbols) /\ Joint(p, r, j)
    BY <2>1, <2>4, Joined, Zenon
  <2> HIDE DEF p
  <2>6. Len(q) = 2 + Len(i) /\ q[1] = Prefix /\ q[2] = "/" /\ \A k \in 1..Len(i) : q[2 + k] = i[k]
    BY <1>1, <2>1, <2>3 DEF Joint
  <2>7. /\ Len(r) = 5 + Len(i) /\ \A k \in 1..Len(q) : r[k] = q[k]
        /\ r[3 + Len(i)] = "/" /\ r[4 + Len(i)] = "artifacts" /\ r[5 + Len(i)] = "/"
    <3>1. Len(r) = 5 + Len(i)
      BY <1>1, <2>1, <2>4, <2>6 DEF Joint
    <3>2. r[Len(q) + 1] = middle[1] /\ r[Len(q) + 2] = middle[2] /\ r[Len(q) + 3] = middle[3]
      BY <1>1, <2>4 DEF Joint
    <3>3. Len(q) + 1 = 3 + Len(i) /\ Len(q) + 2 = 4 + Len(i) /\ Len(q) + 3 = 5 + Len(i)
      BY <2>1, <2>6
    <3>4. QED
      BY <1>1, <2>4, <3>1, <3>2, <3>3 DEF Joint
  <2>8. /\ Len(p) = 5 + Len(i) + Len(j) /\ \A k \in 1..Len(r) : p[k] = r[k]
        /\ \A k \in 1..Len(j) : p[5 + Len(i) + k] = j[k]
    BY <2>1, <2>5, <2>7 DEF Joint
  <2>9. ArtifactPath(p, i, j)
    <3>1. \A k \in 1..2 + Len(i) : p[k] = q[k]
      BY <2>1, <2>6, <2>7, <2>8
    <3>2. p[1] = Prefix /\ p[2] = "/" /\ \A k \in 1..Len(i) : p[2 + k] = i[k]
      BY <2>1, <2>6, <3>1
    <3>3. p[3 + Len(i)] = "/" /\ p[4 + Len(i)] = "artifacts" /\ p[5 + Len(i)] = "/"
      BY <2>1, <2>7, <2>8
    <3>4. QED
      BY <2>8, <3>2, <3>3 DEF ArtifactPath
  <2>10. Path(c) = p
    BY <2>2, Zenon DEF p, r, q
  <2>11. QED
    BY <1>4, <2>5, <2>9, <2>10 DEF i, j
<1>5. QED
    BY <1>2, <1>3, <1>4 DEF Call, Routes

\* Two paths of one invocation are one id.
LEMMA InvocationPathTells ==
    ASSUME NEW S, NEW i \in Seq(S), NEW k \in Seq(S), NEW p,
           InvocationPath(p, i), InvocationPath(p, k)
    PROVE  i = k
<1>1. Len(i) \in Nat /\ Len(k) \in Nat /\ Len(i) = Len(k)
    BY DEF InvocationPath
<1>2. \A n \in 1..Len(i) : i[n] = k[n]
    BY <1>1 DEF InvocationPath
<1>3. QED
    BY <1>1, <1>2, SeqEqual

\* No safe sequence has a slash or a line end in it.
LEMMA SafeSymbols ==
    ASSUME NEW S, NEW s \in Seq(S), IsSafe(s), NEW n \in 1..Len(s)
    PROVE  s[n] # "/" /\ s[n] # NL
<1>1. n \in DOMAIN s
    OBVIOUS
<1>2. QED
    BY <1>1 DEF IsSafe, Safe, NL

\* The path of an artifact is the path of no other: the first slash after the
\* prefix's is behind the invocation's id.
LEMMA ArtifactPathTells ==
    ASSUME NEW S, NEW i \in Seq(S), NEW j \in Seq(S), NEW k \in Seq(S), NEW l \in Seq(S), NEW p,
           ArtifactPath(p, i, j), ArtifactPath(p, k, l), IsSafe(i), IsSafe(k)
    PROVE  i = k /\ j = l
<1>1. Len(i) \in Nat /\ Len(j) \in Nat /\ Len(k) \in Nat /\ Len(l) \in Nat
    OBVIOUS
<1>2. ASSUME NEW a \in Seq(S), NEW b \in Seq(S), IsSafe(b), Len(a) < Len(b),
             p[3 + Len(a)] = "/", \A n \in 1..Len(b) : p[2 + n] = b[n]
      PROVE  FALSE
  <2>1. Len(a) \in Nat /\ Len(b) \in Nat /\ Len(a) + 1 \in 1..Len(b) /\ 2 + (Len(a) + 1) = 3 + Len(a)
    BY <1>2
  <2>2. b[Len(a) + 1] = "/"
    BY <1>2, <2>1
  <2>3. QED
    BY <1>2, <2>1, <2>2, SafeSymbols
<1>3. Len(i) = Len(k)
  <2>1. ~(Len(i) < Len(k))
    BY <1>2 DEF ArtifactPath
  <2>2. ~(Len(k) < Len(i))
    BY <1>2 DEF ArtifactPath
  <2>3. QED
    BY <1>1, <2>1, <2>2
<1>4. Len(j) = Len(l)
    BY <1>1, <1>3 DEF ArtifactPath
<1>5. i = k
  <2>1. \A n \in 1..Len(i) : i[n] = k[n]
    BY <1>3 DEF ArtifactPath
  <2>2. QED
    BY <1>3, <2>1, SeqEqual
<1>6. j = l
  <2>1. \A n \in 1..Len(j) : j[n] = l[n]
    BY <1>3, <1>4 DEF ArtifactPath
  <2>2. QED
    BY <1>4, <2>1, SeqEqual
<1>7. QED
    BY <1>5, <1>6

\* The path of an invocation is that of no artifact: it has no other slash.
LEMMA PathsDiffer ==
    ASSUME NEW S, NEW i \in Seq(S), NEW j \in Seq(S), NEW k \in Seq(S), NEW p,
           InvocationPath(p, k), ArtifactPath(p, i, j), IsSafe(k)
    PROVE  FALSE
<1>1. Len(i) \in Nat /\ Len(j) \in Nat /\ Len(k) \in Nat /\ Len(k) = 3 + Len(i) + Len(j)
    BY DEF InvocationPath, ArtifactPath
<1>2. Len(i) + 1 \in 1..Len(k) /\ 2 + (Len(i) + 1) = 3 + Len(i)
    BY <1>1
<1>3. k[Len(i) + 1] = "/"
    BY <1>2 DEF InvocationPath, ArtifactPath
<1>4. QED
    BY <1>2, <1>3, SafeSymbols

\* The segments of a path that was put together are the ones it was put together of.
LEMMA SegmentsOfInvocation ==
    ASSUME NEW S, NEW i \in Seq(S), NEW p \in Seq(S), InvocationPath(p, i)
    PROVE  /\ SubSeq(p, 3, Len(p)) = i /\ (IsSafe(i) => Slashes(p) = {})
           /\ Len(p) > 1 /\ p[1] = Prefix /\ p[2] = "/"
<1>1. Len(i) \in Nat /\ Len(p) = 2 + Len(i)
    BY DEF InvocationPath
<1>2. ASSUME IsSafe(i), NEW n \in 3..Len(p) PROVE p[n] # "/"
  <2>1. n - 2 \in 1..Len(i) /\ 2 + (n - 2) = n
    BY <1>1
  <2>2. p[n] = i[n - 2]
    BY <2>1 DEF InvocationPath
  <2>3. QED
    BY <1>2, <2>1, <2>2, SafeSymbols
<1>3. SubSeq(p, 3, Len(p)) = i
  <2> DEFINE t == SubSeq(p, 3, Len(p))
  <2>1. t \in Seq(S) /\ Len(t) = Len(i) /\ \A n \in 1..Len(i) : t[n] = p[2 + n]
    BY <1>1
  <2>2. \A n \in 1..Len(t) : t[n] = i[n]
    BY <2>1 DEF InvocationPath
  <2> HIDE DEF t
  <2>3. t = i
    BY <2>1, <2>2, SeqEqual
  <2>4. QED
    BY <2>3 DEF t
<1>4. QED
    BY <1>1, <1>2, <1>3 DEF Slashes, InvocationPath

\* And of an artifact's path.
LEMMA SegmentsOfArtifact ==
    ASSUME NEW S, NEW i \in Seq(S), NEW j \in Seq(S), NEW p \in Seq(S), ArtifactPath(p, i, j)
    PROVE  /\ {3 + Len(i), 5 + Len(i)} \subseteq Slashes(p)
           /\ IsSafe(i) /\ IsSafe(j) => Slashes(p) = {3 + Len(i), 5 + Len(i)}
           /\ SubSeq(p, 3, 2 + Len(i)) = i
           /\ SubSeq(p, 4 + Len(i), 4 + Len(i)) = <<"artifacts">>
           /\ SubSeq(p, 6 + Len(i), Len(p)) = j
           /\ Len(p) > 1 /\ p[1] = Prefix /\ p[2] = "/"
<1>1. Len(i) \in Nat /\ Len(j) \in Nat /\ Len(p) = 5 + Len(i) + Len(j)
    BY DEF ArtifactPath
<1>2. ASSUME IsSafe(i), IsSafe(j), NEW n \in 3..Len(p), n # 3 + Len(i), n # 5 + Len(i) PROVE p[n] # "/"
  <2>1. CASE n < 3 + Len(i)
    <3>1. n - 2 \in 1..Len(i) /\ 2 + (n - 2) = n
      BY <1>1, <2>1
    <3>2. p[n] = i[n - 2]
      BY <3>1 DEF ArtifactPath
    <3>3. QED
      BY <1>2, <3>1, <3>2, SafeSymbols
  <2>2. CASE n = 4 + Len(i)
    BY <2>2 DEF ArtifactPath
  <2>3. CASE n > 5 + Len(i)
    <3>1. n - (5 + Len(i)) \in 1..Len(j) /\ 5 + Len(i) + (n - (5 + Len(i))) = n
      BY <1>1, <2>3
    <3>2. p[n] = j[n - (5 + Len(i))]
      BY <3>1 DEF ArtifactPath
    <3>3. QED
      BY <1>2, <3>1, <3>2, SafeSymbols
  <2>4. QED
    BY <1>1, <1>2, <2>1, <2>2, <2>3
<1>3. /\ {3 + Len(i), 5 + Len(i)} \subseteq Slashes(p)
      /\ IsSafe(i) /\ IsSafe(j) => Slashes(p) = {3 + Len(i), 5 + Len(i)}
  <2>1. 3 + Len(i) \in 3..Len(p) /\ 5 + Len(i) \in 3..Len(p)
    BY <1>1
  <2>2. p[3 + Len(i)] = "/" /\ p[5 + Len(i)] = "/"
    BY DEF ArtifactPath
  <2>3. QED
    BY <1>2, <2>1, <2>2 DEF Slashes
<1>4. SubSeq(p, 3, 2 + Len(i)) = i
  <2> DEFINE t == SubSeq(p, 3, 2 + Len(i))
  <2>1. t \in Seq(S) /\ Len(t) = Len(i) /\ \A n \in 1..Len(i) : t[n] = p[2 + n]
    BY <1>1
  <2>2. \A n \in 1..Len(t) : t[n] = i[n]
    BY <2>1 DEF ArtifactPath
  <2> HIDE DEF t
  <2>3. t = i
    BY <2>1, <2>2, SeqEqual
  <2>4. QED
    BY <2>3 DEF t
<1>5. SubSeq(p, 4 + Len(i), 4 + Len(i)) = <<"artifacts">>
  <2> DEFINE t == SubSeq(p, 4 + Len(i), 4 + Len(i))
             a == <<p[4 + Len(i)]>>
  <2>1. p[4 + Len(i)] = "artifacts" /\ p[4 + Len(i)] \in S
    BY <1>1 DEF ArtifactPath
  <2>2. t \in Seq(S) /\ Len(t) = 1 /\ t[1] = p[4 + Len(i)]
    BY <1>1
  <2>3. a \in Seq(S) /\ Len(a) = 1 /\ a[1] = p[4 + Len(i)]
    BY <2>1
  <2> HIDE DEF t, a
  <2>4. t = a
    BY <2>2, <2>3, SeqEqual
  <2>5. QED
    BY <2>1, <2>4 DEF t, a
<1>6. SubSeq(p, 6 + Len(i), Len(p)) = j
  <2> DEFINE t == SubSeq(p, 6 + Len(i), Len(p))
  <2>1. t \in Seq(S) /\ Len(t) = Len(j) /\ \A n \in 1..Len(j) : t[n] = p[5 + Len(i) + n]
    BY <1>1
  <2>2. \A n \in 1..Len(t) : t[n] = j[n]
    BY <2>1 DEF ArtifactPath
  <2> HIDE DEF t
  <2>3. t = j
    BY <2>1, <2>2, SeqEqual
  <2>4. QED
    BY <2>3 DEF t
<1>7. QED
    BY <1>1, <1>3, <1>4, <1>5, <1>6 DEF ArtifactPath

\* No two routes of one method have a path in common, and within a route the
\* ids are read off the path.
LEMMA PathSeparates ==
    ASSUME NEW Symbols, Vocabulary(Symbols),
           NEW c, Call(c, Symbols), IdsOK(c), NEW d, Call(d, Symbols), IdsOK(d),
           Method(c.route) = Method(d.route), Path(c) = Path(d)
    PROVE  c.route = d.route /\ c.ids = d.ids
<1>1. /\ c.route \in Routes /\ Len(c.ids) = IdsOf(c.route)
      /\ d.route \in Routes /\ Len(d.ids) = IdsOf(d.route)
    BY DEF IdsOK, Call
<1>2. \A id : ValidServerIssuedID(id) => IsSafe(id)
    BY DEF ValidServerIssuedID
<1>3. CASE c.route = "create"
  <2>1. d.route = "create"
    BY <1>1, <1>3 DEF Method, Routes
  <2>2. QED
    BY <1>1, <1>3, <2>1, IdsAre
<1>4. CASE c.route = "cancel"
  <2>1. d.route = "cancel"
    BY <1>1, <1>4 DEF Method, Routes
  <2>2. InvocationPath(Path(c), c.ids[1]) /\ InvocationPath(Path(c), d.ids[1])
    BY <1>1, <1>4, <2>1, PathIs
  <2>3. /\ c.ids = <<c.ids[1]>> /\ c.ids[1] \in Seq(Symbols)
        /\ d.ids = <<d.ids[1]>> /\ d.ids[1] \in Seq(Symbols)
    BY <1>1, <1>4, <2>1, IdsAre
  <2>4. c.ids[1] = d.ids[1]
    BY <2>2, <2>3, InvocationPathTells
  <2>5. QED
    BY <1>4, <2>1, <2>3, <2>4
<1>5. ASSUME NEW x, Call(x, Symbols), IdsOK(x), NEW y, Call(y, Symbols), IdsOK(y),
             Path(x) = Path(y), x.route = "get"
      PROVE  /\ y.route = "get" => x.ids = y.ids
             /\ y.route # "get_artifact"
  <2>1. /\ x.ids = <<x.ids[1]>> /\ x.ids[1] \in Seq(Symbols) /\ IsSafe(x.ids[1])
        /\ InvocationPath(Path(x), x.ids[1])
    BY <1>2, <1>5, IdsAre, PathIs DEF IdsOK
  <2>2. ASSUME y.route = "get" PROVE x.ids = y.ids
    <3>1. /\ y.ids = <<y.ids[1]>> /\ y.ids[1] \in Seq(Symbols)
          /\ InvocationPath(Path(x), y.ids[1])
      BY <1>5, <2>2, IdsAre, PathIs DEF IdsOK
    <3>2. x.ids[1] = y.ids[1]
      BY <2>1, <3>1, InvocationPathTells
    <3>3. QED
      BY <2>1, <3>1, <3>2
  <2>3. ASSUME y.route = "get_artifact" PROVE FALSE
    <3>1. /\ y.ids[1] \in Seq(Symbols) /\ y.ids[2] \in Seq(Symbols)
          /\ ArtifactPath(Path(x), y.ids[1], y.ids[2])
      BY <1>5, <2>3, IdsAre, PathIs DEF IdsOK
    <3>2. QED
      BY <2>1, <3>1, PathsDiffer
  <2>4. QED
    BY <2>2, <2>3
<1>6. CASE c.route = "get"
  <2>1. d.route \in {"get", "get_artifact"}
    BY <1>1, <1>6 DEF Method, Routes
  <2>2. QED
    BY <1>5, <1>6, <2>1
<1>7. CASE c.route = "get_artifact"
  <2>1. d.route = "get_artifact"
    <3>1. d.route \in {"get", "get_artifact"}
      BY <1>1, <1>7 DEF Method, Routes
    <3>2. QED
      BY <1>5, <1>7, <3>1
  <2>2. /\ c.ids = <<c.ids[1], c.ids[2]>> /\ c.ids[1] \in Seq(Symbols) /\ c.ids[2] \in Seq(Symbols)
        /\ d.ids = <<d.ids[1], d.ids[2]>> /\ d.ids[1] \in Seq(Symbols) /\ d.ids[2] \in Seq(Symbols)
        /\ 1 \in DOMAIN c.ids /\ 1 \in DOMAIN d.ids
    BY <1>1, <1>7, <2>1, IdsAre
  <2>3. /\ ArtifactPath(Path(c), c.ids[1], c.ids[2])
        /\ ArtifactPath(Path(c), d.ids[1], d.ids[2])
    BY <1>1, <1>7, <2>1, PathIs
  <2>4. IsSafe(c.ids[1]) /\ IsSafe(d.ids[1])
    BY <1>2, <2>2 DEF IdsOK
  <2>5. c.ids[1] = d.ids[1] /\ c.ids[2] = d.ids[2]
    BY <2>2, <2>3, <2>4, ArtifactPathTells
  <2>6. QED
    BY <1>7, <2>1, <2>2, <2>5
<1>8. QED
    BY <1>1, <1>3, <1>4, <1>6, <1>7 DEF Routes

\* The signer, which takes the path apart (gatewayOperationAndMethod), and the
\* client, which put it together (CanonicalGatewayPath), agree on every
\* sequence of symbols there is: the signer finds the operation the caller
\* meant exactly when the client's check let the ids pass.  No id, however it
\* is spelled, makes one route look like another.
THEOREM SignerKnowsThePath ==
    ASSUME NEW Symbols, Vocabulary(Symbols), NEW c, Call(c, Symbols),
           Len(c.ids) = IdsOf(c.route)
    PROVE  Operation(Method(c.route), Path(c)) = c.route <=> IdsOK(c)
<1> DEFINE p == Path(c)
           i == c.ids[1]
           j == c.ids[2]
           op == Operation(Method(c.route), p)
<1>1. \A id : ValidServerIssuedID(id) => IsSafe(id)
    BY DEF ValidServerIssuedID
<1>2. CASE c.route = "create"
  <2>1. IdsOK(c)
    BY <1>2, IdsAre DEF IdsOK
  <2>2. QED
    BY <1>2, <2>1, PathIs DEF Operation, Method
<1>3. CASE c.route \in {"get", "cancel"}
  <2>1. i \in Seq(Symbols) /\ p \in Seq(Symbols) /\ InvocationPath(p, i)
    BY <1>3, IdsAre, PathIs
  <2>2. /\ SubSeq(p, 3, Len(p)) = i /\ (IsSafe(i) => Slashes(p) = {})
        /\ Len(p) > 1 /\ p[1] = Prefix /\ p[2] = "/"
    BY <2>1, SegmentsOfInvocation
  <2>3. p # <<Prefix>>
    BY <2>2
  <2>4. IdsOK(c) <=> ValidServerIssuedID(i)
    BY <1>3, IdsAre DEF IdsOK
  <2> HIDE DEF p, i
  <2>5. Registered(p) /\ Slashes(p) = {} => ValidServerIssuedID(i)
    BY <2>2, <2>3 DEF Registered, OneSegment, ThreeSegments
  <2>6. ValidServerIssuedID(i) => Registered(p) /\ Slashes(p) = {}
    BY <1>1, <2>2 DEF Registered, OneSegment
  <2>7. op = c.route <=> Registered(p) /\ Slashes(p) = {}
    BY <1>3, <2>3 DEF Operation, Method
  <2>8. QED
    BY <2>4, <2>5, <2>6, <2>7 DEF p
<1>4. CASE c.route = "get_artifact"
  <2>1. i \in Seq(Symbols) /\ j \in Seq(Symbols) /\ p \in Seq(Symbols) /\ ArtifactPath(p, i, j)
    BY <1>4, IdsAre, PathIs
  <2>4. IdsOK(c) <=> ValidServerIssuedID(i) /\ ValidServerIssuedID(j)
    BY <1>4, IdsAre DEF IdsOK
  <2> HIDE DEF p, i, j
  <2>2. /\ {3 + Len(i), 5 + Len(i)} \subseteq Slashes(p)
        /\ IsSafe(i) /\ IsSafe(j) => Slashes(p) = {3 + Len(i), 5 + Len(i)}
        /\ SubSeq(p, 3, 2 + Len(i)) = i
        /\ SubSeq(p, 4 + Len(i), 4 + Len(i)) = <<"artifacts">>
        /\ SubSeq(p, 6 + Len(i), Len(p)) = j
        /\ Len(p) > 1 /\ p[1] = Prefix /\ p[2] = "/"
    BY <2>1, SegmentsOfArtifact
  <2>3. p # <<Prefix>> /\ Slashes(p) # {}
    BY <2>2
  <2>5. Len(i) \in Nat
    BY <2>1
  <2>6. ThreeSegments(p) => ValidServerIssuedID(i) /\ ValidServerIssuedID(j)
    <3> SUFFICES ASSUME ThreeSegments(p) PROVE ValidServerIssuedID(i) /\ ValidServerIssuedID(j)
        OBVIOUS
    <3>1. PICK m, n \in Slashes(p) :
            /\ m < n /\ Slashes(p) = {m, n}
            /\ ValidServerIssuedID(SubSeq(p, 3, m - 1))
            /\ ValidServerIssuedID(SubSeq(p, n + 1, Len(p)))
        BY DEF ThreeSegments
    <3>2. m = 3 + Len(i) /\ n = 5 + Len(i)
        BY <2>2, <2>5, <3>1
    <3>3. m - 1 = 2 + Len(i) /\ n + 1 = 6 + Len(i)
        BY <2>5, <3>2
    <3>4. QED
        BY <2>2, <3>1, <3>3
  <2>7. ASSUME ValidServerIssuedID(i), ValidServerIssuedID(j) PROVE ThreeSegments(p)
    <3> DEFINE m == 3 + Len(i)
               n == 5 + Len(i)
    <3>1. Slashes(p) = {m, n} /\ m < n
        BY <1>1, <2>2, <2>5, <2>7
    <3>2. m - 1 = 2 + Len(i) /\ m + 1 = 4 + Len(i) /\ n - 1 = 4 + Len(i) /\ n + 1 = 6 + Len(i)
        BY <2>5
    <3> HIDE DEF m, n
    <3>3. /\ ValidServerIssuedID(SubSeq(p, 3, m - 1))
          /\ SubSeq(p, m + 1, n - 1) = <<"artifacts">>
          /\ ValidServerIssuedID(SubSeq(p, n + 1, Len(p)))
        BY <2>2, <2>7, <3>2
    <3>4. QED
        BY <3>1, <3>3 DEF ThreeSegments
  <2>8. Registered(p) <=> ThreeSegments(p)
    BY <2>2, <2>3 DEF Registered, OneSegment
  <2>9. op = c.route <=> Registered(p)
    BY <1>4, <2>3 DEF Operation, Method
  <2>10. QED
    BY <2>4, <2>6, <2>7, <2>8, <2>9 DEF p
<1>5. QED
    BY <1>2, <1>3, <1>4 DEF Call, Routes

\* What the client's checks let pass (validateGatewayIdempotencyKey,
\* CanonicalGatewayPath) the signer does not refuse for its path or its key
\* (SignAssertion): a call is refused for its actor or its body, or for what
\* the client would have refused itself.
THEOREM SignerAcceptsAddress ==
    ASSUME NEW Symbols, Vocabulary(Symbols), NEW c, Call(c, Symbols), IdsOK(c), KeyFits(c)
    PROVE  AddressOK(c)
<1>1. Operation(Method(c.route), Path(c)) = c.route
    BY SignerKnowsThePath DEF IdsOK
<1>2. CASE Method(c.route) = "GET"
    BY <1>1, <1>2 DEF AddressOK, KeyFits, OneLine
<1>3. CASE Method(c.route) # "GET"
  <2>1. c.key \in Seq(Symbols) /\ Len(c.key) \in MinKey..MaxKey /\ IsSafe(c.key)
    BY <1>3 DEF KeyFits, KeyOK, Call
  <2>2. c.key # <<>>
    BY <2>1, RequestAssumption
  <2>3. OneLine(c.key)
    BY <2>1, SafeSymbols DEF OneLine
  <2>4. QED
    BY <1>1, <1>3, <2>2, <2>3 DEF AddressOK
<1>4. QED
    BY <1>2, <1>3

\* One line and what is left after it: where the line ends is where the first
\* line end is.
LEMMA FirstLine ==
    ASSUME NEW S, NL \in S, NEW s \in Seq(S), NEW t \in Seq(S), NEW u \in Seq(S), NEW v \in Seq(S),
           OneLine(s), OneLine(t), s \o (<<NL>> \o u) = t \o (<<NL>> \o v)
    PROVE  s = t /\ u = v
<1> DEFINE end == <<NL>>
           m == end \o u
           n == end \o v
           q == s \o m
<1>1. end \in Seq(S) /\ Len(end) = 1 /\ end[1] = NL
    OBVIOUS
<1>2. Len(s) \in Nat /\ Len(t) \in Nat /\ Len(u) \in Nat /\ Len(v) \in Nat
    OBVIOUS
<1>3. q = t \o n
    OBVIOUS
<1> HIDE DEF end
<1>4. m \in Seq(S) /\ Joint(m, end, u) /\ n \in Seq(S) /\ Joint(n, end, v)
    BY <1>1, Joined, Zenon
<1> HIDE DEF m, n
<1>5. Joint(q, s, m) /\ Joint(t \o n, t, n)
    BY <1>4, Joined, Zenon
<1> HIDE DEF q
<1>6. Joint(q, s, m) /\ Joint(q, t, n)
    BY <1>3, <1>5, Zenon
<1>7. /\ Len(m) = 1 + Len(u) /\ m[1] = NL /\ \A k \in 1..Len(u) : m[1 + k] = u[k]
      /\ Len(n) = 1 + Len(v) /\ n[1] = NL /\ \A k \in 1..Len(v) : n[1 + k] = v[k]
    BY <1>1, <1>2, <1>4 DEF Joint
<1>8. q[Len(s) + 1] = NL /\ q[Len(t) + 1] = NL
    BY <1>2, <1>6, <1>7 DEF Joint
<1>9. Len(s) = Len(t)
  <2>1. ASSUME NEW a \in Seq(S), NEW b \in Seq(S), OneLine(b), Len(a) < Len(b),
               q[Len(a) + 1] = NL, \A k \in 1..Len(b) : q[k] = b[k]
        PROVE  FALSE
    <3>1. Len(a) + 1 \in DOMAIN b /\ Len(a) + 1 \in 1..Len(b)
      BY <2>1
    <3>2. b[Len(a) + 1] = NL
      BY <2>1, <3>1
    <3>3. QED
      BY <2>1, <3>1, <3>2 DEF OneLine
  <2>2. ~(Len(s) < Len(t)) /\ ~(Len(t) < Len(s))
    BY <1>6, <1>8, <2>1 DEF Joint
  <2>3. QED
    BY <1>2, <2>2
<1>10. s = t
  <2>1. \A k \in 1..Len(s) : s[k] = t[k]
    BY <1>6, <1>9 DEF Joint
  <2>2. QED
    BY <1>9, <2>1, SeqEqual
<1>11. Len(m) = Len(n) /\ \A k \in 1..Len(m) : m[k] = n[k]
  <2>1. Len(m) = Len(n) /\ Len(m) \in Nat
    BY <1>2, <1>6, <1>7, <1>9 DEF Joint
  <2>2. ASSUME NEW k \in 1..Len(m) PROVE m[k] = n[k]
    <3>1. q[Len(s) + k] = m[k] /\ q[Len(t) + k] = n[k]
      BY <1>6, <2>1 DEF Joint
    <3>2. QED
      BY <1>9, <3>1
  <2>3. QED
    BY <2>1, <2>2
<1>12. Len(u) = Len(v) /\ \A k \in 1..Len(u) : u[k] = v[k]
  <2>1. Len(u) = Len(v)
    BY <1>2, <1>7, <1>11
  <2>2. ASSUME NEW k \in 1..Len(u) PROVE u[k] = v[k]
    <3>1. 1 + k \in 1..Len(m)
      BY <1>2, <1>7
    <3>2. m[1 + k] = u[k] /\ n[1 + k] = v[k]
      BY <1>7, <2>1
    <3>3. QED
      BY <1>11, <3>1, <3>2
  <2>3. QED
    BY <2>1, <2>2
<1>13. QED
    BY <1>10, <1>12, SeqEqual

\* The parts of a fingerprint's lines, and the way they nest.
LEMMA LineIs ==
    ASSUME NEW Symbols, Vocabulary(Symbols), NEW c, Call(c, Symbols), IdsOK(c)
    PROVE  LET rest  == <<NL>> \o c.key
               actor == c.actor \o rest
               below == <<NL>> \o actor
               path  == Path(c) \o below
           IN  /\ rest \in Seq(Symbols) /\ actor \in Seq(Symbols)
               /\ below \in Seq(Symbols) /\ path \in Seq(Symbols)
               /\ Line(c) = <<Method(c.route)>> \o (<<NL>> \o path)
<1> DEFINE M == <<Method(c.route)>>
           N == <<NL>>
           P == Path(c)
           a == c.actor
           k == c.key
<1>1. /\ M \in Seq(Symbols) /\ N \in Seq(Symbols) /\ P \in Seq(Symbols)
      /\ a \in Seq(Symbols) /\ k \in Seq(Symbols)
    BY PathIs DEF Vocabulary, Call, Routes, Method, IdsOK
<1>2. <<Method(c.route), NL>> = M \o N
    OBVIOUS
<1>3. Line(c) = (((((M \o N) \o P) \o N) \o a) \o N) \o k
    BY <1>2 DEF Line
<1> HIDE DEF M, N, P, a, k
<1> DEFINE s1 == M \o N
           s2 == s1 \o P
           s3 == s2 \o N
           s4 == s3 \o a
           r1 == N \o k
           r2 == a \o r1
           r3 == N \o r2
           r4 == P \o r3
<1>4. Line(c) = (s4 \o N) \o k
    BY <1>3, Zenon
<1>5. s1 \in Seq(Symbols) /\ r1 \in Seq(Symbols)
    BY <1>1, ConcatProperties, Zenon
<1> HIDE DEF s1, r1
<1>6. s2 \in Seq(Symbols) /\ r2 \in Seq(Symbols)
    BY <1>1, <1>5, ConcatProperties, Zenon
<1> HIDE DEF s2, r2
<1>7. s3 \in Seq(Symbols) /\ r3 \in Seq(Symbols)
    BY <1>1, <1>6, ConcatProperties, Zenon
<1> HIDE DEF s3, r3
<1>8. s4 \in Seq(Symbols) /\ r4 \in Seq(Symbols)
    BY <1>1, <1>7, ConcatProperties, Zenon
<1> HIDE DEF s4, r4
<1> DEFINE s5 == s4 \o N
           r5 == N \o r4
<1> HIDE DEF s5, r5
<1>9. s5 \o k = s4 \o r1
  <2>1. s5 = s4 \o N /\ r1 = N \o k
    BY Zenon DEF s5, r1
  <2>2. s4 \in Seq(Symbols) /\ N \in Seq(Symbols) /\ k \in Seq(Symbols)
    BY <1>1, <1>5, <1>6, <1>7, <1>8
  <2>3. QED
    BY <2>1, <2>2, ConcatAssociative
<1>10. s4 \o r1 = s3 \o r2
  <2>1. s4 = s3 \o a /\ r2 = a \o r1
    BY Zenon DEF s4, r2
  <2>2. s3 \in Seq(Symbols) /\ a \in Seq(Symbols) /\ r1 \in Seq(Symbols)
    BY <1>1, <1>5, <1>6, <1>7, <1>8
  <2>3. QED
    BY <2>1, <2>2, ConcatAssociative
<1>11. s3 \o r2 = s2 \o r3
  <2>1. s3 = s2 \o N /\ r3 = N \o r2
    BY Zenon DEF s3, r3
  <2>2. s2 \in Seq(Symbols) /\ N \in Seq(Symbols) /\ r2 \in Seq(Symbols)
    BY <1>1, <1>5, <1>6, <1>7, <1>8
  <2>3. QED
    BY <2>1, <2>2, ConcatAssociative
<1>12. s2 \o r3 = s1 \o r4
  <2>1. s2 = s1 \o P /\ r4 = P \o r3
    BY Zenon DEF s2, r4
  <2>2. s1 \in Seq(Symbols) /\ P \in Seq(Symbols) /\ r3 \in Seq(Symbols)
    BY <1>1, <1>5, <1>6, <1>7, <1>8
  <2>3. QED
    BY <2>1, <2>2, ConcatAssociative
<1>13. s1 \o r4 = M \o r5
  <2>1. s1 = M \o N /\ r5 = N \o r4
    BY Zenon DEF s1, r5
  <2>2. M \in Seq(Symbols) /\ N \in Seq(Symbols) /\ r4 \in Seq(Symbols)
    BY <1>1, <1>5, <1>6, <1>7, <1>8
  <2>3. QED
    BY <2>1, <2>2, ConcatAssociative
<1>14. Line(c) = M \o r5
    BY <1>4, <1>9, <1>10, <1>11, <1>12, <1>13, Zenon DEF s5
<1>15. QED
    BY <1>5, <1>6, <1>7, <1>8, <1>14, Zenon DEF M, N, P, a, k, r1, r2, r3, r4, r5

\* A path that was built has no line end in it.
LEMMA PathIsOneLine ==
    ASSUME NEW Symbols, Vocabulary(Symbols), NEW c, Call(c, Symbols), IdsOK(c)
    PROVE  OneLine(Path(c))
<1> DEFINE i == c.ids[1]
           j == c.ids[2]
           p == Path(c)
<1>1. \A id : ValidServerIssuedID(id) => IsSafe(id)
    BY DEF ValidServerIssuedID
<1>2. p \in Seq(Symbols) /\ DOMAIN p = 1..Len(p)
    BY PathIs DEF IdsOK
<1>3. CASE c.route = "create"
    BY <1>3, PathIs DEF IdsOK, OneLine, Prefix, NL
<1>4. CASE c.route \in {"get", "cancel"}
  <2>1. i \in Seq(Symbols) /\ IsSafe(i) /\ InvocationPath(p, i) /\ Len(i) \in Nat
    BY <1>1, <1>4, IdsAre, PathIs DEF IdsOK
  <2> HIDE DEF p, i
  <2>2. ASSUME NEW n \in 1..Len(p) PROVE p[n] # NL
    <3>1. CASE n = 1 \/ n = 2
      BY <2>1, <3>1 DEF InvocationPath, Prefix, NL
    <3>2. CASE n > 2
      <4>1. n - 2 \in 1..Len(i) /\ 2 + (n - 2) = n
        BY <2>1, <3>2 DEF InvocationPath
      <4>2. p[n] = i[n - 2]
        BY <2>1, <4>1 DEF InvocationPath
      <4>3. QED
        BY <2>1, <4>1, <4>2, SafeSymbols
    <3>3. QED
      BY <3>1, <3>2
  <2>3. QED
    BY <1>2, <2>2 DEF OneLine, p
<1>5. CASE c.route = "get_artifact"
  <2>1. /\ i \in Seq(Symbols) /\ IsSafe(i) /\ Len(i) \in Nat
        /\ j \in Seq(Symbols) /\ IsSafe(j) /\ Len(j) \in Nat
        /\ ArtifactPath(p, i, j)
    BY <1>1, <1>5, IdsAre, PathIs DEF IdsOK
  <2> HIDE DEF p, i, j
  <2>2. ASSUME NEW n \in 1..Len(p) PROVE p[n] # NL
    <3>1. CASE n = 1 \/ n = 2 \/ n = 3 + Len(i) \/ n = 4 + Len(i) \/ n = 5 + Len(i)
      BY <2>1, <3>1 DEF ArtifactPath, Prefix, NL
    <3>2. CASE n > 2 /\ n < 3 + Len(i)
      <4>1. n - 2 \in 1..Len(i) /\ 2 + (n - 2) = n
        BY <2>1, <3>2
      <4>2. p[n] = i[n - 2]
        BY <2>1, <4>1 DEF ArtifactPath
      <4>3. QED
        BY <2>1, <4>1, <4>2, SafeSymbols
    <3>3. CASE n > 5 + Len(i)
      <4>1. n - (5 + Len(i)) \in 1..Len(j) /\ 5 + Len(i) + (n - (5 + Len(i))) = n
        BY <2>1, <3>3 DEF ArtifactPath
      <4>2. p[n] = j[n - (5 + Len(i))]
        BY <2>1, <4>1 DEF ArtifactPath
      <4>3. QED
        BY <2>1, <4>1, <4>2, SafeSymbols
    <3>4. QED
      BY <2>1, <3>1, <3>2, <3>3
  <2>3. QED
    BY <1>2, <2>2 DEF OneLine, p
<1>6. QED
    BY <1>3, <1>4, <1>5 DEF Call, Routes

\* The lines a fingerprint is taken of (RequestFingerprint, assertion.go) tell
\* the route, the ids, the actor and the key: of two calls that passed the
\* checks, none can be taken for the other, whatever the ids, actors and keys.
\* The actor's check is needed: with a line end in it, an actor and a key could
\* be read as another actor and another key.  The key, which comes last, needs none.
THEOREM LineSeparates ==
    ASSUME NEW Symbols, Vocabulary(Symbols),
           NEW c, Call(c, Symbols), IdsOK(c), ActorOK(c.actor),
           NEW d, Call(d, Symbols), IdsOK(d), ActorOK(d.actor),
           Line(c) = Line(d)
    PROVE  c.route = d.route /\ c.ids = d.ids /\ c.actor = d.actor /\ c.key = d.key
<1> DEFINE kc == <<NL>> \o c.key
           ac == c.actor \o kc
           bc == <<NL>> \o ac
           pc == Path(c) \o bc
           kd == <<NL>> \o d.key
           ad == d.actor \o kd
           bd == <<NL>> \o ad
           pd == Path(d) \o bd
<1>1. /\ kc \in Seq(Symbols) /\ ac \in Seq(Symbols) /\ bc \in Seq(Symbols) /\ pc \in Seq(Symbols)
      /\ Line(c) = <<Method(c.route)>> \o (<<NL>> \o pc)
    BY LineIs, Zenon
<1>2. /\ kd \in Seq(Symbols) /\ ad \in Seq(Symbols) /\ bd \in Seq(Symbols) /\ pd \in Seq(Symbols)
      /\ Line(d) = <<Method(d.route)>> \o (<<NL>> \o pd)
    BY LineIs, Zenon
<1>3. NL \in Symbols
    BY DEF Vocabulary
<1>4. /\ Path(c) \in Seq(Symbols) /\ OneLine(Path(c)) /\ Path(d) \in Seq(Symbols) /\ OneLine(Path(d))
    BY PathIs, PathIsOneLine DEF IdsOK
<1>5. ASSUME NEW x, Call(x, Symbols)
      PROVE  /\ <<Method(x.route)>> \in Seq(Symbols) /\ OneLine(<<Method(x.route)>>)
             /\ x.actor \in Seq(Symbols) /\ x.key \in Seq(Symbols)
    BY <1>5 DEF Vocabulary, Call, Routes, Method, OneLine, NL
<1> DEFINE mc == <<Method(c.route)>>
           md == <<Method(d.route)>>
<1>a. /\ mc \in Seq(Symbols) /\ md \in Seq(Symbols) /\ OneLine(mc) /\ OneLine(md)
      /\ Line(c) = mc \o (<<NL>> \o pc) /\ Line(d) = md \o (<<NL>> \o pd)
    BY <1>1, <1>2, <1>5, Zenon
<1> HIDE DEF pc, pd, mc, md
<1>b. mc \o (<<NL>> \o pc) = md \o (<<NL>> \o pd)
    BY <1>a, Zenon
<1>6. mc = md /\ pc = pd
    BY <1>1, <1>2, <1>3, <1>a, <1>b, FirstLine, Zenon
<1>7. Path(c) \o bc = Path(d) \o bd
    BY <1>6, Zenon DEF pc, pd
<1> HIDE DEF ac, ad
<1>8. Path(c) = Path(d) /\ ac = ad
    BY <1>1, <1>2, <1>3, <1>4, <1>7, FirstLine, Zenon
<1>9. c.actor \o kc = d.actor \o kd
    BY <1>8, Zenon DEF ac, ad
<1>10. OneLine(c.actor) /\ OneLine(d.actor)
    BY DEF ActorOK
<1>11. c.actor = d.actor /\ c.key = d.key
    BY <1>3, <1>5, <1>9, <1>10, FirstLine, Zenon
<1>12. Method(c.route) = Method(d.route)
    BY <1>6 DEF mc, md
<1>13. QED
    BY <1>8, <1>11, <1>12, PathSeparates

\* The shape of a path determines it.
LEMMA ShapeTells ==
    ASSUME NEW S, NEW p \in Seq(S), NEW q \in Seq(S), NEW i \in Seq(S), NEW j \in Seq(S),
           \/ InvocationPath(p, i) /\ InvocationPath(q, i)
           \/ ArtifactPath(p, i, j) /\ ArtifactPath(q, i, j)
    PROVE  p = q
<1>1. Len(i) \in Nat /\ Len(j) \in Nat /\ Len(p) \in Nat
    OBVIOUS
<1>2. CASE InvocationPath(p, i) /\ InvocationPath(q, i)
  <2>1. Len(p) = Len(q) /\ Len(p) = 2 + Len(i)
    BY <1>2 DEF InvocationPath
  <2>2. ASSUME NEW n \in 1..Len(p) PROVE p[n] = q[n]
    <3>1. CASE n = 1 \/ n = 2
      BY <1>2, <3>1 DEF InvocationPath
    <3>2. CASE n > 2
      <4>1. n - 2 \in 1..Len(i) /\ 2 + (n - 2) = n
        BY <1>1, <2>1, <3>2
      <4>2. p[2 + (n - 2)] = i[n - 2] /\ q[2 + (n - 2)] = i[n - 2]
        BY <1>2, <4>1, Zenon DEF InvocationPath
      <4>3. QED
        BY <4>1, <4>2, Zenon
    <3>3. QED
      BY <3>1, <3>2
  <2>3. QED
    BY <2>1, <2>2, SeqEqual
<1>3. CASE ArtifactPath(p, i, j) /\ ArtifactPath(q, i, j)
  <2>1. Len(p) = Len(q) /\ Len(p) = 5 + Len(i) + Len(j)
    BY <1>3 DEF ArtifactPath
  <2>2. ASSUME NEW n \in 1..Len(p) PROVE p[n] = q[n]
    <3>1. CASE n = 1 \/ n = 2 \/ n = 3 + Len(i) \/ n = 4 + Len(i) \/ n = 5 + Len(i)
      BY <1>3, <3>1 DEF ArtifactPath
    <3>2. CASE n > 2 /\ n < 3 + Len(i)
      <4>1. n - 2 \in 1..Len(i) /\ 2 + (n - 2) = n
        BY <1>1, <3>2
      <4>2. p[2 + (n - 2)] = i[n - 2] /\ q[2 + (n - 2)] = i[n - 2]
        BY <1>3, <4>1, Zenon DEF ArtifactPath
      <4>3. QED
        BY <4>1, <4>2, Zenon
    <3>3. CASE n > 5 + Len(i)
      <4>1. n - (5 + Len(i)) \in 1..Len(j) /\ 5 + Len(i) + (n - (5 + Len(i))) = n
        BY <1>1, <2>1, <3>3
      <4>2. /\ p[5 + Len(i) + (n - (5 + Len(i)))] = j[n - (5 + Len(i))]
            /\ q[5 + Len(i) + (n - (5 + Len(i)))] = j[n - (5 + Len(i))]
        BY <1>3, <4>1, Zenon DEF ArtifactPath
      <4>3. QED
        BY <4>1, <4>2, Zenon
    <3>4. QED
      BY <1>1, <3>1, <3>2, <3>3
  <2>3. QED
    BY <2>1, <2>2, SeqEqual
<1>4. QED
    BY <1>2, <1>3

\* The signer takes no gateway path but one CanonicalGatewayPath builds for the
\* operation it finds (gatewayOperationAndMethod, for a method in upper case):
\* SignAssertion, which an application can call with any path, signs for no
\* invocation or artifact that the gateway client could not have named.
THEOREM SignerTakesOnlyBuiltPaths ==
    ASSUME NEW Symbols, Vocabulary(Symbols), NEW method, NEW path \in Seq(Symbols),
           Operation(method, path) # "none"
    PROVE  \E ids \in Seq(Seq(Symbols)) :
             LET c == [route |-> Operation(method, path), ids |-> ids]
             IN  IdsOK(c) /\ Path(c) = path /\ Method(c.route) = method
<1> DEFINE op == Operation(method, path)
           built(ids) == [route |-> op, ids |-> ids]
<1>1. op \in Routes /\ Method(op) = method
    BY DEF Operation, Method, Routes
<1>2. /\ op = "create" => path = <<Prefix>>
      /\ op # "create" => Registered(path) /\ path # <<Prefix>>
      /\ op \in {"get", "cancel"} => Slashes(path) = {}
      /\ op = "get_artifact" => Slashes(path) # {}
    BY DEF Operation
<1>3. ASSUME NEW ids \in Seq(Seq(Symbols)), IdsOK(built(ids)), Path(built(ids)) = path
      PROVE  \E i \in Seq(Seq(Symbols)) :
               LET c == [route |-> Operation(method, path), ids |-> i]
               IN  IdsOK(c) /\ Path(c) = path /\ Method(c.route) = method
    BY <1>1, <1>3
<1>4. CASE op = "create"
  <2>1. <<>> \in Seq(Seq(Symbols)) /\ IdsOK(built(<<>>)) /\ Path(built(<<>>)) = path
    BY <1>2, <1>4 DEF IdsOK, IdsOf, Path
  <2>2. QED
    BY <1>3, <2>1
\* The shape of the path of a call as PathIs gives it, for ids alone.
<1>5. ASSUME NEW ids \in Seq(Seq(Symbols)), Len(ids) = IdsOf(op)
      PROVE  /\ Path(built(ids)) \in Seq(Symbols)
             /\ op \in {"get", "cancel"} => InvocationPath(Path(built(ids)), ids[1])
             /\ op = "get_artifact" => ArtifactPath(Path(built(ids)), ids[1], ids[2])
  <2> DEFINE d == [route |-> op, ids |-> ids, actor |-> <<>>, key |-> <<>>]
  <2>1. Call(d, Symbols) /\ Len(d.ids) = IdsOf(d.route) /\ d.ids = ids /\ d.route = op
    BY <1>1, <1>5 DEF Call
  <2>2. Path(d) = Path(built(ids))
    BY DEF Path
  <2> HIDE DEF d
  <2>3. /\ Path(d) \in Seq(Symbols)
        /\ d.route \in {"get", "cancel"} => InvocationPath(Path(d), d.ids[1])
        /\ d.route = "get_artifact" => ArtifactPath(Path(d), d.ids[1], d.ids[2])
    BY <2>1, PathIs
  <2>4. QED
    BY <2>1, <2>2, <2>3
<1>6. CASE op \in {"get", "cancel"}
  <2> DEFINE i == SubSeq(path, 3, Len(path))
             ids == <<i>>
  <2>1. /\ Len(path) > 1 /\ path[1] = Prefix /\ path[2] = "/" /\ ValidServerIssuedID(i)
    BY <1>2, <1>6 DEF Registered, OneSegment, ThreeSegments
  <2>2. i \in Seq(Symbols) /\ Len(i) = Len(path) - 2 /\ \A n \in 1..Len(i) : i[n] = path[2 + n]
    <3>1. Len(path) \in Nat /\ Len(path) >= 2
      BY <2>1
    <3>2. i \in Seq(Symbols) /\ Len(i) = (Len(path) - 3) + 1 /\ \A n \in 1..Len(i) : i[n] = path[(3 + n) - 1]
      <4> DEFINE e == Len(path)
      <4>1. e \in Int /\ e <= Len(path) /\ (e - 3) + 1 >= 0
        BY <3>1
      <4>2. 3 \in Int /\ 3 >= 1
        OBVIOUS
      <4> HIDE DEF e
      <4>3. LET t == SubSeq(path, 3, e) IN
              t \in Seq(Symbols) /\ Len(t) = (e - 3) + 1 /\ \A n \in 1..Len(t) : t[n] = path[(3 + n) - 1]
        BY <4>1, <4>2, Part
      <4>4. QED
        BY <4>3, Zenon DEF e
    <3> HIDE DEF i
    <3>3. QED
      BY <3>1, <3>2
  <2> HIDE DEF i
  <2>3. InvocationPath(path, i)
    BY <2>1, <2>2 DEF InvocationPath
  <2>4. /\ ids \in Seq(Seq(Symbols)) /\ Len(ids) = 1 /\ DOMAIN ids = {1} /\ ids[1] = i
    BY <2>2
  <2> HIDE DEF ids
  <2>5. IdsOK(built(ids))
    BY <1>6, <2>1, <2>4 DEF IdsOK, IdsOf
  <2>6. Len(ids) = IdsOf(op)
    BY <1>6, <2>4 DEF IdsOf
  <2>7. Path(built(ids)) \in Seq(Symbols) /\ InvocationPath(Path(built(ids)), i)
    BY <1>5, <1>6, <2>4, <2>6
  <2> HIDE DEF built
  <2>8. Path(built(ids)) = path
    BY <2>2, <2>3, <2>7, ShapeTells
  <2>9. QED
    BY <1>3, <2>4, <2>5, <2>8
<1>7. CASE op = "get_artifact"
  <2>1. Len(path) > 1 /\ path[1] = Prefix /\ path[2] = "/" /\ ThreeSegments(path)
    BY <1>2, <1>7 DEF Registered, OneSegment
  <2>2. PICK p, q \in Slashes(path) :
          /\ p < q /\ Slashes(path) = {p, q}
          /\ ValidServerIssuedID(SubSeq(path, 3, p - 1))
          /\ SubSeq(path, p + 1, q - 1) = <<"artifacts">>
          /\ ValidServerIssuedID(SubSeq(path, q + 1, Len(path)))
    BY <2>1 DEF ThreeSegments
  <2>3. p \in 3..Len(path) /\ q \in 3..Len(path) /\ path[p] = "/" /\ path[q] = "/" /\ Len(path) \in Nat
    BY DEF Slashes
  <2>4. q = p + 2 /\ path[p + 1] = "artifacts"
    <3> DEFINE t == SubSeq(path, p + 1, q - 1)
    <3>1. t = <<"artifacts">>
      BY <2>2
    <3>2. p + 1 \in Int /\ q - 1 \in Int /\ p + 1 >= 1 /\ q - 1 <= Len(path) /\ (q - 1) - (p + 1) + 1 >= 0
      BY <2>2, <2>3
    <3>3. Len(t) = ((q - 1) - (p + 1)) + 1 /\ \A n \in 1..Len(t) : t[n] = path[((p + 1) + n) - 1]
      BY <3>2, Part
    <3> HIDE DEF t
    <3>4. Len(t) = 1 /\ t[1] = "artifacts"
      BY <3>1
    <3>5. ((q - 1) - (p + 1)) + 1 = 1
      BY <3>3, <3>4, Zenon
    <3>6. p \in Int /\ q \in Int
      BY <2>3
    <3>7. q = p + 2 /\ ((p + 1) + 1) - 1 = p + 1
      BY <3>5, <3>6
    <3>8. 1 \in 1..Len(t)
      BY <3>4
    <3>9. t[1] = path[((p + 1) + 1) - 1]
      BY <3>3, <3>8, Zenon
    <3>10. QED
      BY <3>4, <3>7, <3>9
  <2> DEFINE i == SubSeq(path, 3, p - 1)
             j == SubSeq(path, q + 1, Len(path))
             ids == <<i, j>>
  <2>5. /\ i \in Seq(Symbols) /\ Len(i) = p - 3 /\ \A n \in 1..Len(i) : i[n] = path[2 + n]
    BY <2>3
  <2>6. /\ j \in Seq(Symbols) /\ Len(j) = Len(path) - q /\ \A n \in 1..Len(j) : j[n] = path[q + n]
    BY <2>3
  <2>7. ValidServerIssuedID(i) /\ ValidServerIssuedID(j)
    BY <2>2
  <2> HIDE DEF i, j
  <2>8. p = 3 + Len(i) /\ p + 1 = 4 + Len(i) /\ q = 5 + Len(i) /\ Len(path) = 5 + Len(i) + Len(j)
    BY <2>3, <2>4, <2>5, <2>6
  <2>9. ArtifactPath(path, i, j)
    BY <2>1, <2>3, <2>4, <2>5, <2>6, <2>8 DEF ArtifactPath
  <2>10. /\ ids \in Seq(Seq(Symbols)) /\ Len(ids) = 2 /\ DOMAIN ids = {1, 2}
         /\ ids[1] = i /\ ids[2] = j
    BY <2>5, <2>6
  <2> HIDE DEF ids
  <2>11. IdsOK(built(ids))
    BY <1>7, <2>7, <2>10 DEF IdsOK, IdsOf
  <2>12. Len(ids) = IdsOf(op)
    BY <1>7, <2>10 DEF IdsOf
  <2>13. Path(built(ids)) \in Seq(Symbols) /\ ArtifactPath(Path(built(ids)), i, j)
    BY <1>5, <1>7, <2>10, <2>12
  <2> HIDE DEF built
  <2>14. Path(built(ids)) = path
    BY <2>5, <2>6, <2>9, <2>13, ShapeTells
  <2>15. QED
    BY <1>3, <2>10, <2>11, <2>14
<1>8. QED
    BY <1>1, <1>4, <1>6, <1>7 DEF Routes
-----------------------------------------------------------------------------
(* The machine: where a call is, and what was found out about it.          *)

\* A call that got past the client's checks was not refused, one that is signed is
\* signable, and complaint and claims are what the phase says (doInvocation,
\* gateway.go:566).
LEMMA RequestInvStep == RequestInv /\ [Next]_requestVars => RequestInv'
<1> SUFFICES ASSUME RequestInv, [Next]_requestVars PROVE RequestInv'
    OBVIOUS
<1> USE DEF RequestInv
<1>1. CASE Check
    BY <1>1 DEF Check
<1>2. CASE Sign
    BY <1>2 DEF Sign
<1>3. ASSUME NEW d \in Dials, Dial(d) PROVE RequestInv'
    BY <1>3 DEF Dial
<1>4. ASSUME NEW d \in Dials, Transmit(d) PROVE RequestInv'
    BY <1>4 DEF Transmit
<1>5. CASE Elsewhere
    BY <1>5 DEF Elsewhere
<1>6. CASE UNCHANGED requestVars
    BY <1>6 DEF requestVars
<1>7. QED
    BY <1>1, <1>2, <1>3, <1>4, <1>5, <1>6 DEF Next

\* What the phase, the complaint and the claims have to do with the call holds in
\* every state: the invariant that all of what follows rests on.
THEOREM RequestInvariant == Spec => []RequestInv
<1>1. Init => RequestInv
    BY DEF Init, RequestInv
<1>2. QED
    BY <1>1, RequestInvStep, PTL DEF Spec

\* The connection of a request is the one of MTLSReload: whatever the call does, no
\* handshake presents a superseded pair (GetClientCertificate, mtls.go:48).
THEOREM RequestPresentsOnePair == Spec => PresentsOnePair
<1>1. Init => MTLSInit
    BY DEF Init
<1>2. [Next]_requestVars => [MTLSNext]_mtlsVars
  <2> SUFFICES ASSUME [Next]_requestVars PROVE [MTLSNext]_mtlsVars
    OBVIOUS
  <2>1. CASE Check \/ Sign
    BY <2>1 DEF Check, Sign
  <2>2. ASSUME NEW d \in Dials, Dial(d) PROVE MTLSNext
    BY <2>2 DEF Dial, MTLSNext
  <2>3. ASSUME NEW d \in Dials, Transmit(d) PROVE UNCHANGED mtlsVars
    BY <2>3 DEF Transmit
  <2>4. CASE Elsewhere
    BY <2>4 DEF Elsewhere, MTLSNext
  <2>5. CASE UNCHANGED requestVars
    BY <2>5 DEF requestVars
  <2>6. QED
    BY <2>1, <2>2, <2>3, <2>4, <2>5 DEF Next
<1>3. Spec => MTLSSpec
    BY <1>1, <1>2, PTL DEF Spec, MTLSSpec
<1>4. QED
    BY <1>3, ReloadPresentsOnePair, Zenon
-----------------------------------------------------------------------------
(* What a call is checked for.                                             *)

\* What Validate looks at.
InputChecks(request) ==
    {If(request.blank, "request", "blank"),
     If(~Marshals(request.input) \/ IsNull(request.input), "input", "null"),
     If(~Marshals(request.parameters) \/ IsNull(request.parameters), "parameters", "null"),
     Canonicalizable("input", request.input),
     If(request.parameters.document[<<>>].value # "object", "parameters", "no object"),
     Canonicalizable("parameters", request.parameters)}

\* What is looked at for a call of a route.
Among(c) ==
    (IF c.route = "create" THEN InputChecks(c.request) ELSE {})
    \cup (IF Method(c.route) = "GET" THEN {} ELSE {If(~KeyOK(c.key), "key", "invalid")})
    \cup {If(~IdsOK(c), "ids", "invalid")}

\* What is somewhere in a sequence.
Has(s, x) == \E k \in DOMAIN s : s[k] = x

\* A sequence of one has that one.
LEMMA HasOne ==
    ASSUME NEW a
    PROVE  <<a>> \in Seq({a}) /\ \A x : x \in {a} <=> Has(<<a>>, x)
<1> DEFINE s == <<a>>
<1>1. s \in Seq({a}) /\ DOMAIN s = {1} /\ s[1] = a
    OBVIOUS
<1> HIDE DEF s
<1>2. s \in Seq({a}) /\ \A x : x \in {a} <=> Has(s, x)
    BY <1>1 DEF Has
<1>3. QED
    BY <1>2 DEF s

\* The empty one has none.
LEMMA HasNone == <<>> \in Seq({}) /\ \A x : x \in {} <=> Has(<<>>, x)
BY DEF Has

\* Two sequences one behind the other have what either has.
LEMMA RangeJoined ==
    ASSUME NEW S, NEW s \in Seq(S), NEW t \in Seq(S)
    PROVE  \A x : Has(s \o t, x) <=> Has(s, x) \/ Has(t, x)
<1> SUFFICES ASSUME NEW x PROVE Has(s \o t, x) <=> Has(s, x) \/ Has(t, x)
    OBVIOUS
<1> DEFINE q == s \o t
<1>1. q \in Seq(S) /\ Joint(q, s, t)
    BY Joined, Zenon
<1> HIDE DEF q
<1>2. /\ DOMAIN q = 1..Len(s) + Len(t) /\ DOMAIN s = 1..Len(s) /\ DOMAIN t = 1..Len(t)
      /\ Len(s) \in Nat /\ Len(t) \in Nat
  <2>1. Len(q) = Len(s) + Len(t)
    BY <1>1 DEF Joint
  <2>2. DOMAIN q = 1..Len(q)
    BY <1>1
  <2>3. DOMAIN s = 1..Len(s) /\ DOMAIN t = 1..Len(t) /\ Len(s) \in Nat /\ Len(t) \in Nat
    OBVIOUS
  <2>4. QED
    BY <2>1, <2>2, <2>3
<1>3. ASSUME NEW k \in DOMAIN q, q[k] = x
      PROVE  (\E m \in DOMAIN s : s[m] = x) \/ (\E m \in DOMAIN t : t[m] = x)
  <2>1. CASE k \in 1..Len(s)
    BY <1>1, <1>2, <1>3, <2>1 DEF Joint
  <2>2. CASE k \notin 1..Len(s)
    <3>1. k - Len(s) \in 1..Len(t) /\ Len(s) + (k - Len(s)) = k
      BY <1>2, <2>2
    <3> DEFINE m == k - Len(s)
    <3>2. q[Len(s) + m] = t[m]
      BY <1>1, <3>1 DEF Joint
    <3>3. q[k] = t[m] /\ m \in DOMAIN t
      BY <1>2, <3>1, <3>2
    <3>4. QED
      BY <1>3, <3>3, Zenon
  <2>3. QED
    BY <2>1, <2>2
<1>4. ASSUME NEW m \in DOMAIN s PROVE \E k \in DOMAIN q : q[k] = s[m]
  <2>1. m \in DOMAIN q /\ q[m] = s[m]
    BY <1>1, <1>2 DEF Joint
  <2>2. QED
    BY <2>1
<1>5. ASSUME NEW m \in DOMAIN t PROVE \E k \in DOMAIN q : q[k] = t[m]
  <2>1. Len(s) + m \in DOMAIN q
    BY <1>2
  <2>2. q[Len(s) + m] = t[m]
    BY <1>1, <1>2, Zenon DEF Joint
  <2>3. QED
    BY <2>1, <2>2
<1>6. QED
    BY <1>3, <1>4, <1>5, Zenon DEF q, Has

\* The checks of a call are these, whatever their order (create, gateway.go:240-256).
LEMMA ChecksAre ==
    ASSUME NEW c
    PROVE  /\ Checks(c) \in Seq(Among(c)) /\ DOMAIN Checks(c) = 1..Len(Checks(c)) /\ Len(Checks(c)) \in Nat
           /\ \A x : x \in Among(c) <=> Has(Checks(c), x)
<1> DEFINE v == IF c.route = "create" THEN Validate(c.request) ELSE <<>>
           w == IF Method(c.route) = "GET" THEN <<>> ELSE <<If(~KeyOK(c.key), "key", "invalid")>>
           i == <<If(~IdsOK(c), "ids", "invalid")>>
           u == v \o w
           V == IF c.route = "create" THEN InputChecks(c.request) ELSE {}
           W == IF Method(c.route) = "GET" THEN {} ELSE {If(~KeyOK(c.key), "key", "invalid")}
           I == {If(~IdsOK(c), "ids", "invalid")}
           S == Among(c)
<1>1. S = (V \cup W) \cup I
    BY DEF Among
<1>2. v \in Seq(V) /\ \A x : x \in V <=> Has(v, x)
  <2>1. CASE c.route = "create"
    <3> DEFINE a1 == If(c.request.blank, "request", "blank")
               a2 == If(~Marshals(c.request.input) \/ IsNull(c.request.input), "input", "null")
               a3 == If(~Marshals(c.request.parameters) \/ IsNull(c.request.parameters), "parameters", "null")
               a4 == Canonicalizable("input", c.request.input)
               a5 == If(c.request.parameters.document[<<>>].value # "object", "parameters", "no object")
               a6 == Canonicalizable("parameters", c.request.parameters)
    <3>1. v = <<a1, a2, a3, a4, a5, a6>>
      BY <2>1 DEF Validate
    <3>2. V = {a1, a2, a3, a4, a5, a6}
      BY <2>1 DEF InputChecks
    <3> HIDE DEF v, V, a1, a2, a3, a4, a5, a6
    <3>3. v \in Seq(V)
      BY <3>1, <3>2
    <3>4. DOMAIN v = 1..6
      BY <3>1
    <3>5. v[1] = a1 /\ v[2] = a2 /\ v[3] = a3 /\ v[4] = a4 /\ v[5] = a5 /\ v[6] = a6
      BY <3>1
    <3>6. \A k \in 1..6 : k = 1 \/ k = 2 \/ k = 3 \/ k = 4 \/ k = 5 \/ k = 6
      OBVIOUS
    <3>7. 1 \in 1..6 /\ 2 \in 1..6 /\ 3 \in 1..6 /\ 4 \in 1..6 /\ 5 \in 1..6 /\ 6 \in 1..6
      OBVIOUS
    <3>8. QED
      BY <3>2, <3>3, <3>4, <3>5, <3>6, <3>7 DEF Has
  <2>2. CASE c.route # "create"
    BY <2>2 DEF Has
  <2>3. QED
    BY <2>1, <2>2
<1>3. w \in Seq(W) /\ \A x : x \in W <=> Has(w, x)
  <2> DEFINE a == If(~KeyOK(c.key), "key", "invalid")
  <2> HIDE DEF a
  <2>1. (Method(c.route) = "GET" => w = <<>> /\ W = {}) /\ (Method(c.route) # "GET" => w = <<a>> /\ W = {a})
    BY DEF a
  <2> HIDE DEF w, W
  <2>2. CASE Method(c.route) = "GET"
    BY <2>1, <2>2, HasNone, Zenon
  <2>3. CASE Method(c.route) # "GET"
    BY <2>1, <2>3, HasOne, Zenon
  <2>4. QED
    BY <2>2, <2>3
<1>4. i \in Seq(I) /\ \A x : x \in I <=> Has(i, x)
  <2> DEFINE a == If(~IdsOK(c), "ids", "invalid")
  <2> HIDE DEF a
  <2>1. i = <<a>> /\ I = {a}
    BY DEF a
  <2> HIDE DEF i, I
  <2>2. QED
    BY <2>1, HasOne, Zenon
<1>5. Checks(c) = u \o i
    BY DEF Checks
<1> HIDE DEF v, w, i, V, W, I, S
<1>6. v \in Seq(S) /\ w \in Seq(S) /\ i \in Seq(S)
  <2>1. V \subseteq S /\ W \subseteq S /\ I \subseteq S
    BY <1>1
  <2>2. QED
    BY <1>2, <1>3, <1>4, <2>1, SeqMonotonic, Zenon
<1>7. u \in Seq(S)
    BY <1>6, Joined, Zenon
<1>8. \A x : (Has(u, x)) <=> (Has(v, x)) \/ (Has(w, x))
    BY <1>6, RangeJoined, Zenon
<1> HIDE DEF u
<1>9. u \o i \in Seq(S)
    BY <1>6, <1>7, Joined, Zenon
<1>10. \A x : (Has(u \o i, x))
                <=> (Has(u, x)) \/ (Has(i, x))
    BY <1>6, <1>7, RangeJoined, Zenon
<1>11. \A x : (Has(Checks(c), x)) <=> x \in V \/ x \in W \/ x \in I
    BY <1>2, <1>3, <1>4, <1>5, <1>8, <1>10, Zenon
<1>12. Checks(c) \in Seq(S)
    BY <1>5, <1>9, Zenon
<1>13. DOMAIN Checks(c) = 1..Len(Checks(c)) /\ Len(Checks(c)) \in Nat
    BY <1>12
<1>14. \A x : x \in S <=> x \in V \/ x \in W \/ x \in I
    BY <1>1
<1>15. QED
    BY <1>11, <1>12, <1>13, <1>14, Zenon DEF S

\* A call is refused exactly if it fails one of them, and for one that it fails: there
\* is a first failing check, whose error is returned.
LEMMA RefusalIs ==
    ASSUME NEW c
    PROVE  /\ Refused(c) <=> \E x \in Among(c) : x.reason # "none"
           /\ Refused(c) => Refusal(c) \in Among(c) /\ Refusal(c).reason # "none"
<1>1. /\ DOMAIN Checks(c) = 1..Len(Checks(c)) /\ Len(Checks(c)) \in Nat
      /\ \A x : x \in Among(c) <=> Has(Checks(c), x)
    BY ChecksAre, Zenon
<1>2. Failing(c) = {k \in DOMAIN Checks(c) : Checks(c)[k].reason # "none"}
    BY DEF Failing
<1>3. Failing(c) # {} => \E k \in Failing(c) : \A l \in Failing(c) : k <= l
  <2>1. Failing(c) \subseteq Nat
    BY <1>1, <1>2
  <2>2. QED
    BY <2>1, Least, Zenon
<1> DEFINE First(k) == \A l \in Failing(c) : k <= l
           k0 == CHOOSE k \in Failing(c) : First(k)
<1>4. Refusal(c) = Checks(c)[k0]
    BY Zenon DEF Refusal
<1>5. Failing(c) # {} => k0 \in Failing(c)
  <2> HIDE DEF First
  <2>1. Failing(c) # {} => \E k \in Failing(c) : First(k)
    BY <1>3, Zenon DEF First
  <2>2. QED
    BY <2>1, Zenon
<1> HIDE DEF k0
<1>6. Refused(c) <=> \E x \in Among(c) : x.reason # "none"
  <2>1. Refused(c) <=> \E k \in DOMAIN Checks(c) : Checks(c)[k].reason # "none"
    BY <1>2 DEF Refused
  <2>2. QED
    BY <1>1, <2>1, Zenon DEF Has
<1>7. Refused(c) => Refusal(c) \in Among(c) /\ Refusal(c).reason # "none"
  <2>1. Refused(c) => k0 \in DOMAIN Checks(c) /\ Checks(c)[k0].reason # "none"
    BY <1>2, <1>5 DEF Refused
  <2>2. QED
    BY <1>1, <1>4, <2>1, Zenon DEF Has
<1>8. QED
    BY <1>6, <1>7
-----------------------------------------------------------------------------
(* The body (GatewayCreateRequest, gateway.go:68-83).                      *)

\* A text is a document, and a sound one.
LEMMA LeafIs ==
    ASSUME NEW v \in Leaves
    PROVE  /\ IsDocument(Leaf(v))
           /\ v \notin NotUnicode \cup Fractions \cup OutOfRange => Sound(Leaf(v))
<1> DEFINE d == Leaf(v)
<1>1. d = [place \in {<<>>} |-> [value |-> v, key |-> NoKey]]
    BY DEF Leaf
<1> HIDE DEF d
<1>2. /\ DOMAIN d = {<<>>} /\ d[<<>>] = [value |-> v, key |-> NoKey] /\ d = [place \in DOMAIN d |-> d[place]]
    BY <1>1
<1>3. d[<<>>].value = v /\ d[<<>>].key = NoKey /\ d[<<>>] = [value |-> d[<<>>].value, key |-> d[<<>>].key]
    BY <1>2
<1>4. IsFiniteSet(DOMAIN d)
    BY <1>2, FS_Singleton
<1>5. ~IsMember(d, <<>>) /\ DOMAIN d \subseteq Seq(Nat) /\ \A k \in 1..Len(<<>>) : FALSE
    BY <1>2, <1>3 DEF IsMember
<1>6. IsDocument(d)
    BY <1>2, <1>3, <1>4, <1>5 DEF IsDocument
<1>7. ASSUME v \notin NotUnicode \cup Fractions \cup OutOfRange PROVE Sound(d)
  <2>1. ~Repeats(d, <<>>)
    BY DEF Repeats, Siblings
  <2>2. \A i \in DOMAIN NoKey : ~Control(NoKey[i])
    <3>1. DOMAIN NoKey = {1} /\ NoKey[1] = -1
      BY DEF NoKey
    <3>2. ~Control(-1)
      BY DEF Control
    <3> HIDE DEF Control
    <3>3. QED
      BY <3>1, <3>2
  <2> HIDE DEF Control, NoKey
  <2>3. QED
    BY <1>2, <1>3, <1>7, <2>1, <2>2, SoundIs
<1>8. QED
    BY <1>6, <1>7 DEF d

\* The members of the spec, and of the body that it is in.
SpecMembers(c) ==
    << Member(<<115, 99>>, Leaf("text")),
       Member(<<105>>, c.request.input.document),
       Member(<<112>>, c.request.parameters.document) >>
BodyMembers(c) ==
    << Member(<<115, 107>>, Leaf("text")), Member(<<116>>, Leaf("text")),
       Member(<<115, 112>>, Object(SpecMembers(c))), Member(<<109>>, Leaf("text")) >>

\* What a create sends is an object of these members, any other call sends {}.
LEMMA BodyIs ==
    ASSUME NEW c
    PROVE  /\ c.route = "create" => Body(c) = Raw(Object(BodyMembers(c)), "none")
           /\ c.route # "create" => Body(c) = Raw(Object(<<>>), "none")
BY DEF Body, EmptyRaw, BodyMembers, SpecMembers

\* The letters of its keys.
Letters == {p \in Nat : 99 <= p /\ p <= 116}

\* They are fit to print.
LEMMA LettersAre ==
    ASSUME NEW s \in Seq(Letters)
    PROVE  s \in Seq(Points) /\ \A k \in DOMAIN s : ~Control(s[k])
<1>1. Letters \subseteq Points
    BY DEF Letters, Points
<1>2. \A p \in Letters : ~Control(p)
  <2>1. SUFFICES ASSUME NEW p \in Letters PROVE ~Control(p)
    OBVIOUS
  <2>2. p \in Nat /\ 99 <= p /\ p <= 116
    BY DEF Letters
  <2>3. QED
    BY <2>2 DEF Control
<1>3. \A k \in DOMAIN s : s[k] \in Letters
    OBVIOUS
<1>4. s \in Seq(Points)
    BY <1>1, SeqMonotonic, Zenon
<1>5. QED
    BY <1>2, <1>3, <1>4, Zenon

\* If the application's two sections are sound, the spec is: nothing is wrong with the
\* whole that is not wrong with a part.
LEMMA SpecIs ==
    ASSUME NEW c, IsDocument(c.request.input.document), IsDocument(c.request.parameters.document)
    PROVE  /\ IsDocument(Object(SpecMembers(c)))
           /\ Sound(c.request.input.document) /\ Sound(c.request.parameters.document)
                => Sound(Object(SpecMembers(c)))
<1> DEFINE k1 == <<115, 99>>
           k2 == <<105>>
           k3 == <<112>>
           d1 == Leaf("text")
           d2 == c.request.input.document
           d3 == c.request.parameters.document
           ms == SpecMembers(c)
<1>1. IsDocument(d1) /\ Sound(d1)
  <2>1. "text" \in Leaves /\ "text" \notin NotUnicode \cup Fractions \cup OutOfRange
    BY DEF Leaves, NotUnicode, Fractions, OutOfRange
  <2>2. QED
    BY <2>1, LeafIs, Zenon
<1>2. k1 \in Seq(Letters) /\ k2 \in Seq(Letters) /\ k3 \in Seq(Letters) /\ k1 # k2 /\ k1 # k3 /\ k2 # k3
    BY DEF Letters
<1>3. ms = <<[key |-> k1, value |-> d1], [key |-> k2, value |-> d2], [key |-> k3, value |-> d3]>>
    BY DEF SpecMembers, Member
<1>a. IsDocument(d2) /\ IsDocument(d3)
    OBVIOUS
<1> HIDE DEF ms, k1, k2, k3, d1, d2, d3
<1>4. /\ DOMAIN ms = 1..3 /\ ms[1].key = k1 /\ ms[1].value = d1 /\ ms[2].key = k2 /\ ms[2].value = d2
      /\ ms[3].key = k3 /\ ms[3].value = d3
    BY <1>3
<1>5. \A i \in 1..3 : i = 1 \/ i = 2 \/ i = 3
    OBVIOUS
<1>6. \A i \in 1..3 : ms[i].key \in Seq(Letters) /\ IsDocument(ms[i].value)
    BY <1>1, <1>2, <1>4, <1>5, <1>a, Zenon
<1>7. \A i \in 1..3 : ms[i].key \in Seq(Points) /\ \A k \in DOMAIN ms[i].key : ~Control(ms[i].key[k])
    BY <1>6, LettersAre, Zenon
<1>8. Members(3, ms)
  <2>1. 3 \in Nat
    OBVIOUS
  <2>2. QED
    BY <1>4, <1>6, <1>7, <2>1, Zenon DEF Members
<1>9. \A i, j \in 1..3 : ms[i].key = ms[j].key => i = j
    BY <1>2, <1>4, <1>5, Zenon
<1>10. IsDocument(Object(ms))
    BY <1>8, ObjectDocument, Zenon
<1>11. ASSUME Sound(d2), Sound(d3) PROVE Sound(Object(ms))
  <2>1. \A i \in 1..3 : Sound(ms[i].value)
    BY <1>1, <1>4, <1>5, <1>11, Zenon
  <2>2. \A i \in 1..3 : Sound(ms[i].value) /\ \A k \in DOMAIN ms[i].key : ~Control(ms[i].key[k])
    BY <1>7, <2>1, Zenon
  <2>3. QED
    BY <1>8, <1>9, <2>2, ObjectSound, Zenon
<1>12. QED
    BY <1>10, <1>11 DEF ms, d2, d3

\* ... and so is the body.
LEMMA WholeIs ==
    ASSUME NEW c, IsDocument(Object(SpecMembers(c)))
    PROVE  /\ IsDocument(Object(BodyMembers(c)))
           /\ Sound(Object(SpecMembers(c))) => Sound(Object(BodyMembers(c)))
<1> DEFINE k1 == <<115, 107>>
           k2 == <<116>>
           k3 == <<115, 112>>
           k4 == <<109>>
           d1 == Leaf("text")
           d3 == Object(SpecMembers(c))
           ms == BodyMembers(c)
<1>1. IsDocument(d1) /\ Sound(d1)
  <2>1. "text" \in Leaves /\ "text" \notin NotUnicode \cup Fractions \cup OutOfRange
    BY DEF Leaves, NotUnicode, Fractions, OutOfRange
  <2>2. QED
    BY <2>1, LeafIs, Zenon
<1>2. /\ k1 \in Seq(Letters) /\ k2 \in Seq(Letters) /\ k3 \in Seq(Letters) /\ k4 \in Seq(Letters)
      /\ k1 # k2 /\ k1 # k3 /\ k1 # k4 /\ k2 # k3 /\ k2 # k4 /\ k3 # k4
    BY DEF Letters
<1>3. ms = <<[key |-> k1, value |-> d1], [key |-> k2, value |-> d1],
             [key |-> k3, value |-> d3], [key |-> k4, value |-> d1]>>
    BY DEF BodyMembers, Member
<1>a. IsDocument(d3)
    OBVIOUS
<1> HIDE DEF ms, k1, k2, k3, k4, d1, d3
<1>4. /\ DOMAIN ms = 1..4 /\ ms[1].key = k1 /\ ms[1].value = d1 /\ ms[2].key = k2 /\ ms[2].value = d1
      /\ ms[3].key = k3 /\ ms[3].value = d3 /\ ms[4].key = k4 /\ ms[4].value = d1
    BY <1>3
<1>5. \A i \in 1..4 : i = 1 \/ i = 2 \/ i = 3 \/ i = 4
    OBVIOUS
<1>6. \A i \in 1..4 : ms[i].key \in Seq(Letters) /\ IsDocument(ms[i].value)
    BY <1>1, <1>2, <1>4, <1>5, <1>a, Zenon
<1>7. \A i \in 1..4 : ms[i].key \in Seq(Points) /\ \A k \in DOMAIN ms[i].key : ~Control(ms[i].key[k])
    BY <1>6, LettersAre, Zenon
<1>8. Members(4, ms)
  <2>1. 4 \in Nat
    OBVIOUS
  <2>2. QED
    BY <1>4, <1>6, <1>7, <2>1, Zenon DEF Members
<1>9. \A i, j \in 1..4 : ms[i].key = ms[j].key => i = j
    BY <1>2, <1>4, <1>5, Zenon
<1>10. IsDocument(Object(ms))
    BY <1>8, ObjectDocument, Zenon
<1>11. ASSUME Sound(d3) PROVE Sound(Object(ms))
  <2>1. \A i \in 1..4 : Sound(ms[i].value)
    BY <1>1, <1>4, <1>5, <1>11, Zenon
  <2>2. \A i \in 1..4 : Sound(ms[i].value) /\ \A k \in DOMAIN ms[i].key : ~Control(ms[i].key[k])
    BY <1>7, <2>1, Zenon
  <2>3. QED
    BY <1>8, <1>9, <2>2, ObjectSound, Zenon
<1>12. QED
    BY <1>10, <1>11 DEF ms, d3

\* So is {}.
LEMMA EmptyIs == IsDocument(Object(<<>>)) /\ Sound(Object(<<>>))
<1> DEFINE ms == <<>>
<1>1. Members(0, ms)
    BY DEF Members
<1>2. \A i \in 1..0 : FALSE
    OBVIOUS
<1> HIDE DEF ms
<1>3. IsDocument(Object(ms)) /\ Sound(Object(ms))
    BY <1>1, <1>2, ObjectSound, ObjectDocument
<1>4. QED
    BY <1>3 DEF ms

\* What the client signs for is a document, and a sound one if the checks passed:
\* validateGatewayCanonicalizable, which looks at a section (gateway.go:786), refuses
\* what CanonicalizeJSON would refuse in the body.
LEMMA BodySound ==
    ASSUME NEW c, IsCall(c)
    PROVE  /\ IsDocument(Body(c).document)
           /\ ~Refused(c) => Fault(Body(c)) = "none"
           /\ Fault(Body(c)) = "none" => Clean(Body(c).document)
<1> DEFINE d == c.request.input.document
           e == c.request.parameters.document
<1>1. IsDocument(d) /\ IsDocument(e)
    BY DEF IsCall, IsSection
<1>2. PICK b : Body(c) = Raw(b, "none") /\ IsDocument(b) /\ (~Refused(c) => Sound(b))
  <2>1. CASE c.route # "create"
    BY <2>1, BodyIs, EmptyIs, Zenon
  <2>2. CASE c.route = "create"
    <3>1. ASSUME ~Refused(c) PROVE Sound(d) /\ Sound(e)
      <4>1. \A x \in Among(c) : x.reason = "none"
        BY <3>1, RefusalIs, Zenon
      <4>2. Canonicalizable("input", c.request.input) \in Among(c)
            /\ Canonicalizable("parameters", c.request.parameters) \in Among(c)
        BY <2>2 DEF Among, InputChecks
      <4>3. \A s, raw : Canonicalizable(s, raw).reason = Fault(Raw(raw.document, "none"))
        BY DEF Canonicalizable, Complaint
      <4>4. Fault(Raw(d, "none")) = "none" /\ Fault(Raw(e, "none")) = "none"
        BY <4>1, <4>2, <4>3, Zenon
      <4>5. QED
        BY <1>1, <4>4, FaultIs, Zenon
    <3>2. IsDocument(Object(SpecMembers(c))) /\ (Sound(d) /\ Sound(e) => Sound(Object(SpecMembers(c))))
      BY <1>1, SpecIs, Zenon
    <3>3. IsDocument(Object(BodyMembers(c))) /\ (Sound(Object(SpecMembers(c))) => Sound(Object(BodyMembers(c))))
      BY <3>2, WholeIs, Zenon
    <3>4. QED
      BY <2>2, <3>1, <3>2, <3>3, BodyIs, Zenon
  <2>3. QED
    BY <2>1, <2>2
<1>3. Body(c).document = b
    BY <1>2 DEF Raw
<1>4. Fault(Body(c)) = "none" <=> Sound(b)
  <2>1. Fault(Raw(b, "none")) = "none" <=> Sound(b) /\ "none" # "other"
    BY <1>2, FaultIs, Zenon
  <2>2. QED
    BY <1>2, <2>1
<1>5. QED
    BY <1>2, <1>3, <1>4, SoundIsClean, Zenon
-----------------------------------------------------------------------------
(* What the client found fine, the signer signs.                           *)

\* Strings, and the symbols that paths are made of.
Texts == STRING \cup {Prefix, "/", "artifacts", NL, "POST", "GET", "DELETE"}

\* A call as an application can make it is one the paths are proved about.
LEMMA CallIs ==
    ASSUME NEW c, IsCall(c)
    PROVE  Call(c, Texts) /\ Vocabulary(Texts)
<1>1. Vocabulary(Texts)
    BY DEF Vocabulary, Texts
<1> DEFINE S == STRING
<1>2. c.route \in Routes /\ c.ids \in Seq(Seq(S)) /\ c.actor \in Seq(S) /\ c.key \in Seq(S)
    BY DEF IsCall
<1>3. S \subseteq Texts
    BY DEF Texts
<1> HIDE DEF S
<1>4. \A s \in Seq(S) : s \in Seq(Texts)
    BY <1>3
<1>5. c.ids \in Seq(Seq(Texts))
  <2>1. Seq(S) \subseteq Seq(Texts)
    BY <1>4
  <2> HIDE DEF Texts
  <2>2. \A s \in Seq(Seq(S)) : s \in Seq(Seq(Texts))
    BY <2>1
  <2>3. QED
    BY <1>2, <2>2
<1>6. QED
    BY <1>1, <1>2, <1>4, <1>5 DEF Call

\* What the client's checks leave to the signer: address, key and body are fine.
LEMMA CheckedIs ==
    ASSUME NEW c, IsCall(c), ~Refused(c)
    PROVE  /\ IdsOK(c) /\ KeyFits(c) /\ AddressOK(c) /\ Fault(Body(c)) = "none"
<1>1. \A x \in Among(c) : x.reason = "none"
    BY RefusalIs, Zenon
<1>2. \A section, reason : Complaint(section, reason, NoName).reason = reason
    BY DEF Complaint
<1>3. IdsOK(c)
  <2>1. If(~IdsOK(c), "ids", "invalid") \in Among(c)
    BY DEF Among
  <2>2. ~IdsOK(c) => If(~IdsOK(c), "ids", "invalid") = Complaint("ids", "invalid", NoName)
    BY Zenon DEF If
  <2>3. ~IdsOK(c) => Complaint("ids", "invalid", NoName).reason = "none"
    BY <1>1, <2>1, <2>2, Zenon
  <2>4. QED
    BY <1>2, <2>3
<1>4. KeyFits(c)
  <2>1. CASE Method(c.route) = "GET"
    BY <2>1 DEF IsCall, KeyFits
  <2>2. CASE Method(c.route) # "GET"
    <3>1. If(~KeyOK(c.key), "key", "invalid") \in Among(c)
      BY <2>2 DEF Among
    <3>2. ~KeyOK(c.key) => If(~KeyOK(c.key), "key", "invalid") = Complaint("key", "invalid", NoName)
      BY Zenon DEF If
    <3>3. ~KeyOK(c.key) => Complaint("key", "invalid", NoName).reason = "none"
      BY <1>1, <3>1, <3>2, Zenon
    <3>4. QED
      BY <1>2, <2>2, <3>3 DEF KeyFits
  <2>3. QED
    BY <2>1, <2>2
<1>5. AddressOK(c)
    BY <1>3, <1>4, CallIs, SignerAcceptsAddress, Zenon
<1>6. QED
    BY <1>3, <1>4, <1>5, BodySound, Zenon

\* What passed the client's own checks is signed, unless the actor or the lifetime is
\* no good: for any call that an application can make, SignAssertion finds no fault of
\* path, key or body that Validate and the route did not find (assertion.go:310).
THEOREM SignerRefusesOnlyItsOwnHolds == Spec => []SignerRefusesOnlyItsOwn
<1>1. RequestInv => SignerRefusesOnlyItsOwn
  <2> SUFFICES ASSUME RequestInv, phase = "unsigned"
               PROVE  ~ActorOK(call.actor) \/ ~LifetimeOK(call)
    BY DEF SignerRefusesOnlyItsOwn
  <2>1. call \in Calls /\ ~Refused(call) /\ ~Signable(call)
    BY DEF RequestInv
  <2>2. IsCall(call)
    BY <2>1, CallAssumption
  <2>3. AddressOK(call) /\ Fault(Body(call)) = "none"
    BY <2>1, <2>2, CheckedIs, Zenon
  <2>4. QED
    BY <2>1, <2>3, Zenon DEF Signable
<1>2. QED
    BY <1>1, RequestInvariant, PTL

\* The body a server receives is in the order of RFC 8785 and says what was sent, and
\* the claims are valid in whole seconds (jcs.go:35; validateClaims, assertion.go:499).
THEOREM ServerAgreesHolds == Spec => []ServerAgrees
<1>1. RequestInv => ServerAgrees
  <2> SUFFICES ASSUME RequestInv, phase = "arrived"
               PROVE  /\ InRFCOrder(claims.fingerprint.body)
                      /\ SameValue(claims.fingerprint.body, Body(call).document)
                      /\ 0 < claims.iat /\ claims.exp - claims.iat \in 1..60
    BY DEF ServerAgrees
  <2>1. call \in Calls /\ Signable(call) /\ claims = ClaimsOf(call)
    BY DEF RequestInv
  <2>2. IsCall(call)
    BY <2>1, CallAssumption
  <2>3. claims.fingerprint.body = Canonical(Body(call).document)
    BY <2>1 DEF ClaimsOf, Fingerprint, CanonicalizeJSON
  <2>4. Clean(Body(call).document)
    BY <2>1, <2>2, BodySound, Zenon DEF Signable
  <2>5. /\ InRFCOrder(claims.fingerprint.body)
        /\ SameValue(claims.fingerprint.body, Body(call).document)
    BY <2>3, <2>4, CanonicalInOrder, CanonicalSays, Zenon
  <2>6. claims.iat = IssuedAt(call) /\ claims.exp = ExpiresAt(call)
    BY <2>1 DEF ClaimsOf
  <2>7. 0 < IssuedAt(call)
    BY <2>2 DEF IssuedAt, IsCall
  <2>8. ExpiresAt(call) - IssuedAt(call) \in 1..60
    BY <2>1, Zenon DEF Signable, LifetimeOK
  <2>9. QED
    BY <2>5, <2>6, <2>7, <2>8
<1>2. QED
    BY <1>1, RequestInvariant, PTL

\* Of two calls that are both signed, the fingerprint is one exactly if route, ids,
\* actor, key and the value of the body are: no two requests share a replay key, and
\* none has two (RequestFingerprint, assertion.go:280).
THEOREM FingerprintTells ==
    ASSUME NEW c, IsCall(c), ~Refused(c), Signable(c),
           NEW d, IsCall(d), ~Refused(d), Signable(d)
    PROVE  Fingerprint(c) = Fingerprint(d) <=> Said(c) = Said(d)
<1>1. /\ Fingerprint(c) = [line |-> Line(c), body |-> Canonical(Body(c).document)]
      /\ Fingerprint(d) = [line |-> Line(d), body |-> Canonical(Body(d).document)]
    BY DEF Fingerprint, CanonicalizeJSON
<1>2. Fingerprint(c) = Fingerprint(d) <=>
        Line(c) = Line(d) /\ Canonical(Body(c).document) = Canonical(Body(d).document)
    BY <1>1
<1>3. Said(c) = Said(d) <=>
        /\ c.route = d.route /\ c.ids = d.ids /\ c.actor = d.actor /\ c.key = d.key
        /\ Value(Body(c).document) = Value(Body(d).document)
    BY DEF Said
<1>4. Clean(Body(c).document) /\ Clean(Body(d).document)
    BY BodySound, Zenon DEF Signable
<1>5. Canonical(Body(c).document) = Canonical(Body(d).document)
        <=> Value(Body(c).document) = Value(Body(d).document)
  <2>1. Canonical(Body(c).document) = Canonical(Body(d).document)
          <=> SameValue(Body(c).document, Body(d).document)
    BY <1>4, CanonicalSeparates, Zenon
  <2>2. QED
    BY <2>1 DEF SameValue
<1>6. Line(c) = Line(d) => c.route = d.route /\ c.ids = d.ids /\ c.actor = d.actor /\ c.key = d.key
  <2>1. IdsOK(c) /\ ActorOK(c.actor) /\ IdsOK(d) /\ ActorOK(d.actor)
    BY CheckedIs, Zenon DEF Signable
  <2>2. QED
    BY <2>1, CallIs, LineSeparates, Zenon
<1>7. c.route = d.route /\ c.ids = d.ids /\ c.actor = d.actor /\ c.key = d.key => Line(c) = Line(d)
    BY DEF Line, Path
<1>8. QED
    BY <1>2, <1>3, <1>5, <1>6, <1>7, Zenon

\* So it is for the request that arrives, and any that is signed.
THEOREM FingerprintSeparatesHolds == Spec => []FingerprintSeparates
<1>1. RequestInv => FingerprintSeparates
  <2> SUFFICES ASSUME RequestInv, phase = "arrived", NEW f \in Fingerprints
               PROVE  (f.print = claims.fingerprint) = (f.said = Said(call))
    BY DEF FingerprintSeparates
  <2>1. call \in Calls /\ Signable(call) /\ ~Refused(call) /\ claims = ClaimsOf(call)
    BY DEF RequestInv
  <2>2. IsCall(call) /\ claims.fingerprint = Fingerprint(call)
    BY <2>1, CallAssumption DEF ClaimsOf
  <2>3. PICK c \in Signed : f = [said |-> Said(c), print |-> Fingerprint(c)]
    BY DEF Fingerprints
  <2>4. IsCall(c) /\ Signable(c) /\ ~Refused(c)
    BY CallAssumption DEF Signed
  <2>5. Fingerprint(c) = Fingerprint(call) <=> Said(c) = Said(call)
    BY <2>1, <2>2, <2>4, FingerprintTells, Zenon
  <2>6. f.print = Fingerprint(c) /\ f.said = Said(c)
    BY <2>3
  <2>7. QED
    BY <2>2, <2>5, <2>6
<1>2. QED
    BY <1>1, RequestInvariant, PTL
-----------------------------------------------------------------------------
(* Which field is named.                                                   *)

\* A name is no mark of what has none.
LEMMA NamesAre ==
    ASSUME NEW d, IsDocument(d), NEW p \in DOMAIN d
    PROVE  Name(d, p) \in Seq(Seq(Int)) /\ Name(d, p) # NoName
<1> DEFINE g(k) == Tag(d, Way(p, k))
           m == Name(d, p)
<1>1. p \in Seq(Nat) /\ Len(p) \in Nat
    BY DocumentIs, Zenon
<1>2. m = [k \in 1..Len(p) |-> g(k)]
    BY DEF Name
<1>3. ASSUME NEW k \in 1..Len(p) PROVE g(k) \in Seq(Int) /\ g(k) # NoKey
  <2> DEFINE w == Way(p, k)
  <2>1. k \in 0..Len(p) /\ k # 0
    BY <1>1
  <2>2. w \in DOMAIN d /\ Len(w) = k
    BY <1>1, <2>1, DocumentIs, WayIs, Zenon
  <2> HIDE DEF w
  <2>3. CASE IsMember(d, w)
    <3>1. d[w].key \in Seq(Points) /\ Tag(d, w) = d[w].key
      BY <2>2, <2>3, DocumentIs, Zenon DEF Tag
    <3>2. Points \subseteq Int
      BY DEF Points
    <3>3. d[w].key \in Seq(Int)
      BY <3>1, <3>2, SeqMonotonic, Zenon
    <3>4. QED
      BY <3>1, <3>3, KeyIsNone, Zenon DEF w
  <2>4. CASE ~IsMember(d, w)
    <3>1. At(w) \in Nat
      <4>1. w \in Seq(Nat) /\ Len(w) \in 1..Len(w)
        <5>1. w \in Seq(Nat) /\ Len(w) \in Nat
          BY <2>2, DocumentIs, Zenon
        <5>2. QED
          BY <2>1, <2>2, <5>1
      <4>2. QED
        BY <4>1 DEF At
    <3>2. Tag(d, w) = <<At(w)>>
      BY <2>4, Zenon DEF Tag
    <3>3. <<At(w)>> \in Seq(Int) /\ <<At(w)>> # NoKey
      BY <3>1 DEF NoKey
    <3>4. QED
      BY <3>2, <3>3, Zenon DEF w
  <2>5. QED
    BY <2>3, <2>4
<1> HIDE DEF g, m
<1>4. m \in Seq(Seq(Int)) /\ Len(m) = Len(p) /\ \A k \in 1..Len(p) : m[k] = g(k)
    BY <1>1, <1>2, <1>3
<1>5. m # NoName
  <2>1. ASSUME m = NoName PROVE FALSE
    <3>1. Len(NoName) = 1 /\ NoName[1] = NoKey
      BY DEF NoName
    <3>2. Len(p) = 1 /\ m[1] = NoKey
      BY <1>4, <2>1, <3>1, Zenon
    <3>3. 1 \in 1..Len(p)
      BY <3>2
    <3>4. QED
      BY <1>3, <1>4, <3>2, <3>3, Zenon
  <2>2. QED
    BY <2>1
<1>6. QED
    BY <1>4, <1>5 DEF m

\* The order in which locateUncanonicalizableNumber goes: objects by sorted keys.
NameLower == {r \in Seq(Seq(Int)) \X Seq(Seq(Int)) : NameBefore(r[1], r[2])}

\* It is an order, so there is a first name.
LEMMA NameLowerIs ==
    /\ \A m, n \in Seq(Seq(Int)) : <<m, n>> \in NameLower <=> NameBefore(m, n)
    /\ StrictOrder(NameLower, Seq(Seq(Int)))
<1>1. \A m, n \in Seq(Seq(Int)) : <<m, n>> \in NameLower <=> NameBefore(m, n)
    BY DEF NameLower
<1>2. StrictOrder(LowerSeq, Seq(Int)) /\ \A s, t \in Seq(Int) : <<s, t>> \in LowerSeq <=> Precedes(s, t)
    BY LowerSeqIs, Zenon
<1>3. ASSUME NEW m \in Seq(Seq(Int)), NEW n \in Seq(Seq(Int)) PROVE NameBefore(m, n) <=> LexR(m, n, LowerSeq)
  <2>1. \A i \in DOMAIN m \cap DOMAIN n : Precedes(m[i], n[i]) <=> <<m[i], n[i]>> \in LowerSeq
    <3>1. \A i \in DOMAIN m \cap DOMAIN n : m[i] \in Seq(Int) /\ n[i] \in Seq(Int)
      OBVIOUS
    <3>2. QED
      BY <1>2, <3>1, Zenon
  <2>2. QED
    BY <2>1 DEF NameBefore, Lexical, LexR
<1>4. \A m, n \in Seq(Seq(Int)) : <<m, n>> \in NameLower <=> LexR(m, n, LowerSeq)
    BY <1>1, <1>3, Zenon
<1>5. QED
    BY <1>1, <1>2, <1>4, LexStrict, Zenon

\* A name is found if there is an unfit number that encoding/json keeps, and it is
\* the name of an unfit number (locateUncanonicalizableNumber, gateway.go:861).
LEMMA LocateIs ==
    ASSUME NEW d, IsDocument(d)
    PROVE  /\ Locate(d) # NoName => Locate(d) \in UnfitNames(d)
           /\ Locate(d) = NoName => Unfit(d) \cap LastWins(d) = {}
<1> DEFINE U == Unfit(d) \cap LastWins(d)
           T == {Name(d, p) : p \in U}
           First(n) == \A m \in T : ~NameBefore(m, n)
           n0 == CHOOSE n \in T : First(n)
<1>1. Locate(d) = IF T = {} THEN NoName ELSE n0
    BY Zenon DEF Locate
<1>2. U \subseteq DOMAIN d /\ U \subseteq Unfit(d)
    BY DEF Unfit
<1>3. IsFiniteSet(U)
  <2>1. IsFiniteSet(DOMAIN d) /\ U \in SUBSET DOMAIN d
    BY <1>2 DEF IsDocument
  <2>2. QED
    BY <2>1, FS_Subset, Zenon
<1> HIDE DEF U
<1>4. IsFiniteSet(T) /\ T \subseteq Seq(Seq(Int)) /\ NoName \notin T
  <2> DEFINE f == [p \in U |-> Name(d, p)]
  <2>1. f \in Surjection(U, T)
    BY DEF Surjection
  <2> HIDE DEF f, T
  <2>2. IsFiniteSet(T)
    BY <1>3, <2>1, FS_Surjection, Zenon
  <2>3. \A p \in U : Name(d, p) \in Seq(Seq(Int)) /\ Name(d, p) # NoName
    BY <1>2, NamesAre
  <2>4. T \subseteq Seq(Seq(Int)) /\ NoName \notin T
    BY <2>3 DEF T
  <2>5. QED
    BY <2>2, <2>4
<1>5. T # {} => \E n \in T : First(n)
  <2> HIDE DEF T
  <2> SUFFICES ASSUME T # {} PROVE \E n \in T : First(n)
    OBVIOUS
  <2> DEFINE S == Seq(Seq(Int))
  <2>0. StrictOrder(NameLower, S) /\ T \subseteq S /\ IsFiniteSet(T)
    BY <1>4, NameLowerIs, Zenon
  <2> HIDE DEF S
  <2>1. PICK n \in T : \A m \in T : <<m, n>> \notin NameLower
    BY <2>0, Minimal, Zenon
  <2>2. \A m \in T : m \in Seq(Seq(Int)) /\ n \in Seq(Seq(Int))
    BY <1>4
  <2>3. QED
    BY <2>1, <2>2, NameLowerIs, Zenon
<1> HIDE DEF First
<1>6. T # {} => n0 \in T
    BY <1>5
<1> HIDE DEF n0
<1>7. T \subseteq UnfitNames(d) /\ (T = {} <=> U = {})
    BY <1>2 DEF UnfitNames
<1> HIDE DEF T
<1>8. QED
    BY <1>1, <1>4, <1>6, <1>7 DEF U

\* A number that encoding/json drops is hidden by a member that repeats a key.
LEMMA HiddenIs ==
    ASSUME NEW d, IsDocument(d), NEW p \in DOMAIN d, p \notin LastWins(d)
    PROVE  \E q \in DOMAIN d : Repeats(d, q)
<1>1. PICK k \in 1..Len(p) : \E q \in DOMAIN d :
            /\ Siblings(Way(p, k), q) /\ IsMember(d, q) /\ d[q].key = d[Way(p, k)].key /\ ~(At(q) <= p[k])
    BY Zenon DEF LastWins
<1>2. PICK q \in DOMAIN d :
            /\ Siblings(Way(p, k), q) /\ IsMember(d, q) /\ d[q].key = d[Way(p, k)].key /\ ~(At(q) <= p[k])
    BY <1>1
<1> DEFINE w == Way(p, k)
<1>3. p \in Seq(Nat) /\ Len(p) \in Nat
    BY DocumentIs, Zenon
<1>4. k \in 0..Len(p) /\ k \in 1..k
    BY <1>3
<1>5. w \in DOMAIN d /\ Len(w) = k /\ w[k] = p[k]
  <2>1. w \in DOMAIN d
    BY <1>4, DocumentIs, Zenon
  <2>2. Len(w) = k /\ \A i \in 1..k : w[i] = p[i]
    BY <1>3, <1>4, WayIs, Zenon
  <2>3. QED
    BY <1>4, <2>1, <2>2, Zenon
<1> HIDE DEF w
<1>6. At(w) = p[k]
    BY <1>5, Zenon DEF At
<1>7. Siblings(w, q)
    BY <1>2 DEF w
<1>8. Siblings(q, w) /\ At(w) \in Nat /\ At(q) \in Nat
    BY <1>5, <1>7, SiblingsInDocument, Zenon
<1>9. At(w) < At(q)
    BY <1>2, <1>6, <1>8
<1>10. d[w].key = d[q].key
    BY <1>2 DEF w
<1>11. Repeats(d, q)
    BY <1>2, <1>5, <1>8, <1>9, <1>10, Zenon DEF Repeats
<1>12. QED
    BY <1>11

\* What is named for a section is in it, and was refused by jcs for a number.
LEMMA CanonicalizableIs ==
    ASSUME NEW section, NEW raw, IsDocument(raw.document)
    PROVE  LET x == Canonicalizable(section, raw) IN
           /\ x.section = section
           /\ x.named # NoName => x.named \in UnfitNames(raw.document)
                                    /\ DecodeFault(raw.document) \in {"fraction", "range"}
           /\ x.reason \in {"fraction", "range"} /\ x.named = NoName
                => \E p \in DOMAIN raw.document : Repeats(raw.document, p)
<1> DEFINE d == raw.document
           x == Canonicalizable(section, raw)
           fault == Fault(Raw(d, "none"))
<1>1. /\ x.section = section /\ x.reason = fault
      /\ x.named = IF fault \in {"fraction", "range"} THEN Locate(d) ELSE NoName
    BY DEF Canonicalizable, Complaint, NumberRejection
<1> HIDE DEF x
<1>2. fault \in {"fraction", "range"} => ~BadUnicode(d) /\ Faulty(d) # {} /\ DecodeFault(d) = fault
    BY FaultIs, Zenon
<1> HIDE DEF fault, d
<1>3. IsDocument(d)
    BY DEF d
<1>4. x.named # NoName => x.named \in UnfitNames(d) /\ DecodeFault(d) \in {"fraction", "range"}
  <2> SUFFICES ASSUME x.named # NoName PROVE x.named \in UnfitNames(d) /\ DecodeFault(d) \in {"fraction", "range"}
    OBVIOUS
  <2>1. fault \in {"fraction", "range"} /\ x.named = Locate(d)
    BY <1>1
  <2>2. Locate(d) \in UnfitNames(d)
    BY <1>3, <2>1, LocateIs, Zenon
  <2>3. QED
    BY <1>2, <2>1, <2>2
<1>5. ASSUME x.reason \in {"fraction", "range"}, x.named = NoName PROVE \E p \in DOMAIN d : Repeats(d, p)
  <2>1. fault \in {"fraction", "range"} /\ Locate(d) = NoName /\ Faulty(d) # {} /\ DecodeFault(d) = fault
    BY <1>1, <1>2, <1>5
  <2>2. PICK p \in Faulty(d) : FaultAt(d, p) = fault
    BY <1>3, <2>1, DecodeFaultIs
  <2>3. p \in DOMAIN d /\ p \in Unfit(d)
    <3>1. p \in DOMAIN d
      BY DEF Faulty
    <3>2. d[p].value \in Fractions \cup OutOfRange
      BY <2>1, <2>2 DEF FaultAt
    <3>3. QED
      BY <3>1, <3>2 DEF Unfit
  <2>4. p \notin LastWins(d)
    <3>1. Unfit(d) \cap LastWins(d) = {}
      BY <1>3, <2>1, LocateIs, Zenon
    <3>2. QED
      BY <2>3, <3>1
  <2>5. QED
    BY <1>3, <2>3, <2>4, HiddenIs, Zenon
<1>6. QED
    BY <1>1, <1>4, <1>5 DEF x, d

\* A field is named only if it holds a number that is unfit, and none is named for an
\* unfit number only if the document repeats a key, for any two sections
\* (validateGatewayCanonicalizable, gateway.go:786).
THEOREM NamedFieldIsToBlameHolds == Spec => []NamedFieldIsToBlame
<1>1. RequestInv => NamedFieldIsToBlame
  <2> SUFFICES ASSUME RequestInv PROVE NamedFieldIsToBlame
    OBVIOUS
  <2>1. call \in Calls /\ complaint = IF phase = "refused" THEN Refusal(call) ELSE Fine
    BY DEF RequestInv
  <2>2. IsDocument(call.request.input.document) /\ IsDocument(call.request.parameters.document)
    BY <2>1, CallAssumption DEF IsCall, IsSection
  <2>3. CASE complaint.named = NoName /\ complaint.reason \notin {"fraction", "range"}
    BY <2>3 DEF NamedFieldIsToBlame
  <2>4. CASE complaint \in {Canonicalizable("input", call.request.input),
                            Canonicalizable("parameters", call.request.parameters)}
    <3>1. CASE complaint = Canonicalizable("input", call.request.input)
      <4>1. complaint.section = "input" /\ Section = call.request.input.document
        BY <2>2, <3>1, CanonicalizableIs DEF Section
      <4>2. QED
        BY <2>2, <3>1, <4>1, CanonicalizableIs DEF NamedFieldIsToBlame
    <3>2. CASE complaint = Canonicalizable("parameters", call.request.parameters)
      <4>1. complaint.section = "parameters" /\ Section = call.request.parameters.document
        BY <2>2, <3>2, CanonicalizableIs DEF Section
      <4>2. QED
        BY <2>2, <3>2, <4>1, CanonicalizableIs DEF NamedFieldIsToBlame
    <3>3. QED
      BY <2>4, <3>1, <3>2
  <2>5. complaint = Fine \/ complaint \in Among(call)
    BY <2>1, RefusalIs DEF RequestInv
  <2>6. \A bad, section : \A reason \in {"blank", "null", "no object", "invalid"} :
            /\ If(bad, section, reason).named = NoName
            /\ If(bad, section, reason).reason \notin {"fraction", "range"}
    BY DEF If, Complaint
  <2>7. Fine.named = NoName /\ Fine.reason \notin {"fraction", "range"}
    BY DEF Fine, Complaint
  <2>8. ASSUME complaint \in Among(call)
        PROVE  \/ complaint.named = NoName /\ complaint.reason \notin {"fraction", "range"}
               \/ complaint \in {Canonicalizable("input", call.request.input),
                                 Canonicalizable("parameters", call.request.parameters)}
    <3>1. \/ \E bad, section : \E reason \in {"blank", "null", "no object", "invalid"} : complaint = If(bad, section, reason)
          \/ complaint \in {Canonicalizable("input", call.request.input),
                            Canonicalizable("parameters", call.request.parameters)}
      BY <2>8 DEF Among, InputChecks
    <3>2. QED
      BY <2>6, <3>1
  <2>9. QED
    BY <2>3, <2>4, <2>5, <2>7, <2>8
<1>2. QED
    BY <1>1, RequestInvariant, PTL
=============================================================================
