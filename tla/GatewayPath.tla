------------------------------ MODULE GatewayPath ------------------------------
(***************************************************************************)
(* Where a gateway request goes and in whose name: the paths of the four   *)
(* invocation routes, the rule for idempotency keys, what the signer makes *)
(* of both, and the lines the fingerprint is taken of (path.go, gateway.go *)
(* 732-746, assertion.go 280-306).                                         *)
(*                                                                         *)
(* Ids, actors, keys and paths are sequences of symbols; the prefix of all *)
(* paths is one symbol, and so is the literal segment "artifacts".         *)
(***************************************************************************)
EXTENDS Integers, Sequences

CONSTANTS MinKey, MaxKey        \* for the code's 16 and 128

ASSUME RequestAssumption == MinKey \in Nat \ {0} /\ MaxKey \in Nat /\ MinKey <= MaxKey

NL == "NL"
Prefix == "/runtime/v1/invocations"
Safe == {"a", "b", ".", "artifacts"}
IsSafe(symbols) == \A i \in DOMAIN symbols : symbols[i] \in Safe
OneLine(symbols) == \A i \in DOMAIN symbols : symbols[i] # NL
-----------------------------------------------------------------------------
(* What the client checks and builds.                                      *)

ValidServerIssuedID(id) ==
    id \notin {<<>>, <<".">>, <<".", ".">>} /\ IsSafe(id)

Routes == {"create", "get", "cancel", "get_artifact"}
IdsOf(route) == CASE route = "create" -> 0
                  [] route \in {"get", "cancel"} -> 1
                  [] route = "get_artifact" -> 2
Method(route) == CASE route = "create" -> "POST"
                   [] route \in {"get", "get_artifact"} -> "GET"
                   [] route = "cancel" -> "DELETE"

\* CanonicalGatewayPath: the ids are checked, never escaped.
IdsOK(c) ==
    /\ Len(c.ids) = IdsOf(c.route)
    /\ \A i \in DOMAIN c.ids : ValidServerIssuedID(c.ids[i])
Path(c) ==
    CASE c.route = "create" -> <<Prefix>>
      [] c.route \in {"get", "cancel"} -> <<Prefix, "/">> \o c.ids[1]
      [] c.route = "get_artifact" ->
            <<Prefix, "/">> \o c.ids[1] \o <<"/", "artifacts", "/">> \o c.ids[2]

\* validateGatewayIdempotencyKey; a GET is sent without a key.
KeyOK(idempotencyKey) ==
    Len(idempotencyKey) \in MinKey..MaxKey /\ IsSafe(idempotencyKey)
KeyFits(c) == IF Method(c.route) = "GET" THEN c.key = <<>> ELSE KeyOK(c.key)
-----------------------------------------------------------------------------
(* What the signer makes of a method, a path and a key, however they came   *)
(* about.                                                                   *)

\* strings.Split, of what comes after the prefix and a slash: there is one
\* segment if no slash is left, three if two are.
Slashes(path) == {i \in 3..Len(path) : path[i] = "/"}
OneSegment(path) ==
    Slashes(path) = {} /\ ValidServerIssuedID(SubSeq(path, 3, Len(path)))
ThreeSegments(path) ==
    \E p, q \in Slashes(path) :
        /\ p < q /\ Slashes(path) = {p, q}
        /\ ValidServerIssuedID(SubSeq(path, 3, p - 1))
        /\ SubSeq(path, p + 1, q - 1) = <<"artifacts">>
        /\ ValidServerIssuedID(SubSeq(path, q + 1, Len(path)))
Registered(path) ==
    \/ path = <<Prefix>>
    \/ /\ Len(path) > 1 /\ path[1] = Prefix /\ path[2] = "/"
       /\ OneSegment(path) \/ ThreeSegments(path)

\* What a method does to a path: gatewayOperationAndMethod.
Operation(method, path) ==
    CASE path = <<Prefix>> /\ method = "POST" -> "create"
      [] Registered(path) /\ path # <<Prefix>> /\ Slashes(path) = {} /\ method = "GET" -> "get"
      [] Registered(path) /\ path # <<Prefix>> /\ Slashes(path) = {} /\ method = "DELETE" -> "cancel"
      [] Registered(path) /\ path # <<Prefix>> /\ Slashes(path) # {} /\ method = "GET" -> "get_artifact"
      [] OTHER -> "none"

\* SignAssertion: validateOperationAndMethod, idempotencyRule, the line ends.
AddressOK(c) ==
    /\ Operation(Method(c.route), Path(c)) = c.route
    /\ (Method(c.route) = "GET") = (c.key = <<>>)
    /\ OneLine(c.key)
ActorOK(actor) == actor # <<>> /\ OneLine(actor)

\* RequestFingerprint, before the body.
Line(c) == <<Method(c.route), NL>> \o Path(c) \o <<NL>> \o c.actor \o <<NL>> \o c.key
=============================================================================
