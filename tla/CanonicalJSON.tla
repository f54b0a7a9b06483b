---------------------------- MODULE CanonicalJSON ----------------------------
(***************************************************************************)
(* The canonical JSON of request fingerprints (jcs/jcs.go): which          *)
(* documents have one, and what it is.                                     *)
(*                                                                         *)
(* A document is a function from its places to what is written there.  The *)
(* place of a value is the way to it: <<>> is the whole, <<2, 1>> the      *)
(* first part of the second part.  An object keeps the order its members   *)
(* are written in, and a key that comes twice; a key is its code points.   *)
(* A leaf is one of a few texts and numbers; how a string is escaped is    *)
(* left out, the canonical form is a document again.                       *)
(***************************************************************************)
EXTENDS Integers, Sequences, FiniteSets

Fractions == {"1.5", "1e3"}
OutOfRange == {"2^63"}
NotUnicode == {"invalid UTF-8", "unpaired surrogate"}
Leaves == Fractions \cup OutOfRange \cup NotUnicode
          \cup {"null", "0", "-0", "7", "text", "U+FFFD"}

Points == {p \in Nat : p < 55296 \/ (57344 <= p /\ p < 1114112)}   \* what a Go string decodes to
NoKey == <<-1>>                                 \* of the whole, and of an array's items
Leaf(value) == [place \in {<<>>} |-> [value |-> value, key |-> NoKey]]
Compound(value, keys, parts) ==
    LET inner == UNION {{<<i>> \o p : p \in DOMAIN parts[i]} : i \in DOMAIN parts}
        Inner(i, p) == [value |-> parts[i][p].value,
                        key   |-> IF p = <<>> THEN keys[i] ELSE parts[i][p].key]
    IN [place \in {<<>>} \cup inner |->
            IF place = <<>> THEN [value |-> value, key |-> NoKey]
            ELSE Inner(Head(place), Tail(place))]
Array(items) == Compound("array", [i \in DOMAIN items |-> NoKey], items)
Member(key, value) == [key |-> key, value |-> value]
Object(members) ==
    Compound("object", [m \in DOMAIN members |-> members[m].key],
                       [m \in DOMAIN members |-> members[m].value])

\* The parts of one whole; the first steps of a way.
Siblings(p, q) ==
    p # <<>> /\ Len(p) = Len(q) /\ \A k \in 1..Len(p) - 1 : p[k] = q[k]
At(p) == p[Len(p)]
Way(p, k) == SubSeq(p, 1, k)
IsMember(d, p) == d[p].key # NoKey

IsDocument(d) ==
    /\ d = [place \in DOMAIN d |-> d[place]]
    /\ IsFiniteSet(DOMAIN d) /\ DOMAIN d \subseteq Seq(Nat) /\ <<>> \in DOMAIN d
    /\ \A p \in DOMAIN d :
        /\ d[p] = [value |-> d[p].value, key |-> d[p].key]
        /\ d[p].value \in Leaves \cup {"array", "object"}
        /\ d[p].key \in Seq(Points) \/ d[p].key = NoKey
        /\ \A k \in 1..Len(p) :
            /\ Way(p, k - 1) \in DOMAIN d
            /\ d[Way(p, k - 1)].value \in {"array", "object"}
            /\ IsMember(d, Way(p, k)) <=> d[Way(p, k - 1)].value = "object"
    /\ ~IsMember(d, <<>>)
-----------------------------------------------------------------------------
(* Reading.                                                                *)

\* validateRawJSONUnicode, before anything is decoded.
BadUnicodeMutant(d) == FALSE            \* encoding/json's U+FFFD is good enough
BadUnicode(d) == \E p \in DOMAIN d : d[p].value \in NotUnicode

\* a before b: at the first place where they differ, or because b goes on.
Lexical(a, b, Less(_, _)) ==
    \/ Len(a) < Len(b) /\ \A i \in DOMAIN a : a[i] = b[i]
    \/ \E i \in DOMAIN a \cap DOMAIN b : Less(a[i], b[i]) /\ \A j \in 1..i-1 : a[j] = b[j]
Precedes(a, b) == Lexical(a, b, <)

\* decodeJSONValue: the first fault in the order of the document; a key that is
\* there already is seen before its value, and that before the parts of it.
Repeats(d, p) ==
    \E q \in DOMAIN d :
        Siblings(p, q) /\ At(q) < At(p) /\ IsMember(d, p) /\ d[q].key = d[p].key
FaultAt(d, p) ==
    IF Repeats(d, p) THEN "duplicate"
    ELSE IF d[p].value \in Fractions THEN "fraction"
    ELSE IF d[p].value \in OutOfRange THEN "range" ELSE "none"
Faulty(d) == {p \in DOMAIN d : FaultAt(d, p) # "none"}
DecodeFault(d) ==
    IF Faulty(d) = {} THEN "none"
    ELSE FaultAt(d, CHOOSE p \in Faulty(d) : \A q \in Faulty(d) : ~Precedes(q, p))
-----------------------------------------------------------------------------
(* Writing.                                                                *)

\* validateJCSKey: unicode.IsControl.
Control(point) == (0 <= point /\ point < 32) \/ (127 <= point /\ point < 160)
ControlKey(d) ==
    \E p \in DOMAIN d : \E i \in DOMAIN d[p].key : Control(d[p].key[i])

\* utf16.Encode: a point beyond the basic plane takes two units.
Supplementary(point) == point > 65535
Wide(key) == {p \in DOMAIN key : Supplementary(key[p])}
Unit(key, p) == p + Cardinality({q \in Wide(key) : q < p})      \* the first one of p
High(point) == 55296 + ((point - 65536) \div 1024)
Low(point) == 56320 + ((point - 65536) % 1024)
Units(key) ==
    [u \in 1..Len(key) + Cardinality(Wide(key)) |->
        LET p == CHOOSE p \in DOMAIN key :
                    u = Unit(key, p) \/ (p \in Wide(key) /\ u = Unit(key, p) + 1)
        IN IF p \notin Wide(key) THEN key[p]
           ELSE IF u = Unit(key, p) THEN High(key[p]) ELSE Low(key[p])]
LessUTF16Mutant(left, right) == Precedes(left, right)       \* sort.Strings
LessUTF16(left, right) == Precedes(Units(left), Units(right))

\* sortJCSKeys: a member is written behind the members with lesser keys, an item
\* where it is.
KeysBeside(d, p) == {d[q].key : q \in {q \in DOMAIN d : Siblings(p, q)}}
Rank(d, p) == 1 + Cardinality({key \in KeysBeside(d, p) : LessUTF16(key, d[p].key)})
Seat(d, p) ==
    [k \in 1..Len(p) |->
        IF IsMember(d, Way(p, k)) THEN Rank(d, Way(p, k)) ELSE p[k]]

\* writeJCS; what encoding/json made of a text that is no Unicode is one text.
Written(node) == IF node.value \in NotUnicode THEN [node EXCEPT !.value = "U+FFFD"] ELSE node
Seats(d) == {[place |-> p, seat |-> Seat(d, p)] : p \in DOMAIN d}
Canonical(d) ==
    LET seats == Seats(d)
    IN [place \in {s.seat : s \in seats} |->
            Written(d[(CHOOSE s \in seats : s.seat = place).place])]

\* CanonicalizeJSON.  The empty body is {}; what follows the document is not
\* noticed if it begins with a closing bracket, because decoder.More is FALSE then.
Raw(d, trailing) == [document |-> d, trailing |-> trailing]
EmptyRaw == Raw(Object(<<>>), "none")
Fault(raw) ==
    IF BadUnicode(raw.document) THEN "unicode"
    ELSE IF Faulty(raw.document) # {} THEN DecodeFault(raw.document)
    ELSE IF raw.trailing = "other" THEN "trailing"
    ELSE IF ControlKey(raw.document) THEN "control" ELSE "none"
CanonicalizeJSON(raw) == Canonical(raw.document)
-----------------------------------------------------------------------------
(* What a document says, for comparison with its canonical form.           *)

\* A value goes by the keys on the way to it, and the numbers of items.
Tag(d, p) == IF IsMember(d, p) THEN d[p].key ELSE <<At(p)>>
Name(d, p) == [k \in 1..Len(p) |-> Tag(d, Way(p, k))]

\* The same value: members in any order.
Value(d) == {[name |-> Name(d, p), value |-> d[p].value] : p \in DOMAIN d}
SameValue(a, b) == Value(a) = Value(b)

\* RFC 8785 3.2.3 by code points: the supplementary planes come before U+E000.
Before(a, b) ==
    IF Supplementary(a) <=> Supplementary(b) THEN a < b
    ELSE IF Supplementary(b) THEN a < 57344 ELSE b >= 57344
KeyBefore(k, l) == Lexical(k, l, Before)
InRFCOrder(d) ==
    \A p, q \in DOMAIN d :
        Siblings(p, q) /\ IsMember(d, p) /\ At(p) < At(q) => KeyBefore(d[p].key, d[q].key)
=============================================================================
