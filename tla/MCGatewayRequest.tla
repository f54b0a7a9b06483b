---- MODULE MCGatewayRequest ----
EXTENDS GatewayRequest

\* A plain create; every call differs from it, or from a plain call of another
\* route, in one or two things.
Whole(d) == [form |-> "value", document |-> d]
Broken(form) == [form |-> form, document |-> Leaf("null")]

\* Keys: a, b, ab, DEL, U+E000, U+10000; leaves: all.
MCPoints == {<<97>>, <<98>>, <<97, 98>>, <<127>>, <<57344>>, <<65536>>, <<97, 65536>>}
OneMember == {Object(<<Member(k, Leaf("7"))>>) : k \in MCPoints}
TwoMembers == {Object(<<Member(k, Leaf(v)), Member(l, Leaf(w))>>) :
            k \in {<<97>>, <<98>>}, l \in {<<97>>, <<98>>},
            v \in {"7", "1.5", "2^63"}, w \in {"7", "1.5", "text"}}
Ordered == {Object(<<Member(k, Leaf("7")), Member(l, Leaf("text"))>>) :
            k \in MCPoints \ {<<127>>}, l \in MCPoints \ {<<127>>}}
Deep == {Object(<<Member(<<97>>, Array(<<Leaf(v), Object(<<Member(k, Leaf(w))>>)>>)),
                  Member(k, Leaf(v))>>) :
            k \in {<<97>>, <<98>>}, v \in {"0", "-0", "U+FFFD", "1.5"},
            w \in {"7", "1e3", "unpaired surrogate", "invalid UTF-8"}}
Documents == {Leaf(v) : v \in Leaves} \cup {Array(<<>>), Object(<<>>), Array(<<Leaf("1.5"), Leaf("2^63")>>)}
             \cup {Object(<<Member(<<97>>, Leaf(v))>>) : v \in Leaves}
             \cup OneMember \cup TwoMembers \cup Ordered \cup Deep
Sections == {Whole(d) : d \in Documents}
            \cup {Broken(f) : f \in {"nil", "empty", "garbage", "trailing"}}

Plain == [blank |-> FALSE, input |-> Whole(Leaf("text")), parameters |-> Whole(Object(<<>>))]
Create == [route |-> "create", ids |-> <<>>, actor |-> <<"a">>, key |-> <<"a", "b">>,
           request |-> Plain, clock |-> 2, ttl |-> 120]
Keys == {<<>>, <<"a">>, <<"a", "b">>, <<"a", "b", ".">>, <<"a", "b", "a", "b">>, <<"a", NL>>, <<"a", "%">>}
Ids == {<<>>, <<"a">>, <<"b">>, <<".">>, <<".", ".">>, <<"a", ".">>, <<"artifacts">>,
        <<"a", "/", "artifacts", "/", "b">>, <<"a", "?">>, <<"a", NL>>, <<"/">>}
Actors == {<<>>, <<"a">>, <<"b">>, <<"a", "b">>, <<"a", NL, "b">>}
On(route, ids, k) == [Create EXCEPT !.route = route, !.ids = ids, !.key = k]
MCCalls ==
    {[Create EXCEPT !.request.input = s] : s \in Sections}
    \cup {[Create EXCEPT !.request.parameters = s] : s \in Sections}
    \cup {[Create EXCEPT !.request.blank = TRUE]}
    \cup {[Create EXCEPT !.actor = a, !.key = k] : a \in Actors, k \in Keys}
    \cup {[Create EXCEPT !.clock = c, !.ttl = t] : c \in {2, 3}, t \in {0, 1, 2, 119, 120, 121, -1}}
    \cup {On("get", <<i>>, <<>>) : i \in Ids}
    \cup {On("cancel", <<i>>, k) : i \in Ids, k \in {<<"a", "b">>, <<"a">>}}
    \cup {On("get_artifact", <<i, j>>, <<>>) : i \in {<<"a">>, <<"b">>, <<"a", "/", "artifacts", "/", "b">>}, j \in Ids}
====
