-------------------------- MODULE AuthRetry_proofs --------------------------
(***************************************************************************)
(* Proofs about TokenCache and about AuthRetry, which composes it with the *)
(* calls that share it, for any set of callers, any replies and any        *)
(* bounds.                                                                 *)
(*                                                                         *)
(* The cache.  Its inductive invariant has three parts beside the types:   *)
(* what source.refreshing says about tokenRefresh objects and their        *)
(* leader, where tokens come from, and how both relate to what a call may  *)
(* return.                                                                 *)
(*                                                                         *)
(* The calls.  The composition takes only steps the cache allows, so the   *)
(* cache's invariant holds in it; with it, the part of the state that      *)
(* belongs to the calls has an inductive invariant of its own.             *)
(***************************************************************************)
EXTENDS AuthRetry, FiniteSetTheorems, TLAPS
-----------------------------------------------------------------------------
(* The cache: theorems of TokenCache's Spec.                               *)

\* The open object is the one in source.refreshing, it is the newest, and one
\* caller leads it.
FlightInv ==
    /\ \A i \in 1..Len(flights) : flights[i].state = "open" <=> i = refreshing
    /\ refreshing # 0 => refreshing = Len(flights)
    /\ \A c \in Callers : Leading(c) => refreshing # 0 /\ flight[c] = refreshing
    /\ \A c \in Callers : pc[c] = "wait" => flight[c] # 0
    /\ SingleFlight

\* A token belongs to the flight that fetched it, and the cache holds the
\* newest one or none.
TokenInv ==
    /\ cached = NoToken \/ (cached.gen = newest /\ newest # 0)
    /\ refreshing # 0 => newest < refreshing
    /\ \A i \in 1..Len(flights) :
          /\ flights[i].state = "ok" => flights[i].token.gen = i /\ i <= newest
          /\ flights[i].state # "ok" => flights[i].token = NoToken
    /\ \A c \in Callers :
          /\ pc[c] = "idle" => got[c].gen <= newest
          /\ pc[c] = "commit" => got[c] = NoToken \/ got[c].gen = flight[c]
          /\ pc[c] \in {"check", "wait", "exchange", "rpc"} => got[c] = NoToken

\* What a call may be given is newer than what was superseded when it began.
FloorInv ==
    \A c \in Callers :
        /\ floor[c] <= Superseded
        /\ Leading(c) \/ pc[c] = "wait" => floor[c] < flight[c]
        /\ pc[c] = "check" => flight[c] = 0

\* Clock readings are never ahead of the clock.
ClockInv == \A c \in Callers : seen[c] <= clock

IInv == TypeOK /\ ClockInv /\ FlightInv /\ TokenInv /\ FloorInv
            /\ NotOlderThanCall /\ SharedResult

-----------------------------------------------------------------------------
(* Facts about the data.                                                   *)

\* The zero Token is a Token, and what a commit publishes is a tokenRefresh
\* that is no longer open.
LEMMA DataTypes ==
    /\ NoToken \in Token
    /\ OpenFlight \in Flight
    /\ \A token \in Token :
          Published(token) \in Flight /\ Published(token).state # "open"
    /\ \A f \in Flight : OutcomeOf(f) \in Outcomes
BY DEF NoToken, Token, OpenFlight, Flight, FlightStates, Published, OutcomeOf,
    Outcomes

\* The expiry of a reply is an integer.
LEMMA ExpiryType ==
    \A reply \in Replies, now \in Nat : ReplyExpiry(reply, now) \in Int
BY CacheAssumption DEF CacheAssumption, ReplyExpiry

\* What is superseded is a generation, or the number before one.
LEMMA SupersededType == TypeOK => Superseded \in Int
<1> SUFFICES ASSUME TypeOK PROVE Superseded \in Int
    OBVIOUS
<1>1. newest \in Int /\ cached.gen \in Int
    BY DEF TypeOK, Token
<1>2. QED
    BY <1>1 DEF Superseded

\* A caller that waits or leads holds an object that exists.
LEMMA HeldFlight ==
    IInv => \A c \in Callers : Leading(c) \/ pc[c] = "wait" =>
        flight[c] \in 1..Len(flights) /\ flights[flight[c]] \in Flight
BY DEF IInv, TypeOK, FlightInv

\* All parts of the invariant hold at the start.
LEMMA InitIInv == Init => IInv
<1> SUFFICES ASSUME Init PROVE IInv
    OBVIOUS
<1> USE DEF Init
<1>1. TypeOK
    BY DataTypes DEF TypeOK, PCs, Outcomes
<1>2. FlightInv
    BY DEF FlightInv, SingleFlight, Leading
<1>3. TokenInv
    BY DEF TokenInv, NoToken
<1>4. FloorInv
  <2>1. Superseded = 0
    BY DEF Superseded
  <2>2. \A c \in Callers : floor[c] = 0 /\ flight[c] = 0 /\ pc[c] = "idle"
    OBVIOUS
  <2>3. \A c \in Callers : floor[c] <= Superseded
    <3>1. SUFFICES ASSUME NEW c \in Callers PROVE floor[c] <= Superseded
      OBVIOUS
    <3>2. floor[c] = Superseded /\ Superseded \in Int
      BY <2>1, <2>2
    <3>3. QED
      BY <3>2, SMT
  <2>4. \A c \in Callers : ~Leading(c) /\ pc[c] # "wait"
    BY <2>2 DEF Leading
  <2>5. QED
    BY <2>2, <2>3, <2>4 DEF FloorInv
<1>5. NotOlderThanCall /\ SharedResult /\ ClockInv
    BY DEF NotOlderThanCall, SharedResult, ClockInv
<1>6. QED
    BY <1>1, <1>2, <1>3, <1>4, <1>5 DEF IInv
-----------------------------------------------------------------------------
(* The steps preserve the invariant, part by part.                         *)

\* No step leaves the types.
LEMMA TypeStep == TypeOK /\ IInv /\ [Next]_cacheVars => TypeOK'
<1> SUFFICES ASSUME TypeOK, IInv, [Next]_cacheVars PROVE TypeOK'
    OBVIOUS
<1> USE DEF TypeOK, local, budget, PCs, Outcomes
<1>1. CASE Tick
    BY <1>1 DEF Tick
<1>2. CASE Invalidate
    BY <1>2, DataTypes DEF Invalidate
<1>3. ASSUME NEW c \in Callers, Cancel(c)
      PROVE  TypeOK'
    BY <1>3 DEF Cancel
<1>4. ASSUME NEW c \in Callers, NEW ctxDone \in BOOLEAN, BeginToken(c, ctxDone)
      PROVE  TypeOK'
  <2>1. floor' \in [Callers -> Int]
    BY <1>4, SupersededType DEF BeginToken
  <2>2. got' \in [Callers -> Token] /\ seen' \in [Callers -> Nat]
    BY <1>4, DataTypes DEF BeginToken
  <2>3. flight' \in [Callers -> 0..Len(flights)]
    <3>1. 0 \in 0..Len(flights)
      OBVIOUS
    <3>2. QED
      BY <1>4, <3>1 DEF BeginToken
  <2>4. pc' \in [Callers -> PCs] /\ outcome' \in [Callers -> Outcomes]
    BY <1>4 DEF BeginToken
  <2>5. cancelled' \in [Callers -> BOOLEAN]
    BY <1>4 DEF BeginToken
  <2>6. calls' \in [Callers -> Nat]
    BY <1>4 DEF BeginToken
  <2>7. UNCHANGED <<clock, cached, refreshing, flights, invalidations, newest>>
    BY <1>4 DEF BeginToken
  <2>8. QED
    BY <2>1, <2>2, <2>3, <2>4, <2>5, <2>6, <2>7
<1>5. ASSUME NEW c \in Callers, ReturnCached(c)
      PROVE  TypeOK'
    BY <1>5 DEF ReturnCached
<1>6. ASSUME NEW c \in Callers, JoinFlight(c)
      PROVE  TypeOK'
    BY <1>6 DEF JoinFlight
<1>7. ASSUME NEW c \in Callers, StartFlight(c)
      PROVE  TypeOK'
  <2>1. flights' \in Seq(Flight) /\ Len(flights') = Len(flights) + 1
    BY <1>7, DataTypes DEF StartFlight
  <2>2. QED
    BY <1>7, <2>1 DEF StartFlight
<1>8. ASSUME NEW c \in Callers, SendExchange(c)
      PROVE  TypeOK'
    BY <1>8 DEF SendExchange
<1>9. ASSUME NEW c \in Callers, NEW reply \in Replies, ExchangeAnswered(c, reply)
      PROVE  TypeOK'
  <2>1. got' \in [Callers -> Token]
    <3>1. seen[c] \in Nat /\ flight[c] \in Nat
      OBVIOUS
    <3>2. ReplyExpiry(reply, seen[c]) \in Int
      BY <3>1, ExpiryType
    <3>3. [gen |-> flight[c], exp |-> ReplyExpiry(reply, seen[c])] \in Token
      BY <3>1, <3>2 DEF Token
    <3>4. QED
      BY <1>9, <3>3, DataTypes DEF ExchangeAnswered
  <2>2. QED
    BY <1>9, <2>1 DEF ExchangeAnswered
<1>10. ASSUME NEW c \in Callers, ExchangeFailed(c)
      PROVE  TypeOK'
    BY <1>10 DEF ExchangeFailed
<1>11. ASSUME NEW c \in Callers, Commit(c)
      PROVE  TypeOK'
  <2>1. flight[c] \in 1..Len(flights) /\ got[c] \in Token
    BY <1>11, HeldFlight DEF Commit, Leading
  <2>2. flights' \in Seq(Flight) /\ Len(flights') = Len(flights)
    BY <1>11, <2>1, DataTypes DEF Commit
  <2>3. OutcomeOf(Published(got[c])) \in Outcomes
    BY <2>1, DataTypes
  <2>4. QED
    BY <1>11, <2>1, <2>2, <2>3 DEF Commit, AfterPublish
<1>12. ASSUME NEW c \in Callers, WaitDone(c)
      PROVE  TypeOK'
  <2>1. flight[c] \in 1..Len(flights) /\ flights[flight[c]] \in Flight
    BY <1>12, HeldFlight DEF WaitDone
  <2>2. WaitersToken(c) \in Token /\ OutcomeOf(flights[flight[c]]) \in Outcomes
    BY <2>1, DataTypes DEF WaitersToken, Flight
  <2>3. QED
    BY <1>12, <2>2 DEF WaitDone
<1>13. ASSUME NEW c \in Callers, WaitCancelled(c)
      PROVE  TypeOK'
    BY <1>13 DEF WaitCancelled
<1>14. CASE UNCHANGED cacheVars
    BY <1>14 DEF cacheVars
<1>15. QED
    BY <1>1, <1>2, <1>3, <1>4, <1>5, <1>6, <1>7, <1>8, <1>9, <1>10, <1>11, <1>12, <1>13, <1>14
       DEF Next, TokenStep, Return, ExchangeStep

\* The clock only moves forward, and a reading copies it.
LEMMA ClockStep == TypeOK /\ ClockInv /\ [Next]_cacheVars => ClockInv'
<1> SUFFICES ASSUME TypeOK, ClockInv, [Next]_cacheVars PROVE ClockInv'
    OBVIOUS
<1> USE DEF TypeOK, ClockInv, local, budget
<1>1. CASE Tick
    BY <1>1 DEF Tick
<1>2. CASE Invalidate
    BY <1>2 DEF Invalidate
<1>3. ASSUME NEW c \in Callers, Cancel(c)
      PROVE  ClockInv'
    BY <1>3 DEF Cancel
<1>4. ASSUME NEW c \in Callers, NEW ctxDone \in BOOLEAN, BeginToken(c, ctxDone)
      PROVE  ClockInv'
    BY <1>4 DEF BeginToken
<1>5. ASSUME NEW c \in Callers, ReturnCached(c)
      PROVE  ClockInv'
    BY <1>5 DEF ReturnCached
<1>6. ASSUME NEW c \in Callers, JoinFlight(c)
      PROVE  ClockInv'
    BY <1>6 DEF JoinFlight
<1>7. ASSUME NEW c \in Callers, StartFlight(c)
      PROVE  ClockInv'
    BY <1>7 DEF StartFlight
<1>8. ASSUME NEW c \in Callers, SendExchange(c)
      PROVE  ClockInv'
    BY <1>8 DEF SendExchange
<1>9. ASSUME NEW c \in Callers, NEW reply \in Replies, ExchangeAnswered(c, reply)
      PROVE  ClockInv'
    BY <1>9 DEF ExchangeAnswered
<1>10. ASSUME NEW c \in Callers, ExchangeFailed(c)
      PROVE  ClockInv'
    BY <1>10 DEF ExchangeFailed
<1>11. ASSUME NEW c \in Callers, Commit(c)
      PROVE  ClockInv'
    BY <1>11 DEF Commit
<1>12. ASSUME NEW c \in Callers, WaitDone(c)
      PROVE  ClockInv'
    BY <1>12 DEF WaitDone
<1>13. ASSUME NEW c \in Callers, WaitCancelled(c)
      PROVE  ClockInv'
    BY <1>13 DEF WaitCancelled
<1>14. CASE UNCHANGED cacheVars
    BY <1>14 DEF cacheVars
<1>15. QED
    BY <1>1, <1>2, <1>3, <1>4, <1>5, <1>6, <1>7, <1>8, <1>9, <1>10, <1>11, <1>12, <1>13, <1>14
       DEF Next, TokenStep, Return, ExchangeStep

\* source.refreshing keeps naming the one open object and its one leader.
LEMMA FlightStep == IInv /\ TypeOK /\ FlightInv /\ [Next]_cacheVars => FlightInv'
<1> SUFFICES ASSUME IInv, TypeOK, FlightInv, [Next]_cacheVars PROVE FlightInv'
    OBVIOUS
<1> USE DEF TypeOK, FlightInv, SingleFlight, Leading, local, budget
<1>1. CASE Tick
    BY <1>1 DEF Tick
<1>2. CASE Invalidate
    BY <1>2 DEF Invalidate
<1>3. ASSUME NEW c \in Callers, Cancel(c)
      PROVE  FlightInv'
    BY <1>3 DEF Cancel
<1>4. ASSUME NEW c \in Callers, NEW ctxDone \in BOOLEAN, BeginToken(c, ctxDone)
      PROVE  FlightInv'
    BY <1>4 DEF BeginToken
<1>5. ASSUME NEW c \in Callers, ReturnCached(c)
      PROVE  FlightInv'
    BY <1>5 DEF ReturnCached
<1>6. ASSUME NEW c \in Callers, JoinFlight(c)
      PROVE  FlightInv'
    BY <1>6 DEF JoinFlight, InProgress
<1>7. ASSUME NEW c \in Callers, StartFlight(c)
      PROVE  FlightInv'
    BY <1>7 DEF StartFlight, InProgress, OpenFlight
<1>8. ASSUME NEW c \in Callers, SendExchange(c)
      PROVE  FlightInv'
    BY <1>8 DEF SendExchange
<1>9. ASSUME NEW c \in Callers, NEW reply \in Replies, ExchangeAnswered(c, reply)
      PROVE  FlightInv'
    BY <1>9 DEF ExchangeAnswered
<1>10. ASSUME NEW c \in Callers, ExchangeFailed(c)
      PROVE  FlightInv'
    BY <1>10 DEF ExchangeFailed
<1>11. ASSUME NEW c \in Callers, Commit(c)
      PROVE  FlightInv'
    BY <1>11, DataTypes DEF Commit, AfterPublish, PCs
<1>12. ASSUME NEW c \in Callers, WaitDone(c)
      PROVE  FlightInv'
    BY <1>12 DEF WaitDone
<1>13. ASSUME NEW c \in Callers, WaitCancelled(c)
      PROVE  FlightInv'
    BY <1>13 DEF WaitCancelled
<1>14. CASE UNCHANGED cacheVars
    BY <1>14 DEF cacheVars
<1>15. QED
    BY <1>1, <1>2, <1>3, <1>4, <1>5, <1>6, <1>7, <1>8, <1>9, <1>10, <1>11, <1>12, <1>13, <1>14
       DEF Next, TokenStep, Return, ExchangeStep

\* Tokens keep the generation of their flight, the cache the newest.
LEMMA TokenInvStep == IInv /\ TypeOK /\ FlightInv /\ TokenInv /\ [Next]_cacheVars => TokenInv'
<1> SUFFICES ASSUME IInv, TypeOK, FlightInv, TokenInv, [Next]_cacheVars PROVE TokenInv'
    OBVIOUS
<1> USE DEF TypeOK, FlightInv, TokenInv, Leading, local, budget
<1>1. CASE Tick
    BY <1>1 DEF Tick
<1>2. CASE Invalidate
    BY <1>2 DEF Invalidate
<1>3. ASSUME NEW c \in Callers, Cancel(c)
      PROVE  TokenInv'
    BY <1>3 DEF Cancel
<1>4. ASSUME NEW c \in Callers, NEW ctxDone \in BOOLEAN, BeginToken(c, ctxDone)
      PROVE  TokenInv'
    BY <1>4 DEF BeginToken
<1>5. ASSUME NEW c \in Callers, ReturnCached(c)
      PROVE  TokenInv'
    BY <1>5 DEF ReturnCached, NoToken
<1>6. ASSUME NEW c \in Callers, JoinFlight(c)
      PROVE  TokenInv'
    BY <1>6 DEF JoinFlight
<1>7. ASSUME NEW c \in Callers, StartFlight(c)
      PROVE  TokenInv'
    BY <1>7 DEF StartFlight, InProgress, OpenFlight
<1>8. ASSUME NEW c \in Callers, SendExchange(c)
      PROVE  TokenInv'
    BY <1>8 DEF SendExchange
<1>9. ASSUME NEW c \in Callers, NEW reply \in Replies, ExchangeAnswered(c, reply)
      PROVE  TokenInv'
    BY <1>9 DEF ExchangeAnswered, NoToken
<1>10. ASSUME NEW c \in Callers, ExchangeFailed(c)
      PROVE  TokenInv'
    BY <1>10 DEF ExchangeFailed
<1>11. ASSUME NEW c \in Callers, Commit(c)
      PROVE  TokenInv'
  <2>1. /\ flight[c] = refreshing /\ flight[c] \in 1..Len(flights)
       /\ newest \in Nat /\ newest < flight[c]
       /\ got[c] \in Token /\ (got[c] = NoToken \/ got[c].gen = flight[c])
    BY <1>11 DEF Commit
  <2>2. newest' = (IF got[c] = NoToken THEN newest ELSE flight[c]) /\ newest <= newest'
    BY <1>11, <2>1 DEF Commit
  <2>3. cached' = NoToken \/ (cached'.gen = newest' /\ newest' # 0)
    BY <1>11, <2>1, <2>2 DEF Commit
  <2>4. ASSUME NEW i \in 1..Len(flights')
        PROVE  /\ flights'[i].state = "ok" => flights'[i].token.gen = i /\ i <= newest'
               /\ flights'[i].state # "ok" => flights'[i].token = NoToken
    <3>1. CASE i = flight[c]
      BY <1>11, <2>1, <2>2, <3>1 DEF Commit, Published
    <3>2. CASE i # flight[c]
      BY <1>11, <2>1, <2>2, <3>2 DEF Commit
    <3>3. QED
      BY <3>1, <3>2
  <2>5. got[c].gen <= newest'
    BY <2>1, <2>2 DEF NoToken
  <2>6. ASSUME NEW d \in Callers
        PROVE  /\ pc'[d] = "idle" => got'[d].gen <= newest'
               /\ pc'[d] = "commit" => got'[d] = NoToken \/ got'[d].gen = flight'[d]
               /\ pc'[d] \in {"check", "wait", "exchange", "rpc"} => got'[d] = NoToken
    <3>1. got[d].gen \in Nat /\ newest \in Nat /\ newest' \in Nat
      BY <2>1, <2>2 DEF Token
    <3>2. pc[d] = "idle" => got[d].gen <= newest'
      BY <2>2, <3>1
    <3>3. QED
      BY <1>11, <2>5, <3>2 DEF Commit
  <2>7. QED
    BY <1>11, <2>3, <2>4, <2>6 DEF Commit, AfterPublish
<1>12. ASSUME NEW c \in Callers, WaitDone(c)
      PROVE  TokenInv'
  <2>1. flight[c] \in 1..Len(flights)
    BY <1>12, HeldFlight DEF WaitDone
  <2>2. WaitersToken(c).gen <= newest
    <3>1. newest \in Nat /\ NoToken.gen = 0
      BY DEF NoToken
    <3>2. CASE flights[flight[c]].state = "ok"
      BY <2>1, <3>2 DEF WaitersToken
    <3>3. CASE flights[flight[c]].state # "ok"
      BY <2>1, <3>1, <3>3 DEF WaitersToken
    <3>4. QED
      BY <3>2, <3>3
  <2>3. QED
    BY <1>12, <2>2 DEF WaitDone
<1>13. ASSUME NEW c \in Callers, WaitCancelled(c)
      PROVE  TokenInv'
    BY <1>13 DEF WaitCancelled, NoToken
<1>14. CASE UNCHANGED cacheVars
    BY <1>14 DEF cacheVars
<1>15. QED
    BY <1>1, <1>2, <1>3, <1>4, <1>5, <1>6, <1>7, <1>8, <1>9, <1>10, <1>11, <1>12, <1>13, <1>14
       DEF Next, TokenStep, Return, ExchangeStep

\* What is superseded only grows, and what a call can be given stays above it.
LEMMA FloorStep == IInv /\ TypeOK /\ FlightInv /\ TokenInv /\ FloorInv /\ [Next]_cacheVars => FloorInv'
<1> SUFFICES ASSUME IInv, TypeOK, FlightInv, TokenInv, FloorInv, [Next]_cacheVars PROVE FloorInv'
    OBVIOUS
<1> USE DEF TypeOK, FlightInv, TokenInv, FloorInv, Leading, Superseded, local, budget
<1>1. CASE Tick
    BY <1>1 DEF Tick
<1>2. CASE Invalidate
    BY <1>2 DEF Invalidate, Token
<1>3. ASSUME NEW c \in Callers, Cancel(c)
      PROVE  FloorInv'
    BY <1>3 DEF Cancel
<1>4. ASSUME NEW c \in Callers, NEW ctxDone \in BOOLEAN, BeginToken(c, ctxDone)
      PROVE  FloorInv'
  <2>1. Superseded' = Superseded /\ Superseded \in Int
    BY <1>4, SupersededType DEF BeginToken
  <2>2. floor' = [floor EXCEPT ![c] = Superseded]
    BY <1>4 DEF BeginToken
  <2>3. pc'[c] = "check" /\ flight'[c] = 0
    BY <1>4 DEF BeginToken
  <2>4. \A d \in Callers \ {c} : pc'[d] = pc[d] /\ flight'[d] = flight[d]
    BY <1>4 DEF BeginToken
  <2>5. ASSUME NEW d \in Callers
        PROVE  /\ floor'[d] <= Superseded'
               /\ Leading(d)' \/ pc'[d] = "wait" => floor'[d] < flight'[d]
               /\ pc'[d] = "check" => flight'[d] = 0
    <3> HIDE DEF Superseded, Leading
    <3>1. CASE d = c
      BY <2>1, <2>2, <2>3, <3>1 DEF Leading
    <3>2. CASE d # c
      BY <2>1, <2>2, <2>4, <3>2 DEF Leading
    <3>3. QED
      BY <3>1, <3>2
  <2>6. QED
    BY <2>5
<1>5. ASSUME NEW c \in Callers, ReturnCached(c)
      PROVE  FloorInv'
    BY <1>5 DEF ReturnCached
<1>6. ASSUME NEW c \in Callers, JoinFlight(c)
      PROVE  FloorInv'
    BY <1>6 DEF JoinFlight, InProgress
<1>7. ASSUME NEW c \in Callers, StartFlight(c)
      PROVE  FloorInv'
    BY <1>7 DEF StartFlight, InProgress
<1>8. ASSUME NEW c \in Callers, SendExchange(c)
      PROVE  FloorInv'
    BY <1>8 DEF SendExchange
<1>9. ASSUME NEW c \in Callers, NEW reply \in Replies, ExchangeAnswered(c, reply)
      PROVE  FloorInv'
    BY <1>9 DEF ExchangeAnswered
<1>10. ASSUME NEW c \in Callers, ExchangeFailed(c)
      PROVE  FloorInv'
    BY <1>10 DEF ExchangeFailed
<1>11. ASSUME NEW c \in Callers, Commit(c)
      PROVE  FloorInv'
  <2>1. Superseded <= newest /\ newest < flight[c] /\ flight[c] \in Nat
    BY <1>11 DEF Commit, Token, NoToken
  <2>2. Superseded' = IF got[c] = NoToken THEN Superseded ELSE flight[c] - 1
    BY <1>11, <2>1 DEF Commit, NoToken
  <2>3. Superseded <= Superseded'
    BY <2>1, <2>2 DEF Token
  <2>4. ASSUME NEW d \in Callers
        PROVE  /\ floor'[d] <= Superseded'
               /\ Leading(d)' \/ pc'[d] = "wait" => floor'[d] < flight'[d]
               /\ pc'[d] = "check" => flight'[d] = 0
    <3>1. floor[d] <= Superseded /\ floor[d] \in Int
      OBVIOUS
    <3>2. Superseded \in Int /\ Superseded' \in Int
      <4>1. newest \in Int /\ cached.gen \in Int
        BY DEF Token
      <4>2. Superseded \in Int
        BY <4>1
      <4>3. QED
        BY <2>1, <2>2, <4>2
    <3>3. floor[d] <= Superseded'
      BY <2>3, <3>1, <3>2
    <3>4. QED
      BY <1>11, <3>3 DEF Commit
  <2>5. QED
    BY <2>4
<1>12. ASSUME NEW c \in Callers, WaitDone(c)
      PROVE  FloorInv'
    BY <1>12 DEF WaitDone
<1>13. ASSUME NEW c \in Callers, WaitCancelled(c)
      PROVE  FloorInv'
    BY <1>13 DEF WaitCancelled
<1>14. CASE UNCHANGED cacheVars
    BY <1>14 DEF cacheVars
<1>15. QED
    BY <1>1, <1>2, <1>3, <1>4, <1>5, <1>6, <1>7, <1>8, <1>9, <1>10, <1>11, <1>12, <1>13, <1>14
       DEF Next, TokenStep, Return, ExchangeStep

\* A call returns nothing that was superseded when it began.
LEMMA NotOlderStep == IInv /\ TypeOK /\ FlightInv /\ TokenInv /\ FloorInv /\ NotOlderThanCall /\ [Next]_cacheVars => NotOlderThanCall'
<1> SUFFICES ASSUME IInv, TypeOK, FlightInv, TokenInv, FloorInv, NotOlderThanCall, [Next]_cacheVars PROVE NotOlderThanCall'
    OBVIOUS
<1> USE DEF TypeOK, TokenInv, FloorInv, NotOlderThanCall, local, budget
<1>1. CASE Tick
    BY <1>1 DEF Tick
<1>2. CASE Invalidate
    BY <1>2 DEF Invalidate
<1>3. ASSUME NEW c \in Callers, Cancel(c)
      PROVE  NotOlderThanCall'
    BY <1>3 DEF Cancel
<1>4. ASSUME NEW c \in Callers, NEW ctxDone \in BOOLEAN, BeginToken(c, ctxDone)
      PROVE  NotOlderThanCall'
    BY <1>4 DEF BeginToken
<1>5. ASSUME NEW c \in Callers, ReturnCached(c)
      PROVE  NotOlderThanCall'
    BY <1>5 DEF ReturnCached, UsableAt, Superseded, NoToken, Token
<1>6. ASSUME NEW c \in Callers, JoinFlight(c)
      PROVE  NotOlderThanCall'
    BY <1>6 DEF JoinFlight
<1>7. ASSUME NEW c \in Callers, StartFlight(c)
      PROVE  NotOlderThanCall'
    BY <1>7 DEF StartFlight
<1>8. ASSUME NEW c \in Callers, SendExchange(c)
      PROVE  NotOlderThanCall'
    BY <1>8 DEF SendExchange
<1>9. ASSUME NEW c \in Callers, NEW reply \in Replies, ExchangeAnswered(c, reply)
      PROVE  NotOlderThanCall'
    BY <1>9 DEF ExchangeAnswered
<1>10. ASSUME NEW c \in Callers, ExchangeFailed(c)
      PROVE  NotOlderThanCall'
    BY <1>10 DEF ExchangeFailed
<1>11. ASSUME NEW c \in Callers, Commit(c)
      PROVE  NotOlderThanCall'
  <2>1. outcome'[c] = "token" => got[c].gen > floor[c]
    <3>1. outcome'[c] = "token" => got[c] # NoToken
      BY <1>11 DEF Commit, OutcomeOf, Published
    <3>2. floor[c] < flight[c] /\ (got[c] = NoToken \/ got[c].gen = flight[c])
      BY <1>11 DEF Commit, Leading
    <3>3. QED
      BY <3>1, <3>2
  <2>2. QED
    BY <1>11, <2>1 DEF Commit
<1>12. ASSUME NEW c \in Callers, WaitDone(c)
      PROVE  NotOlderThanCall'
  <2>1. flight[c] \in 1..Len(flights) /\ floor[c] < flight[c]
    BY <1>12, HeldFlight DEF WaitDone
  <2>2. outcome'[c] = "token" => got'[c].gen = flight[c]
    BY <1>12, <2>1 DEF WaitDone, OutcomeOf, WaitersToken
  <2>3. QED
    BY <1>12, <2>1, <2>2 DEF WaitDone
<1>13. ASSUME NEW c \in Callers, WaitCancelled(c)
      PROVE  NotOlderThanCall'
    BY <1>13 DEF WaitCancelled
<1>14. CASE UNCHANGED cacheVars
    BY <1>14 DEF cacheVars
<1>15. QED
    BY <1>1, <1>2, <1>3, <1>4, <1>5, <1>6, <1>7, <1>8, <1>9, <1>10, <1>11, <1>12, <1>13, <1>14
       DEF Next, TokenStep, Return, ExchangeStep

\* A published result is never changed, and it is what the callers hold.
LEMMA SharedStep == IInv /\ TypeOK /\ FlightInv /\ TokenInv /\ FloorInv /\ SharedResult /\ [Next]_cacheVars => SharedResult'
<1> SUFFICES ASSUME IInv, TypeOK, FlightInv, TokenInv, FloorInv, SharedResult, [Next]_cacheVars PROVE SharedResult'
    OBVIOUS
<1> USE DEF TypeOK, FlightInv, SharedResult, Leading, local, budget
<1>1. CASE Tick
    BY <1>1 DEF Tick
<1>2. CASE Invalidate
    BY <1>2 DEF Invalidate
<1>3. ASSUME NEW c \in Callers, Cancel(c)
      PROVE  SharedResult'
    BY <1>3 DEF Cancel
<1>4. ASSUME NEW c \in Callers, NEW ctxDone \in BOOLEAN, BeginToken(c, ctxDone)
      PROVE  SharedResult'
    BY <1>4 DEF BeginToken
<1>5. ASSUME NEW c \in Callers, ReturnCached(c)
      PROVE  SharedResult'
    BY <1>5 DEF ReturnCached, FloorInv
<1>6. ASSUME NEW c \in Callers, JoinFlight(c)
      PROVE  SharedResult'
    BY <1>6 DEF JoinFlight
<1>7. ASSUME NEW c \in Callers, StartFlight(c)
      PROVE  SharedResult'
    BY <1>7 DEF StartFlight
<1>8. ASSUME NEW c \in Callers, SendExchange(c)
      PROVE  SharedResult'
    BY <1>8 DEF SendExchange
<1>9. ASSUME NEW c \in Callers, NEW reply \in Replies, ExchangeAnswered(c, reply)
      PROVE  SharedResult'
    BY <1>9 DEF ExchangeAnswered
<1>10. ASSUME NEW c \in Callers, ExchangeFailed(c)
      PROVE  SharedResult'
    BY <1>10 DEF ExchangeFailed
<1>11. ASSUME NEW c \in Callers, Commit(c)
      PROVE  SharedResult'
  <2>1. flight[c] \in 1..Len(flights) /\ flights[flight[c]].state = "open"
    BY <1>11, HeldFlight DEF Commit
  <2>2. flights'[flight[c]] = Published(got[c]) /\ Published(got[c]).state # "open"
    BY <1>11, <2>1, DataTypes DEF Commit
  <2>3. Published(got[c]).token = got[c]
    BY DEF Published
  <2>4. ASSUME NEW d \in Callers, d # c, pc[d] = "idle", flight[d] # 0,
               outcome[d] # "ctx_error"
        PROVE  flights'[flight[d]] = flights[flight[d]]
    <3>1. flight[d] # flight[c] /\ flight[d] \in 1..Len(flights)
      BY <2>1, <2>4
    <3>2. QED
      BY <1>11, <3>1 DEF Commit
  <2>5. QED
    BY <1>11, <2>2, <2>3, <2>4 DEF Commit
<1>12. ASSUME NEW c \in Callers, WaitDone(c)
      PROVE  SharedResult'
  <2>1. flight[c] \in 1..Len(flights)
    BY <1>12, HeldFlight DEF WaitDone
  <2>2. QED
    BY <1>12, <2>1 DEF WaitDone, WaitersToken
<1>13. ASSUME NEW c \in Callers, WaitCancelled(c)
      PROVE  SharedResult'
    BY <1>13 DEF WaitCancelled
<1>14. CASE UNCHANGED cacheVars
    BY <1>14 DEF cacheVars
<1>15. QED
    BY <1>1, <1>2, <1>3, <1>4, <1>5, <1>6, <1>7, <1>8, <1>9, <1>10, <1>11, <1>12, <1>13, <1>14
       DEF Next, TokenStep, Return, ExchangeStep

\* The invariant is inductive.
LEMMA StepIInv == IInv /\ [Next]_cacheVars => IInv'
BY TypeStep, ClockStep, FlightStep, TokenInvStep, FloorStep, NotOlderStep,
   SharedStep DEF IInv
-----------------------------------------------------------------------------
(* The theorems.                                                           *)

\* The inductive invariant holds in every reachable state of the cache.
THEOREM CacheInvariant == Spec => []IInv
BY InitIInv, StepIInv, PTL DEF Spec

\* The cache's variables keep their types for any callers, replies, bounds.
THEOREM TypeCorrect == Spec => []TypeOK
<1>1. IInv => TypeOK
    BY DEF IInv
<1>2. QED
    BY <1>1, CacheInvariant, PTL

\* Token is single flight: one exchange at a time, and refreshing is set
\* exactly while it lasts.
THEOREM SingleFlightHolds == Spec => []SingleFlight
<1>1. IInv => SingleFlight
    BY DEF IInv, FlightInv
<1>2. QED
    BY <1>1, CacheInvariant, PTL

\* No call of Token is given a token that was superseded or discarded before
\* the call began.
THEOREM NotOlderThanCallHolds == Spec => []NotOlderThanCall
<1>1. IInv => NotOlderThanCall
    BY DEF IInv
<1>2. QED
    BY <1>1, CacheInvariant, PTL

\* Leader and waiters of one exchange return its one result.
THEOREM SharedResultHolds == Spec => []SharedResult
<1>1. IInv => SharedResult
    BY DEF IInv
<1>2. QED
    BY <1>1, CacheInvariant, PTL

\* A waiter's object has a result or a leader at work on it.
THEOREM NoOrphanWaitHolds == Spec => []NoOrphanWait
<1>1. IInv => NoOrphanWait
  <2>1. SUFFICES ASSUME IInv, NEW c \in Callers, pc[c] = "wait",
                        flights[flight[c]].state = "open"
                 PROVE  \E d \in Callers : Leading(d) /\ flight[d] = flight[c]
    BY DEF NoOrphanWait
  <2>2. flight[c] = refreshing /\ refreshing # 0
    BY <2>1, HeldFlight DEF IInv, FlightInv
  <2>3. PICK d \in Callers : Leading(d)
    BY <2>1, <2>2 DEF IInv, FlightInv, SingleFlight
  <2>4. QED
    BY <2>1, <2>2, <2>3 DEF IInv, FlightInv
<1>2. QED
    BY <1>1, CacheInvariant, PTL

\* An exchange starts only when the cache really has no usable token, although
\* the caller's clock reading is older than the lock it takes.
THEOREM ExchangeOnlyWhenNeededHolds == Spec => ExchangeOnlyWhenNeeded
<1>1. ASSUME IInv, [Next]_cacheVars, Len(flights') > Len(flights)
      PROVE  ~UsableAt(cached, clock)
  <2>1. CASE \E c \in Callers : StartFlight(c)
    <3>1. PICK c \in Callers : StartFlight(c)
      BY <2>1
    <3>2. ~UsableAt(cached, seen[c]) /\ seen[c] <= clock
      BY <1>1, <3>1 DEF StartFlight, IInv, ClockInv
    <3>3. seen[c] \in Nat /\ clock \in Nat /\ cached.exp \in Int
      BY <1>1 DEF IInv, TypeOK, Token
    <3>4. QED
      BY <3>2, <3>3, CacheAssumption DEF UsableAt, CacheAssumption
  <2>2. CASE \E c \in Callers : Commit(c)
    <3>1. PICK c \in Callers : Commit(c)
      BY <2>2
    <3>2. Len(flights') = Len(flights)
      BY <1>1, <3>1 DEF Commit, IInv, TypeOK
    <3>3. QED
      BY <1>1, <3>2 DEF IInv, TypeOK
  <2>3. CASE flights' = flights
    BY <1>1, <2>3 DEF IInv, TypeOK
  <2>4. QED
    BY <1>1, <2>1, <2>2, <2>3
       DEF Next, TokenStep, Return, ExchangeStep, Tick, Invalidate, Cancel,
           BeginToken, ReturnCached, JoinFlight, SendExchange,
           ExchangeAnswered, ExchangeFailed, WaitDone, WaitCancelled, cacheVars
<1>2. QED
    BY <1>1, CacheInvariant, PTL DEF Spec, ExchangeOnlyWhenNeeded
-----------------------------------------------------------------------------
(* The calls: theorems of AuthSpec.                                        *)

\* Token runs exactly in the phase that called it, and a call past it holds a
\* token.
PhaseInv ==
    \A c \in Callers :
        /\ phase[c] = "token" <=> pc[c] # "idle"
        /\ phase[c] \in {"sign", "send", "sent", "failed"} => outcome[c] = "token"

\* The refused generation is superseded before the retry asks for a token, and
\* was when it asked.
RetryInv ==
    \A c \in Callers :
        /\ phase[c] = "retry" => rejectedGen[c] <= Superseded
        /\ attempt[c] = 1 /\ phase[c] \in {"token", "sign", "send", "sent", "failed"}
              => rejectedGen[c] <= floor[c]

\* Nothing was executed while the loop can still go round, and a call that is
\* under way has told its caller nothing.
ExecutionInv ==
    \A c \in Callers :
        /\ phase[c] # "idle" => result[c] = "none"
        /\ phase[c] \in {"token", "sign", "send", "sent", "retry"} => executed[c] = 0
        /\ phase[c] = "failed" /\ code[c] = "runtime_unauthenticated" => executed[c] = 0

\* What is about to leave was not sent before, unless the callback left it
\* there, and a call that reads its identity back goes on with it alone.
AssertionInv ==
    \A c \in Callers :
        /\ phase[c] # "idle" /\ kind[c] = "checked" => ~changed[c]
        /\ phase[c] = "send" /\ kind[c] # "plain" => assertion[c] # "sent"

AInv == AuthTypeOK /\ PhaseInv /\ RetryInv /\ ExecutionInv
            /\ AssertionInv /\ ResultMatchesExecution
-----------------------------------------------------------------------------
(* The composition takes the cache's steps.                                *)

\* Every step of the composition is a step of the cache or leaves it alone.
LEMMA CacheStep == TypeOK /\ [AuthNext]_allVars => [Next]_cacheVars
<1> SUFFICES ASSUME TypeOK, [AuthNext]_allVars PROVE [Next]_cacheVars
    OBVIOUS
<1>1. CASE UNCHANGED allVars
    BY <1>1 DEF allVars
<1>2. CASE (Environment /\ UNCHANGED authVars) \/ Revoke
    BY <1>2 DEF Environment, Revoke, Next
<1>3. ASSUME NEW c \in Callers, NEW ctxDone \in BOOLEAN, BeginCall(c, ctxDone)
      PROVE  [Next]_cacheVars
    BY <1>3 DEF BeginCall, Next, TokenStep
<1>4. ASSUME NEW c \in Callers, CallStep(c)
      PROVE  [Next]_cacheVars
  <2>1. CASE BeginRetry(c)
    <3>1. BeginToken(c, cancelled[c]) /\ cancelled[c] \in BOOLEAN
      BY <2>1 DEF BeginRetry, TypeOK
    <3>2. QED
      BY <3>1 DEF Next, TokenStep
  <2>2. CASE InsideToken(c) \/ TokenReturns(c)
    BY <2>2 DEF InsideToken, TokenReturns, Next, TokenStep
  <2>3. CASE Retry(c)
    BY <2>3 DEF Retry, Next
  <2>4. CASE \/ \E changes, stores \in BOOLEAN : Sign(c, changes, stores)
             \/ SignFails(c) \/ Send(c) \/ ServerRejects(c) \/ NoAnswer(c)
             \/ Answered(c) \/ GiveUp(c)
    BY <2>4 DEF Sign, SignFails, Send, ServerRejects, NoAnswer, Answered, GiveUp
  <2>5. QED
    BY <1>4, <2>1, <2>2, <2>3, <2>4 DEF CallStep
<1>5. QED
    BY <1>1, <1>2, <1>3, <1>4 DEF AuthNext

\* The cache's inductive invariant holds in the composition.
LEMMA CacheInvariantInAuth == AuthSpec => []IInv
<1>1. AuthInit => IInv
    BY InitIInv DEF AuthInit
<1>2. IInv /\ [AuthNext]_allVars => IInv'
    BY CacheStep, StepIInv DEF IInv
<1>3. QED
    BY <1>1, <1>2, PTL DEF AuthSpec

\* What is superseded only grows.
LEMMA SupersededGrows ==
    IInv /\ [Next]_cacheVars =>
        Superseded <= Superseded' /\ Superseded \in Int /\ Superseded' \in Int
<1> SUFFICES ASSUME IInv, [Next]_cacheVars
             PROVE  /\ Superseded <= Superseded'
                    /\ Superseded \in Int /\ Superseded' \in Int
    OBVIOUS
<1>1. newest \in Nat /\ cached \in Token /\ Superseded \in Int /\ Superseded <= newest
    BY DEF IInv, TypeOK, TokenInv, Superseded, Token
<1>2. CASE Invalidate
    BY <1>1, <1>2 DEF Invalidate, Superseded
<1>3. CASE \E c \in Callers : Commit(c)
  <2>1. PICK c \in Callers : Commit(c)
    BY <1>3
  <2>2. CASE got[c] = NoToken
    BY <1>1, <2>1, <2>2 DEF Commit, Superseded
  <2>3. CASE got[c] # NoToken
    <3>1. got[c].gen = flight[c] /\ newest < flight[c] /\ flight[c] \in Nat
      BY <2>1, <2>3 DEF Commit, Leading, IInv, TypeOK, FlightInv, TokenInv
    <3>2. Superseded' = flight[c] - 1
      BY <2>1, <2>3, <3>1 DEF Commit, Superseded
    <3>3. QED
      BY <1>1, <3>1, <3>2
  <2>4. QED
    BY <2>2, <2>3
<1>4. CASE UNCHANGED <<cached, newest>>
    BY <1>1, <1>4 DEF Superseded
<1>5. QED
    BY <1>2, <1>3, <1>4
       DEF Next, TokenStep, Return, ExchangeStep, Tick, Cancel, BeginToken,
           ReturnCached, JoinFlight, StartFlight, SendExchange,
           ExchangeAnswered, ExchangeFailed, WaitDone, WaitCancelled, cacheVars
-----------------------------------------------------------------------------
(* The invariant of the calls.                                             *)

\* It holds at the start.
LEMMA AuthInitInv == AuthInit => AInv
BY AuthAssumption DEF AuthInit, Init, AInv, AuthTypeOK, PhaseInv, RetryInv, ExecutionInv,
    AssertionInv, ResultMatchesExecution, Phases, Codes, Results, Kinds, Assertions

\* No step leaves the types.
LEMMA AuthTypeStep == IInv /\ AuthTypeOK /\ [AuthNext]_allVars => AuthTypeOK'
<1> SUFFICES ASSUME IInv, AuthTypeOK, [AuthNext]_allVars
             PROVE  AuthTypeOK'
    OBVIOUS
<1> USE DEF AuthTypeOK, local, serverVars, Phases, Codes, Results, Kinds, Assertions
<1>1. CASE Environment /\ UNCHANGED authVars
    BY <1>1 DEF Environment, authVars, Tick, Cancel
<1>2. CASE Revoke
  <2>1. revocations' \in Nat /\ UNCHANGED <<callVars, invalidates>>
    BY <1>2 DEF Revoke
  <2>2. newest \in Nat /\ Len(flights) \in Nat
    BY DEF IInv, TypeOK
  <2>3. revoked' \in Nat
    BY <1>2, <2>2 DEF Revoke
  <2>4. QED
    BY <2>1, <2>3 DEF callVars
<1>3. ASSUME NEW c \in Callers, NEW ctxDone \in BOOLEAN, BeginCall(c, ctxDone)
      PROVE  AuthTypeOK'
  <2>1. /\ phase' \in [Callers -> Phases] /\ attempt' \in [Callers -> {0, 1}]
       /\ changed' \in [Callers -> BOOLEAN] /\ assertion' \in [Callers -> Assertions]
    BY <1>3 DEF BeginCall
  <2>2. code' \in [Callers -> Codes] /\ result' \in [Callers -> Results]
    BY <1>3 DEF BeginCall
  <2>3. executed' \in [Callers -> Nat] /\ rejectedGen' \in [Callers -> Nat]
    BY <1>3 DEF BeginCall
  <2>4. UNCHANGED <<kind, invalidates, serverVars>>
    BY <1>3 DEF BeginCall
  <2>5. QED
    BY <2>1, <2>2, <2>3, <2>4
<1>4. ASSUME NEW c \in Callers, BeginRetry(c)
      PROVE  AuthTypeOK'
    BY <1>4 DEF BeginRetry, BeginToken
<1>5. ASSUME NEW c \in Callers, InsideToken(c)
      PROVE  AuthTypeOK'
    BY <1>5 DEF InsideToken, authVars, JoinFlight, StartFlight,
       ExchangeStep, SendExchange, ExchangeAnswered, ExchangeFailed
<1>6. ASSUME NEW c \in Callers, TokenReturns(c)
      PROVE  AuthTypeOK'
    BY <1>6 DEF TokenReturns, Finish, Return, ReturnCached, Commit,
       WaitDone, WaitCancelled
<1>7. ASSUME NEW c \in Callers, NEW changes \in BOOLEAN, NEW stores \in BOOLEAN,
             Sign(c, changes, stores)
      PROVE  AuthTypeOK'
    BY <1>7 DEF Sign, IdentityLost, Finish, cacheVars
<1>8. ASSUME NEW c \in Callers, SignFails(c)
      PROVE  AuthTypeOK'
    BY <1>8 DEF SignFails, Finish, cacheVars
<1>9. ASSUME NEW c \in Callers, Send(c)
      PROVE  AuthTypeOK'
    BY <1>9 DEF Send, cacheVars
<1>10. ASSUME NEW c \in Callers, ServerRejects(c)
      PROVE  AuthTypeOK'
    BY <1>10 DEF ServerRejects, Fails, cacheVars
<1>11. ASSUME NEW c \in Callers, NoAnswer(c)
      PROVE  AuthTypeOK'
    BY <1>11 DEF NoAnswer, Fails, cacheVars
<1>12. ASSUME NEW c \in Callers, Answered(c)
      PROVE  AuthTypeOK'
    BY <1>12 DEF Answered, Finish, cacheVars
<1>13. ASSUME NEW c \in Callers, Retry(c)
      PROVE  AuthTypeOK'
  <2>1. attempt[c] = 0 /\ got[c].gen \in Nat
    BY <1>13 DEF Retry, Retries, IInv, TypeOK, Token
  <2>2. attempt' \in [Callers -> {0, 1}] /\ rejectedGen' \in [Callers -> Nat]
    BY <1>13, <2>1 DEF Retry
  <2>3. phase' \in [Callers -> Phases]
    BY <1>13 DEF Retry
  <2>4. UNCHANGED <<kind, invalidates, changed, assertion, code, result, serverVars, executed>>
    BY <1>13 DEF Retry
  <2>5. QED
    BY <2>2, <2>3, <2>4
<1>14. ASSUME NEW c \in Callers, GiveUp(c)
      PROVE  AuthTypeOK'
    BY <1>14 DEF GiveUp, Retries, Finish, cacheVars
<1>15. CASE UNCHANGED allVars
    BY <1>15 DEF allVars, cacheVars, authVars
<1>16. QED
    BY <1>1, <1>2, <1>3, <1>4, <1>5, <1>6, <1>7, <1>8, <1>9, <1>10, <1>11,
       <1>12, <1>13, <1>14, <1>15 DEF AuthNext, CallStep

\* Token is called, runs and returns inside its phase.
LEMMA PhaseStep == TypeOK /\ AuthTypeOK /\ PhaseInv /\ [AuthNext]_allVars => PhaseInv'
<1> SUFFICES ASSUME TypeOK, AuthTypeOK, PhaseInv, [AuthNext]_allVars
             PROVE  PhaseInv'
    OBVIOUS
<1> USE DEF TypeOK, AuthTypeOK, PhaseInv, local, serverVars
<1>1. CASE Environment /\ UNCHANGED authVars
    BY <1>1 DEF Environment, authVars, Tick, Cancel
<1>2. CASE Revoke
    BY <1>2 DEF Revoke, callVars, cacheVars
<1>3. ASSUME NEW c \in Callers, NEW ctxDone \in BOOLEAN, BeginCall(c, ctxDone)
      PROVE  PhaseInv'
    BY <1>3 DEF BeginCall, BeginToken
<1>4. ASSUME NEW c \in Callers, BeginRetry(c)
      PROVE  PhaseInv'
    BY <1>4 DEF BeginRetry, BeginToken
<1>5. ASSUME NEW c \in Callers, InsideToken(c)
      PROVE  PhaseInv'
    BY <1>5 DEF InsideToken, authVars, JoinFlight, StartFlight,
       ExchangeStep, SendExchange, ExchangeAnswered, ExchangeFailed
<1>6. ASSUME NEW c \in Callers, TokenReturns(c)
      PROVE  PhaseInv'
  <2>1. /\ pc' = [pc EXCEPT ![c] = "idle"]
       /\ \A d \in Callers : d # c => outcome'[d] = outcome[d]
    BY <1>6 DEF TokenReturns, Return, ReturnCached, Commit, WaitDone, WaitCancelled
  <2>2. phase' = [phase EXCEPT ![c] =
                    IF outcome'[c] # "token" THEN "idle"
                    ELSE IF kind[c] = "plain" THEN "send" ELSE "sign"]
    BY <1>6 DEF TokenReturns, Finish
  <2>3. QED
    BY <1>6, <2>1, <2>2 DEF TokenReturns
<1>7. ASSUME NEW c \in Callers, NEW changes \in BOOLEAN, NEW stores \in BOOLEAN,
             Sign(c, changes, stores)
      PROVE  PhaseInv'
    BY <1>7 DEF Sign, IdentityLost, Finish, cacheVars
<1>8. ASSUME NEW c \in Callers, SignFails(c)
      PROVE  PhaseInv'
    BY <1>8 DEF SignFails, Finish, cacheVars
<1>9. ASSUME NEW c \in Callers, Send(c)
      PROVE  PhaseInv'
    BY <1>9 DEF Send, cacheVars
<1>10. ASSUME NEW c \in Callers, ServerRejects(c)
      PROVE  PhaseInv'
    BY <1>10 DEF ServerRejects, Fails, cacheVars
<1>11. ASSUME NEW c \in Callers, NoAnswer(c)
      PROVE  PhaseInv'
    BY <1>11 DEF NoAnswer, Fails, cacheVars
<1>12. ASSUME NEW c \in Callers, Answered(c)
      PROVE  PhaseInv'
    BY <1>12 DEF Answered, Finish, cacheVars
<1>13. ASSUME NEW c \in Callers, Retry(c)
      PROVE  PhaseInv'
    BY <1>13 DEF Retry, Retries, Invalidate
<1>14. ASSUME NEW c \in Callers, GiveUp(c)
      PROVE  PhaseInv'
    BY <1>14 DEF GiveUp, Retries, Finish, cacheVars
<1>15. CASE UNCHANGED allVars
    BY <1>15 DEF allVars, cacheVars, authVars
<1>16. QED
    BY <1>1, <1>2, <1>3, <1>4, <1>5, <1>6, <1>7, <1>8, <1>9, <1>10, <1>11,
       <1>12, <1>13, <1>14, <1>15 DEF AuthNext, CallStep

\* Between the refusal and the retry's Token call nothing older can come back.
LEMMA RetryStep == IInv /\ TypeOK /\ AuthTypeOK /\ PhaseInv /\ RetryInv /\ [AuthNext]_allVars => RetryInv'
<1> SUFFICES ASSUME IInv, TypeOK, AuthTypeOK, PhaseInv, RetryInv, [AuthNext]_allVars
             PROVE  RetryInv'
    OBVIOUS
<1> USE DEF TypeOK, AuthTypeOK, PhaseInv, RetryInv, local, serverVars
<1>0. \A d \in Callers : rejectedGen[d] <= Superseded => rejectedGen[d] <= Superseded'
  <2>1. Superseded <= Superseded' /\ Superseded \in Int /\ Superseded' \in Int
    BY CacheStep, SupersededGrows
  <2>2. QED
    BY <2>1
<1>1. CASE Environment /\ UNCHANGED authVars
    BY <1>1, <1>0 DEF Environment, authVars, Tick, Cancel
<1>2. CASE Revoke
    BY <1>2, <1>0 DEF Revoke, callVars, cacheVars
<1>3. ASSUME NEW c \in Callers, NEW ctxDone \in BOOLEAN, BeginCall(c, ctxDone)
      PROVE  RetryInv'
  <2>1. attempt'[c] = 0 /\ phase'[c] = "token"
    BY <1>3 DEF BeginCall
  <2>2. \A d \in Callers \ {c} :
           /\ attempt'[d] = attempt[d] /\ phase'[d] = phase[d]
           /\ rejectedGen'[d] = rejectedGen[d]
    BY <1>3 DEF BeginCall
  <2>3. \A d \in Callers \ {c} : floor'[d] = floor[d]
    BY <1>3 DEF BeginCall, BeginToken
  <2>4. ASSUME NEW d \in Callers
        PROVE  /\ phase'[d] = "retry" => rejectedGen'[d] <= Superseded'
               /\ attempt'[d] = 1 /\ phase'[d] \in {"token", "sign", "send", "sent", "failed"}
                     => rejectedGen'[d] <= floor'[d]
    <3>1. CASE d = c
      BY <2>1, <3>1
    <3>2. CASE d # c
      BY <1>0, <2>2, <2>3, <3>2
    <3>3. QED
      BY <3>1, <3>2
  <2>5. QED
    BY <2>4
<1>4. ASSUME NEW c \in Callers, BeginRetry(c)
      PROVE  RetryInv'
    BY <1>4, <1>0 DEF BeginRetry, BeginToken
<1>5. ASSUME NEW c \in Callers, InsideToken(c)
      PROVE  RetryInv'
    BY <1>5, <1>0 DEF InsideToken, authVars, JoinFlight, StartFlight,
       ExchangeStep, SendExchange, ExchangeAnswered, ExchangeFailed
<1>6. ASSUME NEW c \in Callers, TokenReturns(c)
      PROVE  RetryInv'
  <2>1. /\ phase[c] = "token" /\ phase' = [phase EXCEPT ![c] = phase'[c]]
       /\ phase'[c] \in {"idle", "sign", "send"}
       /\ UNCHANGED <<attempt, rejectedGen>>
    BY <1>6 DEF TokenReturns, Finish
  <2>2. UNCHANGED floor
    BY <1>6 DEF TokenReturns, Return, ReturnCached, Commit, WaitDone, WaitCancelled
  <2>3. QED
    BY <1>0, <2>1, <2>2
<1>7. ASSUME NEW c \in Callers, NEW changes \in BOOLEAN, NEW stores \in BOOLEAN,
             Sign(c, changes, stores)
      PROVE  RetryInv'
    BY <1>7, <1>0 DEF Sign, IdentityLost, Finish, cacheVars
<1>8. ASSUME NEW c \in Callers, SignFails(c)
      PROVE  RetryInv'
    BY <1>8, <1>0 DEF SignFails, Finish, cacheVars
<1>9. ASSUME NEW c \in Callers, Send(c)
      PROVE  RetryInv'
    BY <1>9, <1>0 DEF Send, cacheVars
<1>10. ASSUME NEW c \in Callers, ServerRejects(c)
      PROVE  RetryInv'
    BY <1>10, <1>0 DEF ServerRejects, Fails, cacheVars
<1>11. ASSUME NEW c \in Callers, NoAnswer(c)
      PROVE  RetryInv'
    BY <1>11, <1>0 DEF NoAnswer, Fails, cacheVars
<1>12. ASSUME NEW c \in Callers, Answered(c)
      PROVE  RetryInv'
    BY <1>12, <1>0 DEF Answered, Finish, cacheVars
<1>13. ASSUME NEW c \in Callers, Retry(c)
      PROVE  RetryInv'
  <2>1. got[c].gen <= newest /\ got[c].gen \in Nat
    BY <1>13 DEF Retry, IInv, TokenInv, Token
  <2>2. Superseded' = newest
    BY <1>13 DEF Retry, Invalidate, Superseded
  <2>3. rejectedGen' = [rejectedGen EXCEPT ![c] = got[c].gen]
    BY <1>13 DEF Retry
  <2>4. \A d \in Callers : phase'[d] = "retry" => rejectedGen'[d] <= Superseded'
    BY <1>13, <1>0, <2>1, <2>2, <2>3 DEF Retry
  <2>5. QED
    BY <1>13, <2>3, <2>4 DEF Retry, Invalidate
<1>14. ASSUME NEW c \in Callers, GiveUp(c)
      PROVE  RetryInv'
    BY <1>14, <1>0 DEF GiveUp, Retries, Finish, cacheVars
<1>15. CASE UNCHANGED allVars
    BY <1>15, <1>0 DEF allVars, cacheVars, authVars
<1>16. QED
    BY <1>1, <1>2, <1>3, <1>4, <1>5, <1>6, <1>7, <1>8, <1>9, <1>10, <1>11,
       <1>12, <1>13, <1>14, <1>15 DEF AuthNext, CallStep

\* The loop never goes round after an execution.
LEMMA ExecutionStep == AuthTypeOK /\ ExecutionInv /\ ResultMatchesExecution /\ [AuthNext]_allVars => (ExecutionInv /\ ResultMatchesExecution)'
<1> SUFFICES ASSUME AuthTypeOK, ExecutionInv, ResultMatchesExecution, [AuthNext]_allVars
             PROVE  (ExecutionInv /\ ResultMatchesExecution)'
    OBVIOUS
<1> USE DEF AuthTypeOK, ExecutionInv, ResultMatchesExecution, local, serverVars
<1>1. CASE Environment /\ UNCHANGED authVars
    BY <1>1 DEF Environment, authVars, Tick, Cancel
<1>2. CASE Revoke
    BY <1>2 DEF Revoke, callVars, cacheVars
<1>3. ASSUME NEW c \in Callers, NEW ctxDone \in BOOLEAN, BeginCall(c, ctxDone)
      PROVE  (ExecutionInv /\ ResultMatchesExecution)'
    BY <1>3 DEF BeginCall, BeginToken
<1>4. ASSUME NEW c \in Callers, BeginRetry(c)
      PROVE  (ExecutionInv /\ ResultMatchesExecution)'
    BY <1>4 DEF BeginRetry, BeginToken
<1>5. ASSUME NEW c \in Callers, InsideToken(c)
      PROVE  (ExecutionInv /\ ResultMatchesExecution)'
    BY <1>5 DEF InsideToken, authVars, JoinFlight, StartFlight,
       ExchangeStep, SendExchange, ExchangeAnswered, ExchangeFailed
<1>6. ASSUME NEW c \in Callers, TokenReturns(c)
      PROVE  (ExecutionInv /\ ResultMatchesExecution)'
    BY <1>6 DEF TokenReturns, Finish, Return, ReturnCached, Commit,
       WaitDone, WaitCancelled
<1>7. ASSUME NEW c \in Callers, NEW changes \in BOOLEAN, NEW stores \in BOOLEAN,
             Sign(c, changes, stores)
      PROVE  (ExecutionInv /\ ResultMatchesExecution)'
    BY <1>7 DEF Sign, IdentityLost, Finish, cacheVars
<1>8. ASSUME NEW c \in Callers, SignFails(c)
      PROVE  (ExecutionInv /\ ResultMatchesExecution)'
    BY <1>8 DEF SignFails, Finish, cacheVars
<1>9. ASSUME NEW c \in Callers, Send(c)
      PROVE  (ExecutionInv /\ ResultMatchesExecution)'
    BY <1>9 DEF Send, cacheVars
<1>10. ASSUME NEW c \in Callers, ServerRejects(c)
      PROVE  (ExecutionInv /\ ResultMatchesExecution)'
    BY <1>10 DEF ServerRejects, Fails, cacheVars
<1>11. ASSUME NEW c \in Callers, NoAnswer(c)
      PROVE  (ExecutionInv /\ ResultMatchesExecution)'
    BY <1>11 DEF NoAnswer, Fails, cacheVars
<1>12. ASSUME NEW c \in Callers, Answered(c)
      PROVE  (ExecutionInv /\ ResultMatchesExecution)'
    BY <1>12 DEF Answered, Finish, cacheVars
<1>13. ASSUME NEW c \in Callers, Retry(c)
      PROVE  (ExecutionInv /\ ResultMatchesExecution)'
    BY <1>13 DEF Retry, Retries, Invalidate
<1>14. ASSUME NEW c \in Callers, GiveUp(c)
      PROVE  (ExecutionInv /\ ResultMatchesExecution)'
    BY <1>14 DEF GiveUp, Retries, Finish, cacheVars, Codes
<1>15. CASE UNCHANGED allVars
    BY <1>15 DEF allVars, cacheVars, authVars
<1>16. QED
    BY <1>1, <1>2, <1>3, <1>4, <1>5, <1>6, <1>7, <1>8, <1>9, <1>10, <1>11,
       <1>12, <1>13, <1>14, <1>15 DEF AuthNext, CallStep

\* Every attempt signs again and reads the identity back.
LEMMA AssertionStep == AuthTypeOK /\ AssertionInv /\ [AuthNext]_allVars => AssertionInv'
<1> SUFFICES ASSUME AuthTypeOK, AssertionInv, [AuthNext]_allVars
             PROVE  AssertionInv'
    OBVIOUS
<1> USE DEF AuthTypeOK, AssertionInv, local, serverVars
<1>1. CASE Environment /\ UNCHANGED authVars
    BY <1>1 DEF Environment, authVars, Tick, Cancel
<1>2. CASE Revoke
    BY <1>2 DEF Revoke, callVars, cacheVars
<1>3. ASSUME NEW c \in Callers, NEW ctxDone \in BOOLEAN, BeginCall(c, ctxDone)
      PROVE  AssertionInv'
    BY <1>3 DEF BeginCall, BeginToken
<1>4. ASSUME NEW c \in Callers, BeginRetry(c)
      PROVE  AssertionInv'
    BY <1>4 DEF BeginRetry, BeginToken
<1>5. ASSUME NEW c \in Callers, InsideToken(c)
      PROVE  AssertionInv'
    BY <1>5 DEF InsideToken, authVars, JoinFlight, StartFlight,
       ExchangeStep, SendExchange, ExchangeAnswered, ExchangeFailed
<1>6. ASSUME NEW c \in Callers, TokenReturns(c)
      PROVE  AssertionInv'
    BY <1>6 DEF TokenReturns, Finish, Return, ReturnCached, Commit,
       WaitDone, WaitCancelled
<1>7. ASSUME NEW c \in Callers, NEW changes \in BOOLEAN, NEW stores \in BOOLEAN,
             Sign(c, changes, stores)
      PROVE  AssertionInv'
    BY <1>7 DEF Sign, IdentityLost, Finish, cacheVars
<1>8. ASSUME NEW c \in Callers, SignFails(c)
      PROVE  AssertionInv'
    BY <1>8 DEF SignFails, Finish, cacheVars
<1>9. ASSUME NEW c \in Callers, Send(c)
      PROVE  AssertionInv'
    BY <1>9 DEF Send, cacheVars
<1>10. ASSUME NEW c \in Callers, ServerRejects(c)
      PROVE  AssertionInv'
    BY <1>10 DEF ServerRejects, Fails, cacheVars
<1>11. ASSUME NEW c \in Callers, NoAnswer(c)
      PROVE  AssertionInv'
    BY <1>11 DEF NoAnswer, Fails, cacheVars
<1>12. ASSUME NEW c \in Callers, Answered(c)
      PROVE  AssertionInv'
    BY <1>12 DEF Answered, Finish, cacheVars
<1>13. ASSUME NEW c \in Callers, Retry(c)
      PROVE  AssertionInv'
    BY <1>13 DEF Retry, Retries, Invalidate
<1>14. ASSUME NEW c \in Callers, GiveUp(c)
      PROVE  AssertionInv'
    BY <1>14 DEF GiveUp, Retries, Finish, cacheVars
<1>15. CASE UNCHANGED allVars
    BY <1>15 DEF allVars, cacheVars, authVars
<1>16. QED
    BY <1>1, <1>2, <1>3, <1>4, <1>5, <1>6, <1>7, <1>8, <1>9, <1>10, <1>11,
       <1>12, <1>13, <1>14, <1>15 DEF AuthNext, CallStep

\* Together they are inductive, given the cache's invariant.
LEMMA AuthStepInv == IInv /\ AInv /\ [AuthNext]_allVars => AInv'
BY AuthTypeStep, PhaseStep, RetryStep, ExecutionStep, AssertionStep
   DEF AInv, IInv
-----------------------------------------------------------------------------
(* The theorems.                                                           *)

\* The calls' inductive invariant holds in every reachable state.
THEOREM AuthInvariant == AuthSpec => [](IInv /\ AInv)
BY CacheInvariantInAuth, AuthInitInv, AuthStepInv, PTL DEF AuthSpec

\* The calls' variables keep their types.
THEOREM AuthTypeCorrect == AuthSpec => []AuthTypeOK
<1>1. AInv => AuthTypeOK
    BY DEF AInv
<1>2. QED
    BY <1>1, AuthInvariant, PTL

\* The one retry is never spent on the token that was refused, for any number
\* of callers and any interleaving of their exchanges and invalidations.
THEOREM RetryUsesNewerTokenHolds == AuthSpec => []RetryUsesNewerToken
<1>1. IInv /\ AInv => RetryUsesNewerToken
  <2>1. SUFFICES ASSUME IInv, AInv, NEW c \in Callers, attempt[c] = 1,
                        phase[c] \in {"sign", "send", "sent", "failed"}
                 PROVE  got[c].gen > rejectedGen[c]
    BY DEF RetryUsesNewerToken
  <2>2. pc[c] = "idle" /\ outcome[c] = "token" /\ rejectedGen[c] <= floor[c]
    BY <2>1 DEF AInv, PhaseInv, RetryInv, IInv, TypeOK
  <2>3. got[c].gen > floor[c]
    BY <2>1, <2>2 DEF IInv, NotOlderThanCall
  <2>4. got[c].gen \in Int /\ floor[c] \in Int /\ rejectedGen[c] \in Int
    BY <2>1 DEF IInv, TypeOK, Token, AInv, AuthTypeOK
  <2>5. QED
    BY <2>2, <2>3, <2>4
<1>2. QED
    BY <1>1, AuthInvariant, PTL

\* At most one execution per call, and the result the caller sees agrees with
\* what the server did.
THEOREM ResultMatchesExecutionHolds == AuthSpec => []ResultMatchesExecution
<1>1. AInv => ResultMatchesExecution
    BY DEF AInv
<1>2. QED
    BY <1>1, AuthInvariant, PTL

\* At either attempt nothing leaves with an assertion sent before that the
\* caller's callback did not leave there, and a call that reads its identity
\* back sends none but its own, for any callbacks and any interleaving of calls.
THEOREM AssertionDisciplineHolds == AuthSpec => AssertionDiscipline
<1>1. AInv => \A c \in Callers :
          phase[c] = "send" /\ phase'[c] = "sent" =>
              /\ kind[c] # "plain" => assertion[c] # "sent"
              /\ kind[c] = "checked" => ~changed[c]
    BY DEF AInv, AssertionInv
<1>2. QED
    BY <1>1, AuthInvariant, PTL DEF AssertionDiscipline
-----------------------------------------------------------------------------
(* A refusal storm is bounded: a property of the cache alone, and the      *)
(* composition takes its steps only.                                       *)

Live == {i \in DOMAIN flights : UsableAt(flights[i].token, clock)}

\* The cached token is the one its flight published; it is not usable while
\* another exchange is under way; and of the tokens that are not cached no
\* more are usable than were dropped.
StormInv ==
    /\ cached # NoToken => newest \in DOMAIN flights /\ flights[newest].token = cached
    /\ refreshing # 0 => ~UsableAt(cached, clock)
    /\ Cardinality(Live \ {cached.gen}) <= invalidations

\* Removing one element loses at most one, and never gains.
LEMMA OneLess ==
    ASSUME NEW S, NEW e, IsFiniteSet(S)
    PROVE  /\ IsFiniteSet(S \ {e})
           /\ Cardinality(S) \in Nat /\ Cardinality(S \ {e}) \in Nat
           /\ Cardinality(S \ {e}) <= Cardinality(S)
           /\ Cardinality(S) <= Cardinality(S \ {e}) + 1
<1>1. IsFiniteSet(S \ {e})
      /\ Cardinality(S \ {e}) = IF e \in S THEN Cardinality(S) - 1 ELSE Cardinality(S)
  BY FS_RemoveElement
<1>2. Cardinality(S) \in Nat /\ Cardinality(S \ {e}) \in Nat
  BY <1>1, FS_CardinalityType
<1> DEFINE n == Cardinality(S)
           k == Cardinality(S \ {e})
<1>3. n \in Nat /\ k \in Nat /\ (k = n - 1 \/ k = n)
  BY <1>1, <1>2
<1> HIDE DEF n, k
<1>4. k <= n /\ n <= k + 1
  BY <1>3
<1> QED
  BY <1>1, <1>2, <1>4 DEF n, k

LEMMA LiveFinite == TypeOK => IsFiniteSet(Live) /\ Live \subseteq 1..Len(flights)
<1> SUFFICES ASSUME TypeOK PROVE IsFiniteSet(Live) /\ Live \subseteq 1..Len(flights)
  OBVIOUS
<1>1. DOMAIN flights = 1..Len(flights) /\ Len(flights) \in Nat
  BY DEF TypeOK
<1>2. IsFiniteSet(1..Len(flights)) /\ Live \subseteq 1..Len(flights)
  BY <1>1, FS_Interval DEF Live
<1> QED
  BY <1>2, FS_Subset

\* What is live beside the cached token does not become more.
LEMMA NoMoreLive ==
    ASSUME TypeOK, StormInv, invalidations' = invalidations,
           Live' \ {cached'.gen} \subseteq Live \ {cached.gen}
    PROVE  Cardinality(Live' \ {cached'.gen}) <= invalidations'
<1>1. IsFiniteSet(Live \ {cached.gen})
  BY LiveFinite, FS_RemoveElement
<1>2. IsFiniteSet(Live' \ {cached'.gen})
      /\ Cardinality(Live' \ {cached'.gen}) <= Cardinality(Live \ {cached.gen})
  BY <1>1, FS_Subset
<1>3. /\ Cardinality(Live \ {cached.gen}) \in Nat
      /\ Cardinality(Live' \ {cached'.gen}) \in Nat /\ invalidations \in Nat
  BY <1>1, <1>2, FS_CardinalityType DEF TypeOK
<1> QED
  BY <1>2, <1>3 DEF StormInv

\* A token that is not usable at an earlier reading is not usable now.
LEMMA UsableEarlier ==
    ASSUME NEW token \in Token, NEW early \in Nat, NEW late \in Nat, early <= late,
           UsableAt(token, late)
    PROVE  UsableAt(token, early)
BY CacheAssumption DEF UsableAt, Token, CacheAssumption

LEMMA TickStorm == IInv /\ StormInv /\ Tick => StormInv'
<1> SUFFICES ASSUME IInv, StormInv, Tick PROVE StormInv'
  OBVIOUS
<1>1. UNCHANGED <<cached, flights, refreshing, newest, invalidations>> /\ clock' = clock + 1
  BY DEF Tick, budget
<1>2. clock \in Nat /\ clock' \in Nat /\ clock <= clock' /\ cached \in Token
      /\ \A i \in DOMAIN flights : flights[i].token \in Token
  <2>1. clock \in Nat /\ cached \in Token /\ flights \in Seq(Flight)
    BY DEF IInv, TypeOK
  <2>2. \A i \in DOMAIN flights : flights[i] \in Flight
    BY <2>1
  <2> QED
    BY <1>1, <2>1, <2>2 DEF Flight
<1>3. Live' \subseteq Live
  BY <1>1, <1>2, UsableEarlier DEF Live
<1>4. refreshing' # 0 => ~UsableAt(cached', clock')
  BY <1>1, <1>2, UsableEarlier DEF StormInv
<1>5. Cardinality(Live' \ {cached'.gen}) <= invalidations'
  BY <1>1, <1>3, NoMoreLive DEF IInv
<1> QED
  BY <1>1, <1>4, <1>5 DEF StormInv

LEMMA StartStorm ==
    ASSUME IInv, StormInv, NEW c \in Callers, StartFlight(c)
    PROVE  StormInv'
<1>1. /\ UNCHANGED <<cached, clock, newest, invalidations>>
      /\ flights' = Append(flights, OpenFlight) /\ ~UsableAt(cached, seen[c])
  BY DEF StartFlight, budget
<1>2. flights \in Seq(Flight) /\ OpenFlight \in Flight /\ cached \in Token /\ clock \in Nat
      /\ seen[c] \in Nat /\ seen[c] <= clock
  BY DataTypes DEF IInv, TypeOK, ClockInv
<1>3. \A i \in DOMAIN flights' :
        \/ i \in DOMAIN flights /\ flights'[i] = flights[i]
        \/ flights'[i].token = NoToken
  BY <1>1, <1>2 DEF OpenFlight
<1>4. DOMAIN flights \subseteq DOMAIN flights' /\ \A i \in DOMAIN flights : flights'[i] = flights[i]
  BY <1>1, <1>2
<1>5. Live' \subseteq Live
  BY <1>1, <1>3 DEF Live, UsableAt, NoToken
<1>6. ~UsableAt(cached', clock')
  BY <1>1, <1>2, UsableEarlier
<1>7. Cardinality(Live' \ {cached'.gen}) <= invalidations'
  BY <1>1, <1>5, NoMoreLive DEF IInv
<1> QED
  BY <1>1, <1>4, <1>6, <1>7 DEF StormInv

\* While an exchange is under way the cached token is not live.
LEMMA CommitStorm ==
    ASSUME IInv, StormInv, NEW c \in Callers, Commit(c)
    PROVE  StormInv'
<1>1. /\ UNCHANGED <<clock, invalidations>> /\ refreshing' = 0
      /\ flights' = [flights EXCEPT ![flight[c]] = Published(got[c])]
  BY DEF Commit, AfterPublish, budget
<1>2. /\ flights \in Seq(Flight) /\ flight[c] \in 1..Len(flights) /\ cached \in Token
      /\ refreshing # 0 /\ flight[c] = refreshing /\ newest < flight[c] /\ newest \in Nat
  BY HeldFlight DEF IInv, TypeOK, FlightInv, TokenInv, Leading, Commit
<1>3. /\ DOMAIN flights' = DOMAIN flights /\ flights'[flight[c]].token = got[c]
      /\ \A i \in DOMAIN flights \ {flight[c]} : flights'[i] = flights[i]
  BY <1>1, <1>2 DEF Published
<1>4. ~UsableAt(cached, clock) /\ cached.gen \notin Live
  <2>1. ~UsableAt(cached, clock)
    BY <1>2 DEF StormInv
  <2>2. CASE cached = NoToken
    BY <1>2, <2>1, <2>2 DEF NoToken, Live
  <2>3. CASE cached # NoToken
    BY <2>1, <2>3 DEF StormInv, Live, IInv, TokenInv
  <2> QED
    BY <2>1, <2>2, <2>3
<1>5. CASE got[c] = NoToken
  <2>1. cached' = cached /\ newest' = newest
    BY <1>5 DEF Commit
  <2>2. Live' \subseteq Live
    BY <1>1, <1>3, <1>5 DEF Live, UsableAt, NoToken
  <2>3. Cardinality(Live' \ {cached'.gen}) <= invalidations'
    BY <1>1, <2>1, <2>2, NoMoreLive DEF IInv
  <2>4. cached' # NoToken => newest' \in DOMAIN flights' /\ flights'[newest'].token = cached'
    BY <1>2, <1>3, <2>1 DEF StormInv
  <2> QED
    BY <1>1, <2>3, <2>4 DEF StormInv
<1>6. CASE got[c] # NoToken
  <2>1. cached' = got[c] /\ newest' = flight[c] /\ got[c].gen = flight[c]
    BY <1>6 DEF Commit, IInv, TokenInv
  <2>2. Live' \ {flight[c]} \subseteq Live
    BY <1>1, <1>3 DEF Live
  <2>3. Live' \ {cached'.gen} \subseteq Live \ {cached.gen}
    BY <1>4, <2>1, <2>2
  <2>4. Cardinality(Live' \ {cached'.gen}) <= invalidations'
    BY <1>1, <2>3, NoMoreLive DEF IInv
  <2> QED
    BY <1>1, <1>2, <1>3, <2>1, <2>4 DEF StormInv
<1> QED
  BY <1>5, <1>6

LEMMA InvalidateStorm == IInv /\ StormInv /\ Invalidate => StormInv'
<1> SUFFICES ASSUME IInv, StormInv, Invalidate PROVE StormInv'
  OBVIOUS
<1>1. UNCHANGED <<clock, flights, refreshing, newest>> /\ cached' = NoToken
      /\ invalidations' = invalidations + 1 /\ invalidations \in Nat
  BY DEF Invalidate, IInv, TypeOK
<1>2. Live' = Live /\ ~UsableAt(NoToken, clock)
  BY <1>1 DEF Live, UsableAt, NoToken
<1>3. IsFiniteSet(Live) /\ IsFiniteSet(Live \ {cached.gen})
  BY LiveFinite, FS_RemoveElement DEF IInv
<1>4. Cardinality(Live) <= Cardinality(Live \ {cached.gen}) + 1
      /\ Cardinality(Live \ {cached.gen}) \in Nat /\ Cardinality(Live) \in Nat
  BY <1>3, OneLess
<1>5. IsFiniteSet(Live \ {0}) /\ Cardinality(Live \ {0}) <= Cardinality(Live)
      /\ Cardinality(Live \ {0}) \in Nat
  BY <1>3, OneLess
<1>6. Live' \ {cached'.gen} = Live \ {0}
  BY <1>1, <1>2 DEF NoToken
<1> QED
  BY <1>1, <1>2, <1>4, <1>5, <1>6 DEF StormInv

LEMMA StormStep == IInv /\ StormInv /\ [Next]_cacheVars => StormInv'
<1> SUFFICES ASSUME IInv, StormInv, [Next]_cacheVars PROVE StormInv'
  OBVIOUS
<1>1. ASSUME UNCHANGED <<clock, cached, refreshing, flights, newest, invalidations>>
      PROVE  StormInv'
  BY <1>1 DEF StormInv, Live
<1>2. ASSUME NEW c \in Callers, TokenStep(c) \/ Cancel(c), ~StartFlight(c), ~Commit(c)
      PROVE  StormInv'
  BY <1>1, <1>2 DEF TokenStep, Cancel, Return, ExchangeStep, BeginToken, ReturnCached, JoinFlight,
        SendExchange, ExchangeAnswered, ExchangeFailed, WaitDone, WaitCancelled, budget
<1> QED
  BY <1>1, <1>2, TickStorm, StartStorm, CommitStorm, InvalidateStorm DEF Next, cacheVars

\* Callers that are refused together cause at most one exchange each: of all
\* tokens ever fetched at most one more is usable than were dropped, for any
\* number of callers, calls and revocations.  (Invalidate, token.go:218)
THEOREM LiveTokensBoundedHolds == AuthSpec => []LiveTokensBounded
<1>1. Init => StormInv
  <2> SUFFICES ASSUME Init PROVE StormInv
    OBVIOUS
  <2>1. Live \ {cached.gen} = {} /\ invalidations = 0
    BY DEF Init, Live
  <2>2. Cardinality(Live \ {cached.gen}) = 0
    BY <2>1, FS_EmptySet
  <2>3. cached = NoToken /\ refreshing = 0
    BY DEF Init
  <2> QED
    BY <2>1, <2>2, <2>3 DEF StormInv
<1>2. IInv /\ StormInv => LiveTokensBounded
  <2> SUFFICES ASSUME IInv, StormInv PROVE LiveTokensBounded
    OBVIOUS
  <2>1. IsFiniteSet(Live) /\ IsFiniteSet(Live \ {cached.gen})
    BY LiveFinite, FS_RemoveElement DEF IInv
  <2>2. Cardinality(Live) <= Cardinality(Live \ {cached.gen}) + 1
        /\ Cardinality(Live \ {cached.gen}) \in Nat /\ Cardinality(Live) \in Nat
    BY <2>1, OneLess
  <2>3. invalidations \in Nat
    BY DEF IInv, TypeOK
  <2> QED
    BY <2>2, <2>3 DEF StormInv, LiveTokensBounded, Live
<1>3. AuthInit => Init
  BY DEF AuthInit
<1>4. IInv /\ [AuthNext]_allVars => [Next]_cacheVars
  BY CacheStep DEF IInv
<1> QED
  BY <1>1, <1>2, <1>3, <1>4, StormStep, CacheInvariantInAuth, PTL DEF AuthSpec
=============================================================================
