----------------------------- MODULE TokenCache -----------------------------
(***************************************************************************)
(* CachedTokenSource and the exchange behind GRPCTokenSource (token.go).   *)
(*                                                                         *)
(* Any number of goroutines call Token(ctx) and Invalidate() on one cache. *)
(* The source's mutex protects two short sections of Token and the body of *)
(* Invalidate; each of them is one step here.  Everything the code does    *)
(* outside the mutex -- the clock reading BEFORE the lock, the exchange    *)
(* RPC, the wait for another caller's exchange -- is a step of its own, so *)
(* that other callers, Invalidate and the clock can come in between.       *)
(*                                                                         *)
(* A tokenRefresh object is an element of flights; the caller that created *)
(* it (its leader) and the callers waiting on its done channel hold its    *)
(* index.  The opaque access token is identified by the flight that        *)
(* fetched it: its generation.                                             *)
(***************************************************************************)
EXTENDS Integers, Sequences

CONSTANTS
    Callers,            \* goroutines that share the token source
    Replies,            \* ExchangeRuntimeToken replies the server may send
    RefreshBefore,      \* refreshBefore, in clock ticks
    FixedLifetime,      \* fixedTokenLifetime, in clock ticks
    MaxClock,           \* bound: the clock stops there
    MaxCalls,           \* bound: Token calls per caller
    MaxInvalidations    \* bound: Invalidate calls

ASSUME CacheAssumption ==
    /\ RefreshBefore \in Nat /\ FixedLifetime \in Nat \ {0}
    /\ MaxClock \in Nat /\ MaxCalls \in Nat /\ MaxInvalidations \in Nat
    /\ Replies \subseteq [wellFormed : BOOLEAN, inSeconds : Int, at : Nat]

VARIABLES
    clock,          \* the injected Clock
    cached,         \* source.cached
    refreshing,     \* source.refreshing: 0 is nil, else an index of flights
    flights,        \* every tokenRefresh object created so far
    pc,             \* where each caller is in Token
    seen,           \* the caller's latest clock reading (now)
    flight,         \* the tokenRefresh the caller leads or waits on
    got,            \* the Token value the caller holds or has returned
    outcome,        \* how the caller's latest Token call ended
    cancelled,      \* the caller's ctx is done
    calls,          \* Token calls begun, per caller
    invalidations,  \* Invalidate calls so far
    newest,         \* history: generation last stored in the cache
    floor           \* history: what was already superseded when the call began

local == <<pc, seen, flight, got, outcome>>
budget == <<calls, invalidations>>
cacheVars == <<clock, cached, refreshing, flights, pc, seen, flight, got,
               outcome, cancelled, calls, invalidations, newest, floor>>
-----------------------------------------------------------------------------
(* Tokens, replies and tokenRefresh objects.                               *)

NoToken == [gen |-> 0, exp |-> 0]           \* the zero Token{}
Token == [gen : Nat, exp : Int]

\* Token.usableAt: strictly more than RefreshBefore remains.
UsableAt(token, now) == token.gen # 0 /\ now < token.exp - RefreshBefore

\* The expiry exchangeRuntimeToken computes: an absolute instant wins over a
\* relative one, which is counted from the clock reading before the RPC.
ReplyExpiry(reply, now) ==
    IF reply.at # 0 THEN reply.at ELSE now + reply.inSeconds

\* The replies exchangeRuntimeToken turns into a token: a non-empty Bearer
\* token, a lifetime that is absent or the fixed one, an expiry after now.
AcceptsReply(reply, now) ==
    /\ reply.wellFormed
    /\ reply.inSeconds \in {0, FixedLifetime}
    /\ reply.at # 0 \/ reply.inSeconds > 0
    /\ ReplyExpiry(reply, now) > now

FlightStates == {"open", "ok", "failed"}
Flight == [state : FlightStates, token : Token]
OpenFlight == [state |-> "open", token |-> NoToken]

PCs == {"idle", "check", "wait", "exchange", "rpc", "commit"}
Outcomes == {"none", "token", "exchange_error", "ctx_error"}

\* The newest generation no call that begins now may be given: the one before
\* the cached token's, or the last one cached when the cache is empty.
Superseded == IF cached = NoToken THEN newest ELSE cached.gen - 1

\* source.refreshing != nil: somebody is exchanging.
InProgressMutant == FALSE
InProgress == refreshing # 0

\* The caller owns the open tokenRefresh.
Leading(c) == pc[c] \in {"exchange", "rpc", "commit"}
-----------------------------------------------------------------------------
Init ==
    /\ clock = 0
    /\ cached = NoToken /\ refreshing = 0 /\ flights = << >>
    /\ pc = [c \in Callers |-> "idle"]
    /\ seen = [c \in Callers |-> 0]
    /\ flight = [c \in Callers |-> 0]
    /\ got = [c \in Callers |-> NoToken]
    /\ outcome = [c \in Callers |-> "none"]
    /\ cancelled = [c \in Callers |-> FALSE]
    /\ calls = [c \in Callers |-> 0]
    /\ invalidations = 0
    /\ newest = 0
    /\ floor = [c \in Callers |-> 0]

Tick ==
    /\ clock < MaxClock
    /\ clock' = clock + 1
    /\ UNCHANGED <<cached, refreshing, flights, local, cancelled, budget,
                   newest, floor>>

\* The context of caller c is cancelled or reaches its deadline.
Cancel(c) ==
    /\ ~cancelled[c]
    /\ cancelled' = [cancelled EXCEPT ![c] = TRUE]
    /\ UNCHANGED <<clock, cached, refreshing, flights, local, budget, newest,
                   floor>>

\* Token is called, with a context that may be done already, and reads the
\* clock; the lock is not taken yet.
BeginToken(c, ctxDone) ==
    /\ pc[c] = "idle" /\ calls[c] < MaxCalls
    /\ calls' = [calls EXCEPT ![c] = @ + 1]
    /\ cancelled' = [cancelled EXCEPT ![c] = ctxDone]
    /\ seen' = [seen EXCEPT ![c] = clock]
    /\ pc' = [pc EXCEPT ![c] = "check"]
    /\ flight' = [flight EXCEPT ![c] = 0]
    /\ got' = [got EXCEPT ![c] = NoToken]
    /\ outcome' = [outcome EXCEPT ![c] = "none"]
    /\ floor' = [floor EXCEPT ![c] = Superseded]
    /\ UNCHANGED <<clock, cached, refreshing, flights, invalidations, newest>>

\* First locked section, cache hit.
ReturnCached(c) ==
    /\ pc[c] = "check" /\ UsableAt(cached, seen[c])
    /\ pc' = [pc EXCEPT ![c] = "idle"]
    /\ got' = [got EXCEPT ![c] = cached]
    /\ outcome' = [outcome EXCEPT ![c] = "token"]
    /\ UNCHANGED <<clock, cached, refreshing, flights, seen, flight,
                   cancelled, budget, newest, floor>>

\* First locked section, another caller is exchanging: wait for its result.
JoinFlight(c) ==
    /\ pc[c] = "check" /\ ~UsableAt(cached, seen[c])
    /\ InProgress
    /\ flight' = [flight EXCEPT ![c] = refreshing]
    /\ pc' = [pc EXCEPT ![c] = "wait"]
    /\ UNCHANGED <<clock, cached, refreshing, flights, seen, got, outcome,
                   cancelled, budget, newest, floor>>

StartAlwaysMutant(c) ==                     \* the cached token is not looked at
    /\ pc[c] = "check" /\ ~InProgress
    /\ flights' = Append(flights, OpenFlight)
    /\ refreshing' = Len(flights) + 1
    /\ flight' = [flight EXCEPT ![c] = Len(flights) + 1]
    /\ pc' = [pc EXCEPT ![c] = "exchange"]
    /\ UNCHANGED <<clock, cached, seen, got, outcome, cancelled, budget,
                   newest, floor>>

\* First locked section, nobody is exchanging: become the leader.
StartFlight(c) ==
    /\ pc[c] = "check" /\ ~UsableAt(cached, seen[c])
    /\ ~InProgress
    /\ flights' = Append(flights, OpenFlight)
    /\ refreshing' = Len(flights) + 1
    /\ flight' = [flight EXCEPT ![c] = Len(flights) + 1]
    /\ pc' = [pc EXCEPT ![c] = "exchange"]
    /\ UNCHANGED <<clock, cached, seen, got, outcome, cancelled, budget,
                   newest, floor>>

\* The leader, without the lock, reads the clock again and sends the RPC.
SendExchange(c) ==
    /\ pc[c] = "exchange"
    /\ seen' = [seen EXCEPT ![c] = clock]
    /\ pc' = [pc EXCEPT ![c] = "rpc"]
    /\ UNCHANGED <<clock, cached, refreshing, flights, flight, got, outcome,
                   cancelled, budget, newest, floor>>

\* The RPC is answered; the reply becomes a token or an error.
ExchangeAnswered(c, reply) ==
    /\ pc[c] = "rpc"
    /\ got' = [got EXCEPT ![c] =
                  IF AcceptsReply(reply, seen[c])
                  THEN [gen |-> flight[c], exp |-> ReplyExpiry(reply, seen[c])]
                  ELSE NoToken]
    /\ pc' = [pc EXCEPT ![c] = "commit"]
    /\ UNCHANGED <<clock, cached, refreshing, flights, seen, flight, outcome,
                   cancelled, budget, newest, floor>>

\* The RPC fails: a transport or server error, or the leader's own context.
ExchangeFailed(c) ==
    /\ pc[c] = "rpc"
    /\ pc' = [pc EXCEPT ![c] = "commit"]
    /\ UNCHANGED <<clock, cached, refreshing, flights, seen, flight, got,
                   outcome, cancelled, budget, newest, floor>>

Published(token) ==
    [state |-> IF token = NoToken THEN "failed" ELSE "ok", token |-> token]
OutcomeOf(f) == IF f.state = "ok" THEN "token" ELSE "exchange_error"

\* What refreshing is once the result is published.
AfterPublishMutant == refreshing            \* the reset is missing
AfterPublish == 0

CommitMutant(c) ==                          \* an error returns before the lock
    /\ pc[c] = "commit"
    /\ IF got[c] = NoToken THEN UNCHANGED <<flights, cached, newest, refreshing>>
       ELSE /\ flights' = [flights EXCEPT ![flight[c]] = Published(got[c])]
            /\ cached' = got[c] /\ newest' = flight[c] /\ refreshing' = 0
    /\ pc' = [pc EXCEPT ![c] = "idle"]
    /\ outcome' = [outcome EXCEPT ![c] = OutcomeOf(Published(got[c]))]
    /\ UNCHANGED <<clock, seen, flight, got, cancelled, budget, floor>>

\* Second locked section: publish the result, cache it if it is a token, wake
\* the waiters and clear refreshing; then return.
Commit(c) ==
    /\ pc[c] = "commit"
    /\ flights' = [flights EXCEPT ![flight[c]] = Published(got[c])]
    /\ cached' = IF got[c] = NoToken THEN cached ELSE got[c]
    /\ newest' = IF got[c] = NoToken THEN newest ELSE flight[c]
    /\ refreshing' = AfterPublish
    /\ pc' = [pc EXCEPT ![c] = "idle"]
    /\ outcome' = [outcome EXCEPT ![c] = OutcomeOf(Published(got[c]))]
    /\ UNCHANGED <<clock, seen, flight, got, cancelled, budget, floor>>

\* What a woken waiter returns: the token of the object it waited on.
WaitersTokenMutant(c) == cached             \* or whatever is cached by now
WaitersToken(c) == flights[flight[c]].token

\* A waiter is woken and returns the leader's result as it is.
WaitDone(c) ==
    /\ pc[c] = "wait"
    /\ flights[flight[c]].state # "open"
    /\ got' = [got EXCEPT ![c] = WaitersToken(c)]
    /\ outcome' = [outcome EXCEPT ![c] = OutcomeOf(flights[flight[c]])]
    /\ pc' = [pc EXCEPT ![c] = "idle"]
    /\ UNCHANGED <<clock, cached, refreshing, flights, seen, flight,
                   cancelled, budget, newest, floor>>

WaitCancelledMutant(c) == FALSE             \* the select has no ctx.Done case
\* A waiter's context ends; the select may take this case even when the
\* result is there.
WaitCancelled(c) ==
    /\ pc[c] = "wait" /\ cancelled[c]
    /\ outcome' = [outcome EXCEPT ![c] = "ctx_error"]
    /\ pc' = [pc EXCEPT ![c] = "idle"]
    /\ UNCHANGED <<clock, cached, refreshing, flights, seen, flight, got,
                   cancelled, budget, newest, floor>>

\* Invalidate, by any goroutine: drops whatever token is cached now and
\* leaves an exchange in progress alone.
Invalidate ==
    /\ invalidations < MaxInvalidations
    /\ invalidations' = invalidations + 1
    /\ cached' = NoToken
    /\ UNCHANGED <<clock, refreshing, flights, local, cancelled, calls,
                   newest, floor>>

ExchangeStep(c) ==
    \/ SendExchange(c)
    \/ \E reply \in Replies : ExchangeAnswered(c, reply)
    \/ ExchangeFailed(c)

Return(c) == ReturnCached(c) \/ Commit(c) \/ WaitDone(c) \/ WaitCancelled(c)

TokenStep(c) ==
    \/ \E ctxDone \in BOOLEAN : BeginToken(c, ctxDone)
    \/ Return(c) \/ JoinFlight(c) \/ StartFlight(c) \/ ExchangeStep(c)

Next == Tick \/ Invalidate \/ \E c \in Callers : TokenStep(c) \/ Cancel(c)

Spec == Init /\ [][Next]_cacheVars

-----------------------------------------------------------------------------
(* What the cache promises.                                                *)

\* Every variable has its type, and every index of flights is in range.
TypeOK ==
    /\ clock \in Nat
    /\ cached \in Token
    /\ flights \in Seq(Flight)
    /\ refreshing \in 0..Len(flights)
    /\ pc \in [Callers -> PCs]
    /\ seen \in [Callers -> Nat]
    /\ flight \in [Callers -> 0..Len(flights)]
    /\ got \in [Callers -> Token]
    /\ outcome \in [Callers -> Outcomes]
    /\ cancelled \in [Callers -> BOOLEAN]
    /\ calls \in [Callers -> Nat]
    /\ invalidations \in Nat
    /\ newest \in 0..Len(flights)
    /\ floor \in [Callers -> Int]

\* Single flight: the source is refreshing exactly while one caller is between
\* creating the tokenRefresh and publishing its result, and never two are --
\* whatever Invalidate, failures and cancellations do in the meantime.
SingleFlight ==
    /\ \A c, d \in Callers : Leading(c) /\ Leading(d) => c = d
    /\ refreshing # 0 <=> \E c \in Callers : Leading(c)

\* A call that returns a token returns one that was not superseded or
\* discarded before the call began: after Invalidate dropped a token, no later
\* call is given that token or an older one, not even by joining an exchange.
NotOlderThanCall ==
    \A c \in Callers :
        pc[c] = "idle" /\ outcome[c] = "token" => got[c].gen > floor[c]

\* All callers of one exchange get its one result, however late they wake and
\* whatever Invalidate and newer exchanges did meanwhile: leader and waiters
\* that did not give up return the very token or the error it published.
SharedResult ==
    \A c \in Callers :
        pc[c] = "idle" /\ flight[c] # 0 /\ outcome[c] # "ctx_error" =>
            /\ flights[flight[c]].state # "open"
            /\ outcome[c] = OutcomeOf(flights[flight[c]])
            /\ got[c] = flights[flight[c]].token

\* A waiter never waits on an object nobody will complete: the open
\* tokenRefresh is always the one in source.refreshing, so every wait has a
\* leader that is still at work or a result that is there.
NoOrphanWait ==
    \A c \in Callers :
        pc[c] = "wait" =>
            \/ flights[flight[c]].state # "open"
            \/ \E d \in Callers : Leading(d) /\ flight[d] = flight[c]

\* An exchange starts only when the cached token really is within the refresh
\* window or absent, although the decision uses a clock reading taken before
\* the lock: the reading can be late, never early.
ExchangeOnlyWhenNeeded ==
    [][Len(flights') > Len(flights) => ~UsableAt(cached, clock)]_cacheVars

\* "TokenSource supplies a currently usable runtime token": a call that has
\* just exchanged a token does not return one that is already expired.
LeaderReturnsLiveToken ==
    [][\A c \in Callers :
          pc[c] = "commit" /\ pc'[c] = "idle" /\ outcome'[c] = "token"
              => got'[c].exp > clock]_cacheVars
=============================================================================
