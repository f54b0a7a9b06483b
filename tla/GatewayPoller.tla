---------------------------- MODULE GatewayPoller ----------------------------
(***************************************************************************)
(* GatewayPoller (gateway.go): goroutines that share one poller call Poll  *)
(* and ETag while the invocation moves through its versions on the server. *)
(* The mutex is held from the wait for the previous Retry-After to the end *)
(* of the GET; the validator and the next poll time change only after a    *)
(* GET that succeeded.                                                     *)
(*                                                                         *)
(* A GET is one step to the server and one back: doInvocation's retry      *)
(* (module AuthRetry) is inside it.  Version 0 is the empty ETag.          *)
(***************************************************************************)
EXTENDS Naturals, Sequences

CONSTANTS
    Threads,            \* goroutines that share the poller
    MaxVersion,         \* the snapshot version of the finished invocation
    MaxAfter,           \* bound: the longest Retry-After, in ticks
    MaxClock            \* bound: ticks

NoThread == "none"
ASSUME PollerAssumption ==
    /\ NoThread \notin Threads
    /\ MaxVersion \in Nat \ {0} /\ MaxAfter \in Nat /\ MaxClock \in Nat

VARIABLES
    version,            \* the server's snapshot version
    clock,              \* now
    mu,                 \* the poller's mutex: its holder, or NoThread
    etag, nextPoll,     \* the poller's validator and earliest next GET
    pc,                 \* where each goroutine is
    wake,               \* when the timer of a waiting Poll fires
    cancelled,          \* the context of the call is done
    answer,             \* what the server answered the GET
    delivered,          \* history: versions of the snapshots Poll returned
    asked               \* history: when the latest response allows a GET

poller == <<etag, nextPoll>>
history == <<delivered, asked>>
pollVars == <<version, clock, mu, poller, pc, wake, cancelled, answer, history>>

PCs == {"idle", "lock", "wait", "get", "answered", "etag"}

\* A snapshot with its version as ETag; 304 with the version the client sent;
\* an error response; a 200 refused by GetWithETag (its ETag is not the
\* snapshot's version, its body does not decode).  All may carry Retry-After.
Kinds == {"snapshot", "not_modified", "error", "invalid"}
Answers == [kind : Kinds, version : 0..MaxVersion, after : 0..MaxAfter]
NoAnswer == [kind |-> "error", version |-> 0, after |-> 0]
Succeeded(reply) == reply.kind \in {"snapshot", "not_modified"}
-----------------------------------------------------------------------------
Init ==
    /\ version = 1 /\ clock = 0
    /\ mu = NoThread /\ etag = 0 /\ nextPoll = 0
    /\ pc = [t \in Threads |-> "idle"]
    /\ wake = [t \in Threads |-> 0]
    /\ cancelled = [t \in Threads |-> FALSE]
    /\ answer = [t \in Threads |-> NoAnswer]
    /\ delivered = << >> /\ asked = 0

\* In n ticks; time that would pass MaxClock ends there.
Later(n) == IF clock + n < MaxClock THEN clock + n ELSE MaxClock

Goto(t, place) == pc' = [pc EXCEPT ![t] = place]

(* The environment: time, contexts, the invocation's progress, the server. *)

Tick ==
    /\ clock < MaxClock
    /\ clock' = clock + 1
    /\ UNCHANGED <<version, mu, poller, pc, wake, cancelled, answer, history>>

Cancel(t) ==
    /\ pc[t] \notin {"idle", "etag"} /\ ~cancelled[t]
    /\ cancelled' = [cancelled EXCEPT ![t] = TRUE]
    /\ UNCHANGED <<version, clock, mu, poller, pc, wake, answer, history>>

Advance ==
    /\ version < MaxVersion
    /\ version' = version + 1
    /\ UNCHANGED <<clock, mu, poller, pc, wake, cancelled, answer, history>>

\* The server answers from its current version.  A refused 200 may carry it too.
ServerAnswers(t, reply) ==
    /\ pc[t] = "get"
    /\ reply.kind = "snapshot" => reply.version = version /\ version # etag
    /\ reply.kind = "not_modified" => reply.version = version /\ version = etag
    /\ reply.kind = "invalid" => reply.version = version
    /\ reply.kind = "error" => reply.version = 0
    /\ answer' = [answer EXCEPT ![t] = reply]
    /\ Goto(t, "answered")
    /\ UNCHANGED <<version, clock, mu, poller, wake, cancelled, history>>

(* Poll.                                                                   *)

BeginPoll(t) ==
    /\ pc[t] = "idle"
    /\ cancelled' = [cancelled EXCEPT ![t] = FALSE]
    /\ Goto(t, "lock")
    /\ UNCHANGED <<version, clock, mu, poller, wake, answer, history>>

\* The wait is computed under the mutex; 0: there is none.
Lock(t) ==
    /\ pc[t] = "lock" /\ mu = NoThread
    /\ mu' = t
    /\ wake' = [wake EXCEPT ![t] = IF nextPoll > clock THEN nextPoll ELSE 0]
    /\ Goto(t, "wait")
    /\ UNCHANGED <<version, clock, poller, cancelled, answer, history>>

\* The timer fired, or there was nothing to wait for: the GET is sent.  When
\* the context is done as well, select takes either branch.
SendMutant(t) ==                    \* the mutex covers the wait alone
    /\ pc[t] = "wait" /\ wake[t] <= clock
    /\ Goto(t, "get")
    /\ mu' = NoThread
    /\ UNCHANGED <<version, clock, poller, wake, cancelled, answer, history>>

Send(t) ==
    /\ pc[t] = "wait" /\ wake[t] <= clock
    /\ Goto(t, "get")
    /\ UNCHANGED <<version, clock, mu, poller, wake, cancelled, answer, history>>

\* Poll returns and unlocks.
PollReturns(t) ==
    /\ Goto(t, "idle")
    /\ mu' = NoThread
    /\ wake' = [wake EXCEPT ![t] = 0]
    /\ answer' = [answer EXCEPT ![t] = NoAnswer]

WaitCancelledMutant(t) ==           \* returns with the mutex locked
    /\ pc[t] = "wait" /\ cancelled[t] /\ wake[t] # 0
    /\ Goto(t, "idle")
    /\ UNCHANGED <<version, clock, mu, poller, wake, cancelled, answer, history>>

\* The context is done while the timer runs.
WaitCancelled(t) ==
    /\ pc[t] = "wait" /\ cancelled[t] /\ wake[t] # 0
    /\ PollReturns(t)
    /\ UNCHANGED <<version, clock, poller, cancelled, history>>

\* No response: the connection failed, the token source failed, the context
\* is done; nothing of the poller changes.  The HTTP client has no timeout of
\* its own: nothing but one of these ends a GET that the server leaves open.
GetFailsMutant(t) ==                \* the request is sent without the context
    /\ pc[t] \in {"get", "answered"} /\ ~cancelled[t]
    /\ PollReturns(t)
    /\ UNCHANGED <<version, clock, poller, cancelled, history>>

GetFails(t) ==
    /\ pc[t] \in {"get", "answered"}
    /\ PollReturns(t)
    /\ UNCHANGED <<version, clock, poller, cancelled, history>>

\* The response arrives.  Only a successful one updates the poller.
UpdateMutant(reply) ==              \* the validator is taken from any response
    /\ etag' = IF reply.version # 0 THEN reply.version ELSE etag
    /\ nextPoll' = IF reply.after > 0 THEN Later(reply.after) ELSE 0
Update(reply) ==
    IF Succeeded(reply)
    THEN /\ etag' = reply.version
         /\ nextPoll' = IF reply.after > 0 THEN Later(reply.after) ELSE 0
    ELSE UNCHANGED poller

Arrives(t) ==
    /\ pc[t] = "answered"
    /\ Update(answer[t])
    /\ delivered' = IF answer[t].kind = "snapshot"
                    THEN Append(delivered, answer[t].version) ELSE delivered
    /\ asked' = Later(answer[t].after)
    /\ PollReturns(t)
    /\ UNCHANGED <<version, clock, cancelled>>

(* ETag: waits for the mutex, whatever the Poll that holds it waits for.   *)

BeginETag(t) ==
    /\ pc[t] = "idle"
    /\ Goto(t, "etag")
    /\ UNCHANGED <<version, clock, mu, poller, wake, cancelled, answer, history>>

ReturnETag(t) ==
    /\ pc[t] = "etag" /\ mu = NoThread
    /\ Goto(t, "idle")
    /\ UNCHANGED <<version, clock, mu, poller, wake, cancelled, answer, history>>

PollStep(t) ==
    \/ Send(t) \/ WaitCancelled(t) \/ GetFails(t) \/ Arrives(t)
    \/ \E reply \in Answers : ServerAnswers(t, reply)

Next ==
    \/ Tick \/ Advance
    \/ \E t \in Threads :
          \/ Cancel(t) \/ BeginPoll(t) \/ BeginETag(t)
          \/ Lock(t) \/ ReturnETag(t) \/ PollStep(t)

Spec == Init /\ [][Next]_pollVars

\* Time passes, goroutines run, the mutex starves nobody, and a GET ends when
\* its context does.  A server that answers no GET is allowed.
Scheduling ==
    /\ WF_pollVars(Tick)
    /\ \A t \in Threads :
          /\ SF_pollVars(Lock(t) \/ ReturnETag(t))
          /\ WF_pollVars(Send(t) \/ WaitCancelled(t))
          /\ WF_pollVars(cancelled[t] /\ GetFails(t))

\* No GET is out for ever: the servers, or the contexts, see to it.
GetsEnd == \A t \in Threads : []<>(pc[t] \notin {"get", "answered"})

\* A client that polls until it has what it waits for: the invocation ends,
\* each goroutine goes on polling, and again and again a GET succeeds.
Polling ==
    /\ WF_pollVars(Advance)
    /\ \A t \in Threads :
          /\ SF_pollVars(BeginPoll(t))
          /\ SF_pollVars(Send(t))
          /\ SF_pollVars(Succeeded(answer[t]) /\ Arrives(t))
          /\ SF_pollVars(\E reply \in Answers :
                            Succeeded(reply) /\ ServerAnswers(t, reply))

FairSpec == Spec /\ Scheduling
-----------------------------------------------------------------------------
(* What the poller promises.                                               *)

Newest == IF delivered = << >> THEN 0 ELSE delivered[Len(delivered)]

\* Every variable has its type, and the goroutine past Lock holds the mutex.
TypeOK ==
    /\ version \in 1..MaxVersion /\ clock \in 0..MaxClock
    /\ mu \in Threads \cup {NoThread}
    /\ \A t \in Threads : mu = t <=> pc[t] \in {"wait", "get", "answered"}
    /\ etag \in 0..MaxVersion /\ nextPoll \in 0..MaxClock
    /\ pc \in [Threads -> PCs]
    /\ wake \in [Threads -> 0..MaxClock]
    /\ cancelled \in [Threads -> BOOLEAN]
    /\ answer \in [Threads -> Answers]
    /\ delivered \in Seq(1..MaxVersion)
    /\ asked \in 0..MaxClock

\* Whatever goroutines share the poller, and however late their answers are,
\* no snapshot is handed out twice or after a newer one.
VersionsAscend ==
    \A i, j \in 1..Len(delivered) : i < j => delivered[i] < delivered[j]

\* The validator is the version of the newest snapshot some caller received:
\* with it a 304 means that nothing newer than what was delivered exists.
ETagIsDelivered == etag = Newest

\* The next GET waits for the Retry-After of the previous successful one,
\* another goroutine's included.
RetryAfterHonoured ==
    [][\A t \in Threads :
          pc[t] = "wait" /\ pc'[t] = "get" => nextPoll <= clock]_pollVars

\* "It first blocks until the previous response's Retry-After has elapsed":
\* also when that response was an error, as a 429 or 503 is.
PreviousResponseHonoured ==
    [][\A t \in Threads :
          pc[t] = "wait" /\ pc'[t] = "get" => asked <= clock]_pollVars

\* If no GET is out for ever, every call returns, the ones that queue for the
\* mutex included: none is left behind by a cancelled or failed one.
EveryCallReturns ==
    GetsEnd => \A t \in Threads : pc[t] # "idle" ~> pc[t] = "idle"

\* A Poll that has its turn and whose context ends returns and gives the mutex
\* back, waiting or sending, even if no server ever answers.  (One that queues
\* for the mutex cannot: sync.Mutex knows no context.)
CancelledPollReturns ==
    \A t \in Threads :
        pc[t] \in {"wait", "get", "answered"} /\ cancelled[t]
            ~> pc[t] = "idle" /\ mu # t

\* Whoever keeps polling, with GETs that end and again and again succeed, gets
\* the finished invocation's snapshot, however many GETs fail in between.
FinalSnapshotDelivered == GetsEnd /\ Polling => <>(Newest = MaxVersion)
=============================================================================
