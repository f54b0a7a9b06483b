------------------------ MODULE GatewayPoller_proofs ------------------------
(***************************************************************************)
(* What GatewayPoller promises, for any number of goroutines, versions and *)
(* ticks.                                                                  *)
(*                                                                         *)
(* The inductive invariant rests on the mutex: only the goroutine between  *)
(* Lock and its return touches the validator, so the answer it waits for,  *)
(* and the wake time it computed, still fit the poller when they are used. *)
(***************************************************************************)
EXTENDS GatewayPoller, TLAPS

Holding == {"wait", "get", "answered"}

\* The snapshot an answer carries is newer than the validator, a 304 confirms
\* it, and no answer is newer than the server.
AnswersFit ==
    \A t \in Threads : pc[t] = "answered" =>
        /\ answer[t].kind = "snapshot" =>
              etag < answer[t].version /\ answer[t].version <= version
        /\ answer[t].kind = "not_modified" => answer[t].version = etag

\* The timer of a waiting Poll is set for the poller's next poll time.
WakesFit ==
    \A t \in Threads : pc[t] = "wait" =>
        IF wake[t] = 0 THEN nextPoll <= clock ELSE wake[t] = nextPoll

DeliveredFit == ETagIsDelivered /\ etag <= version /\ VersionsAscend
PInv == TypeOK /\ AnswersFit /\ WakesFit /\ DeliveredFit
-----------------------------------------------------------------------------
\* What a sequence holds.
LEMMA ElementOf ==
    ASSUME NEW S, NEW s \in Seq(S), NEW i \in 1..Len(s)
    PROVE  s[i] \in S
OBVIOUS

\* The invariant holds of a new poller.
LEMMA PInit == Init => PInv
<1> SUFFICES ASSUME Init PROVE PInv
  OBVIOUS
<1> USE DEF Init
<1>1. TypeOK
  <2>1. NoAnswer \in Answers
    BY PollerAssumption DEF NoAnswer, Answers, Kinds
  <2>2. pc \in [Threads -> PCs]
    BY DEF PCs
  <2>3. cancelled \in [Threads -> BOOLEAN]
    BY Zenon
  <2> QED BY <2>1, <2>2, <2>3, PollerAssumption DEF TypeOK
<1>2. AnswersFit /\ WakesFit
  BY DEF AnswersFit, WakesFit
<1>3. DeliveredFit
  BY DEF DeliveredFit, ETagIsDelivered, Newest, VersionsAscend
<1> QED BY <1>1, <1>2, <1>3 DEF PInv

\* A goroutine that takes the mutex, gives it back, or keeps what it has.
LEMMA HolderMoves ==
    ASSUME TypeOK, NEW t \in Threads, NEW place \in PCs, Goto(t, place),
           \/ pc[t] \in Holding /\ place \notin Holding /\ mu' = NoThread
           \/ (pc[t] \in Holding <=> place \in Holding) /\ mu' = mu
           \/ mu = NoThread /\ place \in Holding /\ mu' = t
    PROVE  /\ pc' \in [Threads -> PCs] /\ mu' \in Threads \cup {NoThread}
           /\ \A u \in Threads : mu' = u <=> pc'[u] \in Holding
<1>1. pc' \in [Threads -> PCs] /\ mu' \in Threads \cup {NoThread}
  BY DEF TypeOK, Goto
<1>2. \A u \in Threads : pc'[u] = IF u = t THEN place ELSE pc[u]
  BY DEF TypeOK, Goto
<1>3. \A u \in Threads : mu = u <=> pc[u] \in Holding
  BY DEF TypeOK, Holding
<1> QED BY <1>1, <1>2, <1>3, PollerAssumption

\* The end of a Poll: the mutex, the timer and the answer are given back, and
\* no goroutine but this one was waiting, or had an answer.
LEMMA ReturnStep ==
    ASSUME PInv, NEW t \in Threads, pc[t] \in Holding, PollReturns(t)
    PROVE  /\ pc' \in [Threads -> PCs] /\ mu' \in Threads \cup {NoThread}
           /\ \A u \in Threads : mu' = u <=> pc'[u] \in {"wait", "get", "answered"}
           /\ wake' \in [Threads -> 0..MaxClock]
           /\ answer' \in [Threads -> Answers]
           /\ AnswersFit' /\ WakesFit'
<1>1. "idle" \in PCs /\ "idle" \notin Holding
  BY DEF PCs, Holding
<1>2. /\ pc' \in [Threads -> PCs] /\ mu' \in Threads \cup {NoThread}
      /\ \A u \in Threads : mu' = u <=> pc'[u] \in Holding
  BY <1>1, HolderMoves DEF PInv, PollReturns
<1>3. wake' \in [Threads -> 0..MaxClock] /\ answer' \in [Threads -> Answers]
  <2>1. NoAnswer \in Answers /\ 0 \in 0..MaxClock
    BY PollerAssumption DEF NoAnswer, Answers, Kinds
  <2> QED BY <2>1 DEF PollReturns, PInv, TypeOK
<1>4. mu' = NoThread
  BY DEF PollReturns
<1>5. \A u \in Threads : pc'[u] \notin Holding
  BY <1>2, <1>4, PollerAssumption
<1> QED BY <1>2, <1>3, <1>5 DEF AnswersFit, WakesFit, Holding

-----------------------------------------------------------------------------
(* One lemma for the response, the rest in PNext.                          *)

\* A response that arrives updates the poller to what is delivered.
LEMMA ArrivesStep ==
    ASSUME PInv, NEW t \in Threads, Arrives(t)
    PROVE  PInv'
<1> DEFINE reply == answer[t]
<1>1. pc[t] \in Holding
  BY DEF Arrives, Holding
<1>2. /\ pc' \in [Threads -> PCs] /\ mu' \in Threads \cup {NoThread}
      /\ \A u \in Threads : mu' = u <=> pc'[u] \in {"wait", "get", "answered"}
      /\ wake' \in [Threads -> 0..MaxClock]
      /\ answer' \in [Threads -> Answers]
      /\ AnswersFit' /\ WakesFit'
  BY <1>1, ReturnStep DEF Arrives
<1>3. reply \in Answers
  BY DEF PInv, TypeOK
<1>4. /\ reply.kind \in Kinds /\ reply.version \in 0..MaxVersion
      /\ reply.after \in 0..MaxAfter
  BY <1>3 DEF Answers
<1>5. Later(reply.after) \in 0..MaxClock
  BY <1>4, PollerAssumption DEF Later, PInv, TypeOK
<1>6. /\ reply.kind = "snapshot" =>
            etag < reply.version /\ reply.version <= version
      /\ reply.kind = "not_modified" => reply.version = etag
  BY DEF PInv, AnswersFit, Arrives
<1>7. /\ version' = version /\ clock' = clock /\ cancelled' = cancelled
      /\ asked' \in 0..MaxClock
  BY <1>5 DEF Arrives
<1>8. etag' \in 0..MaxVersion /\ nextPoll' \in 0..MaxClock
  BY <1>4, <1>5, PollerAssumption DEF Arrives, Update, poller, PInv, TypeOK
<1>9. delivered \in Seq(1..MaxVersion)
  BY DEF PInv, TypeOK
<1>10. CASE reply.kind = "snapshot"
  <2>1. delivered' = Append(delivered, reply.version) /\ etag' = reply.version
    BY <1>10 DEF Arrives, Update, Succeeded
  <2>2. reply.version \in 1..MaxVersion
    BY <1>4, <1>6, <1>10, PollerAssumption DEF PInv, TypeOK
  <2> DEFINE n == Len(delivered)
  <2>3. /\ delivered' \in Seq(1..MaxVersion)
        /\ Len(delivered') = n + 1 /\ n \in Nat /\ delivered' # << >>
        /\ delivered'[n + 1] = reply.version
        /\ \A i \in 1..n : delivered'[i] = delivered[i]
    BY <2>1, <2>2, <1>9
  <2>4. etag' = Newest' /\ etag' <= version'
    BY <2>1, <2>3, <1>6, <1>7, <1>10 DEF Newest
  <2>5. \A i \in 1..n : delivered[i] <= etag
    <3> SUFFICES ASSUME NEW i \in 1..n PROVE delivered[i] <= etag
      OBVIOUS
    <3>1. n # 0 /\ delivered # << >> /\ n \in 1..n /\ delivered[n] = etag
      BY <1>9 DEF PInv, DeliveredFit, ETagIsDelivered, Newest
    <3>2. i < n => delivered[i] < delivered[n]
      BY <3>1 DEF PInv, DeliveredFit, VersionsAscend
    <3>3. delivered[i] \in 1..MaxVersion
      BY <1>9, ElementOf
    <3>4. etag \in 0..MaxVersion
      BY DEF PInv, TypeOK
    <3> QED BY <3>1, <3>2, <3>3, <3>4, <2>3, PollerAssumption
  <2>6. VersionsAscend'
    <3> SUFFICES ASSUME NEW i \in 1..(n + 1), NEW j \in 1..(n + 1), i < j
                 PROVE  delivered'[i] < delivered'[j]
      BY <2>3 DEF VersionsAscend
    <3>1. i \in 1..n /\ delivered'[i] = delivered[i]
      BY <2>3
    <3>2. CASE j = n + 1
      <4>1. delivered[i] <= etag /\ etag < reply.version
        BY <2>5, <3>1, <1>6, <1>10
      <4>2. delivered[i] \in Nat /\ etag \in Nat /\ reply.version \in Nat
        BY <1>9, <3>1, <1>4, PollerAssumption DEF PInv, TypeOK
      <4> QED BY <4>1, <4>2, <3>1, <3>2, <2>3
    <3>3. CASE j \in 1..n
      BY <3>1, <3>3, <2>3 DEF PInv, DeliveredFit, VersionsAscend
    <3> QED BY <3>2, <3>3, <2>3
  <2> QED BY <1>2, <1>7, <1>8, <2>3, <2>4, <2>6
          DEF PInv, TypeOK, DeliveredFit, ETagIsDelivered
<1>11. CASE reply.kind # "snapshot"
  <2>1. delivered' = delivered /\ etag' = etag
    BY <1>6, <1>11 DEF Arrives, Update, Succeeded, poller
  <2> QED BY <1>2, <1>7, <1>8, <2>1
          DEF PInv, TypeOK, DeliveredFit, ETagIsDelivered, Newest, VersionsAscend
<1> QED BY <1>10, <1>11
-----------------------------------------------------------------------------
\* Every step keeps the invariant.
LEMMA PNext == PInv /\ [Next]_pollVars => PInv'
<1> SUFFICES ASSUME PInv, [Next]_pollVars PROVE PInv'
  OBVIOUS
<1> USE DEF poller, history
<1>1. CASE UNCHANGED pollVars
  BY <1>1 DEF pollVars, PInv, TypeOK, AnswersFit, WakesFit, DeliveredFit,
              ETagIsDelivered, Newest, VersionsAscend
<1>2. CASE Tick
  <2>1. clock' \in 0..MaxClock /\ clock <= clock' /\ clock \in Nat
    BY <1>2, PollerAssumption DEF Tick, PInv, TypeOK
  <2>2. TypeOK'
    BY <1>2, <2>1 DEF Tick, PInv, TypeOK
  <2>3. WakesFit'
    <3>1. nextPoll \in Nat
      BY PollerAssumption DEF PInv, TypeOK
    <3>2. clock' \in Nat
      BY <2>1, PollerAssumption
    <3> QED BY <1>2, <2>1, <3>1, <3>2 DEF Tick, PInv, WakesFit
  <2> QED BY <1>2, <2>2, <2>3 DEF Tick, PInv, AnswersFit, DeliveredFit,
                                  ETagIsDelivered, Newest, VersionsAscend
<1>3. CASE Advance
  <2>1. version' \in 1..MaxVersion /\ version' = version + 1 /\ version \in Nat
    BY <1>3, PollerAssumption DEF Advance, PInv, TypeOK
  <2>2. AnswersFit'
    <3>1. \A t \in Threads : answer[t].version \in 0..MaxVersion
      BY DEF PInv, TypeOK, Answers
    <3> QED BY <1>3, <2>1, <3>1, PollerAssumption DEF Advance, PInv, AnswersFit
  <2>3. DeliveredFit'
    <3>1. etag \in 0..MaxVersion
      BY DEF PInv, TypeOK
    <3> QED BY <1>3, <2>1, <3>1, PollerAssumption
            DEF Advance, PInv, DeliveredFit, ETagIsDelivered, Newest, VersionsAscend
  <2> QED BY <1>3, <2>1, <2>2, <2>3 DEF Advance, PInv, TypeOK, WakesFit
<1>4. ASSUME NEW t \in Threads, Cancel(t) PROVE PInv'
  <2>1. cancelled' \in [Threads -> BOOLEAN]
    BY <1>4 DEF Cancel, PInv, TypeOK
  <2> QED BY <1>4, <2>1 DEF Cancel, PInv, TypeOK, AnswersFit, WakesFit,
                            DeliveredFit, ETagIsDelivered, Newest, VersionsAscend
<1>5. ASSUME NEW t \in Threads, BeginPoll(t) \/ BeginETag(t) \/ ReturnETag(t)
      PROVE  PInv'
  <2>1. PICK place \in PCs : Goto(t, place) /\ place \notin Holding /\ pc[t] \notin Holding
    BY <1>5 DEF BeginPoll, BeginETag, ReturnETag, PCs, Holding
  <2>2. /\ UNCHANGED <<version, clock, mu, etag, nextPoll, wake, answer, delivered, asked>>
        /\ cancelled' \in [Threads -> BOOLEAN]
    BY <1>5 DEF BeginPoll, BeginETag, ReturnETag, PInv, TypeOK
  <2>3. /\ pc' \in [Threads -> PCs] /\ mu' \in Threads \cup {NoThread}
        /\ \A u \in Threads : mu' = u <=> pc'[u] \in Holding
    BY <2>1, <2>2, HolderMoves DEF PInv
  <2>4. \A u \in Threads : pc'[u] \in Holding => pc'[u] = pc[u]
    BY <2>1 DEF Goto, PInv, TypeOK
  <2>5. AnswersFit' /\ WakesFit'
    BY <2>2, <2>4 DEF AnswersFit, WakesFit, PInv, Holding
  <2> QED BY <2>2, <2>3, <2>5 DEF PInv, TypeOK, Holding, DeliveredFit,
                                  ETagIsDelivered, Newest, VersionsAscend
<1>6. ASSUME NEW t \in Threads, Lock(t) PROVE PInv'
  <2>1. "wait" \in PCs /\ "wait" \in Holding
    BY DEF PCs, Holding
  <2>2. /\ pc' \in [Threads -> PCs] /\ mu' \in Threads \cup {NoThread}
        /\ \A u \in Threads : mu' = u <=> pc'[u] \in Holding
    BY <1>6, <2>1, HolderMoves DEF Lock, PInv
  <2>3. wake' \in [Threads -> 0..MaxClock] /\ pc'[t] = "wait"
        /\ wake'[t] = IF nextPoll > clock THEN nextPoll ELSE 0
    BY <1>6, PollerAssumption DEF Lock, Goto, PInv, TypeOK
  <2>4. \A u \in Threads : pc'[u] \in Holding => u = t
    BY <1>6, <2>2, PollerAssumption DEF Lock
  <2>5. WakesFit'
    <3>1. nextPoll \in Nat /\ clock \in Nat
      BY PollerAssumption DEF PInv, TypeOK
    <3> QED BY <1>6, <2>3, <2>4, <3>1 DEF Lock, WakesFit, Holding
  <2>6. AnswersFit'
    BY <2>3, <2>4 DEF AnswersFit, Holding
  <2> QED BY <1>6, <2>2, <2>3, <2>5, <2>6
          DEF Lock, PInv, TypeOK, Holding, DeliveredFit, ETagIsDelivered, Newest,
              VersionsAscend
<1>7. ASSUME NEW t \in Threads, Send(t) PROVE PInv'
  <2>1. /\ "get" \in PCs /\ "get" \in Holding /\ pc[t] \in Holding
        /\ Goto(t, "get") /\ mu' = mu
    BY <1>7 DEF Send, PCs, Holding
  <2>2. /\ pc' \in [Threads -> PCs] /\ mu' \in Threads \cup {NoThread}
        /\ \A u \in Threads : mu' = u <=> pc'[u] \in Holding
    BY <2>1, HolderMoves DEF PInv
  <2>3. \A u \in Threads : pc'[u] = IF u = t THEN "get" ELSE pc[u]
    BY <2>1 DEF Goto, PInv, TypeOK
  <2>4. AnswersFit' /\ WakesFit'
    BY <1>7, <2>3 DEF Send, PInv, AnswersFit, WakesFit
  <2> QED BY <1>7, <2>2, <2>4 DEF Send, PInv, TypeOK, Holding, DeliveredFit,
                                  ETagIsDelivered, Newest, VersionsAscend
<1>8. ASSUME NEW t \in Threads, NEW reply \in Answers, ServerAnswers(t, reply)
      PROVE  PInv'
  <2>1. /\ "answered" \in PCs /\ "answered" \in Holding /\ pc[t] \in Holding
        /\ Goto(t, "answered") /\ mu' = mu
    BY <1>8 DEF ServerAnswers, PCs, Holding
  <2>2. /\ pc' \in [Threads -> PCs] /\ mu' \in Threads \cup {NoThread}
        /\ \A u \in Threads : mu' = u <=> pc'[u] \in Holding
    BY <2>1, HolderMoves DEF PInv
  <2>3. \A u \in Threads : /\ pc'[u] = IF u = t THEN "answered" ELSE pc[u]
                           /\ answer'[u] = IF u = t THEN reply ELSE answer[u]
    BY <1>8, <2>1 DEF ServerAnswers, Goto, PInv, TypeOK
  <2>4. answer' \in [Threads -> Answers]
    BY <1>8 DEF ServerAnswers, PInv, TypeOK
  <2>5. AnswersFit'
    <3>1. /\ reply.kind = "snapshot" => etag < reply.version /\ reply.version <= version
          /\ reply.kind = "not_modified" => reply.version = etag
      <4>1. etag <= version /\ etag \in Nat /\ version \in Nat
        BY PollerAssumption DEF PInv, DeliveredFit, TypeOK
      <4> QED BY <1>8, <4>1 DEF ServerAnswers
    <3> QED BY <1>8, <2>3, <3>1 DEF ServerAnswers, PInv, AnswersFit
  <2>6. WakesFit'
    BY <1>8, <2>3 DEF ServerAnswers, PInv, WakesFit
  <2> QED BY <1>8, <2>2, <2>4, <2>5, <2>6
          DEF ServerAnswers, PInv, TypeOK, Holding, DeliveredFit, ETagIsDelivered,
              Newest, VersionsAscend
<1>9. ASSUME NEW t \in Threads, WaitCancelled(t) \/ GetFails(t) PROVE PInv'
  <2>1. pc[t] \in Holding /\ PollReturns(t)
    BY <1>9 DEF WaitCancelled, GetFails, Holding
  <2> QED BY <1>9, <2>1, ReturnStep
          DEF WaitCancelled, GetFails, PInv, TypeOK, DeliveredFit, ETagIsDelivered,
              Newest, VersionsAscend
<1> QED BY <1>1, <1>2, <1>3, <1>4, <1>5, <1>6, <1>7, <1>8, <1>9, ArrivesStep
        DEF Next, PollStep
-----------------------------------------------------------------------------
(* The theorems.                                                           *)

\* The invariant holds of every behaviour.
LEMMA PollerInvariant == Spec => []PInv
BY PInit, PNext, PTL DEF Spec

\* Every variable of the poller keeps its type, and the goroutine between Lock
\* and the end of its Poll holds the mutex.
THEOREM PollerTypeCorrect == Spec => []TypeOK
<1>1. PInv => TypeOK
  BY DEF PInv
<1> QED BY PollerInvariant, <1>1, PTL

\* No goroutine is handed a snapshot twice, or after a newer one, however many
\* share the poller and however late the responses of their GETs are.
THEOREM DeliveredVersionsAscend == Spec => []VersionsAscend
<1>1. PInv => VersionsAscend
  BY DEF PInv, DeliveredFit
<1> QED BY PollerInvariant, <1>1, PTL

\* The validator sent in If-None-Match is the version last handed out, so a
\* 304 hides nothing from the callers.
THEOREM ETagNamesDelivered == Spec => []ETagIsDelivered
<1>1. PInv => ETagIsDelivered
  BY DEF PInv, DeliveredFit
<1> QED BY PollerInvariant, <1>1, PTL

\* A GET leaves only when the Retry-After of the last successful response has
\* elapsed: the wait computed at Lock cannot be overtaken by another Poll.
THEOREM RetryAfterIsHonoured == Spec => RetryAfterHonoured
<1>1. ASSUME PInv, [Next]_pollVars, NEW t \in Threads,
             pc[t] = "wait", pc'[t] = "get"
      PROVE  nextPoll <= clock
  <2>1. /\ \A u \in Threads : pc[u] = "wait" =>
              IF wake[u] = 0 THEN nextPoll <= clock ELSE wake[u] = nextPoll
        /\ pc \in [Threads -> PCs]
    BY <1>1 DEF PInv, WakesFit, TypeOK
  <2>2. ASSUME NEW u \in Threads, NEW place, Goto(u, place), place # "get"
        PROVE  FALSE
    BY <1>1, <2>1, <2>2 DEF Goto
  <2>3. Send(t)
    <3>1. \E u \in Threads : Send(u)
      BY <1>1, <2>2 DEF Next, pollVars, Tick, Advance, Cancel, BeginPoll, BeginETag,
         Lock, ReturnETag, PollStep, WaitCancelled, GetFails, Arrives, PollReturns,
         ServerAnswers
    <3> QED BY <1>1, <2>1, <3>1 DEF Send, Goto
  <2> QED BY <1>1, <2>1, <2>3 DEF Send
<1>2. PInv /\ [Next]_pollVars =>
        [\A t \in Threads :
            pc[t] = "wait" /\ pc'[t] = "get" => nextPoll <= clock]_pollVars
  BY <1>1
<1> QED BY PollerInvariant, <1>2, PTL DEF Spec, RetryAfterHonoured
=============================================================================
