------------------------ MODULE GatewayCreate_proofs ------------------------
(***************************************************************************)
(* Proofs about GatewayCreate, for any number of goroutines and keys, with *)
(* every answer the server may give and whatever is lost or late.          *)
(***************************************************************************)
EXTENDS GatewayCreate, FiniteSetTheorems, TLAPS

\* The answer names the invocation or none: Location does, or the snapshot if there is
\* no Location, or the details of an error; or it names none.
Truthful(reply, id) ==
    \/ /\ reply \in AcceptedAnswers /\ id # 0
       /\ reply.location = id \/ (reply.location = 0 /\ reply.snapshot = id)
    \/ reply \in ExistsAnswers /\ reply.location \in {0, id}
    \/ reply \in StreamAnswers
    \/ reply \in OtherAnswers /\ reply.location \in {0, id}
    \/ reply \in ErrorAnswers /\ reply.details \in {0, id}

AnswersTrue == \A i \in Intents : pc[i] = "answered" => Truthful(answer[i], stored[key[i]])

\* Until an intent is done no answer has named its invocation.
Unnamed == \A i \in Intents : pc[i] # "done" => ~named[i]

Histories == named \in [Intents -> BOOLEAN] /\ refused \in [Intents -> BOOLEAN]

Inv == TypeOK /\ Histories /\ AnswersTrue /\ ToldTheTruth /\ Unnamed /\ EndsInformed

Outcomes == {"created", "exists", "stream", "error"}

\* What create makes of a truthful answer: it returns the id or none, it asks
\* for no retry of what was named, and it ends for a reason.
LEMMA ResultSound ==
    ASSUME NEW reply \in Answers, NEW id \in Ids, Truthful(reply, id)
    PROVE  /\ CreateResult(reply).told \in {0, id}
           /\ CreateResult(reply).outcome \in Outcomes
           /\ CreateResult(reply).retryable \in BOOLEAN
           /\ CreateResult(reply).retryable =>
                ~NamesPlainly(reply) /\ CreateResult(reply).outcome = "error"
           /\ ~CreateResult(reply).retryable =>
                \/ CreateResult(reply).told # 0 \/ Refuses(reply)
                \/ CreateResult(reply).outcome = "stream"
           /\ NamesPlainly(reply) => CreateResult(reply).told # 0
<1> DEFINE r == CreateResult(reply)
<1> USE DEF Outcomes, Ids, Invocations, NamesPlainly
<1>1. CASE reply \in AcceptedAnswers
  <2>1. reply.status = "accepted" /\ reply.media \in BOOLEAN
    BY <1>1 DEF AcceptedAnswers
  <2>2. id # 0 /\ (reply.location = id \/ (reply.location = 0 /\ reply.snapshot = id))
    BY <1>1 DEF Truthful, AcceptedAnswers, ExistsAnswers, StreamAnswers, OtherAnswers,
            ErrorAnswers
  <2>3. r = Accepted(reply)
    BY <2>1 DEF CreateResult
  <2>4. CASE ~reply.media \/ reply.snapshot = 0
    <3>1. r = Fails(ProtocolError(reply.location))
      BY <2>3, <2>4 DEF Accepted
    <3>2. reply.location = id \/ (reply.location = 0 /\ ~reply.media)
      BY <2>2, <2>4
    <3>3. r = [outcome |-> "error", told |-> reply.location, retryable |-> reply.location = 0]
      BY <3>1 DEF Fails, ProtocolError, GatewayError, RetryableByCode
    <3>4. r.told = reply.location /\ r.outcome = "error" /\ r.retryable = (reply.location = 0)
      BY <3>3
    <3>5. reply.location = 0 => ~Names(reply)
      BY <2>1, <2>2, <3>2 DEF Names
    <3> QED
      BY <2>2, <3>2, <3>4, <3>5
  <2>5. CASE reply.media /\ reply.snapshot # 0 /\ reply.location # reply.snapshot
    BY <2>1, <2>2, <2>3, <2>5
    DEF Accepted, Fails, ProtocolError, GatewayError, RetryableByCode, Recovered
  <2>6. CASE reply.media /\ reply.snapshot # 0 /\ reply.location = reply.snapshot
    BY <2>2, <2>3, <2>6 DEF Accepted, Ends
  <2> QED
    BY <2>1, <2>4, <2>5, <2>6
<1>2. CASE reply \in ExistsAnswers
  <2>1. reply.status = "exists"
    BY <1>2 DEF ExistsAnswers
  <2>2. reply.location \in {0, id}
    BY <1>2 DEF Truthful, AcceptedAnswers, ExistsAnswers, StreamAnswers, OtherAnswers,
            ErrorAnswers
  <2>3. r = Exists(reply)
    BY <2>1 DEF CreateResult
  <2> QED
    BY <2>1, <2>2, <2>3
    DEF Exists, Ends, Fails, ProtocolError, GatewayError, RetryableByCode, Names
<1>3. CASE reply \in StreamAnswers
  <2>1. reply.status = "stream" /\ r = Stream
    BY <1>3 DEF StreamAnswers, CreateResult
  <2> QED
    BY <2>1 DEF Stream, Ends, Names
<1>4. CASE reply \in OtherAnswers
  <2>1. reply.status = "other" /\ r = OutOfPlace
    BY <1>4 DEF OtherAnswers, CreateResult
  <2> QED
    BY <2>1 DEF OutOfPlace, Fails, ProtocolError, GatewayError, RetryableByCode
<1>5. CASE reply \in ErrorAnswers
  <2>1. reply.status = "error" /\ reply.code \in Codes /\ reply.wire \in Wire
    BY <1>5 DEF ErrorAnswers
  <2>2. reply.details \in {0, id}
    BY <1>5 DEF Truthful, AcceptedAnswers, ExistsAnswers, StreamAnswers, OtherAnswers,
            ErrorAnswers
  <2>3. r = Fails(ErrorFromAnswer(reply))
    BY <2>1 DEF CreateResult
  <2>4. r.told \in {0, id} /\ r.outcome = "error" /\ r.retryable \in BOOLEAN
    BY <2>2, <2>3
    DEF Fails, ErrorFromAnswer, ProtocolError, GatewayError, RetryableByCode
  <2>5. r.retryable => ~NamesPlainly(reply)
    BY <2>1, <2>3
    DEF Fails, ErrorFromAnswer, ProtocolError, GatewayError, RetryableByCode, Names,
        AsksAgain, Codes, Wire
  <2>6. ~r.retryable => r.told # 0 \/ Refuses(reply)
    BY <2>1, <2>3
    DEF Fails, ErrorFromAnswer, ProtocolError, GatewayError, RetryableByCode, Refuses, Codes, Wire
  <2>7. NamesPlainly(reply) => r.told # 0
    BY <2>1, <2>3 DEF Fails, ErrorFromAnswer, GatewayError, Names
  <2> QED
    BY <2>4, <2>5, <2>6, <2>7
<1> QED
  BY <1>1, <1>2, <1>3, <1>4, <1>5 DEF Answers
-----------------------------------------------------------------------------
\* The next invocation is a new number, and there is one for every key.
LEMMA NextIsNew ==
    ASSUME TypeOK, NEW k \in Keys, stored[k] = 0
    PROVE  NextInvocation \in Ids /\ NextInvocation # 0
<1> DEFINE used == {l \in Keys : stored[l] # 0}
<1>1. IsFiniteSet(Keys) /\ used \in SUBSET Keys /\ used # Keys
  BY CreateAssumption
<1>2. IsFiniteSet(used) /\ Cardinality(used) <= Cardinality(Keys)
      /\ (Cardinality(Keys) = Cardinality(used) => Keys = used)
  BY <1>1, FS_Subset
<1>3. Cardinality(Keys) \in Nat /\ Cardinality(used) \in Nat
  BY <1>1, <1>2, FS_CardinalityType
<1>4. NextInvocation = Cardinality(used) + 1
  BY DEF NextInvocation
<1> QED
  BY <1>1, <1>2, <1>3, <1>4 DEF Ids, Invocations

\* What an answer names is not forgotten, whatever else is stored.
LEMMA TruthfulStays ==
    ASSUME NEW reply, NEW id, NEW after, Truthful(reply, id), id # 0 => after = id
    PROVE  Truthful(reply, after)
<1>1. CASE id # 0
  BY <1>1
<1>2. CASE id = 0
  BY <1>2 DEF Truthful
<1> QED
  BY <1>1, <1>2

LEMMA InitInv == Init => Inv
<1> SUFFICES ASSUME Init PROVE Inv
  OBVIOUS
<1>1. NoAnswer \in Answers
  BY DEF NoAnswer, Answers, StreamAnswers
<1>2. TypeOK /\ Histories
  BY <1>1 DEF Init, TypeOK, Histories, Ids
<1>3. AnswersTrue /\ ToldTheTruth /\ Unnamed /\ EndsInformed
  BY DEF Init, AnswersTrue, ToldTheTruth, Unnamed, EndsInformed
<1> QED
  BY <1>2, <1>3 DEF Inv

\* The server's steps: what it stores is new, what it answers is true of it.
LEMMA ServerStepInv ==
    ASSUME Inv, NEW i \in Intents, NEW reply \in Answers,
           Create(i, reply) \/ Redirect(i, reply) \/ Refuse(i, reply)
    PROVE  Inv'
<1> USE DEF Inv
<1>1. /\ answer' = [answer EXCEPT ![i] = reply] /\ pc' = [pc EXCEPT ![i] = "answered"]
      /\ UNCHANGED <<delayed, mode, key, outcome, told, named, refused>>
      /\ pc[i] = "sent"
  BY DEF Create, Redirect, Refuse, Respond, result
<1>2. key[i] \in Keys
  BY DEF TypeOK
<1>3. \/ UNCHANGED stored
      \/ stored[key[i]] = 0 /\ stored' = [stored EXCEPT ![key[i]] = NextInvocation]
  BY DEF Create, Redirect, Refuse, Store
<1>4. stored' \in [Keys -> Ids]
  BY <1>2, <1>3, NextIsNew DEF TypeOK
<1>5. \A k \in Keys : stored[k] # 0 => stored'[k] = stored[k]
  BY <1>2, <1>3 DEF TypeOK
<1>6. Truthful(reply, stored'[key[i]])
  <2>1. CASE Create(i, reply)
    <3>1. stored'[key[i]] = NextInvocation /\ NextInvocation # 0
      BY <1>2, <2>1, NextIsNew DEF Create, Store, TypeOK
    <3>2. CASE CreatedAnswer(i, NextInvocation, reply)
      BY <3>1, <3>2 DEF CreatedAnswer, Truthful
    <3>3. CASE LateError(NextInvocation, reply)
      BY <3>1, <3>3 DEF LateError, Truthful
    <3> QED
      BY <2>1, <3>2, <3>3 DEF Create
  <2>2. CASE Redirect(i, reply)
    <3>1. stored'[key[i]] = stored[key[i]]
      BY <2>2 DEF Redirect
    <3>2. CASE reply \in ExistsAnswers \cup OtherAnswers
               /\ reply.location \in {0, stored[key[i]]}
      BY <3>1, <3>2 DEF Truthful
    <3>3. CASE LateError(stored[key[i]], reply)
      BY <3>1, <3>3 DEF LateError, Truthful
    <3> QED
      BY <2>2, <3>2, <3>3 DEF Redirect
  <2>3. CASE Refuse(i, reply)
    BY <2>3 DEF Refuse, Truthful
  <2> QED
    BY <2>1, <2>2, <2>3
<1>7. TypeOK' /\ Histories'
  BY <1>1, <1>4 DEF TypeOK, Histories
<1>8. AnswersTrue'
  <2> SUFFICES ASSUME NEW j \in Intents, pc'[j] = "answered"
               PROVE  Truthful(answer'[j], stored'[key'[j]])
    BY DEF AnswersTrue
  <2>1. CASE j = i
    BY <1>1, <1>6, <2>1 DEF TypeOK
  <2>2. CASE j # i
    <3>1. pc[j] = "answered" /\ answer'[j] = answer[j] /\ key'[j] = key[j] /\ key[j] \in Keys
      BY <1>1, <2>2 DEF TypeOK
    <3>2. Truthful(answer[j], stored[key[j]])
      BY <3>1 DEF AnswersTrue
    <3> QED
      BY <1>5, <3>1, <3>2, TruthfulStays
  <2> QED
    BY <2>1, <2>2
<1>9. ToldTheTruth'
  BY <1>1, <1>5 DEF ToldTheTruth, TypeOK
<1>10. Unnamed' /\ EndsInformed'
  BY <1>1 DEF Unnamed, EndsInformed, TypeOK
<1> QED
  BY <1>7, <1>8, <1>9, <1>10
-----------------------------------------------------------------------------
\* A call returns r: with nothing new known (LocalError, RequestFails,
\* ContextDone), or with what create made of the answer (Receive).
Returned(i, r) ==
    /\ pc[i] \in {"sent", "answered"}
    /\ CreateReturns(i, r)
    /\ UNCHANGED <<stored, mode, key>> /\ delayed' \subseteq Keys
    /\ answer' \in [Intents -> Answers] /\ Histories'
    /\ \A j \in Intents \ {i} :
        answer'[j] = answer[j] /\ named'[j] = named[j] /\ refused'[j] = refused[j]
    /\ r.told \in {0, stored[key[i]]} /\ r.outcome \in Outcomes \cup {"context", "local"}
    /\ \/ r.retryable = TRUE /\ r.outcome = "error" /\ ~named'[i]
       \/ /\ r.retryable = FALSE
          /\ \/ r.told # 0 \/ refused'[i]
             \/ r.outcome \in {"stream", "context", "local"}
          /\ named'[i] => r.told # 0

LEMMA ReturnInv ==
    ASSUME Inv, NEW i \in Intents, NEW r, Returned(i, r)
    PROVE  Inv'
<1> USE DEF Inv, CreateReturns, Returned
<1>1. key[i] \in Keys /\ stored[key[i]] \in Ids /\ 0 \in Ids
  BY DEF TypeOK, Ids
<1>2. pc'[i] = (IF r.retryable THEN "failed" ELSE "done") /\ told'[i] = r.told
      /\ outcome'[i] = r.outcome
  BY DEF TypeOK
<1>3. \A j \in Intents \ {i} :
        pc'[j] = pc[j] /\ told'[j] = told[j] /\ outcome'[j] = outcome[j]
  BY DEF TypeOK
<1>4. TypeOK'
  <2>1. told' \in [Intents -> Ids]
    BY <1>1 DEF TypeOK
  <2>2. pc' \in [Intents -> {"ready", "sent", "answered", "failed", "done"}]
        /\ outcome' \in [Intents -> {"none", "created", "exists", "stream", "error",
                                      "context", "local"}]
    BY DEF TypeOK, Outcomes
  <2>3. \A j \in Intents :
          /\ pc'[j] \in {"failed", "done"} <=> outcome'[j] # "none"
          /\ pc'[j] = "failed" => outcome'[j] = "error"
    BY <1>2, <1>3 DEF TypeOK, Outcomes
  <2>4. {named'[j] : j \in Intents} \cup {refused'[j] : j \in Intents} \subseteq BOOLEAN
    BY DEF Histories
  <2> QED
    BY <2>1, <2>2, <2>3, <2>4 DEF TypeOK
<1>5. AnswersTrue'
  BY <1>2, <1>3 DEF AnswersTrue
<1>6. ToldTheTruth'
  BY <1>2, <1>3 DEF ToldTheTruth
<1>7. Unnamed' /\ EndsInformed'
  BY <1>2, <1>3 DEF Unnamed, EndsInformed
<1> QED
  BY <1>4, <1>5, <1>6, <1>7

LEMMA ReceiveInv ==
    ASSUME Inv, NEW i \in Intents, Receive(i)
    PROVE  Inv'
<1> DEFINE r == CreateResult(answer[i])
<1>1. pc[i] = "answered" /\ answer[i] \in Answers /\ stored[key[i]] \in Ids /\ ~named[i]
  BY DEF Receive, Inv, TypeOK, Unnamed
<1>2. Truthful(answer[i], stored[key[i]])
  BY <1>1 DEF Inv, AnswersTrue
<1>3. /\ r.told \in {0, stored[key[i]]} /\ r.outcome \in Outcomes
      /\ r.retryable \in BOOLEAN
      /\ r.retryable => ~NamesPlainly(answer[i]) /\ r.outcome = "error"
      /\ ~r.retryable => r.told # 0 \/ Refuses(answer[i]) \/ r.outcome = "stream"
      /\ NamesPlainly(answer[i]) => r.told # 0
  BY <1>1, <1>2, ResultSound
<1>4. NoAnswer \in Answers
  BY DEF NoAnswer, Answers, StreamAnswers
<1>5. NamesPlainly(answer[i]) \in BOOLEAN /\ Refuses(answer[i]) \in BOOLEAN
  BY DEF NamesPlainly, Refuses
<1>6. named'[i] = NamesPlainly(answer[i]) /\ refused'[i] = Refuses(answer[i]) /\ Histories'
  BY <1>1, <1>5 DEF Receive, Inv, Histories
<1>7. \A j \in Intents \ {i} :
        answer'[j] = answer[j] /\ named'[j] = named[j] /\ refused'[j] = refused[j]
  BY DEF Receive, Inv, TypeOK, Histories
<1>8. answer' \in [Intents -> Answers] /\ delayed' \subseteq Keys
      /\ UNCHANGED <<stored, mode, key>> /\ CreateReturns(i, r)
  BY <1>4 DEF Receive, Inv, TypeOK, server
<1>9. \/ r.retryable = TRUE /\ r.outcome = "error" /\ ~named'[i]
      \/ /\ r.retryable = FALSE
         /\ r.told # 0 \/ refused'[i] \/ r.outcome \in {"stream", "context", "local"}
         /\ named'[i] => r.told # 0
  BY <1>3, <1>6
<1> HIDE DEF r
<1> QED
  <2>1. Returned(i, r)
    BY <1>1, <1>3, <1>6, <1>7, <1>8, <1>9 DEF Returned
  <2> QED
    BY <2>1, ReturnInv DEF Receive

\* LocalError, RequestFails and ContextDone: nothing was named.
LEMMA LostInv ==
    ASSUME Inv, NEW i \in Intents, LocalError(i) \/ RequestFails(i) \/ ContextDone(i)
    PROVE  Inv'
<1>1. /\ pc[i] \in {"sent", "answered"} /\ UNCHANGED <<stored, mode, key, answer, named, refused>>
      /\ delayed' \subseteq Keys
  BY DEF LocalError, RequestFails, ContextDone, server, Inv, TypeOK
<1>2. ~named'[i] /\ Histories' /\ answer' \in [Intents -> Answers]
  BY <1>1 DEF Inv, Unnamed, Histories, TypeOK
<1>3. CASE RequestFails(i)
  <2> DEFINE r == Fails(ProtocolError(0))
  <2>1. r.retryable = TRUE /\ r.told = 0 /\ r.outcome = "error"
    BY DEF Fails, ProtocolError, GatewayError, RetryableByCode
  <2>2. CreateReturns(i, r)
    BY <1>3 DEF RequestFails
  <2> HIDE DEF r
  <2> QED
    <3>1. Returned(i, r)
      BY <1>1, <1>2, <2>1, <2>2 DEF Returned, Outcomes
    <3> QED
      BY <3>1, ReturnInv
<1>4. ASSUME NEW how \in {"context", "local"}, CreateReturns(i, Ends(how, 0)) PROVE Inv'
  <2> DEFINE r == Ends(how, 0)
  <2>1. r.retryable = FALSE /\ r.told = 0 /\ r.outcome = how
    BY DEF Ends
  <2>2. CreateReturns(i, r)
    BY <1>4
  <2> HIDE DEF r
  <2> QED
    <3>1. Returned(i, r)
      BY <1>1, <1>2, <2>1, <2>2 DEF Returned, Outcomes
    <3> QED
      BY <3>1, ReturnInv
<1> QED
  BY <1>3, <1>4 DEF ContextDone, LocalError

\* Submit and Resubmit: a call under way has no result yet.
LEMMA SubmitInv ==
    ASSUME Inv, NEW i \in Intents, Submit(i) \/ \E k \in Keys : Resubmit(i, k)
    PROVE  Inv'
<1> USE DEF Inv
<1>1. CASE Submit(i)
  <2>1. TypeOK' /\ Histories'
    BY <1>1 DEF Submit, server, result, TypeOK, Histories
  <2>2. AnswersTrue' /\ ToldTheTruth' /\ Unnamed' /\ EndsInformed'
    BY <1>1 DEF Submit, server, result, TypeOK, AnswersTrue, ToldTheTruth, Unnamed, EndsInformed
  <2> QED
    BY <2>1, <2>2
<1>2. ASSUME NEW k \in Keys, Resubmit(i, k) PROVE Inv'
  <2>1. 0 \in Ids
    BY DEF Ids
  <2>2. TypeOK' /\ Histories'
    BY <1>2, <2>1 DEF Resubmit, server, TypeOK, Histories
  <2>3. \A j \in Intents \ {i} : pc'[j] = pc[j] /\ key'[j] = key[j] /\ told'[j] = told[j]
            /\ outcome'[j] = outcome[j]
    BY <1>2 DEF Resubmit, TypeOK
  <2>4. pc[i] = "failed" /\ pc'[i] = "sent" /\ told'[i] = 0
        /\ UNCHANGED <<stored, answer, named, refused>>
    BY <1>2 DEF Resubmit, server, TypeOK
  <2>5. AnswersTrue' /\ ToldTheTruth' /\ Unnamed' /\ EndsInformed'
    BY <2>3, <2>4 DEF AnswersTrue, ToldTheTruth, Unnamed, EndsInformed
  <2> QED
    BY <2>2, <2>5
<1> QED
  BY <1>1, <1>2

\* A late request stores what was not stored; no name that was told changes.
LEMMA DelayedInv ==
    ASSUME Inv, NEW k \in Keys, DelayedArrives(k)
    PROVE  Inv'
<1> USE DEF Inv
<1>1. UNCHANGED <<mode, key, pc, answer, outcome, told, named, refused>> /\ delayed' \subseteq Keys
  BY DEF DelayedArrives, result, TypeOK
<1>2. stored' \in [Keys -> Ids]
  BY NextIsNew DEF DelayedArrives, Store, TypeOK
<1>3. \A l \in Keys : stored[l] # 0 => stored'[l] = stored[l]
  BY DEF DelayedArrives, Store, TypeOK
<1>4. TypeOK' /\ Histories' /\ Unnamed' /\ EndsInformed'
  BY <1>1, <1>2 DEF TypeOK, Histories, Unnamed, EndsInformed
<1>5. ToldTheTruth'
  BY <1>1, <1>3 DEF ToldTheTruth, TypeOK
<1>6. AnswersTrue'
  BY <1>1, <1>3, TruthfulStays DEF AnswersTrue, TypeOK
<1> QED
  BY <1>4, <1>5, <1>6

LEMMA NextInv == Inv /\ [Next]_createVars => Inv'
<1> SUFFICES ASSUME Inv, [Next]_createVars PROVE Inv'
  OBVIOUS
<1>1. CASE UNCHANGED createVars
  BY <1>1 DEF createVars, server, result, Inv, TypeOK, Histories, AnswersTrue, ToldTheTruth,
              Unnamed, EndsInformed
<1>2. CASE \E k \in Keys : DelayedArrives(k)
  BY <1>2, DelayedInv
<1>3. ASSUME NEW i \in Intents, ClientStep(i) PROVE Inv'
  BY <1>3, ReceiveInv, LostInv, SubmitInv DEF ClientStep
<1>4. ASSUME NEW i \in Intents, ServerStep(i) PROVE Inv'
  BY <1>4, ServerStepInv DEF ServerStep
<1> QED
  BY <1>1, <1>2, <1>3, <1>4 DEF Next

LEMMA Invariance == Spec => []Inv
  BY InitInv, NextInv, PTL DEF Spec
-----------------------------------------------------------------------------
\* Every variable keeps its type; a call that has not returned has no result,
\* and only errors are retried.  (create, gateway.go:240)
THEOREM CreateTypeCorrect == Spec => []TypeOK
<1>1. Inv => TypeOK
  BY DEF Inv
<1> QED
  BY <1>1, Invariance, PTL

\* Whatever is lost, late or wrong in the answers, the id that create returns is
\* the id of the invocation stored under the caller's key.
\* (create and newGatewayProtocolErrorWithInvocationID, gateway.go:295-334)
THEOREM ToldTheTruthHolds == Spec => []ToldTheTruth
<1>1. Inv => ToldTheTruth
  BY DEF Inv
<1> QED
  BY <1>1, Invariance, PTL

\* Whatever is lost, late or wrong in the answers, none of it makes an intent end
\* blindly: it ends with its invocation's id, its stream, the server's refusal or
\* an error of the caller's own side.  (RetryableByCode, gateway_errors.go:113;
\* doInvocation, gateway.go:566)
THEOREM EndsInformedHolds == Spec => []EndsInformed
<1>1. Inv => EndsInformed
  BY DEF Inv
<1> QED
  BY <1>1, Invariance, PTL

\* Once an answer in the expected status has named the invocation without asking
\* for another try, IsRetryable never sends the application back for another one.
\* (RetryableByCode, gateway_errors.go:113)
THEOREM NoSecondShotHolds == Spec => NoSecondShot
<1>1. Inv /\ [Next]_createVars =>
        [\A i \in Intents : pc[i] = "failed" /\ pc'[i] = "sent" => ~named[i]]_createVars
  BY DEF Inv, Unnamed
<1> QED
  BY <1>1, Invariance, PTL DEF Spec, NoSecondShot
=============================================================================
