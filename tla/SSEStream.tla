------------------------------ MODULE SSEStream ------------------------------
(***************************************************************************)
(* GatewaySSEStream (sse.go): Next, Close, Terminal and Pending, called    *)
(* from several goroutines on one stream, over a connection that may end   *)
(* or break at any point of a frame.                                       *)
(*                                                                         *)
(* The input is a queue of items: the field lines of a frame, the blank    *)
(* line that dispatches them, a line that is not UTF-8.  Lines that are    *)
(* read and not dispatched stay in the stream, as dataLines, eventName and *)
(* eventID do.  Next holds the mutex while it blocks in a read; Close does *)
(* not take it.                                                            *)
(***************************************************************************)
EXTENDS Naturals, Sequences

CONSTANTS
    Threads,            \* goroutines that use the stream
    Frames,             \* frames a server may send
    MaxBuffer           \* bound: items received and not yet read

VARIABLES
    conn,               \* the connection: "open", "eof", "reset", "closed"
    buffer,             \* items received, not yet read
    closed,             \* stream.closed
    mu,                 \* the mutex: its holder, or NoThread
    fields,             \* dataLines, eventName, eventID: << >> or <<frame>>
    accepted, usageFinal, terminal, pending,
    lastID, lastSequence,   \* 0: idSeen, sequenceSeen are false
    who,                \* requestID and invocationID, 0 while empty
    pc,                 \* where each goroutine is
    result,             \* what a call has just returned
    delivered,          \* history: the events Next has returned
    finished,           \* history: Next has returned io.EOF
    late                \* history: an event returned after Close began

order == <<accepted, usageFinal, terminal, pending>>
pins == <<lastID, lastSequence, who>>
history == <<delivered, finished, late>>
streamVars == <<conn, buffer, closed, mu, fields, order, pins, pc, result,
                history>>

NoThread == "none"
\* The abstract life of a stream; its state is the history kept here.
Protocol == INSTANCE SSEProtocol
    WITH Frames <- Frames, delivered <- delivered, finished <- finished

ASSUME StreamAssumption ==
    /\ NoThread \notin Threads /\ MaxBuffer \in Nat
    /\ Frames \subseteq Protocol!Frame

Lines(frame) == [kind |-> "lines", frame |-> frame]
Blank == [kind |-> "blank"]
BadLine == [kind |-> "bad"]
PCs == {"idle", "next", "read", "query", "close", "closing"}
Results == {"none", "event", "eof", "disconnect", "protocol_error",
            "closed_pipe"}
-----------------------------------------------------------------------------
Init ==
    /\ conn = "open" /\ buffer = << >> /\ closed = FALSE
    /\ mu = NoThread /\ fields = << >>
    /\ accepted = FALSE /\ usageFinal = FALSE
    /\ terminal = FALSE /\ pending = FALSE
    /\ lastID = 0 /\ lastSequence = 0 /\ who = 0
    /\ pc = [t \in Threads |-> "idle"]
    /\ result = "none"
    /\ delivered = << >> /\ finished = FALSE /\ late = FALSE

(* The server and the network.                                             *)

Arrive(item) ==
    /\ conn = "open" /\ Len(buffer) < MaxBuffer
    /\ buffer' = Append(buffer, item)
    /\ UNCHANGED <<conn, closed, mu, fields, order, pins, pc, result, history>>

\* The body ends: cleanly, or with a read error (reset, truncated chunk).
EndBody ==
    /\ conn = "open"
    /\ conn' \in {"eof", "reset"}
    /\ UNCHANGED <<buffer, closed, mu, fields, order, pins, pc, result, history>>

(* Calls begin.                                                            *)

Call(t, op) ==
    /\ pc[t] = "idle"
    /\ pc' = [pc EXCEPT ![t] = op]
    /\ result' = "none"
    /\ UNCHANGED <<conn, buffer, closed, mu, fields, order, pins, history>>

\* The call of t returns r.
Return(t, r) ==
    /\ pc' = [pc EXCEPT ![t] = "idle"]
    /\ result' = r

(* Next.                                                                   *)

\* A closed stream is refused before anything is read.
NextRefused(t) ==
    /\ pc[t] = "next" /\ mu = NoThread /\ closed
    /\ Return(t, "closed_pipe")
    /\ UNCHANGED <<conn, buffer, closed, mu, fields, order, pins, history>>

NextLocksMutant(t) ==               \* closed is checked by Close alone
    /\ pc[t] = "next" /\ mu = NoThread
    /\ mu' = t
    /\ pc' = [pc EXCEPT ![t] = "read"]
    /\ UNCHANGED <<conn, buffer, closed, fields, order, pins, result, history>>

NextLocks(t) ==
    /\ pc[t] = "next" /\ mu = NoThread /\ ~closed
    /\ mu' = t
    /\ pc' = [pc EXCEPT ![t] = "read"]
    /\ UNCHANGED <<conn, buffer, closed, fields, order, pins, result, history>>

\* Next returns r and unlocks.
NextReturns(t, r) == Return(t, r) /\ mu' = NoThread

\* Fields of lines appended to lines that wait for their blank line: the data
\* is joined, and two JSON documents are none.
Accumulate(frame) ==
    IF fields = << >> THEN <<frame>> ELSE <<[frame EXCEPT !.wellFormed = FALSE]>>

ReadLines(t) ==
    /\ pc[t] = "read" /\ buffer # << >> /\ Head(buffer).kind = "lines"
    /\ buffer' = Tail(buffer)
    /\ fields' = Accumulate(Head(buffer).frame)
    /\ UNCHANGED <<conn, closed, mu, order, pins, pc, result, history>>

\* A line that is not UTF-8 is an error; the lines before it stay.
ReadBadLine(t) ==
    /\ pc[t] = "read" /\ buffer # << >> /\ Head(buffer).kind = "bad"
    /\ buffer' = Tail(buffer)
    /\ NextReturns(t, "protocol_error")
    /\ UNCHANGED <<conn, closed, fields, order, pins, history>>

\* A blank line with no data lines before it dispatches nothing.
ReadEmptyFrame(t) ==
    /\ pc[t] = "read" /\ buffer # << >> /\ Head(buffer).kind = "blank"
    /\ fields = << >>
    /\ buffer' = Tail(buffer)
    /\ UNCHANGED <<conn, closed, mu, fields, order, pins, pc, result, history>>

\* dispatchEvent up to the order check: the frame parses, ids and sequence
\* numbers ascend, request and invocation are those seen before.
Admissible(frame) ==
    /\ frame.wellFormed
    /\ frame.id > lastID
    /\ frame.sequence > lastSequence
    /\ who \in {0, frame.who}

\* validateEventOrder.
OrderLaxMutant(frame) ==            \* a second usage.final, deltas after it
    /\ ~terminal
    /\ \/ frame.name = "accepted" /\ ~accepted
       \/ frame.name \in {"delta", "usage_final"} /\ accepted
       \/ frame.name = "completed" /\ accepted /\ usageFinal
       \/ frame.name = "failed" /\ accepted
       \/ frame.name = "pending" /\ accepted /\ frame.settling
OrderStrictMutant(frame) ==         \* a failure needs the final usage too
    /\ ~terminal
    /\ \/ frame.name = "accepted" /\ ~accepted
       \/ frame.name \in {"delta", "usage_final"} /\ accepted /\ ~usageFinal
       \/ frame.name \in {"completed", "failed"} /\ accepted /\ usageFinal
       \/ frame.name = "pending" /\ accepted /\ frame.settling
Order(frame) ==
    /\ ~terminal
    /\ \/ frame.name = "accepted" /\ ~accepted
       \/ frame.name \in {"delta", "usage_final"} /\ accepted /\ ~usageFinal
       \/ frame.name = "completed" /\ accepted /\ usageFinal
       \/ frame.name = "failed" /\ accepted
       \/ frame.name = "pending" /\ accepted /\ frame.settling

\* The events that end the stream.
TerminatesMutant(frame) == frame.name \in {"completed", "failed"}
Terminates(frame) == frame.name \in Protocol!TerminalNames

\* Ids, sequence numbers and identity are pinned once a frame is admissible --
\* before, and whether or not, its order is accepted.
Pin(frame) ==
    IF Admissible(frame)
    THEN lastID' = frame.id /\ lastSequence' = frame.sequence /\ who' = frame.who
    ELSE UNCHANGED pins

\* The rest of dispatchEvent, for the frame whose lines are complete.
Dispatch(t, frame) ==
    /\ fields' = << >>
    /\ Pin(frame)
    /\ IF Admissible(frame) /\ Order(frame)
       THEN /\ accepted' = (accepted \/ frame.name = "accepted")
            /\ usageFinal' = (usageFinal \/ frame.name = "usage_final")
            /\ terminal' = (terminal \/ Terminates(frame))
            /\ pending' = (pending \/ frame.name = "pending")
            /\ delivered' = Append(delivered, frame)
            /\ late' = (late \/ closed)
            /\ NextReturns(t, "event")
       ELSE NextReturns(t, "protocol_error") /\ UNCHANGED <<order, delivered, late>>

ReadFrame(t) ==
    /\ pc[t] = "read" /\ buffer # << >> /\ Head(buffer).kind = "blank"
    /\ fields # << >>
    /\ buffer' = Tail(buffer)
    /\ Dispatch(t, fields[1])
    /\ UNCHANGED <<conn, closed, finished>>

\* EOF with data lines left: the unterminated frame is dispatched.
ReadLastFrame(t) ==
    /\ pc[t] = "read" /\ buffer = << >> /\ conn = "eof" /\ fields # << >>
    /\ Dispatch(t, fields[1])
    /\ UNCHANGED <<conn, buffer, closed, finished>>

\* EOF: the end of the stream after a terminal event, a disconnect before.
End == IF terminal THEN "eof" ELSE "disconnect"

ReadEOF(t) ==
    /\ pc[t] = "read" /\ buffer = << >> /\ conn = "eof" /\ fields = << >>
    /\ NextReturns(t, End)
    /\ finished' = (finished \/ End = "eof")
    /\ UNCHANGED <<conn, buffer, closed, fields, order, pins, delivered, late>>

\* Any other read error, that of a body closed under the reader included.
ReadFails(t) ==
    /\ pc[t] = "read" /\ buffer = << >> /\ conn \in {"reset", "closed"}
    /\ NextReturns(t, "protocol_error")
    /\ UNCHANGED <<conn, buffer, closed, fields, order, pins, history>>

(* Terminal and Pending wait for the mutex and return a flag.              *)

Query(t) ==
    /\ pc[t] = "query" /\ mu = NoThread
    /\ Return(t, "none")
    /\ UNCHANGED <<conn, buffer, closed, mu, fields, order, pins, history>>

(* Close: once; the flag, then the body.                                   *)

CloseFlag(t) ==
    /\ pc[t] = "close" /\ ~closed
    /\ closed' = TRUE
    /\ pc' = [pc EXCEPT ![t] = "closing"]
    /\ UNCHANGED <<conn, buffer, mu, fields, order, pins, result, history>>

CloseBodyMutant(t) ==               \* Close takes the mutex
    /\ pc[t] = "closing" /\ mu = NoThread
    /\ conn' = "closed" /\ UNCHANGED buffer
    /\ Return(t, "none")
    /\ UNCHANGED <<closed, mu, fields, order, pins, history>>

\* What bufio has not taken over from the body is lost with it.
CloseBody(t) ==
    /\ pc[t] = "closing"
    /\ conn' = "closed"
    /\ \E n \in 0..Len(buffer) : buffer' = SubSeq(buffer, 1, n)
    /\ Return(t, "none")
    /\ UNCHANGED <<closed, mu, fields, order, pins, history>>

\* Another Close is at work or done: wait for it.
CloseAgain(t) ==
    /\ pc[t] = "close" /\ closed /\ \A u \in Threads : pc[u] # "closing"
    /\ Return(t, "none")
    /\ UNCHANGED <<conn, buffer, closed, mu, fields, order, pins, history>>

Items == {Lines(frame) : frame \in Frames} \cup {Blank, BadLine}

ReadStep(t) ==
    \/ ReadLines(t) \/ ReadBadLine(t) \/ ReadEmptyFrame(t) \/ ReadFrame(t)
    \/ ReadLastFrame(t) \/ ReadEOF(t) \/ ReadFails(t)

LockStep(t) == NextRefused(t) \/ NextLocks(t) \/ Query(t)
CloseStep(t) == CloseFlag(t) \/ CloseBody(t) \/ CloseAgain(t)

Next ==
    \/ EndBody
    \/ \E item \in Items : Arrive(item)
    \/ \E t \in Threads :
          \/ \E op \in {"next", "query", "close"} : Call(t, op)
          \/ LockStep(t) \/ ReadStep(t) \/ CloseStep(t)

Spec == Init /\ [][Next]_streamVars

\* Goroutines run; sync.Mutex does not starve a waiter (its starvation mode
\* hands the lock over).  Nothing is assumed of the server.
Fairness ==
    \A t \in Threads :
        /\ SF_streamVars(LockStep(t))
        /\ WF_streamVars(ReadStep(t))
        /\ WF_streamVars(CloseStep(t))

FairSpec == Spec /\ Fairness
-----------------------------------------------------------------------------
(* What the stream promises.                                               *)

\* Every variable has its type, and the mutex is held by the one reader.
TypeOK ==
    /\ conn \in {"open", "eof", "reset", "closed"}
    /\ buffer \in Seq(Items)
    /\ closed \in BOOLEAN
    /\ mu \in Threads \cup {NoThread}
    /\ \A t \in Threads : mu = t <=> pc[t] = "read"
    /\ fields # << >> => \E frame \in Frames :
          fields \in {<<frame>>, <<[frame EXCEPT !.wellFormed = FALSE]>>}
    /\ {accepted, usageFinal, terminal, pending} \subseteq BOOLEAN
    /\ lastID \in Nat /\ lastSequence \in Nat /\ who \in Nat
    /\ pc \in [Threads -> PCs]
    /\ result \in Results
    /\ delivered \in Seq(Frames)
    /\ finished \in BOOLEAN /\ late \in BOOLEAN

\* The parser's flags keep what the consumer was promised: what Next hands out
\* is a legal life of one invocation, whatever is rejected, skipped, repeated
\* or cut off in between, and io.EOF comes only after a terminal event.
ImplementsProtocol == Protocol!ProtocolSpec

\* Terminal and Pending agree with what was handed out: the stream is terminal
\* exactly when the consumer has received the terminal event.
FlagsMatchDelivered ==
    /\ terminal <=> Protocol!Ended(delivered)
    /\ pending <=> Protocol!Has(delivered, "pending")

\* The parser turns nothing away that the promise allows: as long as no
\* rejected frame has moved the pins, a frame that keeps the delivered events a
\* legal life is delivered.
LegalFrameAccepted(t) ==
    LET frame == fields[1]
        n == Len(delivered)
        pinned == IF n = 0 THEN <<0, 0, 0>>
                  ELSE <<delivered[n].id, delivered[n].sequence, delivered[n].who>>
    IN  (/\ pc[t] = "read" /\ fields # << >> /\ fields' = << >>
         /\ frame.wellFormed /\ (frame.name = "pending" => frame.settling)
         /\ pins = pinned
         /\ Protocol!Legal(Append(delivered, frame)))
        => delivered' = Append(delivered, frame)
AcceptsEveryLegalFrame ==
    [][\A t \in Threads : LegalFrameAccepted(t)]_streamVars

\* Once Close has begun, at most one more event is handed out, by the call that
\* was reading when it came: bufio, and a body not closed yet, may still hold
\* its lines.
AtMostOneLateEvent == [][late => UNCHANGED delivered]_streamVars

\* Close, or the end of the body, sets every blocked call free: readers return,
\* and with them the callers of Terminal and Pending that wait for the mutex
\* -- even if the server never sends another byte.
EndUnblocks ==
    \A t \in Threads : (closed \/ conn # "open") /\ pc[t] # "idle" ~> pc[t] = "idle"

\* "A disconnect before a terminal event returns GatewaySSEDisconnectError":
\* when the body ends on the server's or the network's side and no terminal
\* event was seen, the reader is told it is a disconnect.
DisconnectReported ==
    [][\A t \in Threads :
          (/\ pc[t] = "read" /\ pc'[t] = "idle"
           /\ buffer = << >> /\ fields = << >> /\ conn \in {"eof", "reset"}
           /\ ~terminal)
          => result' = "disconnect"]_streamVars
=============================================================================
