-------------------------- MODULE SSEStream_proofs --------------------------
(***************************************************************************)
(* What SSEStream promises, for any number of goroutines, frames and       *)
(* buffered items: its types and its one reader, flags that agree with     *)
(* what was handed out, and the refinement of SSEProtocol.                 *)
(*                                                                         *)
(* The inductive invariant says what the parser's variables remember of    *)
(* the events delivered: accepted that there is one, usageFinal and        *)
(* terminal that such a one is among them, lastID, lastSequence and who    *)
(* bounds on all of them.  A frame the order check accepts in such a state *)
(* keeps the delivered events legal (LegalAppend).                         *)
(***************************************************************************)
EXTENDS SSEStream, TLAPS

\* The flags remember which events were delivered.
FlagsInv ==
    /\ accepted <=> delivered # << >>
    /\ usageFinal <=> Protocol!Has(delivered, "usage_final")
    /\ terminal <=> Protocol!Ended(delivered)
    /\ pending <=> Protocol!Has(delivered, "pending")

\* The pins bound every delivered event; rejected frames may have moved them.
PinsInv ==
    \A i \in 1..Len(delivered) :
        /\ delivered[i].id <= lastID
        /\ delivered[i].sequence <= lastSequence
        /\ delivered[i].who = who

StreamInv == FlagsInv /\ PinsInv /\ Protocol!Legal(delivered) /\ (finished => terminal)
SInv == TypeOK /\ StreamInv

parser == <<order, pins, delivered, finished>>
-----------------------------------------------------------------------------
(* Sequences of events.                                                    *)

\* Has and Ended of a sequence with one more event.
LEMMA HasAppend ==
    ASSUME NEW events \in Seq(Frames), NEW frame \in Frames, NEW name
    PROVE  /\ Protocol!Has(Append(events, frame), name) <=>
                 Protocol!Has(events, name) \/ frame.name = name
           /\ Protocol!Ended(Append(events, frame)) <=>
                 Protocol!Ended(events) \/ frame.name \in Protocol!TerminalNames
<1> DEFINE more == Append(events, frame)
<1>1. /\ Len(more) = Len(events) + 1 /\ Len(events) \in Nat
      /\ \A i \in 1..Len(events) : more[i] = events[i]
      /\ more[Len(events) + 1] = frame
  OBVIOUS
<1> HIDE DEF more
<1>2. Protocol!Has(more, name) <=> Protocol!Has(events, name) \/ frame.name = name
  BY <1>1 DEF Protocol!Has
<1>3. Protocol!Ended(more) <=>
        Protocol!Ended(events) \/ frame.name \in Protocol!TerminalNames
  BY <1>1 DEF Protocol!Ended
<1> QED BY <1>2, <1>3 DEF more

\* A frame that Order accepts and the pins admit keeps the events legal.
LEMMA LegalAppend ==
    ASSUME NEW events \in Seq(Frames), NEW frame \in Frames,
           Protocol!Legal(events), ~Protocol!Ended(events),
           frame.name # "unknown",
           frame.name = "accepted" <=> events = << >>,
           frame.name = "completed" => Protocol!Has(events, "usage_final"),
           frame.name \in {"delta", "usage_final"} =>
               ~Protocol!Has(events, "usage_final"),
           \A i \in 1..Len(events) : /\ events[i].id < frame.id
                                     /\ events[i].sequence < frame.sequence
                                     /\ events[i].who = frame.who
    PROVE  Protocol!Legal(Append(events, frame))
<1> DEFINE more == Append(events, frame)
           n == Len(events)
<1>1. /\ Len(more) = n + 1 /\ n \in Nat
      /\ \A i \in 1..n : more[i] = events[i]
      /\ more[n + 1] = frame
      /\ events = << >> <=> n = 0
  OBVIOUS
<1>2. frame.name \in Protocol!Names
  BY StreamAssumption DEF Protocol!Frame
<1> HIDE DEF more, n
<1>3. \A i \in 1..n : events[i].name \notin Protocol!TerminalNames
  BY DEF Protocol!Ended, n
<1>4. Protocol!InOrder(more)
  <2> SUFFICES ASSUME NEW i \in 1..(n + 1)
               PROVE  /\ more[i].name # "unknown"
                      /\ more[i].name = "accepted" <=> i = 1
                      /\ more[i].name \in Protocol!TerminalNames => i = n + 1
                      /\ more[i].name = "completed" =>
                            \E j \in 1..(n + 1) : more[j].name = "usage_final"
                      /\ more[i].name = "usage_final" =>
                            \A j \in (i + 1)..(n + 1) :
                                more[j].name \in Protocol!TerminalNames
    BY <1>1 DEF Protocol!InOrder
  <2>1. CASE i = n + 1
    <3>1. frame.name = "completed" =>
            \E j \in 1..(n + 1) : more[j].name = "usage_final"
      BY <1>1 DEF Protocol!Has, n
    <3>2. (n + 1) + 1 > n + 1
      BY <1>1
    <3>3. frame.name = "accepted" <=> i = 1
      BY <1>1, <2>1
    <3> QED BY <2>1, <1>1, <3>1, <3>2, <3>3
  <2>2. CASE i \in 1..n
    <3>1. /\ events[i].name # "unknown"
          /\ events[i].name = "accepted" <=> i = 1
          /\ events[i].name = "usage_final" =>
                \A j \in (i + 1)..n : events[j].name \in Protocol!TerminalNames
      BY <2>2 DEF Protocol!Legal, Protocol!InOrder, n
    <3>2. events[i].name \notin Protocol!TerminalNames
      BY <1>3, <2>2
    <3>3. ASSUME events[i].name = "usage_final"
          PROVE  \A j \in (i + 1)..(n + 1) :
                     more[j].name \in Protocol!TerminalNames
      <4>1. frame.name \in Protocol!TerminalNames
        <5>1. Protocol!Has(events, "usage_final")
          BY <2>2, <3>3 DEF Protocol!Has, n
        <5>2. events # << >>
          BY <2>2, <1>1
        <5> QED BY <5>1, <5>2, <1>2 DEF Protocol!Names, Protocol!TerminalNames
      <4> QED BY <4>1, <3>1, <3>3, <1>1
    <3>4. more[i] = events[i]
      BY <1>1, <2>2
    <3>5. events[i].name # "completed"
      BY <3>2 DEF Protocol!TerminalNames
    <3> QED BY <3>1, <3>2, <3>3, <3>4, <3>5
  <2> QED BY <2>1, <2>2, <1>1
<1>5. Protocol!Ascending(more)
  <2> SUFFICES ASSUME NEW i \in 1..(n + 1), NEW j \in 1..(n + 1), i < j
               PROVE  /\ more[i].id < more[j].id
                      /\ more[i].sequence < more[j].sequence
                      /\ more[i].who = more[j].who
    BY <1>1 DEF Protocol!Ascending
  <2>1. i \in 1..n
    BY <1>1
  <2>2. CASE j = n + 1
    BY <1>1, <2>1, <2>2 DEF n
  <2>3. CASE j \in 1..n
    BY <1>1, <2>1, <2>3 DEF Protocol!Legal, Protocol!Ascending, n
  <2> QED BY <2>2, <2>3, <1>1
<1> QED BY <1>4, <1>5 DEF Protocol!Legal, more
-----------------------------------------------------------------------------
(* The invariant.                                                          *)

LEMMA SInit == Init => SInv
<1> SUFFICES ASSUME Init PROVE SInv
  OBVIOUS
<1> USE DEF Init
<1>1. TypeOK
  <2>1. buffer \in Seq(Items) /\ delivered \in Seq(Frames)
    OBVIOUS
  <2>2. \A t \in Threads : mu = t <=> pc[t] = "read"
    BY StreamAssumption
  <2>3. pc \in [Threads -> PCs] /\ result \in Results
    BY DEF PCs, Results
  <2>4. {accepted, usageFinal, terminal, pending} \subseteq BOOLEAN
    BY Zenon
  <2> QED BY <2>1, <2>2, <2>3, <2>4 DEF TypeOK
<1>2. StreamInv
  <2>1. Len(delivered) = 0
    OBVIOUS
  <2>2. FlagsInv /\ PinsInv
    BY <2>1 DEF FlagsInv, PinsInv, Protocol!Has, Protocol!Ended
  <2>3. Protocol!Legal(delivered)
    BY <2>1 DEF Protocol!Legal, Protocol!InOrder, Protocol!Ascending
  <2> QED BY <2>2, <2>3 DEF StreamInv
<1> QED BY <1>1, <1>2 DEF SInv

\* A step that leaves the parser alone keeps what it remembers.
LEMMA ParserUnchanged ==
    ASSUME StreamInv, UNCHANGED parser
    PROVE  StreamInv'
BY DEF StreamInv, FlagsInv, PinsInv, parser, order, pins

\* Dispatching a frame keeps the invariant, and delivers it only legally.
LEMMA DispatchStep ==
    ASSUME SInv, NEW t \in Threads, Dispatch(t, fields[1]), fields # << >>,
           UNCHANGED finished
    PROVE  /\ StreamInv'
           /\ delivered' \in Seq(Frames)
           /\ lastID' \in Nat /\ lastSequence' \in Nat /\ who' \in Nat
           /\ UNCHANGED <<delivered, finished>> \/
                 \E frame \in Frames : Protocol!Deliver(frame)
<1> DEFINE f == fields[1]
<1> USE DEF SInv
<1>1. f.wellFormed => f \in Frames
  BY StreamAssumption DEF TypeOK, Protocol!Frame
<1>2. CASE ~Admissible(f)
  <2>1. UNCHANGED parser
    BY <1>2 DEF Dispatch, Pin, parser, order, pins
  <2> QED BY <2>1, ParserUnchanged DEF TypeOK, parser, pins
<1>3. CASE Admissible(f)
  <2>1. f \in Frames /\ f \in Protocol!Frame
    BY <1>1, <1>3, StreamAssumption DEF Admissible
  <2>2. /\ f.id \in Nat /\ f.sequence \in Nat /\ f.who \in Nat /\ f.who # 0
        /\ f.name \in Protocol!Names
        /\ f.id > lastID /\ f.sequence > lastSequence /\ who \in {0, f.who}
    BY <2>1, <1>3 DEF Protocol!Frame, Admissible
  <2>3. lastID' = f.id /\ lastSequence' = f.sequence /\ who' = f.who
    BY <1>3 DEF Dispatch, Pin
  <2>4. \A i \in 1..Len(delivered) : /\ delivered[i].id < f.id
                                     /\ delivered[i].sequence < f.sequence
                                     /\ delivered[i].who = f.who
    <3> SUFFICES ASSUME NEW i \in 1..Len(delivered)
                 PROVE  /\ delivered[i].id < f.id
                        /\ delivered[i].sequence < f.sequence
                        /\ delivered[i].who = f.who
      OBVIOUS
    <3>1. delivered[i] \in Protocol!Frame
      BY StreamAssumption DEF TypeOK
    <3>2. /\ delivered[i].id <= lastID /\ delivered[i].sequence <= lastSequence
          /\ delivered[i].who = who
      BY DEF StreamInv, PinsInv
    <3>3. lastID \in Nat /\ lastSequence \in Nat /\ who \in Nat
      BY DEF TypeOK
    <3> QED BY <3>1, <3>2, <3>3, <2>2 DEF Protocol!Frame
  <2>5. CASE ~Order(f)
    <3>1. UNCHANGED <<order, delivered>>
      BY <2>5 DEF Dispatch
    <3>2. \A i \in 1..Len(delivered) : /\ delivered[i].id <= lastID'
                                       /\ delivered[i].sequence <= lastSequence'
                                       /\ delivered[i].who = who'
      <4> SUFFICES ASSUME NEW i \in 1..Len(delivered)
                   PROVE  /\ delivered[i].id <= lastID'
                          /\ delivered[i].sequence <= lastSequence'
                          /\ delivered[i].who = who'
        OBVIOUS
      <4>1. delivered[i] \in Protocol!Frame
        BY StreamAssumption DEF TypeOK
      <4> QED BY <4>1, <2>2, <2>3, <2>4 DEF Protocol!Frame
    <3>3. PinsInv'
      BY <3>1, <3>2 DEF PinsInv
    <3>4. FlagsInv' /\ Protocol!Legal(delivered)' /\ (finished => terminal)'
      BY <3>1 DEF StreamInv, FlagsInv, order
    <3> QED BY <3>1, <3>3, <3>4, <2>2, <2>3 DEF StreamInv, TypeOK
  <2>6. CASE Order(f)
    <3>1. /\ accepted' = (accepted \/ f.name = "accepted")
          /\ usageFinal' = (usageFinal \/ f.name = "usage_final")
          /\ terminal' = (terminal \/ f.name \in Protocol!TerminalNames)
          /\ pending' = (pending \/ f.name = "pending")
          /\ delivered' = Append(delivered, f)
      BY <1>3, <2>6 DEF Dispatch, Terminates
    <3>2. delivered \in Seq(Frames)
      BY DEF TypeOK
    <3>3. ~Protocol!Ended(delivered) /\ ~finished
      BY <2>6 DEF Order, StreamInv, FlagsInv
    <3>4. /\ f.name # "unknown"
          /\ f.name = "accepted" <=> delivered = << >>
          /\ f.name = "completed" => Protocol!Has(delivered, "usage_final")
          /\ f.name \in {"delta", "usage_final"} =>
                ~Protocol!Has(delivered, "usage_final")
      BY <2>6 DEF Order, StreamInv, FlagsInv
    <3>5. Protocol!Legal(Append(delivered, f))
      BY <3>2, <3>3, <3>4, <2>1, <2>4, LegalAppend DEF StreamInv
    <3>6. FlagsInv'
      <4>1. delivered' # << >> /\ accepted'
        <5>1. accepted \/ f.name = "accepted"
          BY <3>4 DEF StreamInv, FlagsInv
        <5>2. accepted'
          BY <3>1, <5>1
        <5>3. delivered' # << >>
          BY <3>1, <3>2, <2>1
        <5> QED BY <5>2, <5>3
      <4>2. /\ usageFinal' <=> Protocol!Has(delivered', "usage_final")
            /\ pending' <=> Protocol!Has(delivered', "pending")
            /\ terminal' <=> Protocol!Ended(delivered')
        BY <3>1, <3>2, <2>1, HasAppend DEF StreamInv, FlagsInv
      <4> QED BY <4>1, <4>2 DEF FlagsInv
    <3>7. PinsInv'
      <4> SUFFICES ASSUME NEW i \in 1..Len(delivered')
                   PROVE  /\ delivered'[i].id <= lastID'
                          /\ delivered'[i].sequence <= lastSequence'
                          /\ delivered'[i].who = who'
        BY DEF PinsInv
      <4>1. CASE i = Len(delivered) + 1
        BY <4>1, <3>1, <3>2, <2>2, <2>3
      <4>2. CASE i \in 1..Len(delivered)
        <5>1. delivered[i] \in Protocol!Frame /\ delivered'[i] = delivered[i]
          BY <4>2, <3>1, <3>2, StreamAssumption
        <5> QED BY <5>1, <4>2, <2>2, <2>3, <2>4 DEF Protocol!Frame
      <4> QED BY <4>1, <4>2, <3>1, <3>2
    <3>8. Protocol!Deliver(f)
      BY <3>1, <3>3, <3>5 DEF Protocol!Deliver
    <3>9. StreamInv'
      BY <3>1, <3>3, <3>5, <3>6, <3>7 DEF StreamInv
    <3> QED BY <3>1, <3>2, <3>8, <3>9, <2>1, <2>2, <2>3
  <2> QED BY <2>5, <2>6
<1> QED BY <1>2, <1>3
-----------------------------------------------------------------------------
(* Every step keeps the types.                                             *)

\* The part of TypeOK about who reads: only the holder of the mutex.
Reader == \A t \in Threads : mu = t <=> pc[t] = "read"

\* What a call that ends or moves on does to pc and the mutex.
LEMMA ReaderMoves ==
    ASSUME TypeOK, NEW t \in Threads, NEW place \in PCs,
           pc' = [pc EXCEPT ![t] = place],
           \/ pc[t] # "read" /\ place # "read" /\ mu' = mu
           \/ pc[t] = "read" /\ place # "read" /\ mu' = NoThread
           \/ mu = NoThread /\ place = "read" /\ mu' = t
    PROVE  /\ Reader' /\ mu' \in Threads \cup {NoThread}
           /\ pc' \in [Threads -> PCs]
<1>1. pc' \in [Threads -> PCs] /\ mu' \in Threads \cup {NoThread}
  BY DEF TypeOK
<1>2. \A u \in Threads : pc'[u] = IF u = t THEN place ELSE pc[u]
  BY DEF TypeOK
<1>3. \A u \in Threads : mu = u <=> pc[u] = "read"
  BY DEF TypeOK
<1>4. NoThread \notin Threads
  BY StreamAssumption
<1> QED BY <1>1, <1>2, <1>3, <1>4 DEF Reader

\* Reading from the buffer, and adding to it, keeps a sequence of items.
LEMMA BufferType ==
    ASSUME TypeOK
    PROVE  /\ buffer # << >> => Tail(buffer) \in Seq(Items) /\ Head(buffer) \in Items
           /\ \A item \in Items : Append(buffer, item) \in Seq(Items)
           /\ \A n \in 0..Len(buffer) : SubSeq(buffer, 1, n) \in Seq(Items)
<1>1. buffer \in Seq(Items)
  BY DEF TypeOK
<1> HIDE DEF Items
<1>2. \A n \in 0..Len(buffer) : SubSeq(buffer, 1, n) \in Seq(Items)
  <2> TAKE n \in 0..Len(buffer)
  <2>1. \A i \in 1..n : buffer[i] \in Items
    BY <1>1
  <2>2. SubSeq(buffer, 1, n) = [i \in 1..n |-> buffer[i]]
    BY <1>1
  <2> QED BY <2>1, <2>2
<1> QED BY <1>1, <1>2

\* Lines that wait for their blank line are those of a frame, or no document.
LEMMA FieldsType ==
    ASSUME TypeOK, buffer # << >>, Head(buffer).kind = "lines",
           fields' = Accumulate(Head(buffer).frame)
    PROVE  \E frame \in Frames :
               fields' \in {<<frame>>, <<[frame EXCEPT !.wellFormed = FALSE]>>}
<1>1. PICK frame \in Frames : Head(buffer) = Lines(frame)
  <2>1. Head(buffer) \in Items
    BY BufferType
  <2> QED BY <2>1 DEF Items, Lines, Blank, BadLine
<1>2. Head(buffer).frame = frame
  BY <1>1 DEF Lines
<1> QED BY <1>2 DEF Accumulate

\* A step of the stream keeps the types.
LEMMA TypeStep == SInv /\ [Next]_streamVars => TypeOK'
<1> SUFFICES ASSUME SInv, [Next]_streamVars PROVE TypeOK'
  OBVIOUS
<1> USE DEF SInv
<1>1. CASE UNCHANGED streamVars
  BY <1>1 DEF streamVars, order, pins, history, TypeOK
<1>2. CASE EndBody
  BY <1>2 DEF EndBody, order, pins, history, TypeOK
<1>3. ASSUME NEW item \in Items, Arrive(item) PROVE TypeOK'
  BY <1>3, BufferType DEF Arrive, order, pins, history, TypeOK
<1>4. ASSUME NEW t \in Threads, NEW op \in {"next", "query", "close"}, Call(t, op)
      PROVE  TypeOK'
  <2>1. op \in PCs /\ op # "read" /\ pc[t] # "read"
    BY <1>4 DEF PCs, Call
  <2>2. Reader' /\ mu' \in Threads \cup {NoThread} /\ pc' \in [Threads -> PCs]
    BY <1>4, <2>1, ReaderMoves DEF Call
  <2> QED BY <1>4, <2>2 DEF Call, order, pins, history, Reader, Results, TypeOK
<1>5. ASSUME NEW t \in Threads, LockStep(t) PROVE TypeOK'
  <2>1. CASE NextRefused(t) \/ Query(t)
    <3>1. Reader' /\ mu' \in Threads \cup {NoThread} /\ pc' \in [Threads -> PCs]
      BY <2>1, ReaderMoves DEF NextRefused, Query, Return, PCs
    <3> QED BY <2>1, <3>1 DEF NextRefused, Query, Return, order, pins, history,
                              Reader, Results, TypeOK
  <2>2. CASE NextLocks(t)
    <3>1. Reader' /\ mu' \in Threads \cup {NoThread} /\ pc' \in [Threads -> PCs]
      BY <2>2, ReaderMoves DEF NextLocks, PCs
    <3> QED BY <2>2, <3>1 DEF NextLocks, order, pins, history, Reader, TypeOK
  <2> QED BY <1>5, <2>1, <2>2 DEF LockStep
<1>6. ASSUME NEW t \in Threads, CloseStep(t) PROVE TypeOK'
  <2>1. Reader' /\ mu' \in Threads \cup {NoThread} /\ pc' \in [Threads -> PCs]
    BY <1>6, ReaderMoves
       DEF CloseStep, CloseFlag, CloseBody, CloseAgain, Return, PCs
  <2>2. CASE CloseFlag(t) \/ CloseAgain(t)
    BY <2>1, <2>2 DEF CloseFlag, CloseAgain, Return, order, pins, history,
                      Reader, Results, TypeOK
  <2>3. CASE CloseBody(t)
    <3>1. buffer' \in Seq(Items)
      BY <2>3, BufferType DEF CloseBody
    <3> QED BY <2>1, <2>3, <3>1 DEF CloseBody, Return, order, pins, history,
                                    Reader, Results, TypeOK
  <2> QED BY <1>6, <2>2, <2>3 DEF CloseStep
<1>7. ASSUME NEW t \in Threads, ReadStep(t) PROVE TypeOK'
  <2>1. ASSUME pc' = [pc EXCEPT ![t] = "idle"], mu' = NoThread
        PROVE  Reader' /\ mu' \in Threads \cup {NoThread} /\ pc' \in [Threads -> PCs]
    <3>1. pc[t] = "read"
      BY <1>7 DEF ReadStep, ReadLines, ReadBadLine, ReadEmptyFrame, ReadFrame,
                  ReadLastFrame, ReadEOF, ReadFails
    <3>2. "idle" \in PCs
      BY DEF PCs
    <3> QED BY <2>1, <3>1, <3>2, ReaderMoves
  <2>2. CASE ReadLines(t)
    <3>1. /\ buffer' \in Seq(Items)
          /\ \E frame \in Frames :
                fields' \in {<<frame>>, <<[frame EXCEPT !.wellFormed = FALSE]>>}
      BY <2>2, BufferType, FieldsType DEF ReadLines
    <3> QED BY <2>2, <3>1 DEF ReadLines, order, pins, history, TypeOK
  <2>3. CASE ReadBadLine(t) \/ ReadEmptyFrame(t)
    <3>1. buffer' \in Seq(Items)
      BY <2>3, BufferType DEF ReadBadLine, ReadEmptyFrame
    <3>2. CASE ReadBadLine(t)
      BY <3>1, <3>2, <2>1 DEF ReadBadLine, NextReturns, Return, order, pins,
                              history, Reader, Results, TypeOK
    <3>3. CASE ReadEmptyFrame(t)
      BY <3>1, <3>3 DEF ReadEmptyFrame, order, pins, history, TypeOK
    <3> QED BY <2>3, <3>2, <3>3
  <2>4. CASE ReadFrame(t) \/ ReadLastFrame(t)
    <3>1. /\ Dispatch(t, fields[1]) /\ fields # << >>
          /\ UNCHANGED <<conn, closed, finished>> /\ buffer' \in Seq(Items)
      BY <2>4, BufferType DEF ReadFrame, ReadLastFrame, TypeOK
    <3>2. /\ delivered' \in Seq(Frames)
          /\ lastID' \in Nat /\ lastSequence' \in Nat /\ who' \in Nat
      BY <3>1, DispatchStep
    <3>3. /\ fields' = << >> /\ result' \in Results
          /\ pc' = [pc EXCEPT ![t] = "idle"] /\ mu' = NoThread
      BY <3>1 DEF Dispatch, NextReturns, Return, Results
    <3>4. {accepted', usageFinal', terminal', pending'} \subseteq BOOLEAN
      <4>1. CASE Admissible(fields[1]) /\ Order(fields[1])
        BY <3>1, <4>1, Zenon DEF Dispatch
      <4>2. CASE ~(Admissible(fields[1]) /\ Order(fields[1]))
        BY <3>1, <4>2 DEF Dispatch, order, TypeOK
      <4> QED BY <4>1, <4>2
    <3>5. late' \in BOOLEAN
      BY <3>1 DEF Dispatch, TypeOK
    <3> QED BY <3>1, <3>2, <3>3, <3>4, <3>5, <2>1 DEF Reader, TypeOK
  <2>5. CASE ReadEOF(t) \/ ReadFails(t)
    <3>1. /\ result' \in Results /\ finished' \in BOOLEAN
          /\ pc' = [pc EXCEPT ![t] = "idle"] /\ mu' = NoThread
      BY <2>5 DEF ReadEOF, ReadFails, End, NextReturns, Return, Results, history, TypeOK
    <3> QED BY <3>1, <2>5, <2>1 DEF ReadEOF, ReadFails, order, pins, history,
                                    Reader, TypeOK
  <2> QED BY <1>7, <2>2, <2>3, <2>4, <2>5 DEF ReadStep
<1> QED BY <1>1, <1>2, <1>3, <1>4, <1>5, <1>6, <1>7 DEF Next
-----------------------------------------------------------------------------
(* Every step keeps the parser's memory, and is a step of the protocol.    *)

\* A step leaves the parser alone, dispatches a frame, or ends the stream.
LEMMA ParserStep ==
    ASSUME [Next]_streamVars
    PROVE  \/ UNCHANGED parser
           \/ \E t \in Threads : /\ fields # << >> /\ Dispatch(t, fields[1])
                                 /\ UNCHANGED finished
           \/ \E t \in Threads : ReadEOF(t)
<1>1. CASE UNCHANGED streamVars
  BY <1>1 DEF streamVars, history, parser
<1>2. CASE EndBody \/ \E item \in Items : Arrive(item)
  BY <1>2 DEF EndBody, Arrive, history, parser
<1>3. ASSUME NEW t \in Threads,
             \/ \E op \in {"next", "query", "close"} : Call(t, op)
             \/ LockStep(t) \/ CloseStep(t)
      PROVE  UNCHANGED parser
  BY <1>3 DEF Call, LockStep, NextRefused, NextLocks, Query, CloseStep, CloseFlag,
              CloseBody, CloseAgain, history, parser
<1>4. ASSUME NEW t \in Threads,
             ReadLines(t) \/ ReadBadLine(t) \/ ReadEmptyFrame(t) \/ ReadFails(t)
      PROVE  UNCHANGED parser
  BY <1>4 DEF ReadLines, ReadBadLine, ReadEmptyFrame, ReadFails, history, parser
<1>5. ASSUME NEW t \in Threads, ReadFrame(t) \/ ReadLastFrame(t)
      PROVE  fields # << >> /\ Dispatch(t, fields[1]) /\ UNCHANGED finished
  BY <1>5 DEF ReadFrame, ReadLastFrame
<1> QED BY <1>1, <1>2, <1>3, <1>4, <1>5 DEF Next, ReadStep

\* The end of the stream is declared after a terminal event, or not at all.
LEMMA EOFStep ==
    ASSUME SInv, NEW t \in Threads, ReadEOF(t)
    PROVE  StreamInv' /\ (UNCHANGED <<delivered, finished>> \/ Protocol!Finish)
<1>1. /\ UNCHANGED <<order, pins, delivered>>
      /\ finished' = (finished \/ End = "eof")
  BY DEF ReadEOF
<1>2. CASE terminal
  <2>1. finished' = TRUE /\ Protocol!Ended(delivered)
    BY <1>1, <1>2 DEF End, SInv, StreamInv, FlagsInv
  <2>2. StreamInv'
    BY <1>1, <1>2 DEF SInv, StreamInv, FlagsInv, PinsInv, order, pins
  <2> QED BY <1>1, <2>1, <2>2 DEF Protocol!Finish
<1>3. CASE ~terminal
  <2>1. finished' = finished
    BY <1>1, <1>3 DEF End, SInv, TypeOK
  <2> QED BY <1>1, <2>1, ParserUnchanged DEF SInv, parser
<1> QED BY <1>2, <1>3

\* A step of the stream keeps the invariant and implements the protocol.
LEMMA SNext ==
    SInv /\ [Next]_streamVars =>
        SInv' /\ [Protocol!ProtocolNext]_(Protocol!protocolVars)
<1> SUFFICES ASSUME SInv, [Next]_streamVars
             PROVE  SInv' /\ [Protocol!ProtocolNext]_(Protocol!protocolVars)
  OBVIOUS
<1> USE DEF Protocol!protocolVars
<1>1. TypeOK'
  BY TypeStep
<1>2. CASE UNCHANGED parser
  <2>1. StreamInv'
    BY <1>2, ParserUnchanged DEF SInv
  <2> QED BY <1>1, <1>2, <2>1 DEF SInv, parser
<1>3. CASE \E t \in Threads : /\ fields # << >> /\ Dispatch(t, fields[1])
                              /\ UNCHANGED finished
  BY <1>1, <1>3, DispatchStep DEF SInv, Protocol!ProtocolNext
<1>4. CASE \E t \in Threads : ReadEOF(t)
  BY <1>1, <1>4, EOFStep DEF SInv, Protocol!ProtocolNext
<1> QED BY <1>2, <1>3, <1>4, ParserStep
-----------------------------------------------------------------------------
(* The theorems.                                                           *)

\* The invariant holds of every behaviour.
LEMMA StreamInvariant == Spec => []SInv
<1>1. SInv /\ [Next]_streamVars => SInv'
  BY SNext
<1> QED BY SInit, <1>1, PTL DEF Spec

\* The mutex is held by the one goroutine that reads, and every variable of
\* the stream keeps its type, for any number of goroutines calling Next,
\* Close, Terminal and Pending.
THEOREM StreamTypeCorrect == Spec => []TypeOK
<1>1. SInv => TypeOK
  BY DEF SInv
<1> QED BY StreamInvariant, <1>1, PTL

\* What Terminal and Pending return agrees with the events Next has returned.
THEOREM FlagsAgree == Spec => []FlagsMatchDelivered
<1>1. SInv => FlagsMatchDelivered
  BY DEF SInv, StreamInv, FlagsInv, FlagsMatchDelivered
<1> QED BY StreamInvariant, <1>1, PTL

\* Whatever a server sends and however the connection ends, what Next hands
\* out is a legal life of one invocation, and io.EOF comes only after its
\* terminal event: dispatchEvent and validateEventOrder implement SSEProtocol.
THEOREM StreamImplementsProtocol == Spec => ImplementsProtocol
<1>1. Init => Protocol!ProtocolInit
  BY DEF Init, Protocol!ProtocolInit
<1>2. SInv /\ [Next]_streamVars => [Protocol!ProtocolNext]_(Protocol!protocolVars)
  BY SNext
<1> QED BY StreamInvariant, <1>1, <1>2, PTL
        DEF Spec, ImplementsProtocol, Protocol!ProtocolSpec
-----------------------------------------------------------------------------
(* Completeness, and the last event of a stream that is being closed.      *)

\* What the promise allows after the delivered events: none of them is
\* terminal, and the frame has its place in the life of the invocation.
LEMMA LegalNext ==
    ASSUME NEW events \in Seq(Frames), NEW frame \in Frames,
           Protocol!Legal(Append(events, frame))
    PROVE  /\ ~Protocol!Ended(events)
           /\ frame.name \in Protocol!Names \ {"unknown"}
           /\ frame.name = "accepted" <=> events = << >>
           /\ frame.name = "completed" => Protocol!Has(events, "usage_final")
           /\ frame.name \in {"delta", "usage_final"} =>
                 ~Protocol!Has(events, "usage_final")
           /\ Len(events) # 0 =>
                 /\ events[Len(events)].id < frame.id
                 /\ events[Len(events)].sequence < frame.sequence
                 /\ events[Len(events)].who = frame.who
<1> DEFINE more == Append(events, frame)
           n == Len(events)
<1>1. /\ Len(more) = n + 1 /\ n \in Nat
      /\ \A i \in 1..n : more[i] = events[i]
      /\ more[n + 1] = frame
      /\ events = << >> <=> n = 0
  OBVIOUS
<1>2. frame.name \in Protocol!Names
  BY StreamAssumption DEF Protocol!Frame
<1>3. Protocol!InOrder(more) /\ Protocol!Ascending(more)
  BY DEF Protocol!Legal
<1> HIDE DEF more, n
<1>4. \A i \in 1..(n + 1) :
        /\ more[i].name # "unknown"
        /\ more[i].name = "accepted" <=> i = 1
        /\ more[i].name \in Protocol!TerminalNames => i = n + 1
        /\ more[i].name = "completed" =>
              \E j \in 1..(n + 1) : more[j].name = "usage_final"
        /\ more[i].name = "usage_final" =>
              \A j \in (i + 1)..(n + 1) : more[j].name \in Protocol!TerminalNames
  BY <1>1, <1>3 DEF Protocol!InOrder
<1>5. ~Protocol!Ended(events)
  <2> SUFFICES ASSUME NEW i \in 1..n, events[i].name \in Protocol!TerminalNames
               PROVE  FALSE
    BY DEF Protocol!Ended, n
  <2>1. i \in 1..(n + 1) /\ i # n + 1 /\ more[i] = events[i]
    BY <1>1
  <2> QED BY <1>4, <2>1
<1>6. /\ frame.name # "unknown"
      /\ frame.name = "accepted" <=> events = << >>
  <2>1. n + 1 \in 1..(n + 1) /\ (n + 1 = 1 <=> events = << >>)
    BY <1>1
  <2> QED BY <1>1, <1>4, <2>1
<1>7. frame.name = "completed" => Protocol!Has(events, "usage_final")
  <2> SUFFICES ASSUME frame.name = "completed"
               PROVE  Protocol!Has(events, "usage_final")
    OBVIOUS
  <2>1. n + 1 \in 1..(n + 1)
    BY <1>1
  <2>2. PICK j \in 1..(n + 1) : more[j].name = "usage_final"
    BY <1>1, <1>4, <2>1
  <2>3. j # n + 1
    BY <1>1, <2>2
  <2>4. j \in 1..n /\ more[j] = events[j]
    BY <1>1, <2>3
  <2> QED BY <2>2, <2>4 DEF Protocol!Has, n
<1>8. frame.name \in {"delta", "usage_final"} => ~Protocol!Has(events, "usage_final")
  <2> SUFFICES ASSUME NEW i \in 1..n, events[i].name = "usage_final"
               PROVE  frame.name \in Protocol!TerminalNames
    BY DEF Protocol!Has, Protocol!TerminalNames, n
  <2>1. i \in 1..(n + 1) /\ n + 1 \in (i + 1)..(n + 1) /\ more[i] = events[i]
    BY <1>1
  <2> QED BY <1>1, <1>4, <2>1
<1>9. n # 0 => /\ events[n].id < frame.id /\ events[n].sequence < frame.sequence
               /\ events[n].who = frame.who
  <2> SUFFICES ASSUME n # 0
               PROVE  /\ events[n].id < frame.id
                      /\ events[n].sequence < frame.sequence
                      /\ events[n].who = frame.who
    OBVIOUS
  <2>1. n \in 1..(n + 1) /\ n + 1 \in 1..(n + 1) /\ n < n + 1 /\ more[n] = events[n]
    BY <1>1
  <2> QED BY <1>1, <1>3, <2>1 DEF Protocol!Ascending
<1> QED BY <1>2, <1>5, <1>6, <1>7, <1>8, <1>9 DEF n

\* Such a frame passes the checks of dispatchEvent and validateEventOrder.
LEMMA LegalIsAccepted ==
    ASSUME SInv, NEW frame \in Frames, frame.wellFormed,
           frame.name = "pending" => frame.settling,
           pins = IF Len(delivered) = 0 THEN <<0, 0, 0>>
                  ELSE <<delivered[Len(delivered)].id,
                         delivered[Len(delivered)].sequence,
                         delivered[Len(delivered)].who>>,
           Protocol!Legal(Append(delivered, frame))
    PROVE  Admissible(frame) /\ Order(frame)
<1> DEFINE n == Len(delivered)
<1>1. delivered \in Seq(Frames) /\ n \in Nat /\ (delivered = << >> <=> n = 0)
  BY DEF SInv, TypeOK
<1>2. frame.id \in Nat \ {0} /\ frame.sequence \in Nat \ {0}
  BY StreamAssumption DEF Protocol!Frame
<1>3. Admissible(frame)
  <2>1. CASE n = 0
    <3>1. lastID = 0 /\ lastSequence = 0 /\ who = 0
      BY <2>1 DEF pins
    <3> QED BY <1>2, <3>1 DEF Admissible
  <2>2. CASE n # 0
    <3>1. /\ lastID = delivered[n].id /\ lastSequence = delivered[n].sequence
          /\ who = delivered[n].who
      BY <2>2 DEF pins
    <3>2. delivered[n] \in Protocol!Frame
      BY <1>1, <2>2, StreamAssumption
    <3>3. /\ delivered[n].id < frame.id /\ delivered[n].sequence < frame.sequence
          /\ delivered[n].who = frame.who
      BY <1>1, <2>2, LegalNext
    <3> QED BY <1>2, <3>1, <3>2, <3>3 DEF Admissible, Protocol!Frame
  <2> QED BY <2>1, <2>2
<1>4. /\ terminal <=> Protocol!Ended(delivered)
      /\ accepted <=> delivered # << >>
      /\ usageFinal <=> Protocol!Has(delivered, "usage_final")
  BY DEF SInv, StreamInv, FlagsInv
<1>5. /\ ~Protocol!Ended(delivered)
      /\ frame.name \in Protocol!Names \ {"unknown"}
      /\ frame.name = "accepted" <=> delivered = << >>
      /\ frame.name = "completed" => Protocol!Has(delivered, "usage_final")
      /\ frame.name \in {"delta", "usage_final"} =>
            ~Protocol!Has(delivered, "usage_final")
  BY <1>1, LegalNext
<1>6. Order(frame)
  BY <1>4, <1>5 DEF Order, Protocol!Names
<1> QED BY <1>3, <1>6

\* Waiting lines are used up by a dispatch alone.
LEMMA FieldsUsed ==
    ASSUME [Next]_streamVars, fields # << >>, fields' = << >>
    PROVE  \E t \in Threads : Dispatch(t, fields[1])
<1>1. CASE UNCHANGED streamVars
  BY <1>1 DEF streamVars
<1>2. CASE EndBody \/ \E item \in Items : Arrive(item)
  BY <1>2 DEF EndBody, Arrive
<1>3. ASSUME NEW t \in Threads,
             \/ \E op \in {"next", "query", "close"} : Call(t, op)
             \/ LockStep(t) \/ CloseStep(t)
      PROVE  FALSE
  BY <1>3 DEF Call, LockStep, NextRefused, NextLocks, Query, CloseStep, CloseFlag,
              CloseBody, CloseAgain
<1>4. ASSUME NEW t \in Threads, ReadLines(t) PROVE FALSE
  BY <1>4 DEF ReadLines, Accumulate
<1>5. ASSUME NEW t \in Threads,
             ReadBadLine(t) \/ ReadEmptyFrame(t) \/ ReadFails(t) \/ ReadEOF(t)
      PROVE  FALSE
  BY <1>5 DEF ReadBadLine, ReadEmptyFrame, ReadFails, ReadEOF
<1>6. ASSUME NEW t \in Threads, ReadFrame(t) \/ ReadLastFrame(t)
      PROVE  Dispatch(t, fields[1])
  BY <1>6 DEF ReadFrame, ReadLastFrame
<1> QED BY <1>1, <1>2, <1>3, <1>4, <1>5, <1>6 DEF Next, ReadStep

\* The parser turns nothing away that the promise allows (dispatchEvent,
\* validateEventOrder), for any frames, goroutines and buffer.
THEOREM EveryLegalFrameIsAccepted == Spec => AcceptsEveryLegalFrame
<1>1. SInv /\ [Next]_streamVars => \A t \in Threads : LegalFrameAccepted(t)
  <2> SUFFICES ASSUME SInv, [Next]_streamVars, fields # << >>, fields' = << >>,
                      fields[1].wellFormed,
                      fields[1].name = "pending" => fields[1].settling,
                      pins = IF Len(delivered) = 0 THEN <<0, 0, 0>>
                             ELSE <<delivered[Len(delivered)].id,
                                    delivered[Len(delivered)].sequence,
                                    delivered[Len(delivered)].who>>,
                      Protocol!Legal(Append(delivered, fields[1]))
               PROVE  delivered' = Append(delivered, fields[1])
    BY DEF LegalFrameAccepted
  <2>1. PICK t \in Threads : Dispatch(t, fields[1])
    BY FieldsUsed
  <2>2. fields[1] \in Frames
    BY StreamAssumption DEF SInv, TypeOK, Protocol!Frame
  <2>3. Admissible(fields[1]) /\ Order(fields[1])
    BY <2>2, LegalIsAccepted
  <2> QED BY <2>1, <2>3 DEF Dispatch
<1> QED BY <1>1, StreamInvariant, PTL DEF Spec, AcceptsEveryLegalFrame

\* After a late event the stream is closed and nobody reads.
LateInv == late => closed /\ \A t \in Threads : pc[t] # "read"

LEMMA LateStep == SInv /\ LateInv /\ [Next]_streamVars => LateInv'
<1> SUFFICES ASSUME SInv, LateInv, [Next]_streamVars PROVE LateInv'
  OBVIOUS
<1>1. pc \in [Threads -> PCs] /\ \A t \in Threads : mu = t <=> pc[t] = "read"
  BY DEF SInv, TypeOK
<1> USE DEF LateInv
<1>2. CASE UNCHANGED streamVars
  BY <1>2 DEF streamVars, history
<1>3. CASE EndBody \/ \E item \in Items : Arrive(item)
  BY <1>3 DEF EndBody, Arrive, history
<1>4. ASSUME NEW t \in Threads, NEW op \in {"next", "query", "close"}, Call(t, op)
      PROVE  LateInv'
  BY <1>1, <1>4 DEF Call, history
<1>5. ASSUME NEW t \in Threads, LockStep(t) \/ CloseStep(t)
      PROVE  LateInv'
  BY <1>1, <1>5 DEF LockStep, NextRefused, NextLocks, Query, CloseStep, CloseFlag,
                    CloseBody, CloseAgain, Return, history
<1>6. ASSUME NEW t \in Threads,
             \/ ReadLines(t) \/ ReadBadLine(t) \/ ReadEmptyFrame(t)
             \/ ReadEOF(t) \/ ReadFails(t)
      PROVE  LateInv'
  BY <1>1, <1>6 DEF ReadLines, ReadBadLine, ReadEmptyFrame, ReadEOF, ReadFails,
                    NextReturns, Return, history
<1>7. ASSUME NEW t \in Threads, ReadFrame(t) \/ ReadLastFrame(t)
      PROVE  LateInv'
  <2>1. pc[t] = "read" /\ Dispatch(t, fields[1]) /\ closed' = closed
    BY <1>7 DEF ReadFrame, ReadLastFrame
  <2>2. pc' = [pc EXCEPT ![t] = "idle"] /\ (late' => late \/ closed)
    BY <2>1 DEF Dispatch, NextReturns, Return
  <2>3. \A u \in Threads : pc'[u] # "read"
    BY <1>1, <2>1, <2>2
  <2> QED BY <2>1, <2>2, <2>3
<1> QED BY <1>2, <1>3, <1>4, <1>5, <1>6, <1>7 DEF Next, ReadStep

\* Once Close has begun, at most one more event is handed out (sse.go:128-137,
\* the check of closed at sse.go:78), for any number of goroutines.
THEOREM AtMostOneEventIsLate == Spec => AtMostOneLateEvent
<1>1. Init => LateInv
  BY DEF Init, LateInv
<1>2. SInv /\ LateInv /\ [Next]_streamVars => [late => UNCHANGED delivered]_streamVars
  <2> SUFFICES ASSUME SInv, LateInv, Next, late PROVE UNCHANGED delivered
    OBVIOUS
  <2>1. \A t \in Threads : pc[t] # "read"
    BY DEF LateInv
  <2> QED BY <2>1 DEF Next, EndBody, Arrive, Call, LockStep, NextRefused, NextLocks,
                      Query, CloseStep, CloseFlag, CloseBody, CloseAgain, ReadStep,
                      ReadLines, ReadBadLine, ReadEmptyFrame, ReadFrame,
                      ReadLastFrame, ReadEOF, ReadFails, history
<1> QED BY <1>1, <1>2, LateStep, StreamInvariant, PTL DEF Spec, AtMostOneLateEvent
=============================================================================
