----------------------------- MODULE SSEProtocol -----------------------------
(***************************************************************************)
(* What a consumer of a gateway SSE stream may rely on, without parsing,   *)
(* locks or connections: the events handed out, in order, are a legal      *)
(* prefix of one invocation's life, and the stream is declared finished    *)
(* only after a terminal event.                                            *)
(***************************************************************************)
EXTENDS Naturals, Sequences

CONSTANT Frames             \* frames a server may send

Names == {"accepted", "delta", "usage_final", "completed", "failed",
          "pending", "unknown"}
TerminalNames == {"completed", "failed", "pending"}

\* id and sequence are positive here, so 0 stands for "none seen".
Frame == [name : Names, id : Nat \ {0}, sequence : Nat \ {0}, who : Nat \ {0},
          wellFormed : BOOLEAN, settling : BOOLEAN]

VARIABLES
    delivered,      \* events returned by Next, in order
    finished        \* Next has returned io.EOF

protocolVars == <<delivered, finished>>
-----------------------------------------------------------------------------
Has(events, name) == \E i \in 1..Len(events) : events[i].name = name
Ended(events) == \E i \in 1..Len(events) : events[i].name \in TerminalNames

\* The invocation is accepted once and first, output comes before the final
\* usage, the final usage comes once and before completion, and nothing
\* follows a terminal event.
InOrder(events) ==
    \A i \in 1..Len(events) :
        /\ events[i].name # "unknown"
        /\ events[i].name = "accepted" <=> i = 1
        /\ events[i].name \in TerminalNames => i = Len(events)
        /\ events[i].name = "completed" =>
              \E j \in 1..Len(events) : events[j].name = "usage_final"
        /\ events[i].name = "usage_final" =>
              \A j \in i+1..Len(events) : events[j].name \in TerminalNames

\* One invocation, ids and sequence numbers strictly increasing.
Ascending(events) ==
    \A i, j \in 1..Len(events) :
        i < j => /\ events[i].id < events[j].id
                 /\ events[i].sequence < events[j].sequence
                 /\ events[i].who = events[j].who

Legal(events) == InOrder(events) /\ Ascending(events)
-----------------------------------------------------------------------------
ProtocolInit == delivered = << >> /\ finished = FALSE

\* One more event, if the sequence stays legal with it.
Deliver(frame) ==
    /\ ~finished
    /\ Legal(Append(delivered, frame))
    /\ delivered' = Append(delivered, frame)
    /\ UNCHANGED finished

\* io.EOF: only after a terminal event.
Finish ==
    /\ Ended(delivered)
    /\ finished' = TRUE
    /\ UNCHANGED delivered

ProtocolNext == Finish \/ \E frame \in Frames : Deliver(frame)

ProtocolSpec == ProtocolInit /\ [][ProtocolNext]_protocolVars
=============================================================================
