---------------------------- MODULE MCSSEStream ----------------------------
(* SSEStream on a small instance: the frames of a short life of one        *)
(* invocation, and the frames a faulty server may mix in.                  *)
EXTENDS SSEStream

Frame(name, id, source, settling) ==
    [name |-> name, id |-> id, sequence |-> id, who |-> source,
     wellFormed |-> TRUE, settling |-> settling]

MCFrames ==
    { Frame("accepted", 1, 1, FALSE), Frame("usage_final", 2, 1, FALSE),
      Frame("delta", 3, 1, FALSE), Frame("delta", 3, 2, FALSE),
      Frame("failed", 4, 1, FALSE), Frame("completed", 4, 1, FALSE),
      Frame("pending", 4, 1, TRUE) }
=============================================================================
