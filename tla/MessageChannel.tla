--------------------------- MODULE MessageChannel ---------------------------
(***************************************************************************)
(* What the codec promises to the two ends of a connection: the messages   *)
(* come out in the order in which they were sent, none is skipped, and the *)
(* end is only reported behind the last one.  A channel may stop at any    *)
(* point: a stream with a frame that cannot be read is given up.           *)
(***************************************************************************)
EXTENDS Naturals, Sequences

CONSTANT Data

VARIABLES
  sent,       \* the messages that were sent
  received,   \* and those that came out
  ended       \* whether the end was reported

channelVars == <<sent, received, ended>>

ChannelInit == sent = <<>> /\ received = <<>> /\ ended = FALSE

Send(m) ==
  /\ ~ended
  /\ sent' = Append(sent, m)
  /\ UNCHANGED <<received, ended>>

Receive ==
  /\ ~ended /\ Len(received) < Len(sent)
  /\ received' = Append(received, sent[Len(received) + 1])
  /\ UNCHANGED <<sent, ended>>

End ==
  /\ ~ended /\ received = sent
  /\ ended' = TRUE
  /\ UNCHANGED <<sent, received>>

ChannelNext == Receive \/ End \/ \E m \in Data : Send(m)

ChannelSpec == ChannelInit /\ [][ChannelNext]_channelVars
=============================================================================
