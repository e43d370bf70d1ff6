----------------------------- MODULE FrameScan -----------------------------
(***************************************************************************)
(* What the framing promises of the bytes received: they are scanned from  *)
(* the left, each frame is found before a byte more is received, none      *)
(* before an earlier one, and no byte is part of two.                      *)
(***************************************************************************)
EXTENDS Integers, Sequences

CONSTANTS Bytes, PacketLen

VARIABLES
    stream,   \* every byte received
    frames    \* where the frames found begin

vars == <<stream, frames>>

FrameAt(p) ==
    /\ p + PacketLen - 1 <= Len(stream)
    /\ stream[p] = 170 /\ stream[p + 1] = 85
    /\ stream[p + PacketLen - 2] = 13 /\ stream[p + PacketLen - 1] = 13

\* Frames that begin outside of those found.
Open == {p \in 1 .. Len(stream) :
            FrameAt(p) /\ \A q \in frames : p < q \/ q + PacketLen <= p}

Init == stream = <<>> /\ frames = {}

Receive ==
    /\ Open = {}
    /\ stream' \in Seq(Bytes) /\ Len(stream) < Len(stream')
    /\ \A i \in 1 .. Len(stream) : stream'[i] = stream[i]
    /\ UNCHANGED frames

Find(p) ==
    /\ \A q \in Open : p <= q
    /\ frames' = frames \cup {p}
    /\ UNCHANGED stream

Next == Receive \/ \E p \in Open : Find(p)

Spec == Init /\ [][Next]_vars
=============================================================================
