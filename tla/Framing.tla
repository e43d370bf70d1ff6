------------------------------ MODULE Framing ------------------------------
(***************************************************************************)
(* How KocomController finds frames in the bytes that recv returns: feed,  *)
(* _split_buf and the checksum guard of _dispatch_packet (controller.py).  *)
(*                                                                         *)
(* The chunks cut the byte stream anywhere, and bytes may be noise.  One   *)
(* action is one turn of the loop in _split_buf; feed awaits nothing, so   *)
(* no chunk arrives between two turns.                                     *)
(***************************************************************************)
EXTENDS Integers, Sequences, SequencesExt

CONSTANTS
    Bytes,      \* the byte values that occur
    PacketLen,  \* PACKET_LEN (21 in const.py)
    MaxChunk,   \* bound on the length of a chunk
    MaxBytes    \* bound on the number of bytes received

ASSUME FramingAssumption ==
    /\ Bytes \subseteq 0 .. 255
    /\ PacketLen \in Nat /\ PacketLen > 5
    /\ MaxChunk \in Nat /\ MaxBytes \in Nat

VARIABLES
    buf,        \* _rx_buf
    splitting,  \* feed is in the loop of _split_buf
    \* History, read by the properties only:
    stream,     \* every byte received
    taken,      \* how many of them have left the buffer
    base,       \* how many of them came over earlier connections
    frames,     \* where in the stream the frames found begin
    delivered   \* those whose checksum was right

vars == <<buf, splitting, stream, taken, base, frames, delivered>>

----------------------------------------------------------------------------
PrefixAt(s, i) == i + 1 <= Len(s) /\ s[i] = 170 /\ s[i + 1] = 85  \* PACKET_PREFIX
SuffixAt(s, i) == i + 1 <= Len(s) /\ s[i] = 13 /\ s[i + 1] = 13   \* PACKET_SUFFIX

\* buf.find(PACKET_PREFIX)
\* mutant: the last prefix of the buffer instead of the first
Found_Last(s, i) == PrefixAt(s, i) /\ \A j \in i + 1 .. Len(s) : ~PrefixAt(s, j)

Found(s, i) == PrefixAt(s, i) /\ \A j \in 1 .. i - 1 : ~PrefixAt(s, j)

Checksum(bytes) == FoldLeft(LAMBDA sum, byte : sum + byte, 0, bytes) % 256

\* packet[18] is the checksum of packet[2:18], for the packet that begins at i.
ChecksumAt(s, i) == s[i + PacketLen - 3] = Checksum(SubSeq(s, i + 2, i + PacketLen - 4))

\* del buf[:n]
Cut(n) ==
    /\ buf' = SubSeq(buf, n + 1, Len(buf))
    /\ taken' = taken + n

----------------------------------------------------------------------------
(* recv returned a chunk and the reader feeds it.                          *)
Feed(chunk) ==
    /\ ~splitting /\ Len(stream) + Len(chunk) <= MaxBytes
    /\ buf' = buf \o chunk
    /\ stream' = stream \o chunk
    /\ splitting' = TRUE
    /\ UNCHANGED <<taken, base, frames, delivered>>

(* No prefix: forget everything but the first half of one at the end.      *)
\* mutant: a prefix that two chunks share is forgotten
NoPrefix_Forgotten ==
    /\ splitting /\ \A i \in 1 .. Len(buf) : ~PrefixAt(buf, i)
    /\ Cut(Len(buf))
    /\ splitting' = FALSE
    /\ UNCHANGED <<stream, base, frames, delivered>>

\* mutant: the noise before a prefix is kept
NoPrefix_KeepsNoise ==
    /\ splitting /\ \A i \in 1 .. Len(buf) : ~PrefixAt(buf, i)
    /\ splitting' = FALSE
    /\ UNCHANGED <<buf, taken, stream, base, frames, delivered>>

NoPrefix ==
    /\ splitting /\ \A i \in 1 .. Len(buf) : ~PrefixAt(buf, i)
    /\ Cut(IF buf # <<>> /\ buf[Len(buf)] = 170 THEN Len(buf) - 1 ELSE Len(buf))
    /\ splitting' = FALSE
    /\ UNCHANGED <<stream, base, frames, delivered>>

(* A prefix at i, and less than a frame from there on: wait for more.      *)
\* mutant: one byte more than a frame is waited for
Incomplete_OneMore(i) ==
    /\ splitting /\ Found(buf, i) /\ Len(buf) - i + 1 <= PacketLen
    /\ Cut(i - 1)
    /\ splitting' = FALSE
    /\ UNCHANGED <<stream, base, frames, delivered>>

Incomplete(i) ==
    /\ splitting /\ Found(buf, i) /\ Len(buf) - i + 1 < PacketLen
    /\ Cut(i - 1)
    /\ splitting' = FALSE
    /\ UNCHANGED <<stream, base, frames, delivered>>

(* No suffix where it should be: search again from the next byte on.       *)
\* mutant: a right checksum makes up for a missing suffix
Slide_Dispatches(i) ==
    /\ splitting /\ Found(buf, i) /\ Len(buf) - i + 1 >= PacketLen
    /\ ~SuffixAt(buf, i + PacketLen - 2)
    /\ Cut(i)
    /\ delivered' = IF ChecksumAt(buf, i) THEN delivered \cup {taken + i} ELSE delivered
    /\ UNCHANGED <<splitting, stream, base, frames>>

\* mutant: the loop goes on without deleting the byte
Slide_Stays(i) ==
    /\ splitting /\ Found(buf, i) /\ Len(buf) - i + 1 >= PacketLen
    /\ ~SuffixAt(buf, i + PacketLen - 2)
    /\ UNCHANGED vars

Slide(i) ==
    /\ splitting /\ Found(buf, i) /\ Len(buf) - i + 1 >= PacketLen
    /\ ~SuffixAt(buf, i + PacketLen - 2)
    /\ Cut(i)
    /\ UNCHANGED <<splitting, stream, base, frames, delivered>>

(* A frame; _dispatch_packet drops it if its checksum is wrong.            *)
Accept(i) ==
    /\ splitting /\ Found(buf, i) /\ Len(buf) - i + 1 >= PacketLen
    /\ SuffixAt(buf, i + PacketLen - 2)
    /\ Cut(i + PacketLen - 1)
    /\ frames' = frames \cup {taken + i}
    /\ delivered' = IF ChecksumAt(buf, i) THEN delivered \cup {taken + i} ELSE delivered
    /\ UNCHANGED <<splitting, stream, base>>

(* The connection is lost and another one opened: the buffer stays.        *)
Reconnect ==
    /\ ~splitting
    /\ base' = Len(stream)
    /\ UNCHANGED <<buf, splitting, stream, taken, frames, delivered>>

----------------------------------------------------------------------------
Init ==
    /\ buf = <<>> /\ splitting = FALSE
    /\ stream = <<>> /\ taken = 0 /\ base = 0
    /\ frames = {} /\ delivered = {}

Turn == NoPrefix \/ \E i \in 1 .. Len(buf) : Incomplete(i) \/ Slide(i) \/ Accept(i)

Next ==
    \/ \E chunk \in UNION {[1 .. n -> Bytes] : n \in 1 .. MaxChunk} : Feed(chunk)
    \/ Turn
    \/ Reconnect

Spec == Init /\ [][Next]_vars
\* The loop runs: feed is a plain call.
FairSpec == Spec /\ WF_vars(Turn)

----------------------------------------------------------------------------
(* Properties.                                                             *)

\* What feed looks for, said of the whole stream.
FrameIn(s, p) == PrefixAt(s, p) /\ SuffixAt(s, p + PacketLen - 2)
FrameAt(p) == FrameIn(stream, p)

\* Where frames stand in the bytes s for one who sees them all at once and
\* takes from the left every frame that begins outside of those taken.
Selected(s) ==
    LET sel[p \in 1 .. Len(s)] ==
            FrameIn(s, p) /\ \A q \in 1 .. p - 1 : p < q + PacketLen => ~sel[q]
    IN  {p \in 1 .. Len(s) : sel[p]}

\* Every variable has its type; what is dispatched was found as a frame.
TypeOK ==
    /\ buf \in Seq(Bytes) /\ splitting \in BOOLEAN
    /\ stream \in Seq(Bytes) /\ taken \in Nat /\ base \in Nat
    /\ frames \subseteq Nat /\ delivered \subseteq frames

\* The buffer holds the end of the stream, less than a frame between two
\* calls of feed: noise does not accumulate.
BufferIsTail ==
    /\ taken + Len(buf) = Len(stream)
    /\ \A i \in 1 .. Len(buf) : buf[i] = stream[taken + i]
    /\ ~splitting => Len(buf) < PacketLen

\* What was dispatched stands in the stream, and no byte is part of two
\* frames (test_bytewise_and_concatenated_reports...: no duplicates).
FramesAreReal ==
    /\ \A p \in frames : p > 0 /\ FrameAt(p)
    /\ \A p, q \in frames : p # q => p + PacketLen <= q \/ q + PacketLen <= p

\* However the stream was cut into chunks, and whatever the noise: once feed
\* has returned, every frame of the stream was found, unless it overlaps one
\* that begins before it (test_every_split_offset_for_each_report).
NothingLost ==
    ~splitting =>
        \A p \in 1 .. Len(stream) : FrameAt(p) =>
            \E q \in frames : q <= p /\ p < q + PacketLen

\* What is dispatched is determined by the bytes received alone, not by where
\* the chunks end (test_every_split_offset_for_each_report): the frames that
\* Selected names, those of the part taken at any time and all of them once
\* feed has returned, and of these the ones whose checksum is right.
FramesOfStream ==
    /\ frames = {p \in Selected(stream) : p <= taken}
    /\ ~splitting => frames = Selected(stream)
    /\ delivered = {p \in frames : ChecksumAt(stream, p)}

\* The framing scans the stream as FrameScan says: it finds the frames in
\* their order, and each as soon as its last byte is there.
Scan == INSTANCE FrameScan
ScansStream == Scan!Spec

\* The loop of _split_buf ends.
FeedReturns == splitting ~> ~splitting

\* A dispatched frame was received over the connection that is open
\* (gateway.py:292, "A new socket session must receive a fresh physical
\* report"): false of the code, which keeps the buffer across connections.
FrameIsFresh ==
    [][\A p \in delivered' \ delivered : p > base]_vars

\* What holds instead: the end of a frame at least came over the connection
\* that is open.  No report is dispatched that was complete before, and, since
\* frames share no byte, at most one for every connection began before it.
FrameEndsFresh ==
    [][\A p \in frames' \ frames : p + PacketLen - 1 > base]_vars
=============================================================================
