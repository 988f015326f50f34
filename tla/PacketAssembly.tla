----------------------------- MODULE PacketAssembly -----------------------------
(***************************************************************************)
(* How engine/service/proto turns messages into sequenced packets and      *)
(* back: BaseClient::sendPacket groups small messages into one packet      *)
(* (BaseMultiPacket) and splits large ones (BaseFragmentedPacket), and     *)
(* BasePacketHandler takes the messages out again, in the order of the     *)
(* sequence numbers although packets arrive early, late and twice.         *)
(*                                                                         *)
(* A message is the number it was handed over with and a size in bytes,    *)
(* the 4 bytes of operation code and sequence included.  What a packet     *)
(* carries is a sequence of pieces of messages; the sizes are the code's.  *)
(* The window, the acknowledgements and the wrapping of the numbers are in *)
(* BaseClient; here the connection stays open.                             *)
(***************************************************************************)
EXTENDS Integers, Sequences, SequencesExt

CONSTANTS
    Sizes,        \* the sizes a message may have
    MaxMessages   \* bound: messages handed over

MaxUnfragmented == 490               \* sendPacket splits from this size on
MaxGroup == 460                      \* BaseMultiPacket::add
Escape == 255                        \* the length byte that announces two more
FragmentSize == 496 - 4 - 3          \* bytes of a message in one fragment
MaxCompleteFragSize == 1500000

ASSUME SizesAssumption ==
    /\ Sizes \subseteq Nat
    /\ \A n \in Sizes : n >= 6 /\ n - 4 <= MaxCompleteFragSize
    /\ MaxMessages \in Nat

VARIABLES
    submitted,         \* the sizes of the messages handed over
    bufferedPacket,    \* the group that is being filled
    sendBuffer,        \* packets waiting to be sent
    wire,              \* packets sent, in the order of their sequence numbers
    clientSequence,    \* the receiver: the sequence it expects
    receiveBuffer,     \* sequences of the packets that came early
    fragmentedPacket,  \* the message that is being put together
    processed          \* what was given to processMessage

sender == <<submitted, bufferedPacket, sendBuffer, wire>>
receiver == <<clientSequence, receiveBuffer, fragmentedPacket, processed>>
vars == <<sender, receiver>>

None == [op |-> "none"]

Init ==
    /\ submitted = <<>> /\ bufferedPacket = None
    /\ sendBuffer = <<>> /\ wire = <<>>
    /\ clientSequence = 0 /\ receiveBuffer = {}
    /\ fragmentedPacket = None /\ processed = <<>>

-----------------------------------------------------------------------------
(* Sending.                                                                *)

\* Bytes from..to-1 of message m, counted after its 4 bytes of header.
Piece(m, from, to) == [msg |-> m, from |-> from, to |-> to]

Whole(m, n) == Piece(m, 0, n - 4)

\* A message of n bytes as a packet of its own.
Single(m, n) == [op |-> "data", body |-> <<Whole(m, n)>>, size |-> n]

\* BaseMultiPacket::add turns the one packet it holds into the first block of
\* a group: 6 bytes of header and a length byte, without the block's header.
Opened(p) ==
    IF p.op = "data" THEN [op |-> "multi", body |-> p.body, size |-> 6 + 1 + p.size - 4]
                     ELSE p

\* BaseMultiPacket::insertPacket: a length byte and the block without its header.
Added(p, q) == [op |-> p.op, body |-> p.body \o q.body, size |-> p.size + 1 + q.size - 4]

\* BaseClient::bufferMultiPacket.
BufferMultiPacket(pack) ==
    LET short == pack.size - 4 < Escape
        group == Opened(bufferedPacket)
    IN  IF bufferedPacket = None
          THEN /\ bufferedPacket' = IF short THEN pack ELSE None
               /\ sendBuffer' = IF short THEN sendBuffer ELSE Append(sendBuffer, pack)
        ELSE IF ~short
          THEN /\ bufferedPacket' = None
               /\ sendBuffer' = sendBuffer \o <<bufferedPacket, pack>>
        ELSE IF group.size + pack.size > MaxGroup
          THEN /\ bufferedPacket' = pack
               /\ sendBuffer' = Append(sendBuffer, group)
        ELSE /\ bufferedPacket' = Added(group, pack)
             /\ UNCHANGED sendBuffer

\* Mutant: the first fragment leaves no room for the 4 bytes of length.
FragmentLong(m, n, k) ==
    LET from == (k - 1) * FragmentSize
        end == IF k = 1 \/ k * FragmentSize + 4 < n THEN k * FragmentSize + 4 ELSE n
    IN  [op   |-> "frag",
         body |-> <<Piece(m, IF k = 1 THEN -4 ELSE from, end - 4)>>,
         size |-> 4 + end - from]

\* BaseFragmentedPacket::getFragment, the k-th call.  The packet offset has
\* advanced by FragmentSize in each call before it, for the first fragment
\* carries the length of the message where the message had its header: those
\* are the bytes -4..-1 of the message.
FragmentEnd(n, k) ==
    IF k = 1 \/ k * FragmentSize < n THEN k * FragmentSize ELSE n

Fragment(m, n, k) ==
    LET from == (k - 1) * FragmentSize IN
    [op   |-> "frag",
     body |-> <<Piece(m, from - 4, FragmentEnd(n, k) - 4)>>,
     size |-> 4 + FragmentEnd(n, k) - from]

\* BaseClient::sendFragmented: fragments for as long as hasFragments().
Fragments(m, n) ==
    [k \in 1..((n + FragmentSize - 1) \div FragmentSize) |-> Fragment(m, n, k)]

\* Mutant: a large message overtakes the group that is being filled.
SendPacketOvertaking(n) ==
    LET m == Len(submitted) + 1 IN
    /\ Len(submitted) < MaxMessages
    /\ submitted' = Append(submitted, n)
    /\ IF n >= MaxUnfragmented
         THEN /\ UNCHANGED bufferedPacket
              /\ sendBuffer' = sendBuffer \o Fragments(m, n)
         ELSE BufferMultiPacket(Single(m, n))
    /\ UNCHANGED <<wire, receiver>>

\* BaseClient::sendPacket of a sequenced data channel message.
SendPacket(n) ==
    LET m == Len(submitted) + 1
        flushed == IF bufferedPacket = None THEN <<>> ELSE <<bufferedPacket>>
    IN  /\ Len(submitted) < MaxMessages
        /\ submitted' = Append(submitted, n)
        /\ IF n >= MaxUnfragmented
             THEN /\ bufferedPacket' = None
                  /\ sendBuffer' = sendBuffer \o flushed \o Fragments(m, n)
             ELSE BufferMultiPacket(Single(m, n))
        /\ UNCHANGED <<wire, receiver>>

\* Mutant: the group that is being filled is only sent when the next one starts.
TransmitQueued ==
    /\ sendBuffer # <<>>
    /\ wire' = Append(wire, Head(sendBuffer))
    /\ sendBuffer' = Tail(sendBuffer)
    /\ UNCHANGED <<bufferedPacket, submitted, receiver>>

\* BaseClient::getNextSequencedPacket and the sending of what it returns.
Transmit ==
    /\ \/ /\ sendBuffer # <<>>
          /\ wire' = Append(wire, Head(sendBuffer))
          /\ sendBuffer' = Tail(sendBuffer)
          /\ UNCHANGED bufferedPacket
       \/ /\ sendBuffer = <<>> /\ bufferedPacket # None
          /\ wire' = Append(wire, bufferedPacket)
          /\ bufferedPacket' = None
          /\ UNCHANGED sendBuffer
    /\ UNCHANGED <<submitted, receiver>>

-----------------------------------------------------------------------------
(* Receiving.  A packet is handled on what the receiver has so far,        *)
(* rx = [frag, processed].                                                 *)

\* The bytes of a piece after the bytes of some others.
Extended(body, piece) ==
    IF body # <<>> /\ Last(body).msg = piece.msg /\ Last(body).to = piece.from
      THEN Append(Front(body), Piece(piece.msg, Last(body).from, piece.to))
      ELSE Append(body, piece)

NewFragmentedPacket == [op |-> "message", totalSize |-> 0, body |-> <<>>, size |-> 0]

\* parseNetInt of the first 4 bytes of a piece: the length of the message when
\* they are that, and no size that addFragment accepts when they are not.
ParsedSize(piece) == IF piece.from = -4 THEN submitted[piece.msg] - 4 ELSE -1

\* BaseFragmentedPacket::addFragment; None when it fails.
AddFragment(f, piece) ==
    LET first == f.totalSize = 0
        totalSize == IF first THEN ParsedSize(piece) ELSE f.totalSize
        from == IF first THEN piece.from + 4 ELSE piece.from
        room == totalSize - f.size
        readBytes == IF piece.to - from > room THEN room ELSE piece.to - from
    IN  IF totalSize \notin 1..MaxCompleteFragSize \/ readBytes < 0
          THEN None
          ELSE [f EXCEPT !.totalSize = totalSize,
                         !.body = Extended(@, Piece(piece.msg, from, from + readBytes)),
                         !.size = @ + readBytes]

\* BasePacketHandler::handleFragmentedPacket and BaseClient::
\* receiveFragmentedPacket.
HandleFragment(rx, piece) ==
    LET f == AddFragment(IF rx.frag = None THEN NewFragmentedPacket ELSE rx.frag, piece)
    IN  IF f = None
          THEN [rx EXCEPT !.frag = None]
        ELSE IF f.size < f.totalSize
          THEN [rx EXCEPT !.frag = f]
          ELSE [frag |-> None, processed |-> Append(rx.processed, f.body)]

\* BasePacketHandler::handleDataChannelPacket, for one message or a group.
HandlePacket(rx, p) ==
    IF p.op = "frag"
      THEN HandleFragment(rx, p.body[1])
      ELSE [rx EXCEPT !.processed = @ \o [i \in DOMAIN p.body |-> <<p.body[i]>>]]

\* BaseClient::getBufferedPacket, for as long as it returns a packet.
Ready(seq) ==
    LET next == {n \in seq..Len(wire) : \A s \in seq..(n - 1) : s \in receiveBuffer}
    IN  CHOOSE n \in next : \A o \in next : o <= n

\* What the receiver has after the packets from seq up to next.
Handled(seq, next) ==
    FoldLeft(HandlePacket, [frag |-> fragmentedPacket, processed |-> processed],
             SubSeq(wire, seq + 1, next))

\* BasePacketHandler::handlePacket of the packet with a sequence, which may
\* come again: BaseClient::validatePacket, then processBufferedPackets.
Receive(seq) ==
    /\ IF seq < clientSequence
         THEN UNCHANGED receiver
       ELSE IF seq > clientSequence
         THEN /\ receiveBuffer' = receiveBuffer \cup {seq}
              /\ UNCHANGED <<clientSequence, fragmentedPacket, processed>>
         ELSE \E next \in {Ready(seq + 1)} : \E rx \in {Handled(seq, next)} :
                /\ clientSequence' = next
                /\ receiveBuffer' = receiveBuffer \ (seq..(next - 1))
                /\ fragmentedPacket' = rx.frag
                /\ processed' = rx.processed
    /\ UNCHANGED sender

Next ==
    \/ \E n \in Sizes : SendPacket(n)
    \/ Transmit
    \/ \E seq \in 0..(Len(wire) - 1) : Receive(seq)

Spec == Init /\ [][Next]_vars

\* The task that sends runs again while there is something to send, and a packet
\* is sent again until it arrives (BaseClient), so the receiver moves on while
\* there are packets it does not have: fairness of Receive(clientSequence), the
\* only step that changes clientSequence.
Advance == clientSequence' \in (clientSequence + 1)..Len(wire)

FairSpec == Spec /\ WF_vars(Transmit) /\ WF_clientSequence(Advance)

-----------------------------------------------------------------------------
(* Properties.                                                             *)

\* Whatever the sizes and the grouping, a packet with the 3 bytes that
\* BasePacket::close appends is within the 496 bytes that
\* SessionIDResponseMessage announces as the largest.
PacketsFit ==
    \A i \in DOMAIN wire : wire[i].size + 3 <= 496

\* The messages given to processMessage are the messages given to sendPacket:
\* each whole, once and in order, however they were grouped, split, reordered
\* and repeated on the way.
Stream == INSTANCE ReliableStream WITH
    submitted <- Len(submitted),
    delivered <- [i \in DOMAIN processed |->
                     IF i <= Len(submitted) /\ processed[i] = <<Whole(i, submitted[i])>>
                       THEN i - 1 ELSE -1]

StreamSpec == Stream!Spec

\* A message handed over is processed in the end: none stays behind in a group
\* that nothing sends, or in a message that is never complete.
AllProcessed ==
    \A m \in 1..MaxMessages : Len(submitted) >= m ~> Len(processed) >= m
================================================================================
