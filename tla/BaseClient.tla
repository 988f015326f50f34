------------------------------ MODULE BaseClient ------------------------------
(***************************************************************************)
(* The sequenced channel of engine/service/proto/BaseClient, from one      *)
(* endpoint to the other: packets are numbered, kept until acknowledged    *)
(* and sent again by a timed checkup; the other endpoint acknowledges,     *)
(* reorders and drops duplicates.  The network loses, duplicates and       *)
(* reorders.                                                               *)
(*                                                                         *)
(* Everything the sender does happens under its Mutex, except that         *)
(* sendReliablePackets gives the Mutex up while it encrypts a packet that  *)
(* already has its number.  The task that sends may be scheduled again as  *)
(* soon as the scheduler has taken it, so several threads may be in that   *)
(* window.  A packet is the number it was handed over with; what it        *)
(* carries is modelled by PacketAssembly.                                  *)
(***************************************************************************)
EXTENDS Integers, Sequences, FiniteSets

CONSTANTS
    SeqMod,          \* 0x10000: the sequence numbers on the wire are modulo this
    Window,          \* 50: packets beyond the last acknowledged one
    MaxOutstanding,  \* configMaxOutstandingPackets
    Batch,           \* packets that sendReliablePackets sends in one call
    ResendMax,       \* packets that resendPackets sends again
    Fragments,       \* packets a large packet is split into
    Senders,         \* the workers that may run the sending task
    Checkers,        \* the workers that may run the checkup task
    Free,            \* no thread
    Duplicates,      \* whether the network may deliver a packet more than once
    MaxPackets       \* bound: packets handed over

ASSUME ChannelAssumption ==
    /\ SeqMod \in Nat \ {0} /\ Window \in Nat /\ MaxOutstanding \in Nat
    /\ Batch \in Nat \ {0} /\ ResendMax \in Nat \ {0} /\ Fragments \in Nat \ {0}
    /\ MaxPackets \in Nat
    /\ Free \notin Senders
    /\ Duplicates \in BOOLEAN

\* The receiver compares numbers as they are on the wire, so what follows is
\* about the packets before the numbers on the wire start again.
ASSUME EpochAssumption == MaxPackets < SeqMod

VARIABLES
    open,             \* ~disconnected
    bufferedPacket,   \* whether a multi packet is being filled
    sendBuffer,       \* packets waiting for the window
    serverSequence,   \* the next sequence number
    acknowledgedServerSequence,
    sequenceBuffer,   \* packets sent and not acknowledged
    reentrant,        \* whether reentrantTask is scheduled
    checkup,          \* whether checkupEvent is scheduled
    checkupPacket,    \* the sequence of checkupEvent's packet
    lock,             \* the sender that holds the Mutex between two steps
    spc,              \* where a thread is in run()
    sent,             \* packets it has sent in this call
    packet,           \* the packet it is encrypting
    cpc,              \* where a thread is in the checkup
    cpacket,          \* the packet it read from the event
    dataNet,          \* packets in the network
    ackNet,           \* acknowledgements in the network
    clientSequence,   \* the other endpoint: the next sequence it expects
    receiveBuffer,    \* packets it holds that came early
    delivered,        \* what it has handed to its user
    submitted         \* packets handed over so far

clientVars == <<open, bufferedPacket, sendBuffer, serverSequence,
                acknowledgedServerSequence, sequenceBuffer, reentrant, checkup, checkupPacket>>
threadVars == <<lock, spc, sent, packet, cpc, cpacket>>
receiverVars == <<clientSequence, receiveBuffer, delivered>>
vars == <<open, bufferedPacket, sendBuffer, serverSequence, acknowledgedServerSequence,
          sequenceBuffer, reentrant, checkup, checkupPacket, lock, spc, sent, packet, cpc,
          cpacket, dataNet, ackNet, clientSequence, receiveBuffer, delivered, submitted>>

\* A packet as the sender keeps it and as it is on the wire: its sequence, and
\* what it carries.
Packets == [seq : Nat, data : Nat]
WirePackets == [seq : 0..(SeqMod - 1), data : Nat]
OnWire(p) == [seq |-> p.seq % SeqMod, data |-> p.data]

TypeOK ==
    /\ open \in BOOLEAN /\ bufferedPacket \in BOOLEAN
    /\ sendBuffer \in Seq(Nat)
    /\ serverSequence \in Nat
    /\ acknowledgedServerSequence \in Int
    /\ sequenceBuffer \in Seq(Packets)
    /\ reentrant \in BOOLEAN /\ checkup \in BOOLEAN
    /\ checkupPacket \in Nat
    /\ lock \in Senders \cup {Free}
    /\ spc \in [Senders -> {"idle", "ready", "loop", "encrypt"}]
    /\ sent \in [Senders -> 0..Batch]
    /\ packet \in [Senders -> Packets]
    /\ cpc \in [Checkers -> {"idle", "polled", "read"}]
    /\ cpacket \in [Checkers -> Nat]
    /\ dataNet \subseteq WirePackets
    /\ ackNet \subseteq 0..(SeqMod - 1)
    /\ clientSequence \in Nat
    /\ receiveBuffer \subseteq WirePackets
    /\ delivered \in Seq(Nat)
    /\ submitted \in 0..MaxPackets

NoPacket == [seq |-> 0, data |-> 0]

Init ==
    /\ open = TRUE /\ bufferedPacket = FALSE /\ sendBuffer = <<>>
    /\ serverSequence = 0 /\ acknowledgedServerSequence = -1 /\ sequenceBuffer = <<>>
    /\ reentrant = FALSE /\ checkup = FALSE /\ checkupPacket = 0
    /\ lock = Free
    /\ spc = [t \in Senders |-> "idle"]
    /\ sent = [t \in Senders |-> 0]
    /\ packet = [t \in Senders |-> NoPacket]
    /\ cpc = [c \in Checkers |-> "idle"]
    /\ cpacket = [c \in Checkers |-> 0]
    /\ dataNet = {} /\ ackNet = {}
    /\ clientSequence = 0 /\ receiveBuffer = {} /\ delivered = <<>>
    /\ submitted = 0
--------------------------------------------------------------------------------
(***************************************************************************)
(* sendPacket: a small packet joins the multi packet that is being filled, *)
(* another one closes it and follows it, a large one is split.             *)
(***************************************************************************)

\* The next n packets, and the multi packet that is being filled: its number
\* was given when it was begun, and nothing was handed over since.
Fresh(n) == [i \in 1..n |-> submitted + i - 1]
Filled == IF bufferedPacket THEN <<submitted - 1>> ELSE <<>>

\* bufferMultiPacket: the packet begins a multi packet or joins the one there is.
BufferPacket ==
    /\ open /\ lock = Free
    /\ IF bufferedPacket THEN UNCHANGED <<submitted, reentrant>>
       ELSE submitted < MaxPackets /\ submitted' = submitted + 1 /\ reentrant' = TRUE
    /\ bufferedPacket' = TRUE
    /\ UNCHANGED <<open, sendBuffer, serverSequence, acknowledgedServerSequence, sequenceBuffer,
                   checkup, checkupPacket, threadVars, dataNet, ackNet, receiverVars>>

\* bufferMultiPacket when the multi packet is full: it is sent, a new one begins.
RolloverPacket ==
    /\ open /\ lock = Free /\ bufferedPacket
    /\ submitted < MaxPackets /\ submitted' = submitted + 1
    /\ sendBuffer' = sendBuffer \o Filled
    /\ reentrant' = TRUE
    /\ UNCHANGED <<open, bufferedPacket, serverSequence, acknowledgedServerSequence,
                   sequenceBuffer, checkup, checkupPacket, threadVars, dataNet, ackNet,
                   receiverVars>>

\* A packet that is not combined (n = 1), or the fragments of a large one.
SendPacket(n) ==
    /\ open /\ lock = Free
    /\ submitted + n <= MaxPackets /\ submitted' = submitted + n
    /\ sendBuffer' = sendBuffer \o Filled \o Fresh(n)
    /\ bufferedPacket' = FALSE
    /\ reentrant' = TRUE
    /\ UNCHANGED <<open, serverSequence, acknowledgedServerSequence, sequenceBuffer, checkup,
                   checkupPacket, threadVars, dataNet, ackNet, receiverVars>>
--------------------------------------------------------------------------------
(***************************************************************************)
(* run() and sendReliablePackets.                                          *)
(***************************************************************************)

\* The scheduler takes reentrantTask; from now on it can be scheduled again.
StartRun(t) ==
    /\ reentrant /\ spc[t] = "idle"
    /\ reentrant' = FALSE
    /\ spc' = [spc EXCEPT ![t] = "ready"]
    /\ UNCHANGED <<open, bufferedPacket, sendBuffer, serverSequence, acknowledgedServerSequence,
                   sequenceBuffer, checkup, checkupPacket, lock, sent, packet, cpc, cpacket,
                   dataNet, ackNet, receiverVars, submitted>>

\* run() locks the client.
LockRun(t) ==
    /\ spc[t] = "ready" /\ lock = Free
    /\ lock' = t
    /\ spc' = [spc EXCEPT ![t] = "loop"]
    /\ sent' = [sent EXCEPT ![t] = 0]
    /\ UNCHANGED <<clientVars, packet, cpc, cpacket, dataNet, ackNet, receiverVars, submitted>>

\* Variant: the comparison lets one packet more through.
WindowFullOffByOne == serverSequence - acknowledgedServerSequence > Window + 1

WindowFull == serverSequence - acknowledgedServerSequence > Window
HasWork == sendBuffer # <<>> \/ bufferedPacket

\* The thread in the loop returns from run().
Return(t) ==
    /\ lock' = Free
    /\ spc' = [spc EXCEPT ![t] = "idle"]
    /\ UNCHANGED <<sent, packet, cpc, cpacket, dataNet, ackNet, receiverVars, submitted>>

\* Nothing to send, the batch is complete, or the client is closed: the task is
\* scheduled again if work is left.
EndRun(t) ==
    /\ spc[t] = "loop"
    /\ ~open \/ sent[t] = Batch \/ (~WindowFull /\ ~HasWork)
    /\ reentrant' = (reentrant \/ HasWork)
    /\ Return(t)
    /\ UNCHANGED <<open, bufferedPacket, sendBuffer, serverSequence, acknowledgedServerSequence,
                   sequenceBuffer, checkup, checkupPacket>>

\* Variant: close() leaves the waiting packets in sendBuffer.
CloseKeepsSendBuffer ==
    /\ open' = FALSE
    /\ sequenceBuffer' = <<>>
    /\ acknowledgedServerSequence' = -1
    /\ checkup' = FALSE
    /\ UNCHANGED <<bufferedPacket, sendBuffer, serverSequence, checkupPacket>>

\* close(): the tasks are cancelled and the buffers emptied; the pointer to the
\* deleted multi packet stays.
Close ==
    /\ open' = FALSE
    /\ sendBuffer' = <<>> /\ sequenceBuffer' = <<>>
    /\ acknowledgedServerSequence' = -1
    /\ checkup' = FALSE
    /\ UNCHANGED <<bufferedPacket, serverSequence, checkupPacket>>

\* getNextSequencedPacket with a full window: a checkup is scheduled, and a
\* client with too many packets waiting is disconnected.
Stall(t) ==
    /\ spc[t] = "loop" /\ open /\ sent[t] < Batch /\ WindowFull
    /\ IF Len(sendBuffer) > MaxOutstanding
         THEN /\ Close
              /\ reentrant' = bufferedPacket
         ELSE /\ checkup' = TRUE
              /\ reentrant' = (reentrant \/ HasWork)
              /\ UNCHANGED <<open, bufferedPacket, sendBuffer, serverSequence,
                             acknowledgedServerSequence, sequenceBuffer, checkupPacket>>
    /\ Return(t)

\* The next packet gets its number, the checkup is armed if no packet waits for
\* an acknowledgement, and the client is unlocked.
Prepare(t) ==
    /\ spc[t] = "loop" /\ open /\ sent[t] < Batch /\ ~WindowFull /\ HasWork
    /\ LET pending == sendBuffer \o Filled IN
           packet' = [packet EXCEPT ![t] = [seq |-> serverSequence, data |-> Head(pending)]]
    /\ IF sendBuffer # <<>>
         THEN sendBuffer' = Tail(sendBuffer) /\ UNCHANGED bufferedPacket
         ELSE bufferedPacket' = FALSE /\ UNCHANGED sendBuffer
    /\ serverSequence' = serverSequence + 1
    /\ IF sequenceBuffer = <<>>
         THEN checkup' = TRUE /\ checkupPacket' = serverSequence
         ELSE UNCHANGED <<checkup, checkupPacket>>
    /\ spc' = [spc EXCEPT ![t] = "encrypt"]
    /\ lock' = Free
    /\ UNCHANGED <<open, acknowledgedServerSequence, sequenceBuffer, reentrant, sent, cpc,
                   cpacket, dataNet, ackNet, receiverVars, submitted>>

\* Locked again: the packet goes out and is kept.
Transmit(t) ==
    /\ spc[t] = "encrypt" /\ lock = Free
    /\ dataNet' = dataNet \cup {OnWire(packet[t])}
    /\ sequenceBuffer' = Append(sequenceBuffer, packet[t])
    /\ sent' = [sent EXCEPT ![t] = @ + 1]
    /\ lock' = t
    /\ spc' = [spc EXCEPT ![t] = "loop"]
    /\ UNCHANGED <<open, bufferedPacket, sendBuffer, serverSequence, acknowledgedServerSequence,
                   reentrant, checkup, checkupPacket, packet, cpc, cpacket, ackNet, receiverVars,
                   submitted>>
--------------------------------------------------------------------------------
(***************************************************************************)
(* The checkup: BasePacketChekupEvent::run reads the event's packet before *)
(* checkupServerPackets locks the client.                                  *)
(***************************************************************************)

\* The scheduler takes checkupEvent.
StartCheckup(c) ==
    /\ checkup /\ cpc[c] = "idle"
    /\ checkup' = FALSE
    /\ cpc' = [cpc EXCEPT ![c] = "polled"]
    /\ UNCHANGED <<open, bufferedPacket, sendBuffer, serverSequence, acknowledgedServerSequence,
                   sequenceBuffer, reentrant, checkupPacket, lock, spc, sent, packet, cpacket,
                   dataNet, ackNet, receiverVars, submitted>>

ReadCheckup(c) ==
    /\ cpc[c] = "polled"
    /\ cpacket' = [cpacket EXCEPT ![c] = checkupPacket]
    /\ cpc' = [cpc EXCEPT ![c] = "read"]
    /\ UNCHANGED <<clientVars, lock, spc, sent, packet, dataNet, ackNet, receiverVars, submitted>>

\* checkupServerPackets compares with the acknowledged sequence as an unsigned
\* number: before the first acknowledgement nothing is greater.
Overdue(seq) == acknowledgedServerSequence >= 0 /\ seq > acknowledgedServerSequence

\* Variant: the loop of resendPackets starts one packet late.
ResentOffByOne ==
    {OnWire(sequenceBuffer[i]) : i \in {j \in 2..Len(sequenceBuffer) : j <= ResendMax}}

\* resendPackets: the first packets that wait for an acknowledgement.
Resent == {OnWire(sequenceBuffer[i]) : i \in {j \in 1..Len(sequenceBuffer) : j <= ResendMax}}

CheckupServerPackets(c) ==
    /\ cpc[c] = "read" /\ lock = Free
    /\ IF open /\ ~checkup /\ sequenceBuffer # <<>> /\ Overdue(cpacket[c])
         THEN /\ dataNet' = dataNet \cup Resent
              /\ checkup' = TRUE /\ checkupPacket' = cpacket[c]
         ELSE UNCHANGED <<dataNet, checkup, checkupPacket>>
    /\ cpc' = [cpc EXCEPT ![c] = "idle"]
    /\ UNCHANGED <<open, bufferedPacket, sendBuffer, serverSequence, acknowledgedServerSequence,
                   sequenceBuffer, reentrant, lock, spc, sent, packet, cpacket, ackNet,
                   receiverVars, submitted>>
--------------------------------------------------------------------------------
(***************************************************************************)
(* Acknowledgements.                                                       *)
(***************************************************************************)

\* What may be in the network after m was delivered.
AfterDelivery(net, m) == {net \ {m}} \cup (IF Duplicates THEN {net} ELSE {})

\* acknowledgeServerPackets: the sequence that an acknowledgement on the wire
\* stands for.
RealSeq(seq, acked, server) ==
    LET high == SeqMod * (server \div SeqMod)
        real == IF seq < acked THEN high + seq ELSE seq
    IN  IF real > server THEN real - SeqMod ELSE real

\* flushSendBuffer: packets are dropped from the front up to the first one that
\* is not acknowledged.
Flushed(n, real) ==
    /\ n \in 0..Len(sequenceBuffer)
    /\ \A i \in 1..n : sequenceBuffer[i].seq <= real
    /\ n < Len(sequenceBuffer) => sequenceBuffer[n + 1].seq > real

AcknowledgeServerPackets(seq) ==
    LET real == RealSeq(seq, acknowledgedServerSequence, serverSequence) IN
    /\ seq \in ackNet /\ open /\ lock = Free
    /\ ackNet' \in AfterDelivery(ackNet, seq)
    /\ IF real < acknowledgedServerSequence
         THEN UNCHANGED <<sequenceBuffer, acknowledgedServerSequence, checkup, checkupPacket>>
         ELSE \E n \in 0..Len(sequenceBuffer) :
                /\ Flushed(n, real)
                /\ sequenceBuffer' = SubSeq(sequenceBuffer, n + 1, Len(sequenceBuffer))
                /\ acknowledgedServerSequence' = real
                /\ checkup' = (n < Len(sequenceBuffer))
                /\ checkupPacket' = IF n < Len(sequenceBuffer)
                                      THEN sequenceBuffer[n + 1].seq ELSE checkupPacket
    /\ UNCHANGED <<open, bufferedPacket, sendBuffer, serverSequence, reentrant, threadVars,
                   dataNet, receiverVars, submitted>>

\* disconnect(): a timeout, an error, or the message of the other endpoint.
Disconnect ==
    /\ open /\ lock = Free
    /\ Close
    /\ reentrant' = FALSE
    /\ UNCHANGED <<threadVars, dataNet, ackNet, receiverVars, submitted>>
--------------------------------------------------------------------------------
(***************************************************************************)
(* The other endpoint: validatePacket and processBufferedPackets, both in  *)
(* the one thread that receives.                                           *)
(***************************************************************************)

Expected(n) == (clientSequence + n) % SeqMod

\* getBufferedPacket succeeds n times after the packet that was expected: each
\* time the smallest number in the buffer is the next one.
CanDrain(n) ==
    \A j \in 1..n :
        /\ \E p \in receiveBuffer : p.seq = Expected(j)
        /\ \A p \in receiveBuffer : p.seq < Expected(j) => \E i \in 1..(j - 1) : p.seq = Expected(i)

\* The buffered packets that are handed over after n successes.
Drained(n) == [j \in 1..n |-> (CHOOSE p \in receiveBuffer : p.seq = Expected(j)).data]

\* The packet was handed over before: acknowledge it again.
ReceiveOld(p) ==
    /\ p.seq < Expected(0)
    /\ ackNet' = ackNet \cup {p.seq}
    /\ UNCHANGED receiverVars

\* Variant: an early packet is acknowledged.
ReceiveEarlyAcked(p) ==
    /\ p.seq > Expected(0)
    /\ receiveBuffer' = receiveBuffer \cup {p}
    /\ ackNet' = ackNet \cup {p.seq}
    /\ UNCHANGED <<clientSequence, delivered>>

\* The packet came early: keep it, once.
ReceiveEarly(p) ==
    /\ p.seq > Expected(0)
    /\ receiveBuffer' = IF \E q \in receiveBuffer : q.seq = p.seq
                          THEN receiveBuffer ELSE receiveBuffer \cup {p}
    /\ UNCHANGED <<ackNet, clientSequence, delivered>>

\* Variant: a packet that was handed over before is accepted again.
ReceiveExpectedAgain(p) ==
    /\ p.seq <= Expected(0)
    /\ delivered' = Append(delivered, p.data)
    /\ clientSequence' = clientSequence + 1
    /\ ackNet' = ackNet \cup {p.seq}
    /\ UNCHANGED receiveBuffer

\* The packet is the expected one: it and the ones kept behind it are handed over.
ReceiveExpected(p) ==
    /\ p.seq = Expected(0)
    /\ \E n \in 0..Cardinality(receiveBuffer) :
         /\ CanDrain(n) /\ ~CanDrain(n + 1)
         /\ delivered' = delivered \o <<p.data>> \o Drained(n)
         /\ clientSequence' = clientSequence + n + 1
         /\ receiveBuffer' = {q \in receiveBuffer : \A j \in 1..n : q.seq # Expected(j)}
         /\ ackNet' = ackNet \cup {Expected(j) : j \in 0..n}

Receive(p) ==
    /\ p \in dataNet
    /\ dataNet' \in AfterDelivery(dataNet, p)
    /\ ReceiveOld(p) \/ ReceiveEarly(p) \/ ReceiveExpected(p)
    /\ UNCHANGED <<clientVars, threadVars, submitted>>

\* The network loses packets and acknowledgements.
LosePacket(p) ==
    /\ p \in dataNet /\ dataNet' = dataNet \ {p}
    /\ UNCHANGED <<clientVars, threadVars, ackNet, receiverVars, submitted>>

LoseAck(seq) ==
    /\ seq \in ackNet /\ ackNet' = ackNet \ {seq}
    /\ UNCHANGED <<clientVars, threadVars, dataNet, receiverVars, submitted>>
--------------------------------------------------------------------------------
Submit == BufferPacket \/ RolloverPacket \/ SendPacket(1) \/ SendPacket(Fragments)

RunStep(t) == LockRun(t) \/ EndRun(t) \/ Stall(t) \/ Prepare(t) \/ Transmit(t)

CheckupStep(c) == StartCheckup(c) \/ ReadCheckup(c) \/ CheckupServerPackets(c)

Next ==
    \/ Submit
    \/ \E t \in Senders : StartRun(t) \/ RunStep(t)
    \/ \E c \in Checkers : CheckupStep(c)
    \/ \E seq \in ackNet : AcknowledgeServerPackets(seq) \/ LoseAck(seq)
    \/ \E p \in dataNet : Receive(p) \/ LosePacket(p)
    \/ Disconnect

Spec == Init /\ [][Next]_vars

(***************************************************************************)
(* The scheduler hands over scheduled tasks, a thread that waits for the   *)
(* client's Mutex gets it, and the network does not lose a packet that is  *)
(* sent again for ever.                                                    *)
(***************************************************************************)
Fairness ==
    /\ WF_vars(\E t \in Senders : StartRun(t))
    /\ \A t \in Senders : SF_vars(RunStep(t))
    /\ \A c \in Checkers : SF_vars(CheckupStep(c))
    /\ \A s \in 0..(SeqMod - 1) :
         /\ SF_vars(\E p \in dataNet : p.seq = s /\ Receive(p))
         /\ SF_vars(AcknowledgeServerPackets(s))

FairSpec == Spec /\ Fairness
--------------------------------------------------------------------------------
\* The packet with sequence s is still kept by the sender.
Kept(s) ==
    \/ \E i \in 1..Len(sequenceBuffer) : sequenceBuffer[i].seq = s
    \/ \E t \in Senders : spc[t] = "encrypt" /\ packet[t].seq = s

(***************************************************************************)
(* The inductive invariant behind the three safety properties.             *)
(***************************************************************************)

\* A packet carries the number it was handed over with, one of the first n.
Genuine(p, n) == p.data = p.seq /\ p.seq < n

\* Packets get their sequence in the order in which they were handed over.
Numbered ==
    /\ serverSequence <= submitted
    /\ open => /\ submitted = serverSequence + Len(sendBuffer) + (IF bufferedPacket THEN 1 ELSE 0)
               /\ \A i \in 1..Len(sendBuffer) : sendBuffer[i] = serverSequence + i - 1

AllGenuine ==
    /\ \A i \in 1..Len(sequenceBuffer) : Genuine(sequenceBuffer[i], serverSequence)
    /\ \A t \in Senders : spc[t] = "encrypt" => Genuine(packet[t], serverSequence)
    /\ \A p \in dataNet : Genuine(p, serverSequence)
    /\ \A p \in receiveBuffer : Genuine(p, serverSequence) /\ p.seq > clientSequence

\* What was handed over at the other end, and what that says about
\* acknowledgements.
InStep ==
    /\ Len(delivered) = clientSequence
    /\ \A i \in 1..clientSequence : delivered[i] = i - 1
    /\ clientSequence <= serverSequence
    /\ acknowledgedServerSequence >= -1 /\ acknowledgedServerSequence < clientSequence
    /\ \A seq \in ackNet : seq < clientSequence
    /\ open => serverSequence - acknowledgedServerSequence <= Window + 1
    /\ serverSequence <= clientSequence + Window

KeptUntilAcked ==
    open => \A s \in (acknowledgedServerSequence + 1)..(serverSequence - 1) : Kept(s)

ChannelInv == Numbered /\ AllGenuine /\ InStep /\ KeptUntilAcked

Stream == INSTANCE ReliableStream

\* The packets handed to the channel come out in order, each once, whatever the
\* network does and however two runs of the sending task interleave
\* (sendReliablePackets, validatePacket, getBufferedPacket).
StreamSpec == Stream!Spec

\* A packet is kept until the other endpoint has handed it over: no
\* acknowledgement, old, repeated or out of order, makes acknowledgeServerPackets
\* drop a packet that may have to be sent again.
KeptUntilDelivered == open => \A s \in clientSequence..(serverSequence - 1) : Kept(s)

\* The sender is never more than one packet over the window ahead of the last
\* acknowledged one, so the packets that the other endpoint has to keep because
\* they came early are within a window of the one it expects
\* (getNextSequencedPacket, validatePacket).
WindowBound ==
    /\ open => serverSequence - acknowledgedServerSequence <= Window + 1
    /\ \A p \in receiveBuffer : p.seq > clientSequence /\ p.seq < clientSequence + Window

\* No timer and no thread is about to send again what is waiting.
Unarmed ==
    /\ sequenceBuffer # <<>> /\ ~checkup
    /\ \A c \in Checkers : cpc[c] = "idle"

\* Every packet handed over is delivered or the client is disconnected, but for
\* two states in which checkupServerPackets does not send again: no
\* acknowledgement has come yet, or the checkup is not scheduled.
Delivered ==
    \A k \in 1..MaxPackets :
        submitted >= k ~> \/ Len(delivered) >= k \/ ~open
                          \/ acknowledgedServerSequence = -1 \/ Unarmed

\* A client closed while no multi packet was being filled stays quiet: the tasks
\* that were on their way when close() cancelled them schedule nothing.
ClosedStaysQuiet == (~open /\ ~bufferedPacket) ~> [](~reentrant /\ ~checkup)
================================================================================
