---------------------------- MODULE BaseClientProofs ----------------------------
(***************************************************************************)
(* The safety of the sequenced channel for every window, every number of   *)
(* packets below the wrap of the sequence numbers, and every number of     *)
(* threads.                                                                *)
(***************************************************************************)
EXTENDS BaseClient, SequenceTheorems, TLAPS

\* The inductive invariant.
IInv == TypeOK /\ ChannelInv

\* Below the wrap a sequence number is the same on the wire.
LEMMA ModSmall == \A x \in Nat : x < SeqMod => x % SeqMod = x
BY ChannelAssumption

\* Below the wrap the high part of a sequence is zero.
LEMMA DivSmall == \A x \in Nat : x < SeqMod => x \div SeqMod = 0
BY ChannelAssumption

\* An acknowledgement on the wire is the sequence it acknowledges.
LEMMA RealSeqSmall ==
    ASSUME NEW seq \in Nat, NEW acked \in Int, NEW server \in Nat,
           server < SeqMod, seq <= server
    PROVE  RealSeq(seq, acked, server) = seq
BY ChannelAssumption, DivSmall DEF RealSeq

\* s holds consecutive numbers from a on.
Counts(s, a) == s \in Seq(Nat) /\ \A i \in 1..Len(s) : s[i] = a + i - 1

\* Two sequences of consecutive numbers, the second from where the first ends.
LEMMA CountsConcat ==
    ASSUME NEW a \in Nat, NEW s, NEW t, Counts(s, a), Counts(t, a + Len(s))
    PROVE  Counts(s \o t, a) /\ Len(s \o t) = Len(s) + Len(t)
<1>1. s \in Seq(Nat) /\ t \in Seq(Nat)
  BY DEF Counts
<1>2. s \o t \in Seq(Nat) /\ Len(s \o t) = Len(s) + Len(t)
  BY <1>1
<1>3. \A i \in 1..(Len(s) + Len(t)) :
         (s \o t)[i] = IF i <= Len(s) THEN s[i] ELSE t[i - Len(s)]
  BY <1>1, ConcatProperties
<1>4. \A i \in 1..Len(s \o t) : (s \o t)[i] = a + i - 1
  BY <1>1, <1>2, <1>3 DEF Counts
<1> QED
  BY <1>2, <1>4 DEF Counts

\* The first of consecutive numbers, and the others.
LEMMA CountsTail ==
    ASSUME NEW a \in Nat, NEW s, Counts(s, a), s # <<>>
    PROVE  Head(s) = a /\ Counts(Tail(s), a + 1) /\ Len(Tail(s)) = Len(s) - 1
<1>1. s \in Seq(Nat) /\ Len(s) \in Nat \ {0}
  BY DEF Counts
<1>2. Tail(s) \in Seq(Nat) /\ Len(Tail(s)) = Len(s) - 1
  BY <1>1
<1>3. \A i \in 1..Len(Tail(s)) : Tail(s)[i] = s[i + 1]
  BY <1>1
<1>4. Head(s) = a
  BY <1>1 DEF Counts
<1> QED
  BY <1>1, <1>2, <1>3, <1>4 DEF Counts

\* Everything that is or was sent is below the wrap.
LEMMA BelowWrap == IInv => serverSequence < SeqMod /\ clientSequence < SeqMod
BY ChannelAssumption, EpochAssumption DEF IInv, TypeOK, ChannelInv, Numbered, InStep

\* The sequences of the packets that are anywhere.
LEMMA SeqTypes ==
    ASSUME IInv
    PROVE  /\ \A i \in 1..Len(sequenceBuffer) :
                sequenceBuffer[i] \in Packets /\ sequenceBuffer[i].seq \in Nat
           /\ \A t \in Senders : packet[t] \in Packets /\ packet[t].seq \in Nat
           /\ \A p \in dataNet \cup receiveBuffer :
                p \in WirePackets /\ p.seq \in 0..(SeqMod - 1) /\ p.seq \in Nat
<1>1. \A p \in Packets : p.seq \in Nat
  BY DEF Packets
<1>2. \A p \in WirePackets : p.seq \in 0..(SeqMod - 1) /\ p.seq \in Nat
  BY ChannelAssumption DEF WirePackets
<1> QED
  BY <1>1, <1>2 DEF IInv, TypeOK

\* The initial state.
LEMMA InitIInv == Init => IInv
<1> SUFFICES ASSUME Init PROVE IInv
  OBVIOUS
<1>1. TypeOK
  <2>1. NoPacket \in Packets
    BY DEF NoPacket, Packets
  <2>2. sendBuffer \in Seq(Nat) /\ sequenceBuffer \in Seq(Packets) /\ delivered \in Seq(Nat)
    BY DEF Init
  <2>3. /\ spc \in [Senders -> {"idle", "ready", "loop", "encrypt"}]
        /\ sent \in [Senders -> 0..Batch] /\ packet \in [Senders -> Packets]
    BY <2>1, ChannelAssumption DEF Init
  <2>4. cpc \in [Checkers -> {"idle", "polled", "read"}] /\ cpacket \in [Checkers -> Nat]
    BY DEF Init
  <2>5. /\ open \in BOOLEAN /\ bufferedPacket \in BOOLEAN
        /\ reentrant \in BOOLEAN /\ checkup \in BOOLEAN
    BY DEF Init
  <2>6. lock \in Senders \cup {Free} /\ dataNet \subseteq WirePackets /\ receiveBuffer \subseteq WirePackets
    BY DEF Init
  <2> QED
    BY <2>2, <2>3, <2>4, <2>5, <2>6, ChannelAssumption DEF Init, TypeOK
<1>2. ChannelInv
  BY ChannelAssumption DEF Init, ChannelInv, Numbered, AllGenuine, InStep, KeptUntilAcked
<1> QED
  BY <1>1, <1>2 DEF IInv

\* A step that changes nothing keeps the invariant.
LEMMA StutterIInv == IInv /\ UNCHANGED vars => IInv'
BY DEF IInv, TypeOK, ChannelInv, Numbered, AllGenuine, Genuine, InStep, KeptUntilAcked, Kept, vars

\* A step of the user: only the packets that wait and their number change.
LEMMA SubmitIInv == IInv /\ Submit => IInv'
<1> SUFFICES ASSUME IInv, Submit PROVE IInv'
  OBVIOUS
<1> USE DEF IInv, ChannelInv
<1>1. UNCHANGED <<open, serverSequence, acknowledgedServerSequence, sequenceBuffer, checkup,
                  checkupPacket, threadVars, dataNet, ackNet, receiverVars>>
  BY DEF Submit, BufferPacket, RolloverPacket, SendPacket
<1>2. AllGenuine' /\ InStep' /\ KeptUntilAcked'
  BY <1>1 DEF AllGenuine, Genuine, InStep, KeptUntilAcked, Kept, threadVars, receiverVars
<1>3. ASSUME BufferPacket PROVE TypeOK' /\ Numbered'
  <2>1. CASE bufferedPacket
    BY <1>3, <2>1 DEF BufferPacket, TypeOK, Numbered, threadVars, receiverVars
  <2>2. CASE ~bufferedPacket
    <3>1. submitted' = submitted + 1 /\ submitted' \in 0..MaxPackets /\ bufferedPacket' /\ reentrant'
      BY <1>3, <2>2, ChannelAssumption DEF BufferPacket, TypeOK
    <3>2. TypeOK'
      BY <1>3, <3>1 DEF BufferPacket, TypeOK, threadVars, receiverVars
    <3>3. Numbered'
      BY <1>3, <2>2, <3>1 DEF BufferPacket, TypeOK, Numbered
    <3> QED
      BY <3>2, <3>3
  <2> QED
    BY <2>1, <2>2
<1>4. Counts(sendBuffer \o Filled, serverSequence) /\ submitted = serverSequence + Len(sendBuffer \o Filled)
  <2>1. open
    BY DEF Submit, BufferPacket, RolloverPacket, SendPacket
  <2>2. Counts(sendBuffer, serverSequence)
    BY <2>1 DEF Counts, Numbered, TypeOK
  <2>3. CASE bufferedPacket
    <3>1. Filled = <<submitted - 1>> /\ submitted - 1 = serverSequence + Len(sendBuffer)
      BY <2>1, <2>3 DEF Filled, Numbered, TypeOK
    <3>2. submitted - 1 \in Nat
      BY <3>1 DEF TypeOK
    <3>3. Counts(Filled, serverSequence + Len(sendBuffer)) /\ Len(Filled) = 1
      BY <3>1, <3>2 DEF Counts
    <3> HIDE DEF IInv, ChannelInv
    <3>4. serverSequence \in Nat /\ Len(sendBuffer) \in Nat
      BY DEF IInv, TypeOK
    <3>5. /\ Counts(sendBuffer \o Filled, serverSequence)
          /\ Len(sendBuffer \o Filled) = Len(sendBuffer) + Len(Filled)
      BY <2>2, <3>3, <3>4, CountsConcat, Zenon
    <3> QED
      BY <2>1, <2>3, <3>3, <3>4, <3>5 DEF IInv, ChannelInv, Numbered
  <2>4. CASE ~bufferedPacket
    <3>1. Filled = <<>>
      BY <2>4 DEF Filled
    <3>2. Counts(Filled, serverSequence + Len(sendBuffer)) /\ Len(Filled) = 0
      BY <3>1 DEF Counts
    <3> QED
      BY <2>1, <2>2, <2>4, <3>2, CountsConcat DEF Numbered, TypeOK
  <2> QED
    BY <2>3, <2>4 DEF TypeOK
<1>5. ASSUME RolloverPacket PROVE TypeOK' /\ Numbered'
  <2>1. sendBuffer' \in Seq(Nat)
    BY <1>4, <1>5 DEF RolloverPacket, Counts
  <2>2. submitted' \in 0..MaxPackets /\ serverSequence <= submitted'
    BY <1>5, ChannelAssumption DEF RolloverPacket, TypeOK, Numbered
  <2>3. TypeOK'
    BY <1>5, <2>1, <2>2 DEF RolloverPacket, TypeOK, threadVars, receiverVars
  <2>4. Numbered'
    <3>1. open' /\ bufferedPacket' /\ sendBuffer' = sendBuffer \o Filled
          /\ submitted' = submitted + 1 /\ serverSequence' = serverSequence
      BY <1>5 DEF RolloverPacket
    <3>2. Counts(sendBuffer', serverSequence') /\ submitted' = serverSequence' + Len(sendBuffer') + 1
      BY <1>4, <3>1
    <3> QED
      BY <2>2, <3>1, <3>2 DEF Numbered, Counts
  <2> QED
    BY <2>3, <2>4
<1>6. ASSUME NEW n \in Nat \ {0}, SendPacket(n) PROVE TypeOK' /\ Numbered'
  <2>1. Counts(Fresh(n), submitted) /\ Len(Fresh(n)) = n
    BY DEF Fresh, Counts, TypeOK
  <2>2. Counts(sendBuffer', serverSequence) /\ Len(sendBuffer') = Len(sendBuffer \o Filled) + n
    <3>1. serverSequence \in Nat /\ sendBuffer' = (sendBuffer \o Filled) \o Fresh(n)
      BY <1>6 DEF SendPacket, TypeOK
    <3> HIDE DEF IInv, ChannelInv
    <3>2. Counts((sendBuffer \o Filled) \o Fresh(n), serverSequence)
          /\ Len((sendBuffer \o Filled) \o Fresh(n)) = Len(sendBuffer \o Filled) + Len(Fresh(n))
      BY <1>4, <2>1, <3>1, CountsConcat, Zenon
    <3> QED
      BY <2>1, <3>1, <3>2
  <2>3. submitted' \in 0..MaxPackets /\ serverSequence <= submitted'
    BY <1>6, ChannelAssumption DEF SendPacket, TypeOK, Numbered
  <2>4. TypeOK'
    BY <1>6, <2>2, <2>3 DEF SendPacket, Counts, TypeOK, threadVars, receiverVars
  <2>5. submitted' = serverSequence + Len(sendBuffer')
    <3>1. Len(sendBuffer \o Filled) \in Nat
      BY <1>4 DEF Counts
    <3> QED
      BY <1>4, <1>6, <2>2, <3>1 DEF SendPacket, TypeOK
  <2>6. Numbered'
    <3>1. serverSequence' = serverSequence /\ bufferedPacket' = FALSE
      BY <1>6 DEF SendPacket
    <3>2. \A i \in 1..Len(sendBuffer') : sendBuffer'[i] = serverSequence' + i - 1
      BY <2>2, <3>1 DEF Counts
    <3>3. submitted' = serverSequence' + Len(sendBuffer') + 0
      <4>1. sendBuffer' \in Seq(Nat) /\ serverSequence \in Nat
        BY <2>2 DEF Counts, TypeOK
      <4>2. Len(sendBuffer') \in Nat
        BY <4>1
      <4> QED
        BY <2>5, <3>1, <4>1, <4>2
    <3> HIDE DEF IInv, ChannelInv
    <3> QED
      BY <2>3, <3>1, <3>2, <3>3 DEF Numbered
  <2> QED
    BY <2>4, <2>6
<1> QED
  BY <1>2, <1>3, <1>5, <1>6, ChannelAssumption DEF Submit

\* The steps of a sending thread that move no packet: StartRun, LockRun, EndRun.
LEMMA RunIInv ==
    ASSUME IInv, NEW t \in Senders, StartRun(t) \/ LockRun(t) \/ EndRun(t)
    PROVE  IInv'
<1>1. /\ UNCHANGED <<open, bufferedPacket, sendBuffer, serverSequence, acknowledgedServerSequence,
                     sequenceBuffer, checkup, checkupPacket, packet, cpc, cpacket, dataNet, ackNet,
                     clientSequence, receiveBuffer, delivered, submitted>>
      /\ spc[t] # "encrypt"
      /\ \E to \in {"ready", "loop", "idle"} : spc' = [spc EXCEPT ![t] = to]
  BY DEF StartRun, LockRun, EndRun, Return, clientVars, receiverVars
<1>2. \A u \in Senders : spc'[u] = "encrypt" <=> spc[u] = "encrypt"
  BY <1>1 DEF IInv, TypeOK
<1>3. sent' \in [Senders -> 0..Batch] /\ lock' \in Senders \cup {Free} /\ reentrant' \in BOOLEAN
  <2>1. CASE StartRun(t)
    BY <2>1 DEF StartRun, IInv, TypeOK
  <2>2. CASE LockRun(t)
    BY <2>2, ChannelAssumption DEF LockRun, clientVars, IInv, TypeOK
  <2>3. CASE EndRun(t)
    <3>1. reentrant' \in BOOLEAN
      BY <2>3, Zenon DEF EndRun
    <3> QED
      BY <2>3, <3>1 DEF EndRun, Return, IInv, TypeOK
  <2> QED
    BY <2>1, <2>2, <2>3
<1>4. TypeOK'
  BY <1>1, <1>3 DEF IInv, TypeOK
<1>5. Numbered' /\ InStep'
  BY <1>1 DEF IInv, ChannelInv, Numbered, InStep
<1>6. AllGenuine' /\ KeptUntilAcked'
  BY <1>1, <1>2 DEF IInv, ChannelInv, AllGenuine, Genuine, KeptUntilAcked, Kept
<1> QED
  BY <1>4, <1>5, <1>6 DEF IInv, ChannelInv

\* close() forgets what was kept and what was acknowledged.
LEMMA CloseIInv ==
    ASSUME IInv, Close,
           UNCHANGED <<packet, cpc, cpacket, dataNet, ackNet, clientSequence, receiveBuffer,
                       delivered, submitted>>,
           spc' \in [Senders -> {"idle", "ready", "loop", "encrypt"}],
           \A u \in Senders : spc'[u] = "encrypt" => spc[u] = "encrypt",
           sent' \in [Senders -> 0..Batch], lock' \in Senders \cup {Free}, reentrant' \in BOOLEAN
    PROVE  IInv'
<1>1. sendBuffer' \in Seq(Nat) /\ sequenceBuffer' \in Seq(Packets)
  BY DEF Close
<1>2. TypeOK'
  <2>1. open' \in BOOLEAN /\ checkup' \in BOOLEAN
    BY Zenon DEF Close
  <2>2. UNCHANGED <<bufferedPacket, serverSequence, checkupPacket>> /\ acknowledgedServerSequence' = -1
    BY Zenon DEF Close
  <2> QED
    BY <1>1, <2>1, <2>2 DEF IInv, TypeOK
<1>3. Numbered' /\ KeptUntilAcked'
  BY DEF Close, IInv, ChannelInv, Numbered, KeptUntilAcked
<1>4. InStep'
  <2>1. ~open' /\ acknowledgedServerSequence' = -1 /\ serverSequence' = serverSequence
    BY DEF Close
  <2> QED
    BY <2>1 DEF IInv, TypeOK, ChannelInv, InStep
<1>5. AllGenuine'
  BY DEF Close, IInv, ChannelInv, AllGenuine, Genuine
<1> QED
  BY <1>2, <1>3, <1>4, <1>5 DEF IInv, ChannelInv

\* disconnect() closes the client and cancels its tasks.
LEMMA DisconnectIInv == ASSUME IInv, Disconnect PROVE IInv'
BY CloseIInv DEF Disconnect, threadVars, receiverVars, IInv, TypeOK

\* A full window: the client is closed, or the checkup scheduled.
LEMMA StallIInv == ASSUME IInv, NEW t \in Senders, Stall(t) PROVE IInv'
<1>1. /\ spc' = [spc EXCEPT ![t] = "idle"] /\ lock' = Free
      /\ UNCHANGED <<sent, packet, cpc, cpacket, dataNet, ackNet, clientSequence, receiveBuffer,
                     delivered, submitted>>
  BY DEF Stall, Return, receiverVars
<1>2. /\ spc' \in [Senders -> {"idle", "ready", "loop", "encrypt"}]
      /\ \A u \in Senders : spc'[u] = "encrypt" <=> spc[u] = "encrypt"
  BY <1>1 DEF Stall, IInv, TypeOK
<1>3. reentrant' \in BOOLEAN
  BY DEF Stall, HasWork, IInv, TypeOK
<1>4. CASE Close
  BY <1>1, <1>2, <1>3, <1>4, CloseIInv DEF IInv, TypeOK
<1>5. CASE ~Close
  <2>1. checkup' = TRUE /\ UNCHANGED <<open, bufferedPacket, sendBuffer, serverSequence,
                                       acknowledgedServerSequence, sequenceBuffer, checkupPacket>>
    BY <1>5 DEF Stall
  <2>2. TypeOK'
    BY <1>1, <1>2, <1>3, <2>1 DEF IInv, TypeOK
  <2>3. Numbered' /\ InStep'
    BY <1>1, <2>1 DEF IInv, ChannelInv, Numbered, InStep
  <2>4. AllGenuine' /\ KeptUntilAcked'
    BY <1>1, <1>2, <2>1 DEF IInv, ChannelInv, AllGenuine, Genuine, KeptUntilAcked, Kept
  <2> QED
    BY <2>2, <2>3, <2>4 DEF IInv, ChannelInv
<1> QED
  BY <1>4, <1>5

\* The packet at the head of what waits is the one whose turn it is.
LEMMA PendingHead ==
    ASSUME IInv, open, HasWork
    PROVE  Head(sendBuffer \o Filled) = serverSequence
<1>1. CASE sendBuffer # <<>>
  <2>1. sendBuffer[1] = serverSequence /\ Len(sendBuffer) \in Nat \ {0}
    <3>1. serverSequence \in Nat /\ sendBuffer \in Seq(Nat)
      BY DEF IInv, TypeOK
    <3>2. \A i \in 1..Len(sendBuffer) : sendBuffer[i] = serverSequence + i - 1
      BY DEF IInv, ChannelInv, Numbered
    <3>3. Len(sendBuffer) \in Nat \ {0}
      BY <1>1, <3>1
    <3> QED
      BY <3>1, <3>2, <3>3
  <2>2. Filled \in Seq(Int)
    BY DEF Filled, IInv, TypeOK
  <2>3. (sendBuffer \o Filled)[1] = sendBuffer[1]
    BY <2>1, <2>2 DEF IInv, TypeOK
  <2>4. Head(sendBuffer \o Filled) = (sendBuffer \o Filled)[1]
    BY <2>1, <2>2 DEF IInv, TypeOK
  <2> QED
    BY <2>1, <2>3, <2>4
<1>2. CASE sendBuffer = <<>>
  <2>1. bufferedPacket /\ Filled = <<submitted - 1>> /\ submitted - 1 = serverSequence
    BY <1>2 DEF HasWork, Filled, IInv, TypeOK, ChannelInv, Numbered
  <2>2. sendBuffer \o Filled = <<serverSequence>>
    BY <1>2, <2>1
  <2> QED
    BY <2>2
<1> QED
  BY <1>1, <1>2

\* The next packet gets its number and is from then on the thread's.
LEMMA PrepareIInv == ASSUME IInv, NEW t \in Senders, Prepare(t) PROVE IInv'
<1> DEFINE p == [seq |-> serverSequence, data |-> serverSequence]
<1>1. p \in Packets /\ packet' = [packet EXCEPT ![t] = p]
  BY PendingHead DEF Prepare, Packets, IInv, TypeOK
<1>2. /\ packet' \in [Senders -> Packets] /\ packet'[t] = p
      /\ \A u \in Senders \ {t} : packet'[u] = packet[u]
  BY <1>1 DEF IInv, TypeOK
<1>3. /\ spc' \in [Senders -> {"idle", "ready", "loop", "encrypt"}] /\ spc'[t] = "encrypt"
      /\ \A u \in Senders \ {t} : spc'[u] = spc[u]
      /\ spc[t] # "encrypt"
  BY DEF Prepare, IInv, TypeOK
<1>4. /\ open /\ open' /\ serverSequence' = serverSequence + 1 /\ serverSequence' \in Nat
      /\ UNCHANGED <<acknowledgedServerSequence, sequenceBuffer, reentrant, sent, cpc, cpacket, dataNet,
                     ackNet, clientSequence, receiveBuffer, delivered, submitted>>
      /\ ~WindowFull /\ HasWork /\ lock' = Free
  BY DEF Prepare, receiverVars, IInv, TypeOK
<1>5. checkup' \in BOOLEAN /\ checkupPacket' \in Nat
  BY DEF Prepare, IInv, TypeOK
<1>6. /\ sendBuffer' \in Seq(Nat) /\ bufferedPacket' \in BOOLEAN
      /\ serverSequence' <= submitted
      /\ submitted = serverSequence' + Len(sendBuffer') + (IF bufferedPacket' THEN 1 ELSE 0)
      /\ \A i \in 1..Len(sendBuffer') : sendBuffer'[i] = serverSequence' + i - 1
  <2>1. Counts(sendBuffer, serverSequence) /\ serverSequence \in Nat /\ bufferedPacket \in BOOLEAN
        /\ submitted = serverSequence + Len(sendBuffer) + (IF bufferedPacket THEN 1 ELSE 0)
    BY <1>4 DEF Counts, IInv, TypeOK, ChannelInv, Numbered
  <2>2. CASE sendBuffer # <<>>
    <3>1. sendBuffer' = Tail(sendBuffer) /\ bufferedPacket' = bufferedPacket
      BY <2>2 DEF Prepare
    <3>2. Counts(Tail(sendBuffer), serverSequence + 1) /\ Len(Tail(sendBuffer)) = Len(sendBuffer) - 1
      BY <2>1, <2>2, CountsTail, Zenon
    <3> QED
      BY <1>4, <2>1, <3>1, <3>2 DEF Counts
  <2>3. CASE sendBuffer = <<>>
    <3>1. sendBuffer' = <<>> /\ bufferedPacket' = FALSE /\ bufferedPacket
      BY <1>4, <2>3 DEF Prepare, HasWork
    <3>2. submitted = serverSequence + 1 /\ sendBuffer' \in Seq(Nat) /\ Len(sendBuffer') = 0
      BY <2>1, <2>3, <3>1
    <3>3. bufferedPacket' \in BOOLEAN
      BY <3>1
    <3>4. (IF bufferedPacket' THEN 1 ELSE 0) = 0
      BY <3>1
    <3> QED
      BY <1>4, <2>1, <3>2, <3>3, <3>4
  <2> QED
    BY <2>2, <2>3
<1>7. TypeOK'
  BY <1>2, <1>3, <1>4, <1>5, <1>6 DEF IInv, TypeOK
<1>8. Numbered'
  BY <1>4, <1>6 DEF Numbered
<1>9. AllGenuine'
  <2>1. \A q : q.seq \in Nat /\ Genuine(q, serverSequence) => Genuine(q, serverSequence + 1)
    BY DEF Genuine, IInv, TypeOK
  <2>2. Genuine(p, serverSequence + 1)
    BY DEF Genuine, IInv, TypeOK
  <2>3. \A u \in Senders : spc'[u] = "encrypt" => Genuine(packet'[u], serverSequence + 1)
    BY <1>2, <1>3, <2>1, <2>2, SeqTypes DEF IInv, ChannelInv, AllGenuine
  <2> QED
    BY <1>4, <2>1, <2>3, SeqTypes DEF IInv, ChannelInv, AllGenuine
<1>10. InStep'
  BY <1>4, ChannelAssumption DEF WindowFull, IInv, TypeOK, ChannelInv, InStep
<1>11. KeptUntilAcked'
  <2>1. spc'[t] = "encrypt" /\ packet'[t].seq = serverSequence
    BY <1>2, <1>3
  <2>2. \A s \in Int : Kept(s) => Kept(s)'
    BY <1>2, <1>3, <1>4 DEF Kept
  <2> QED
    <3>1. ASSUME NEW s \in (acknowledgedServerSequence + 1)..serverSequence PROVE Kept(s)'
      <4>1. CASE s = serverSequence
        BY <2>1, <4>1 DEF Kept
      <4>2. CASE s # serverSequence
        <5>1. s \in (acknowledgedServerSequence + 1)..(serverSequence - 1)
          BY <4>2 DEF IInv, TypeOK
        <5> QED
          BY <1>4, <2>2, <5>1 DEF IInv, ChannelInv, KeptUntilAcked
      <4> QED
        BY <4>1, <4>2
    <3>2. serverSequence' - 1 = serverSequence
      BY <1>4 DEF IInv, TypeOK
    <3> QED
      BY <1>4, <3>1, <3>2 DEF KeptUntilAcked
<1> QED
  BY <1>7, <1>8, <1>9, <1>10, <1>11 DEF IInv, ChannelInv

\* A packet that was sent is the same on the wire.
LEMMA WireGenuine ==
    ASSUME IInv, NEW p \in Packets, Genuine(p, serverSequence)
    PROVE  OnWire(p) \in WirePackets /\ Genuine(OnWire(p), serverSequence)
<1>1. p.seq \in Nat /\ p.data \in Nat /\ p.seq < SeqMod /\ serverSequence \in Nat
  <2>1. p.seq \in Nat /\ p.data \in Nat
    BY DEF Packets
  <2>2. serverSequence \in Nat /\ serverSequence < SeqMod
    BY BelowWrap DEF IInv, TypeOK
  <2> QED
    BY <2>1, <2>2, ChannelAssumption DEF Genuine
<1>2. p.seq % SeqMod = p.seq /\ p.seq \in 0..(SeqMod - 1)
  BY <1>1, ModSmall, ChannelAssumption
<1> QED
  BY <1>1, <1>2 DEF OnWire, WirePackets, Genuine

\* The packet goes from the thread to the network and to the packets kept.
LEMMA TransmitIInv == ASSUME IInv, NEW t \in Senders, sent[t] < Batch, Transmit(t) PROVE IInv'
<1>1. /\ packet[t] \in Packets /\ Genuine(packet[t], serverSequence)
      /\ sequenceBuffer' = Append(sequenceBuffer, packet[t])
      /\ UNCHANGED <<open, bufferedPacket, sendBuffer, serverSequence, acknowledgedServerSequence,
                     reentrant, checkup, checkupPacket, packet, cpc, cpacket, ackNet,
                     clientSequence, receiveBuffer, delivered, submitted>>
  BY SeqTypes DEF Transmit, receiverVars, IInv, ChannelInv, AllGenuine
<1>2. sequenceBuffer \in Seq(Packets)
  BY DEF IInv, TypeOK
<1>3. /\ sequenceBuffer' \in Seq(Packets) /\ Len(sequenceBuffer') = Len(sequenceBuffer) + 1
      /\ sequenceBuffer'[Len(sequenceBuffer) + 1] = packet[t]
      /\ \A i \in 1..Len(sequenceBuffer) : sequenceBuffer'[i] = sequenceBuffer[i]
  BY <1>1, <1>2
<1>4. /\ spc' \in [Senders -> {"idle", "ready", "loop", "encrypt"}] /\ spc'[t] = "loop"
      /\ \A u \in Senders \ {t} : spc'[u] = spc[u]
      /\ sent' \in [Senders -> 0..Batch] /\ lock' \in Senders \cup {Free}
  BY ChannelAssumption DEF Transmit, IInv, TypeOK
<1>5. dataNet' \subseteq WirePackets /\ \A q \in dataNet' : Genuine(q, serverSequence)
  <2>1. dataNet' = dataNet \cup {OnWire(packet[t])}
    BY DEF Transmit
  <2> QED
    BY <1>1, <2>1, WireGenuine DEF IInv, TypeOK, ChannelInv, AllGenuine
<1>6. TypeOK'
  <2>1. TypeOK
    BY DEF IInv
  <2>2. sequenceBuffer' \in Seq(Packets)
    BY <1>3
  <2> QED
    BY <1>1, <1>4, <1>5, <2>1, <2>2 DEF TypeOK
<1>7. Numbered' /\ InStep'
  BY <1>1 DEF IInv, ChannelInv, Numbered, InStep
<1>8. AllGenuine'
  <2>1. AllGenuine
    BY DEF IInv, ChannelInv
  <2>2. ASSUME NEW i \in 1..Len(sequenceBuffer') PROVE Genuine(sequenceBuffer'[i], serverSequence)
    <3>1. i \in 1..Len(sequenceBuffer) \/ i = Len(sequenceBuffer) + 1
      BY <1>2, <1>3
    <3> QED
      BY <1>1, <1>3, <2>1, <3>1, Zenon DEF AllGenuine
  <2> QED
    BY <1>1, <1>4, <1>5, <2>1, <2>2 DEF AllGenuine
<1>9. ASSUME NEW s, Kept(s) PROVE Kept(s)'
  <2>1. CASE \E i \in 1..Len(sequenceBuffer) : sequenceBuffer[i].seq = s
    <3>1. PICK i \in 1..Len(sequenceBuffer) : sequenceBuffer[i].seq = s
      BY <2>1
    <3>2. i \in 1..Len(sequenceBuffer') /\ sequenceBuffer'[i].seq = s
      BY <1>2, <1>3, <3>1
    <3> QED
      BY <3>2 DEF Kept
  <2>2. CASE packet[t].seq = s
    <3>1. Len(sequenceBuffer) + 1 \in 1..Len(sequenceBuffer')
      BY <1>2, <1>3
    <3> QED
      BY <1>3, <2>2, <3>1 DEF Kept
  <2>3. CASE \E u \in Senders \ {t} : spc[u] = "encrypt" /\ packet[u].seq = s
    BY <1>1, <1>4, <2>3 DEF Kept
  <2> QED
    BY <1>9, <2>1, <2>2, <2>3 DEF Kept
<1>10. KeptUntilAcked'
  BY <1>1, <1>9 DEF IInv, ChannelInv, KeptUntilAcked
<1> QED
  BY <1>6, <1>7, <1>8, <1>10 DEF IInv, ChannelInv

\* The checkup sends again only packets that are kept.
LEMMA CheckupIInv == ASSUME IInv, NEW c \in Checkers, CheckupStep(c) PROVE IInv'
<1>1. /\ UNCHANGED <<open, bufferedPacket, sendBuffer, serverSequence, acknowledgedServerSequence,
                     sequenceBuffer, reentrant, lock, spc, sent, packet, ackNet, clientSequence,
                     receiveBuffer, delivered, submitted>>
  BY DEF CheckupStep, StartCheckup, ReadCheckup, CheckupServerPackets, clientVars, receiverVars
<1>2. dataNet' \subseteq WirePackets /\ \A q \in dataNet' : Genuine(q, serverSequence)
  <2>1. dataNet' = dataNet \/ dataNet' = dataNet \cup Resent
    BY DEF CheckupStep, StartCheckup, ReadCheckup, CheckupServerPackets
  <2>2. ASSUME NEW q \in Resent PROVE q \in WirePackets /\ Genuine(q, serverSequence)
    <3>1. PICK i \in 1..Len(sequenceBuffer) : q = OnWire(sequenceBuffer[i])
      BY DEF Resent
    <3>2. sequenceBuffer[i] \in Packets /\ Genuine(sequenceBuffer[i], serverSequence)
      BY SeqTypes DEF IInv, ChannelInv, AllGenuine
    <3> QED
      BY <3>1, <3>2, WireGenuine
  <2> QED
    BY <2>1, <2>2 DEF IInv, TypeOK, ChannelInv, AllGenuine
<1>3. /\ checkup' \in BOOLEAN /\ checkupPacket' \in Nat
      /\ cpc' \in [Checkers -> {"idle", "polled", "read"}] /\ cpacket' \in [Checkers -> Nat]
  <2>0. /\ checkup \in BOOLEAN /\ checkupPacket \in Nat
        /\ cpc \in [Checkers -> {"idle", "polled", "read"}] /\ cpacket \in [Checkers -> Nat]
    BY DEF IInv, TypeOK
  <2>1. CASE StartCheckup(c)
    BY <2>0, <2>1 DEF StartCheckup
  <2>2. CASE ReadCheckup(c)
    BY <2>0, <2>2 DEF ReadCheckup, clientVars
  <2>3. CASE CheckupServerPackets(c)
    <3>1. /\ checkup' = checkup \/ checkup' \in BOOLEAN
          /\ cpc' = [cpc EXCEPT ![c] = "idle"] /\ cpacket' = cpacket
      BY <2>3 DEF CheckupServerPackets
    <3>2. checkupPacket' \in Nat
      BY <2>0, <2>3 DEF CheckupServerPackets
    <3> QED
      BY <2>0, <3>1, <3>2
  <2> QED
    BY <2>1, <2>2, <2>3 DEF CheckupStep
<1>4. TypeOK'
  BY <1>1, <1>2, <1>3 DEF IInv, TypeOK
<1>5. Numbered' /\ InStep' /\ KeptUntilAcked'
  BY <1>1 DEF IInv, ChannelInv, Numbered, InStep, KeptUntilAcked, Kept
<1>6. AllGenuine'
  BY <1>1, <1>2 DEF IInv, ChannelInv, AllGenuine
<1> QED
  BY <1>4, <1>5, <1>6 DEF IInv, ChannelInv

\* An acknowledgement drops packets from the front, and only acknowledged ones.
LEMMA AcknowledgeIInv ==
    ASSUME IInv, NEW seq \in ackNet, AcknowledgeServerPackets(seq)
    PROVE  IInv'
<1>1. /\ seq \in Nat /\ seq < clientSequence /\ clientSequence <= serverSequence
      /\ clientSequence \in Nat /\ serverSequence \in Nat /\ acknowledgedServerSequence \in Int
  BY DEF IInv, TypeOK, ChannelInv, InStep
<1>2. RealSeq(seq, acknowledgedServerSequence, serverSequence) = seq
  BY <1>1, BelowWrap, RealSeqSmall
<1>3. UNCHANGED <<open, bufferedPacket, sendBuffer, serverSequence, reentrant, lock, spc, sent, packet,
                  cpc, cpacket, dataNet, clientSequence, receiveBuffer, delivered, submitted>>
  BY DEF AcknowledgeServerPackets, threadVars, receiverVars
<1>4. ackNet' \subseteq ackNet
  <2>1. ackNet' \in AfterDelivery(ackNet, seq)
    BY DEF AcknowledgeServerPackets
  <2> QED
    BY <2>1 DEF AfterDelivery
<1>5. CASE seq < acknowledgedServerSequence
  <2>1. UNCHANGED <<sequenceBuffer, acknowledgedServerSequence, checkup, checkupPacket>>
    BY <1>2, <1>5 DEF AcknowledgeServerPackets
  <2>2. TypeOK'
    BY <1>3, <1>4, <2>1 DEF IInv, TypeOK
  <2>3. Numbered' /\ AllGenuine' /\ KeptUntilAcked'
    BY <1>3, <2>1 DEF IInv, ChannelInv, Numbered, AllGenuine, KeptUntilAcked, Kept
  <2>4. InStep'
    BY <1>3, <1>4, <2>1 DEF IInv, ChannelInv, InStep
  <2> QED
    BY <2>2, <2>3, <2>4 DEF IInv, ChannelInv
<1>6. CASE ~(seq < acknowledgedServerSequence)
  <2>1. PICK n \in 0..Len(sequenceBuffer) :
            /\ Flushed(n, seq)
            /\ sequenceBuffer' = SubSeq(sequenceBuffer, n + 1, Len(sequenceBuffer))
            /\ acknowledgedServerSequence' = seq
            /\ checkup' = (n < Len(sequenceBuffer))
            /\ checkupPacket' = IF n < Len(sequenceBuffer)
                                  THEN sequenceBuffer[n + 1].seq ELSE checkupPacket
    BY <1>2, <1>6 DEF AcknowledgeServerPackets
  <2>2. sequenceBuffer \in Seq(Packets) /\ Len(sequenceBuffer) \in Nat
    BY DEF IInv, TypeOK
  <2>3. /\ sequenceBuffer' \in Seq(Packets) /\ Len(sequenceBuffer') = Len(sequenceBuffer) - n
        /\ \A i \in 1..Len(sequenceBuffer') : sequenceBuffer'[i] = sequenceBuffer[n + i]
    BY <2>1, <2>2
  <2>4. checkup' \in BOOLEAN /\ checkupPacket' \in Nat
    <3>1. n < Len(sequenceBuffer) => n + 1 \in 1..Len(sequenceBuffer)
      BY <2>2
    <3>2. checkupPacket' \in Nat
      BY <2>1, <3>1, SeqTypes DEF IInv, TypeOK
    <3>3. checkup' = TRUE \/ checkup' = FALSE
      BY <2>1, <2>2
    <3> QED
      BY <3>2, <3>3
  <2>5. TypeOK'
    <3>1. acknowledgedServerSequence' \in Int
      BY <1>1, <2>1
    <3>2. TypeOK
      BY DEF IInv
    <3>3. sequenceBuffer' \in Seq(Packets) /\ ackNet' \subseteq 0..(SeqMod - 1)
      BY <1>4, <2>3, <3>2, Zenon DEF TypeOK
    <3> QED
      BY <1>3, <2>4, <3>1, <3>2, <3>3 DEF TypeOK
  <2>6. Numbered' /\ AllGenuine'
    <3>1. \A i \in 1..Len(sequenceBuffer') : n + i \in 1..Len(sequenceBuffer)
      BY <2>2, <2>3
    <3> QED
      BY <1>3, <2>3, <3>1 DEF IInv, ChannelInv, Numbered, AllGenuine
  <2>7. InStep'
    <3>1. acknowledgedServerSequence' >= -1 /\ acknowledgedServerSequence' < clientSequence
      BY <1>1, <2>1
    <3>2. open' => serverSequence' - acknowledgedServerSequence' <= Window + 1
      <4>1. acknowledgedServerSequence <= acknowledgedServerSequence'
        BY <1>1, <1>6, <2>1
      <4>2. acknowledgedServerSequence' \in Int
        BY <1>1, <2>1
      <4> HAVE open'
      <4>3. serverSequence - acknowledgedServerSequence <= Window + 1 /\ serverSequence' = serverSequence
        BY <1>3 DEF IInv, ChannelInv, InStep
      <4>4. \A s, a, b, w \in Int : s - a <= w + 1 /\ a <= b => s - b <= w + 1
        OBVIOUS
      <4>5. Window \in Int /\ serverSequence \in Int
        BY <1>1, ChannelAssumption
      <4> QED
        BY <1>1, <4>1, <4>2, <4>3, <4>4, <4>5, Zenon
    <3> QED
      BY <1>3, <1>4, <3>1, <3>2 DEF IInv, ChannelInv, InStep
  <2>8. ASSUME NEW s \in Int, s > seq, Kept(s) PROVE Kept(s)'
    <3>1. CASE \E i \in 1..Len(sequenceBuffer) : sequenceBuffer[i].seq = s
      <4>1. PICK i \in 1..Len(sequenceBuffer) : sequenceBuffer[i].seq = s
        BY <3>1
      <4>2. i > n
        <5>1. i \in 1..n => s <= seq
          BY <2>1, <4>1 DEF Flushed
        <5>2. ~(s <= seq) /\ i \in Nat /\ i >= 1 /\ n \in Nat
          BY <1>1, <2>2, <2>8
        <5> QED
          BY <5>1, <5>2
      <4>3. i - n \in 1..Len(sequenceBuffer') /\ n + (i - n) = i
        BY <2>2, <2>3, <4>2
      <4> QED
        BY <2>3, <4>1, <4>3 DEF Kept
    <3>2. CASE \E u \in Senders : spc[u] = "encrypt" /\ packet[u].seq = s
      BY <1>3, <3>2 DEF Kept
    <3> QED
      BY <2>8, <3>1, <3>2 DEF Kept
  <2>9. KeptUntilAcked'
    BY <1>1, <1>3, <1>6, <2>1, <2>8 DEF IInv, ChannelInv, KeptUntilAcked
  <2> QED
    BY <2>5, <2>6, <2>7, <2>9 DEF IInv, ChannelInv
<1> QED
  BY <1>5, <1>6

\* The network and the receiver leave the sender's part of the invariant alone.
LEMMA SenderUnchanged ==
    ASSUME IInv, UNCHANGED <<clientVars, threadVars, submitted>>
    PROVE  Numbered' /\ KeptUntilAcked'
<1>1. /\ open' = open /\ bufferedPacket' = bufferedPacket /\ sendBuffer' = sendBuffer
      /\ serverSequence' = serverSequence /\ sequenceBuffer' = sequenceBuffer
      /\ acknowledgedServerSequence' = acknowledgedServerSequence
      /\ spc' = spc /\ packet' = packet /\ submitted' = submitted
  BY DEF clientVars, threadVars
<1>2. Numbered /\ KeptUntilAcked
  BY DEF IInv, ChannelInv
<1>3. Numbered'
  BY <1>1, <1>2 DEF Numbered
<1>4. \A s : Kept(s) => Kept(s)'
  BY <1>1 DEF Kept
<1>5. KeptUntilAcked'
  BY <1>1, <1>2, <1>4 DEF KeptUntilAcked
<1> QED
  BY <1>3, <1>5

\* The network loses a packet or an acknowledgement.
LEMMA LoseIInv ==
    ASSUME IInv,
           (\E p \in dataNet : LosePacket(p)) \/ (\E seq \in ackNet : LoseAck(seq))
    PROVE  IInv'
<1>1. /\ UNCHANGED <<clientVars, threadVars, receiverVars, submitted>>
      /\ dataNet' \subseteq dataNet /\ ackNet' \subseteq ackNet
  BY DEF LosePacket, LoseAck
<1>2. TypeOK'
  BY <1>1 DEF IInv, TypeOK, clientVars, threadVars, receiverVars
<1>3. Numbered' /\ KeptUntilAcked'
  BY <1>1, SenderUnchanged
<1>4. AllGenuine' /\ InStep'
  BY <1>1 DEF IInv, ChannelInv, AllGenuine, InStep, clientVars, threadVars, receiverVars
<1> QED
  BY <1>2, <1>3, <1>4 DEF IInv, ChannelInv

\* Below the wrap, what getBufferedPacket hands over carries the numbers after
\* the one that was expected.
LEMMA DrainedCounts ==
    ASSUME IInv, NEW n \in Nat, CanDrain(n)
    PROVE  /\ clientSequence + n < SeqMod
           /\ \A j \in 0..n : Expected(j) = clientSequence + j
           /\ Counts(Drained(n), clientSequence + 1) /\ Len(Drained(n)) = n
           /\ n > 0 => clientSequence + n < serverSequence
<1>1. /\ clientSequence \in Nat /\ serverSequence \in Nat /\ SeqMod \in Nat \ {0}
      /\ clientSequence < SeqMod /\ serverSequence < SeqMod
  BY BelowWrap, ChannelAssumption DEF IInv, TypeOK
<1>2. \A q \in receiveBuffer : /\ q.seq \in Nat /\ q.seq > clientSequence
                               /\ q.seq < serverSequence /\ q.data = q.seq
  BY SeqTypes DEF IInv, ChannelInv, AllGenuine, Genuine
<1>3. clientSequence + n < SeqMod
  <2> SUFFICES ASSUME clientSequence + n >= SeqMod PROVE FALSE
    BY <1>1
  <2> DEFINE w == SeqMod - clientSequence
  <2>1. w \in 1..n /\ clientSequence + w = SeqMod
    BY <1>1
  <2>2. SeqMod % SeqMod = 0
    BY <1>1
  <2>3. Expected(w) = 0
    BY <2>1, <2>2 DEF Expected
  <2>4. PICK q \in receiveBuffer : q.seq = Expected(w)
    BY <2>1 DEF CanDrain
  <2> QED
    BY <1>1, <1>2, <2>3, <2>4
<1>4. \A j \in 0..n : Expected(j) = clientSequence + j
  BY <1>1, <1>3, ModSmall DEF Expected
<1>5. ASSUME NEW j \in 1..n
      PROVE  Drained(n)[j] = clientSequence + j /\ clientSequence + j < serverSequence
  <2>1. \E q \in receiveBuffer : q.seq = Expected(j)
    BY DEF CanDrain
  <2> DEFINE d == CHOOSE q \in receiveBuffer : q.seq = Expected(j)
  <2>2. d \in receiveBuffer /\ d.seq = Expected(j)
    BY <2>1
  <2>3. Drained(n)[j] = d.data
    BY DEF Drained
  <2> HIDE DEF d
  <2> QED
    BY <1>2, <1>4, <2>2, <2>3
<1>6. Counts(Drained(n), clientSequence + 1) /\ Len(Drained(n)) = n
  <2>1. \A j \in 1..n : Drained(n)[j] \in Nat
    BY <1>1, <1>5
  <2>2. DOMAIN Drained(n) = 1..n /\ Drained(n) = [j \in 1..n |-> Drained(n)[j]]
    BY DEF Drained
  <2>3. Drained(n) \in [1..n -> Nat]
    BY <2>1, <2>2
  <2>4. Drained(n) \in Seq(Nat) /\ Len(Drained(n)) = n
    BY <2>3
  <2> QED
    BY <1>1, <1>5, <2>4 DEF Counts
<1>7. n > 0 => clientSequence + n < serverSequence
  BY <1>5
<1> QED
  BY <1>3, <1>4, <1>6, <1>7

\* The packet that was expected and the ones kept behind it are handed over.
LEMMA ReceiveExpectedIInv ==
    ASSUME IInv, NEW p \in dataNet, dataNet' \subseteq dataNet, ReceiveExpected(p),
           UNCHANGED <<clientVars, threadVars, submitted>>
    PROVE  IInv' /\ \E n \in Nat : Counts(delivered', 0) /\ Len(delivered') = Len(delivered) + n + 1
<1>1. PICK n \in Nat :
         /\ CanDrain(n) /\ ~CanDrain(n + 1)
         /\ delivered' = delivered \o <<p.data>> \o Drained(n)
         /\ clientSequence' = clientSequence + n + 1
         /\ receiveBuffer' = {q \in receiveBuffer : \A j \in 1..n : q.seq # Expected(j)}
         /\ ackNet' = ackNet \cup {Expected(j) : j \in 0..n}
  <2>1. \A k : k \in 0..Cardinality(receiveBuffer) => k \in Nat
    OBVIOUS
  <2> QED
    BY <2>1, Zenon DEF ReceiveExpected
<1>2. /\ clientSequence' = clientSequence + n + 1
      /\ delivered' = (delivered \o <<p.data>>) \o Drained(n)
  BY <1>1, Zenon
<1>3. /\ clientSequence \in Nat /\ serverSequence \in Nat /\ SeqMod \in Nat \ {0}
      /\ clientSequence < SeqMod /\ serverSequence < SeqMod /\ clientSequence' \in Nat
  <2>1. clientSequence \in Nat /\ serverSequence \in Nat
    BY Zenon DEF IInv, TypeOK
  <2>2. clientSequence < SeqMod /\ serverSequence < SeqMod
    BY BelowWrap, Zenon
  <2> QED
    BY <1>2, <2>1, <2>2, ChannelAssumption
<1>4. /\ clientSequence + n < SeqMod
      /\ \A j \in 0..n : Expected(j) = clientSequence + j
      /\ Counts(Drained(n), clientSequence + 1) /\ Len(Drained(n)) = n
      /\ n > 0 => clientSequence + n < serverSequence
  <2>1. CanDrain(n)
    BY <1>1, Zenon
  <2> QED
    BY <2>1, DrainedCounts, Zenon
<1>5. p.seq = clientSequence /\ p.data = clientSequence /\ clientSequence < serverSequence
  <2>1. p.seq = Expected(0)
    BY Zenon DEF ReceiveExpected
  <2>2. 0 \in 0..n
    OBVIOUS
  <2>3. Expected(0) = clientSequence + 0
    BY <1>4, <2>2, Zenon
  <2>4. Genuine(p, serverSequence)
    BY Zenon DEF IInv, ChannelInv, AllGenuine
  <2> QED
    BY <1>3, <2>1, <2>3, <2>4 DEF Genuine
<1>6. clientSequence' <= serverSequence
  <2>1. n > 0 => clientSequence + n < serverSequence
    BY <1>4, Zenon
  <2> QED
    BY <1>2, <1>3, <1>5, <2>1
<1>7. Counts(delivered', 0) /\ Len(delivered') = clientSequence' /\ Len(delivered) = clientSequence
  <2>1. Counts(delivered, 0) /\ Len(delivered) = clientSequence
    <3>1. delivered \in Seq(Nat)
      BY DEF IInv, TypeOK
    <3>2. InStep
      BY DEF IInv, ChannelInv
    <3> QED
      BY <3>1, <3>2 DEF InStep, Counts
  <2>2. Counts(<<p.data>>, 0 + Len(delivered)) /\ Len(<<p.data>>) = 1
    BY <1>3, <1>5, <2>1 DEF Counts
  <2>3. /\ Counts(delivered \o <<p.data>>, 0)
        /\ Len(delivered \o <<p.data>>) = Len(delivered) + Len(<<p.data>>)
    BY <2>1, <2>2, CountsConcat
  <2>4. Counts(Drained(n), 0 + Len(delivered \o <<p.data>>))
    BY <1>3, <1>4, <2>1, <2>2, <2>3
  <2>5. /\ Counts((delivered \o <<p.data>>) \o Drained(n), 0)
        /\ Len((delivered \o <<p.data>>) \o Drained(n)) = Len(delivered \o <<p.data>>) + Len(Drained(n))
    <3>1. 0 \in Nat
      OBVIOUS
    <3> QED
      BY <2>3, <2>4, <3>1, CountsConcat, Zenon
  <2>7. Len((delivered \o <<p.data>>) \o Drained(n)) = clientSequence + 1 + n
    BY <1>4, <2>1, <2>2, <2>3, <2>5
  <2> QED
    BY <1>2, <1>3, <2>1, <2>5, <2>7
<1>8. \A seq \in ackNet' : seq \in 0..(SeqMod - 1) /\ seq < clientSequence'
  <2>1. \A seq \in ackNet : seq \in 0..(SeqMod - 1) /\ seq < clientSequence
    BY DEF IInv, TypeOK, ChannelInv, InStep
  <2>2. \A j \in 0..n : Expected(j) \in 0..(SeqMod - 1) /\ Expected(j) < clientSequence'
    BY <1>1, <1>2, <1>3, <1>4
  <2> QED
    BY <1>1, <1>2, <1>3, <2>1, <2>2
<1>9. ASSUME NEW q \in receiveBuffer' PROVE q \in receiveBuffer /\ q.seq > clientSequence'
  <2>1. /\ q \in receiveBuffer /\ q.seq \in Nat /\ q.seq > clientSequence
        /\ q.seq < serverSequence
        /\ \A j \in 1..n : q.seq # Expected(j)
    BY <1>1, <1>9, SeqTypes DEF IInv, ChannelInv, AllGenuine, Genuine
  <2>2. q.seq > clientSequence + n
    <3> SUFFICES ASSUME q.seq <= clientSequence + n PROVE FALSE
      BY <1>2, <1>3, <2>1
    <3>1. q.seq - clientSequence \in 1..n
      BY <1>2, <1>3, <2>1
    <3>2. Expected(q.seq - clientSequence) = q.seq
      BY <1>3, <1>4, <2>1, <3>1
    <3> QED
      BY <2>1, <3>1, <3>2
  <2>3. q.seq # clientSequence + n + 1
    <3> SUFFICES ASSUME q.seq = clientSequence + n + 1 PROVE CanDrain(n + 1)
      BY <1>1
    <3>1. Expected(n + 1) = q.seq
      BY <1>2, <1>3, <2>1, ModSmall DEF Expected
    <3>2. ASSUME NEW r \in receiveBuffer, r.seq < Expected(n + 1)
          PROVE  \E i \in 1..n : r.seq = Expected(i)
      <4>1. r.seq \in Nat /\ r.seq > clientSequence
        BY SeqTypes DEF IInv, ChannelInv, AllGenuine
      <4>2. r.seq - clientSequence \in 1..n
        BY <1>2, <1>3, <3>1, <3>2, <4>1
      <4>3. Expected(r.seq - clientSequence) = r.seq
        BY <1>3, <1>4, <4>1, <4>2
      <4> QED
        BY <4>2, <4>3
    <3>3. ASSUME NEW j \in 1..(n + 1)
          PROVE  /\ \E r \in receiveBuffer : r.seq = Expected(j)
                 /\ \A r \in receiveBuffer :
                       r.seq < Expected(j) => \E i \in 1..(j - 1) : r.seq = Expected(i)
      <4>1. CASE j = n + 1
        <5>1. 1..(j - 1) = 1..n
          BY <1>2, <4>1
        <5> QED
          BY <2>1, <3>1, <3>2, <4>1, <5>1
      <4>2. CASE j # n + 1
        <5>1. j \in 1..n
          BY <1>2, <4>2
        <5> QED
          BY <1>1, <5>1 DEF CanDrain
      <4> QED
        BY <4>1, <4>2
    <3> QED
      BY <3>3 DEF CanDrain
  <2> QED
    BY <1>2, <1>3, <2>1, <2>2, <2>3
<1>10. TypeOK'
  <2>1. TypeOK
    BY Zenon DEF IInv
  <2>2. /\ dataNet' \subseteq WirePackets /\ receiveBuffer' \subseteq WirePackets
        /\ ackNet' \subseteq 0..(SeqMod - 1)
    BY <1>8, <1>9, <2>1, Zenon DEF TypeOK
  <2>3. delivered' \in Seq(Nat)
    BY <1>7, Zenon DEF Counts
  <2> QED
    BY <1>3, <2>1, <2>2, <2>3 DEF TypeOK, clientVars, threadVars
<1>11. Numbered' /\ KeptUntilAcked'
  BY SenderUnchanged, Zenon
<1>12. AllGenuine'
  BY <1>9 DEF IInv, ChannelInv, AllGenuine, clientVars, threadVars
<1>13. InStep'
  <2>1. /\ UNCHANGED <<open, serverSequence, acknowledgedServerSequence>>
        /\ acknowledgedServerSequence \in Int /\ clientSequence < clientSequence'
    <3>1. UNCHANGED <<open, serverSequence, acknowledgedServerSequence>>
      BY DEF clientVars
    <3>2. acknowledgedServerSequence \in Int
      BY Zenon DEF IInv, TypeOK
    <3>3. clientSequence < clientSequence'
      BY <1>2, <1>3
    <3> QED
      BY <3>1, <3>2, <3>3
  <2>2. acknowledgedServerSequence < clientSequence' /\ serverSequence <= clientSequence' + Window
    <3>1. acknowledgedServerSequence < clientSequence /\ serverSequence <= clientSequence + Window
      BY DEF IInv, ChannelInv, InStep
    <3>2. \A a, s, c, d, w \in Int : a < c /\ s <= c + w /\ c < d => a < d /\ s <= d + w
      OBVIOUS
    <3>3. Window \in Int /\ clientSequence \in Int /\ clientSequence' \in Int /\ serverSequence \in Int
      BY <1>3, ChannelAssumption
    <3> QED
      BY <2>1, <3>1, <3>2, <3>3, Zenon
  <2>3. \A i \in 1..clientSequence' : delivered'[i] = i - 1
    BY <1>3, <1>7 DEF Counts
  <2> QED
    <3>1. InStep
      BY Zenon DEF IInv, ChannelInv
    <3> QED
      BY <1>6, <1>7, <1>8, <2>1, <2>2, <2>3, <3>1 DEF InStep
<1>14. Len(delivered') = Len(delivered) + n + 1
  BY <1>2, <1>7
<1> QED
  BY <1>2, <1>7, <1>10, <1>11, <1>12, <1>13, <1>14 DEF IInv, ChannelInv

\* A packet arrives.
LEMMA ReceiveIInv == ASSUME IInv, NEW p \in dataNet, Receive(p) PROVE IInv'
<1>1. dataNet' \subseteq dataNet /\ UNCHANGED <<clientVars, threadVars, submitted>>
  <2>1. dataNet' \in AfterDelivery(dataNet, p)
    BY DEF Receive
  <2> QED
    BY <2>1 DEF AfterDelivery, Receive
<1>2. /\ p \in WirePackets /\ p.seq \in 0..(SeqMod - 1) /\ p.seq \in Nat
      /\ Genuine(p, serverSequence)
  BY SeqTypes DEF IInv, ChannelInv, AllGenuine
<1>3. Expected(0) = clientSequence /\ clientSequence \in Nat
  BY BelowWrap, ModSmall DEF Expected, IInv, TypeOK
<1>4. Numbered' /\ KeptUntilAcked'
  BY <1>1, SenderUnchanged
<1>5. CASE ReceiveOld(p)
  <2>1. ackNet' = ackNet \cup {p.seq} /\ UNCHANGED receiverVars /\ p.seq < clientSequence
    BY <1>3, <1>5 DEF ReceiveOld
  <2>2. TypeOK'
    BY <1>1, <1>2, <2>1 DEF IInv, TypeOK, clientVars, threadVars, receiverVars
  <2>3. AllGenuine' /\ InStep'
    BY <1>1, <2>1 DEF IInv, ChannelInv, AllGenuine, InStep, clientVars, threadVars, receiverVars
  <2> QED
    BY <1>4, <2>2, <2>3 DEF IInv, ChannelInv
<1>6. CASE ReceiveEarly(p)
  <2>1. /\ UNCHANGED <<ackNet, clientSequence, delivered>> /\ p.seq > clientSequence
        /\ receiveBuffer' \subseteq receiveBuffer \cup {p}
    BY <1>3, <1>6 DEF ReceiveEarly
  <2>2. TypeOK'
    <3>1. TypeOK
      BY DEF IInv
    <3>2. dataNet' \subseteq WirePackets /\ receiveBuffer' \subseteq WirePackets
      BY <1>1, <1>2, <2>1, <3>1 DEF TypeOK
    <3> QED
      BY <1>1, <2>1, <3>1, <3>2 DEF TypeOK, clientVars, threadVars
  <2>3. AllGenuine' /\ InStep'
    BY <1>1, <1>2, <2>1 DEF IInv, ChannelInv, AllGenuine, InStep, clientVars, threadVars
  <2> QED
    BY <1>4, <2>2, <2>3 DEF IInv, ChannelInv
<1>7. CASE ReceiveExpected(p)
  BY <1>1, <1>7, ReceiveExpectedIInv
<1> QED
  BY <1>5, <1>6, <1>7 DEF Receive

\* A thread that encrypts a packet has not yet used up its batch, so that what it
\* counts stays within Batch.
Counted == \A t \in Senders : spc[t] = "encrypt" => sent[t] < Batch

\* Every step keeps the counts within the batch.
LEMMA CountedStep == ASSUME IInv, Counted, [Next]_vars PROVE Counted'
<1>1. ASSUME NEW t \in Senders, StartRun(t) \/ RunStep(t) PROVE Counted'
  <2>1. CASE Prepare(t)
    BY <2>1 DEF Prepare, Counted, IInv, TypeOK
  <2>2. CASE LockRun(t)
    BY <2>2 DEF LockRun, Counted, IInv, TypeOK
  <2>3. CASE Transmit(t)
    BY <2>3 DEF Transmit, Counted, IInv, TypeOK
  <2>4. CASE StartRun(t) \/ EndRun(t) \/ Stall(t)
    BY <2>4 DEF StartRun, EndRun, Stall, Return, Counted, IInv, TypeOK
  <2> QED
    BY <1>1, <2>1, <2>2, <2>3, <2>4 DEF RunStep
<1>2. CASE UNCHANGED <<spc, sent>>
  BY <1>2 DEF Counted
<1>3. CASE Submit
  BY <1>2, <1>3 DEF Submit, BufferPacket, RolloverPacket, SendPacket, threadVars
<1>4. ASSUME NEW c \in Checkers, CheckupStep(c) PROVE Counted'
  BY <1>2, <1>4 DEF CheckupStep, StartCheckup, ReadCheckup, CheckupServerPackets
<1>5. ASSUME NEW seq \in ackNet, AcknowledgeServerPackets(seq) \/ LoseAck(seq) PROVE Counted'
  BY <1>2, <1>5 DEF AcknowledgeServerPackets, LoseAck, threadVars
<1>6. ASSUME NEW p \in dataNet, Receive(p) \/ LosePacket(p) PROVE Counted'
  BY <1>2, <1>6 DEF Receive, LosePacket, threadVars
<1>7. CASE Disconnect
  BY <1>2, <1>7 DEF Disconnect, threadVars
<1>8. CASE UNCHANGED vars
  BY <1>2, <1>8 DEF vars
<1> QED
  BY <1>1, <1>3, <1>4, <1>5, <1>6, <1>7, <1>8 DEF Next

\* Every step keeps the invariant.
LEMMA NextIInv == IInv /\ Counted /\ [Next]_vars => IInv' /\ Counted'
<1> SUFFICES ASSUME IInv, Counted, [Next]_vars PROVE IInv'
  BY CountedStep
<1>1. ASSUME NEW t \in Senders, StartRun(t) \/ RunStep(t) PROVE IInv'
  BY <1>1, RunIInv, StallIInv, PrepareIInv, TransmitIInv DEF RunStep, Counted, Transmit
<1> QED
  BY <1>1, StutterIInv, SubmitIInv, CheckupIInv, AcknowledgeIInv, ReceiveIInv, LoseIInv,
     DisconnectIInv DEF Next

\* No thread encrypts a packet in the initial state.
LEMMA InitCounted == Init => Counted
BY DEF Init, Counted

\* The invariant holds in every state.
LEMMA SpecIInv == Spec => [](IInv /\ Counted)
BY InitIInv, InitCounted, NextIInv, PTL DEF Spec

\* Every variable keeps its type; in particular sendReliablePackets never counts
\* beyond its batch, though it gives up the Mutex in the loop.
THEOREM TypesHold == Spec => []TypeOK
<1>1. IInv => TypeOK
  BY DEF IInv
<1> QED
  BY <1>1, SpecIInv, PTL

\* acknowledgeServerPackets drops no packet the other endpoint has not handed over.
THEOREM KeptUntilDeliveredHolds == Spec => []KeptUntilDelivered
<1>1. IInv => KeptUntilDelivered
  BY DEF IInv, TypeOK, ChannelInv, InStep, KeptUntilAcked, KeptUntilDelivered
<1> QED
  BY <1>1, SpecIInv, PTL

\* The window of getNextSequencedPacket bounds what validatePacket has to keep.
THEOREM WindowBoundHolds == Spec => []WindowBound
<1>1. IInv => WindowBound
  <2> HAVE IInv
  <2>1. \A p \in receiveBuffer : p.seq \in Nat /\ p.seq > clientSequence /\ p.seq < serverSequence
    BY SeqTypes DEF IInv, ChannelInv, AllGenuine, Genuine
  <2>2. serverSequence <= clientSequence + Window /\ clientSequence \in Nat /\ serverSequence \in Nat
    BY DEF IInv, TypeOK, ChannelInv, InStep
  <2>3. open => serverSequence - acknowledgedServerSequence <= Window + 1
    BY DEF IInv, ChannelInv, InStep
  <2> QED
    BY <2>1, <2>2, <2>3, ChannelAssumption DEF WindowBound
<1> QED
  BY <1>1, SpecIInv, PTL

\* A sequence of consecutive numbers that grew is the old one and what follows.
LEMMA CountsGrow ==
    ASSUME NEW s, NEW t, Counts(s, 0), Counts(t, 0), NEW n \in Nat, Len(t) = Len(s) + n
    PROVE  t = s \o [i \in 1..n |-> Len(s) + i - 1]
<1> DEFINE f == [i \in 1..n |-> Len(s) + i - 1]
<1>1. s \in Seq(Nat) /\ t \in Seq(Nat) /\ Len(s) \in Nat
  BY DEF Counts
<1>2. f \in Seq(Nat) /\ Len(f) = n /\ \A i \in 1..n : f[i] = Len(s) + i - 1
  BY <1>1
<1> HIDE DEF f
<1>3. Counts(f, 0 + Len(s))
  BY <1>1, <1>2 DEF Counts
<1>4. Counts(s \o f, 0) /\ Len(s \o f) = Len(s) + Len(f)
  BY <1>3, CountsConcat
<1>5. s \o f \in Seq(Nat) /\ Len(s \o f) = Len(t)
  BY <1>2, <1>4 DEF Counts
<1>6. \A i \in 1..Len(t) : t[i] = (s \o f)[i]
  BY <1>4, <1>5 DEF Counts
<1>7. t = s \o f
  BY <1>1, <1>5, <1>6, SeqEqual
<1> QED
  BY <1>7 DEF f

\* A packet that arrives is a stutter or hands over the next numbers.
LEMMA ReceiveStream ==
    ASSUME IInv, NEW p \in dataNet, Receive(p)
    PROVE  UNCHANGED <<submitted, delivered>> \/ Stream!Deliver
<1>1. dataNet' \subseteq dataNet /\ UNCHANGED <<clientVars, threadVars, submitted>>
  <2>1. dataNet' \in AfterDelivery(dataNet, p)
    BY DEF Receive
  <2> QED
    BY <2>1 DEF AfterDelivery, Receive
<1>2. CASE ReceiveOld(p) \/ ReceiveEarly(p)
  BY <1>1, <1>2 DEF ReceiveOld, ReceiveEarly, receiverVars
<1>3. CASE ReceiveExpected(p)
  <2>1. PICK n \in Nat : Counts(delivered', 0) /\ Len(delivered') = Len(delivered) + n + 1
    BY <1>1, <1>3, ReceiveExpectedIInv
  <2>2. Counts(delivered, 0) /\ Len(delivered) \in Nat
    BY DEF IInv, TypeOK, ChannelInv, InStep, Counts
  <2>3. n + 1 \in Nat /\ Len(delivered') = Len(delivered) + (n + 1)
    BY <2>1, <2>2
  <2>4. delivered' = delivered \o [i \in 1..(n + 1) |-> Len(delivered) + i - 1]
    BY <2>1, <2>2, <2>3, CountsGrow
  <2>5. n + 1 \in 1..(submitted - Len(delivered))
    <3>1. IInv'
      BY ReceiveIInv
    <3>2. /\ Len(delivered') = clientSequence' /\ clientSequence' <= serverSequence'
          /\ serverSequence' <= submitted' /\ clientSequence' \in Nat /\ serverSequence' \in Nat
          /\ submitted' \in Nat
      <4>1. TypeOK' /\ InStep' /\ Numbered'
        BY <3>1, Zenon DEF IInv, ChannelInv
      <4>2. clientSequence' \in Nat /\ serverSequence' \in Nat /\ submitted' \in 0..MaxPackets
        BY <4>1, Zenon DEF TypeOK
      <4>3. /\ Len(delivered') = clientSequence' /\ clientSequence' <= serverSequence'
            /\ serverSequence' <= submitted'
        BY <4>1, Zenon DEF InStep, Numbered
      <4> QED
        BY <4>2, <4>3, ChannelAssumption
    <3>3. submitted' = submitted
      BY <1>1
    <3> QED
      BY <2>1, <2>2, <3>2, <3>3
  <2> QED
    BY <1>1, <2>4, <2>5 DEF Stream!Deliver
<1> QED
  BY <1>2, <1>3 DEF Receive

\* The sequenced channel implements a reliable stream: what sendPacket is given
\* comes out at the other end in order and once, whatever the network loses,
\* repeats or reorders and however the threads interleave.
THEOREM ImplementsStream == Spec => StreamSpec
<1>1. Init => Stream!Init
  BY DEF Init, Stream!Init
<1>2. IInv /\ [Next]_vars => [Stream!Next]_<<submitted, delivered>>
  <2> SUFFICES ASSUME IInv, [Next]_vars PROVE Stream!Next \/ UNCHANGED <<submitted, delivered>>
    OBVIOUS
  <2>1. CASE Submit
    <3>1. delivered' = delivered
      BY <2>1 DEF Submit, BufferPacket, RolloverPacket, SendPacket, receiverVars
    <3>2. submitted' = submitted \/ (submitted' \in Nat /\ submitted' > submitted)
      <4>1. submitted \in Nat
        BY ChannelAssumption DEF IInv, TypeOK
      <4>2. submitted' = submitted \/ \E k \in Nat \ {0} : submitted' = submitted + k
        BY <2>1, ChannelAssumption DEF Submit, BufferPacket, RolloverPacket, SendPacket
      <4> QED
        BY <4>1, <4>2
    <3> QED
      BY <3>1, <3>2 DEF Stream!Next, Stream!Submit
  <2>2. CASE \E p \in dataNet : Receive(p)
    BY <2>2, ReceiveStream DEF Stream!Next
  <2>3. CASE \E t \in Senders : StartRun(t) \/ RunStep(t)
    BY <2>3 DEF StartRun, RunStep, LockRun, EndRun, Stall, Prepare, Transmit, Return, receiverVars
  <2>4. CASE \E c \in Checkers : CheckupStep(c)
    BY <2>4 DEF CheckupStep, StartCheckup, ReadCheckup, CheckupServerPackets, receiverVars
  <2>5. CASE \E seq \in ackNet : AcknowledgeServerPackets(seq) \/ LoseAck(seq)
    BY <2>5 DEF AcknowledgeServerPackets, LoseAck, receiverVars
  <2>6. CASE (\E p \in dataNet : LosePacket(p)) \/ Disconnect
    BY <2>6 DEF LosePacket, Disconnect, receiverVars
  <2>7. CASE UNCHANGED vars
    BY <2>7 DEF vars
  <2> QED
    BY <2>1, <2>2, <2>3, <2>4, <2>5, <2>6, <2>7 DEF Next
<1> QED
  BY <1>1, <1>2, SpecIInv, PTL DEF Spec, StreamSpec, Stream!Spec

\* Quotient and remainder by the number of sequences on the wire.
LEMMA Division ==
    ASSUME NEW x \in Nat
    PROVE  /\ x \div SeqMod \in Nat /\ x % SeqMod \in 0..(SeqMod - 1)
           /\ x = SeqMod * (x \div SeqMod) + (x % SeqMod)
BY ChannelAssumption

\* Multiples of it are at least that far apart.
LEMMA NextMultiple ==
    ASSUME NEW i \in Nat, NEW j \in Nat, i < j
    PROVE  SeqMod * i + SeqMod <= SeqMod * j
<1>1. PICK d \in Nat : j = i + 1 + d
  <2>1. j - i - 1 \in Nat /\ j = i + 1 + (j - i - 1)
    OBVIOUS
  <2> QED
    BY <2>1
<1>2. SeqMod * j = SeqMod * i + SeqMod + SeqMod * d
  BY <1>1, ChannelAssumption
<1>3. SeqMod * d >= 0
  BY ChannelAssumption
<1>4. SeqMod * i \in Nat /\ SeqMod * j \in Nat /\ SeqMod * d \in Nat
  BY ChannelAssumption
<1> QED
  BY <1>2, <1>3, <1>4, ChannelAssumption

\* acknowledgeServerPackets finds the sequence an acknowledgement stands for, also
\* after the numbers on the wire have started again any number of times, provided
\* that the acknowledgement is less than a whole round old and that the window is
\* smaller than a round.
THEOREM AckDecodes ==
    ASSUME NEW s \in Nat, NEW acked \in Int, NEW server \in Nat,
           acked >= -1, acked < server, server <= acked + Window + 1, Window < SeqMod,
           s < server, server < s + SeqMod
    PROVE  RealSeq(s % SeqMod, acked, server) = s
<1> DEFINE high == SeqMod * (server \div SeqMod)
           low == SeqMod * (s \div SeqMod)
           seq == s % SeqMod
<1>1. /\ high \in Nat /\ high <= server /\ server < high + SeqMod
      /\ low \in Nat /\ seq \in 0..(SeqMod - 1) /\ s = low + seq
  BY Division, ChannelAssumption
<1>2. low = 0 \/ low >= SeqMod
  BY ChannelAssumption, Division, NextMultiple
<1>3. low = high \/ low = high - SeqMod
  <2> DEFINE k == server \div SeqMod
             q == s \div SeqMod
  <2>1. k \in Nat /\ q \in Nat
    BY Division
  <2>2. CASE q = k
    BY <2>2
  <2>3. CASE q > k
    <3>1. high + SeqMod <= low
      BY <2>1, <2>3, NextMultiple
    <3> QED
      BY <1>1, <3>1, ChannelAssumption
  <2>4. CASE q = k - 1
    <3>1. low = high - SeqMod
      BY <2>1, <2>4, ChannelAssumption
    <3> QED
      BY <3>1
  <2>5. CASE q < k - 1
    <3>1. q + 1 \in Nat /\ q + 1 < k
      BY <2>1, <2>5
    <3>2. low + SeqMod <= SeqMod * (q + 1) /\ SeqMod * (q + 1) + SeqMod <= high
      BY <2>1, <3>1, NextMultiple
    <3>3. SeqMod * (q + 1) \in Nat
      BY <3>1, ChannelAssumption
    <3> HIDE DEF low, high, seq, q, k
    <3> QED
      BY <1>1, <3>2, <3>3, ChannelAssumption
  <2> QED
    BY <2>1, <2>2, <2>3, <2>4, <2>5
<1>4. CASE seq < acked
  <2>1. RealSeq(seq, acked, server) =
          LET real == high + seq IN IF real > server THEN real - SeqMod ELSE real
    BY <1>4, Zenon DEF RealSeq
  <2> HIDE DEF low, high, seq
  <2>2. RealSeq(seq, acked, server) = s
    BY <1>1, <1>3, <2>1, ChannelAssumption
  <2> QED
    BY <2>2 DEF seq
<1>5. CASE ~(seq < acked)
  <2>1. RealSeq(seq, acked, server) = IF seq > server THEN seq - SeqMod ELSE seq
    BY <1>5 DEF RealSeq
  <2> HIDE DEF low, high, seq
  <2>2. low = 0
    BY <1>1, <1>2, <1>5, ChannelAssumption
  <2>3. RealSeq(seq, acked, server) = s
    BY <1>1, <2>1, <2>2, ChannelAssumption
  <2> QED
    BY <2>3 DEF seq
<1> QED
  BY <1>4, <1>5
================================================================================
