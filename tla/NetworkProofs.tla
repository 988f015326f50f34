----------------------------- MODULE NetworkProofs -----------------------------
(***************************************************************************)
(* Proofs about the two ends of the network code: PacketAssembly, for any  *)
(* sizes of messages, and Connections, for any number of threads and of    *)
(* clients that follow each other at the address.                          *)
(***************************************************************************)
EXTENDS PacketAssembly, Connections, FiniteSetTheorems, TLAPS
--------------------------------------------------------------------------------
(* PacketAssembly: no packet is larger than the size announced to the peer. *)

Pieces == [msg : Int, from : Int, to : Int]

\* A packet that is within the limit when it is closed.
FitPackets ==
    {p \in [op : {"data", "multi", "frag"}, body : Seq(Pieces), size : Int] : p.size <= 493}

\* A group, and the one message it starts from, which BufferMultiPacket only
\* keeps back when it is short.
Groups ==
    {p \in FitPackets : \/ p.op = "data" /\ p.size < Escape + 4
                        \/ p.op = "multi" /\ p.size <= MaxGroup}

FitInv ==
    /\ submitted \in Seq(Int)
    /\ bufferedPacket = None \/ bufferedPacket \in Groups
    /\ sendBuffer \in Seq(FitPackets)
    /\ wire \in Seq(FitPackets)

\* BaseFragmentedPacket::getFragment never exceeds the limit: the first fragment
\* is full because only messages of MaxUnfragmented bytes or more are split.
LEMMA FragmentsFit ==
    ASSUME NEW m \in Int, NEW n \in Int, n >= MaxUnfragmented
    PROVE  Fragments(m, n) \in Seq(FitPackets)
<1> DEFINE K == (n + FragmentSize - 1) \div FragmentSize
<1>1. K \in Nat
  BY DEF FragmentSize, MaxUnfragmented
<1>2. ASSUME NEW k \in 1..K PROVE Fragment(m, n, k) \in FitPackets
  <2>1. /\ k \in Int /\ k >= 1 /\ k <= K
    BY <1>1, <1>2
  <2>2. (k - 1) * 489 < n
    BY <2>1 DEF FragmentSize, MaxUnfragmented
  <2>3. /\ FragmentEnd(n, k) \in Int
        /\ FragmentEnd(n, k) <= k * 489
    BY <2>1, <2>2 DEF FragmentEnd, FragmentSize, MaxUnfragmented
  <2> DEFINE from == (k - 1) * FragmentSize
             piece == Piece(m, from - 4, FragmentEnd(n, k) - 4)
  <2>4. from \in Int /\ from = k * 489 - 489
    BY <2>1 DEF FragmentSize
  <2>5. piece \in Pieces
    BY <2>3, <2>4 DEF Piece, Pieces
  <2>6. <<piece>> \in Seq(Pieces)
    BY <2>5
  <2>7. 4 + FragmentEnd(n, k) - from \in Int /\ 4 + FragmentEnd(n, k) - from <= 493
    BY <2>3, <2>4, <2>1
  <2> QED BY <2>6, <2>7 DEF Fragment, FitPackets
<1>3. Fragments(m, n) = [k \in 1..K |-> Fragment(m, n, k)]
  BY DEF Fragments
<1> HIDE DEF K
<1> QED BY <1>1, <1>2, <1>3

LEMMA SingleFits ==
    ASSUME NEW m \in Int, NEW n \in Int, n < MaxUnfragmented
    PROVE  /\ Single(m, n) \in FitPackets
           /\ Single(m, n).size = n /\ Single(m, n).op = "data"
<1>1. Whole(m, n) \in Pieces
  BY DEF Whole, Piece, Pieces
<1>2. <<Whole(m, n)>> \in Seq(Pieces)
  BY <1>1
<1> QED BY <1>2 DEF Single, FitPackets, MaxUnfragmented

\* What bufferMultiPacket leaves behind is a group or a packet that fits.
LEMMA BufferFits ==
    ASSUME FitInv, NEW pack \in FitPackets, pack.op = "data", BufferMultiPacket(pack)
    PROVE  /\ bufferedPacket' = None \/ bufferedPacket' \in Groups
           /\ sendBuffer' \in Seq(FitPackets)
<1> DEFINE short == pack.size - 4 < Escape
           group == Opened(bufferedPacket)
<1>1. pack.size \in Int /\ pack.body \in Seq(Pieces)
  BY DEF FitPackets
<1>2. short => pack \in Groups
  BY <1>1 DEF Groups, Escape
<1>3. CASE bufferedPacket = None
  <2>1. CASE short
    BY <1>2, <1>3, <2>1 DEF BufferMultiPacket, FitInv
  <2>2. CASE ~short
    <3>1. bufferedPacket' = None /\ sendBuffer' = Append(sendBuffer, pack)
      BY <1>3, <2>2, Zenon DEF BufferMultiPacket
    <3> QED BY <3>1 DEF FitInv
  <2> QED BY <2>1, <2>2
<1>4. CASE bufferedPacket # None
  <2>1. bufferedPacket \in Groups /\ bufferedPacket \in FitPackets
    BY <1>4 DEF FitInv, Groups
  <2>2. /\ group \in FitPackets /\ group.op = "multi"
        /\ group.size \in Int /\ group.body \in Seq(Pieces)
    BY <2>1 DEF Opened, Groups, FitPackets, Escape, MaxGroup
  <2>3. CASE ~short
    <3>1. bufferedPacket' = None /\ sendBuffer' = sendBuffer \o <<bufferedPacket, pack>>
      BY <1>4, <2>3, Zenon DEF BufferMultiPacket
    <3>2. <<bufferedPacket, pack>> \in Seq(FitPackets)
      BY <2>1
    <3> QED BY <3>1, <3>2 DEF FitInv
  <2>4. CASE short /\ group.size + pack.size > MaxGroup
    <3>1. bufferedPacket' = pack /\ sendBuffer' = Append(sendBuffer, group)
      BY <1>4, <2>4, Zenon DEF BufferMultiPacket
    <3> QED BY <1>2, <2>2, <2>4, <3>1 DEF FitInv
  <2>5. CASE short /\ ~(group.size + pack.size > MaxGroup)
    <3>1. bufferedPacket' = Added(group, pack) /\ sendBuffer' = sendBuffer
      BY <1>4, <2>5 DEF BufferMultiPacket
    <3>2. group.body \o pack.body \in Seq(Pieces)
      BY <1>1, <2>2
    <3>3. group.size + 1 + pack.size - 4 \in Int /\ group.size + 1 + pack.size - 4 <= MaxGroup
      BY <1>1, <2>2, <2>5 DEF MaxGroup
    <3>4. Added(group, pack) =
            [op |-> "multi", body |-> group.body \o pack.body,
             size |-> group.size + 1 + pack.size - 4]
      BY <2>2 DEF Added, FitPackets
    <3>5. Added(group, pack) \in Groups
      BY <3>2, <3>3, <3>4 DEF Groups, FitPackets, MaxGroup
    <3> QED BY <3>1, <3>5 DEF FitInv
  <2> QED BY <2>3, <2>4, <2>5
<1> QED BY <1>3, <1>4

LEMMA NextFits == FitInv /\ [Next]_vars => FitInv'
<1> SUFFICES ASSUME FitInv, [Next]_vars PROVE FitInv'
  OBVIOUS
<1> USE DEF FitInv
<1>1. ASSUME NEW n \in Sizes, SendPacket(n) PROVE FitInv'
  <2>1. n \in Int
    BY SizesAssumption
  <2>2. submitted' \in Seq(Int) /\ wire' = wire
    BY <1>1, <2>1 DEF SendPacket
  <2>3. Len(submitted) + 1 \in Int
    OBVIOUS
  <2>4. CASE n >= MaxUnfragmented
    <3> DEFINE flushed == IF bufferedPacket = None THEN <<>> ELSE <<bufferedPacket>>
    <3>1. flushed \in Seq(FitPackets)
      BY DEF Groups
    <3>2. Fragments(Len(submitted) + 1, n) \in Seq(FitPackets)
      BY <2>1, <2>3, <2>4, FragmentsFit
    <3>3. /\ bufferedPacket' = None
          /\ sendBuffer' = sendBuffer \o flushed \o Fragments(Len(submitted) + 1, n)
      BY <1>1, <2>4 DEF SendPacket
    <3>4. sendBuffer' \in Seq(FitPackets)
      BY <3>1, <3>2, <3>3
    <3> QED BY <2>2, <3>3, <3>4
  <2>5. CASE n < MaxUnfragmented
    <3>1. BufferMultiPacket(Single(Len(submitted) + 1, n))
      <4>1. ~(n >= MaxUnfragmented)
        BY <2>1, <2>5 DEF MaxUnfragmented
      <4> QED BY <1>1, <4>1, Zenon DEF SendPacket
    <3>2. /\ Single(Len(submitted) + 1, n) \in FitPackets
          /\ Single(Len(submitted) + 1, n).op = "data"
      BY <2>1, <2>3, <2>5, SingleFits
    <3> QED BY <2>2, <3>1, <3>2, BufferFits
  <2> QED BY <2>1, <2>4, <2>5 DEF MaxUnfragmented
<1>2. CASE Transmit
  <2>1. CASE sendBuffer # <<>>
    <3>1. Head(sendBuffer) \in FitPackets /\ Tail(sendBuffer) \in Seq(FitPackets)
      BY <2>1
    <3>2. /\ wire' = Append(wire, Head(sendBuffer)) /\ sendBuffer' = Tail(sendBuffer)
          /\ bufferedPacket' = bufferedPacket /\ submitted' = submitted
      BY <1>2, <2>1 DEF Transmit
    <3> QED BY <3>1, <3>2
  <2>2. CASE sendBuffer = <<>>
    <3>1. /\ wire' = Append(wire, bufferedPacket) /\ sendBuffer' = sendBuffer
          /\ bufferedPacket' = None /\ submitted' = submitted /\ bufferedPacket # None
      BY <1>2, <2>2 DEF Transmit
    <3>2. bufferedPacket \in FitPackets
      BY <3>1 DEF Groups
    <3> QED BY <3>1, <3>2
  <2> QED BY <2>1, <2>2
<1>3. ASSUME NEW seq \in 0..(Len(wire) - 1), Receive(seq) PROVE FitInv'
  BY <1>3 DEF Receive, sender
<1>4. CASE UNCHANGED vars
  BY <1>4 DEF vars, sender
<1> QED BY <1>1, <1>2, <1>3, <1>4 DEF Next

\* Whatever messages are handed over and however sending and receiving
\* interleave, no packet exceeds the announced size.
THEOREM PacketsFitHolds == Spec => []PacketsFit
<1>1. Init => FitInv
  BY DEF Init, FitInv
<1>2. FitInv => PacketsFit
  BY DEF FitInv, PacketsFit, FitPackets
<1> QED BY <1>1, <1>2, NextFits, PTL DEF Spec
--------------------------------------------------------------------------------
(* Connections: clients are accounted for. *)

\* disconnect, once it has found that it is the first.
Closing(t) == at[t] \in {"clear", "clearKept", "remove", "removeKept"}

Places ==
    {"idle", "message", "status", "disconnect", "kick", "send", "failed", "reset", "reschedule",
     "run", "clear", "clearKept", "remove", "removeKept"}

TypeInv ==
    /\ created \in 0..MaxClients /\ clients \in 0..created
    /\ references \in [Clients -> Nat]
    /\ disconnected \in [Clients -> BOOLEAN] /\ eventClient \in [Clients -> BOOLEAN]
    /\ scheduled \in [Clients -> BOOLEAN]
    /\ at \in [Actors -> Places] /\ handled \in [Actors -> 0..created]

\* A thread has a client exactly while it is busy, and a client that has not been made has
\* no event.
HandledInv ==
    /\ \A t \in Actors : at[t] = "idle" <=> handled[t] = NoClient
    /\ \A c \in Clients : scheduled[c] \/ eventClient[c] => c <= created

\* At most one thread is in close or removeConnection, and it is there for the client that
\* the map has; the event refers to the client until this thread clears it.
CloseInv ==
    /\ \A c \in 1..created : ~disconnected[c] => clients = c /\ eventClient[c]
    /\ \A t \in Actors : Closing(t) =>
          /\ disconnected[handled[t]] /\ clients = handled[t]
          /\ at[t] \in {"clear", "clearKept"} => eventClient[handled[t]]
    /\ \A t, u \in Actors : Closing(t) /\ Closing(u) => t = u

Accounted(c) ==
    references[c] = Cardinality(Holding(c)) + (IF clients = c THEN 1 ELSE 0)
                        + (IF eventClient[c] THEN 1 ELSE 0)

\* The inductive invariant.
IInv == FiniteActors /\ TypeInv /\ HandledInv /\ CloseInv /\ \A c \in Clients : Accounted(c)
--------------------------------------------------------------------------------
(* Who has a reference when a thread goes from one place to another. *)

LEMMA HoldingFinite ==
  ASSUME FiniteActors, NEW c
  PROVE  IsFiniteSet(Holding(c)) /\ Cardinality(Holding(c)) \in Nat
<1>1. IsFiniteSet({Receiver})
  BY FS_Singleton, Zenon
<1>2. IsFiniteSet({Receiver} \cup Programs)
  BY <1>1, FS_Union, Zenon DEF FiniteActors
<1>3. IsFiniteSet(Actors)
  BY <1>2, FS_Union, Zenon DEF FiniteActors, Actors
<1>4. Holding(c) \subseteq Actors
  BY Zenon DEF Holding
<1> QED
  BY <1>3, <1>4, FS_Subset, FS_CardinalityType, Zenon

\* A thread starts to handle a client, or the event's run refers to it.
LEMMA Takes ==
  ASSUME FiniteActors, TypeInv, NEW t \in Actors, NEW c \in Clients, NEW place, place # "run",
         Handle(t, c, place), handled[t] = NoClient \/ (handled[t] = c /\ at[t] = "run")
  PROVE  /\ Cardinality(Holding(c)') = Cardinality(Holding(c)) + 1
         /\ \A d \in Clients : d # c => Holding(d)' = Holding(d)
<1>1. /\ \A u \in Actors : at'[u] = IF u = t THEN place ELSE at[u]
      /\ \A u \in Actors : handled'[u] = IF u = t THEN c ELSE handled[u]
  BY Zenon DEF TypeInv, Handle
<1>2. \A d \in Clients : d # NoClient
  BY DEF Clients, NoClient, FiniteActors
<1>3. Holding(c)' = Holding(c) \cup {t} /\ t \notin Holding(c)
  BY <1>1, <1>2, Zenon DEF Holding
<1>4. \A d \in Clients : d # c => Holding(d)' = Holding(d)
  BY <1>1, <1>2, Zenon DEF Holding
<1>5. Cardinality(Holding(c) \cup {t}) = Cardinality(Holding(c)) + 1
  BY <1>3, HoldingFinite, FS_AddElement, Zenon
<1> QED
  BY <1>3, <1>4, <1>5, Zenon

\* A thread returns from the client it handled.
LEMMA Gives ==
  ASSUME FiniteActors, TypeInv, NEW t \in Actors, NEW c \in Clients, handled[t] = c, at[t] # "run",
         Return(t)
  PROVE  /\ Cardinality(Holding(c)') = Cardinality(Holding(c)) - 1
         /\ Cardinality(Holding(c)) \in Nat \ {0}
         /\ \A d \in Clients : d # c => Holding(d)' = Holding(d)
<1>1. /\ \A u \in Actors : at'[u] = IF u = t THEN "idle" ELSE at[u]
      /\ \A u \in Actors : handled'[u] = IF u = t THEN NoClient ELSE handled[u]
  BY Zenon DEF TypeInv, Return, Handle
<1>2. \A d \in Clients : d # NoClient
  BY DEF Clients, NoClient, FiniteActors
<1>3. Holding(c)' = Holding(c) \ {t} /\ t \in Holding(c)
  BY <1>1, <1>2, Zenon DEF Holding
<1>4. \A d \in Clients : d # c => Holding(d)' = Holding(d)
  BY <1>1, <1>2, Zenon DEF Holding
<1>5. Cardinality(Holding(c) \ {t}) = Cardinality(Holding(c)) - 1
  BY <1>3, HoldingFinite, FS_RemoveElement, Zenon
<1>6. Cardinality(Holding(c)) # 0
  BY <1>3, HoldingFinite, FS_EmptySet, Zenon
<1> QED
  BY <1>3, <1>4, <1>5, <1>6, HoldingFinite, Zenon

\* A thread goes on with its client.
LEMMA GoesOn ==
  ASSUME TypeInv, NEW t \in Actors, NEW place, place # "run", at[t] # "run", GoOn(t, place)
  PROVE  \A d \in Clients : Holding(d)' = Holding(d)
BY Zenon DEF TypeInv, GoOn, Holding

\* It is enough to account for the client that a step is about.
LEMMA Books ==
  ASSUME TypeInv, \A d \in Clients : Accounted(d), NEW c \in Clients, NEW n \in Nat,
         references' = [references EXCEPT ![c] = n], Accounted(c)',
         \A d \in Clients : d # c =>
            /\ Holding(d)' = Holding(d) /\ eventClient'[d] = eventClient[d]
            /\ clients' = d <=> clients = d
  PROVE  references' \in [Clients -> Nat] /\ \A d \in Clients : Accounted(d)'
<1>1. references' \in [Clients -> Nat]
  BY Zenon DEF TypeInv
<1>2. ASSUME NEW d \in Clients, d # c PROVE Accounted(d)'
  <2>1. references'[d] = references[d]
    BY <1>2, Zenon DEF TypeInv
  <2>2. Holding(d)' = Holding(d) /\ eventClient'[d] = eventClient[d] /\ (clients' = d <=> clients = d)
    BY <1>2, Zenon
  <2> QED
    BY <2>1, <2>2, Zenon DEF Accounted
<1> QED
  BY <1>1, <1>2, Zenon
--------------------------------------------------------------------------------
(* The actions, by what they do to the references. *)

\* The caller returns, and with it the reference.
LEMMA LetsGo ==
  ASSUME IInv, NEW t \in Actors, at[t] # "idle", at[t] # "run", ~Closing(t), Return(t),
         references' = [references EXCEPT ![handled[t]] = @ - 1],
         scheduled' \in [Clients -> BOOLEAN],
         \A d \in Clients : scheduled'[d] => scheduled[d] \/ d = handled[t],
         UNCHANGED <<created, clients, disconnected, eventClient>>
  PROVE  IInv'
<1>0. FiniteActors /\ TypeInv /\ HandledInv /\ CloseInv /\ \A c \in Clients : Accounted(c)
  BY Zenon DEF IInv
<1>1. PICK c \in Clients : c = handled[t] /\ c \in 1..created
  BY <1>0 DEF TypeInv, HandledInv, Clients, NoClient, FiniteActors
<1>2. /\ \A u \in Actors : at'[u] = IF u = t THEN "idle" ELSE at[u]
      /\ \A u \in Actors : handled'[u] = IF u = t THEN NoClient ELSE handled[u]
      /\ at' \in [Actors -> Places] /\ handled' \in [Actors -> 0..created]
  <2>1. 0 \in 0..created /\ "idle" \in Places
    BY <1>0 DEF TypeInv, FiniteActors, Places
  <2> QED
    BY <1>0, <2>1, Zenon DEF TypeInv, Return, Handle, NoClient
<1>3. /\ Cardinality(Holding(c)') = Cardinality(Holding(c)) - 1 /\ Cardinality(Holding(c)) \in Nat \ {0}
      /\ \A d \in Clients : d # c => Holding(d)' = Holding(d)
  BY <1>0, <1>1, Gives, Zenon
<1>4. references[c] - 1 \in Nat /\ Accounted(c)'
  <2>1. references'[c] = references[c] - 1 /\ eventClient' = eventClient /\ clients' = clients
    BY <1>0, <1>1, Zenon DEF TypeInv
  <2>2. references[c] = Cardinality(Holding(c)) + (IF clients = c THEN 1 ELSE 0) + (IF eventClient[c] THEN 1 ELSE 0)
    BY <1>0, Zenon DEF Accounted
  <2> QED
    BY <1>3, <2>1, <2>2 DEF Accounted
<1>5. references' \in [Clients -> Nat] /\ \A d \in Clients : Accounted(d)'
  <2>1. references' = [references EXCEPT ![c] = references[c] - 1]
    BY <1>1, Zenon
  <2> QED
    BY <1>0, <1>3, <1>4, <2>1, Books, Zenon
<1>6. TypeInv'
  BY <1>0, <1>2, <1>5, Zenon DEF TypeInv
<1>7. HandledInv'
  BY <1>0, <1>1, <1>2 DEF HandledInv
<1>8. CloseInv'
  BY <1>0, <1>2, ZenonT(30) DEF CloseInv, Closing
<1> QED
  BY <1>0, <1>5, <1>6, <1>7, <1>8, Zenon DEF IInv, FiniteActors

\* The thread goes on with its client and its reference.
LEMMA Proceeds ==
  ASSUME IInv, NEW t \in Actors, NEW place \in {"status", "disconnect", "failed", "reschedule"},
         at[t] \notin {"idle", "run"}, ~Closing(t), GoOn(t, place),
         UNCHANGED <<created, clients, references, disconnected, eventClient, scheduled>>
  PROVE  IInv'
<1>0. FiniteActors /\ TypeInv /\ HandledInv /\ CloseInv /\ \A c \in Clients : Accounted(c)
  BY Zenon DEF IInv
<1>1. /\ \A u \in Actors : at'[u] = IF u = t THEN place ELSE at[u]
      /\ at' \in [Actors -> Places] /\ handled' = handled
  <2>1. place \in Places
    BY Zenon DEF Places
  <2> QED
    BY <1>0, <2>1, Zenon DEF TypeInv, GoOn
<1>2. \A d \in Clients : Holding(d)' = Holding(d)
  BY <1>0, GoesOn, Zenon
<1>3. \A d \in Clients : Accounted(d)'
  BY <1>0, <1>2, Zenon DEF Accounted
<1>4. TypeInv'
  BY <1>0, <1>1, Zenon DEF TypeInv
<1>5. HandledInv'
  BY <1>0, <1>1, Zenon DEF HandledInv
<1>6. CloseInv'
  BY <1>0, <1>1, Zenon DEF CloseInv, Closing
<1> QED
  BY <1>0, <1>3, <1>4, <1>5, <1>6, Zenon DEF IInv, FiniteActors

\* A thread takes a reference to the client.
LEMMA Refers ==
  ASSUME IInv, NEW t \in Actors, NEW c \in Clients, c <= created,
         NEW place \in {"message", "disconnect", "kick", "send", "reset"},
         handled[t] = NoClient \/ (handled[t] = c /\ at[t] = "run"), Handle(t, c, place),
         references' = [references EXCEPT ![c] = @ + 1],
         UNCHANGED <<created, clients, disconnected, eventClient, scheduled>>
  PROVE  IInv'
<1>0. FiniteActors /\ TypeInv /\ HandledInv /\ CloseInv /\ \A d \in Clients : Accounted(d)
  BY Zenon DEF IInv
<1>1. c \in 1..created /\ c # NoClient
  BY <1>0 DEF TypeInv, Clients, NoClient, FiniteActors
<1>2. /\ \A u \in Actors : at'[u] = IF u = t THEN place ELSE at[u]
      /\ \A u \in Actors : handled'[u] = IF u = t THEN c ELSE handled[u]
      /\ at' \in [Actors -> Places] /\ handled' \in [Actors -> 0..created]
  <2>1. place \in Places /\ c \in 0..created
    BY <1>1 DEF Places
  <2> QED
    BY <1>0, <2>1, Zenon DEF TypeInv, Handle
<1>3. /\ Cardinality(Holding(c)') = Cardinality(Holding(c)) + 1
      /\ \A d \in Clients : d # c => Holding(d)' = Holding(d)
  BY <1>0, Takes, Zenon
<1>4. references[c] + 1 \in Nat /\ Accounted(c)'
  <2>1. references'[c] = references[c] + 1 /\ references[c] \in Nat /\ eventClient' = eventClient /\ clients' = clients
    BY <1>0, Zenon DEF TypeInv
  <2>2. references[c] = Cardinality(Holding(c)) + (IF clients = c THEN 1 ELSE 0) + (IF eventClient[c] THEN 1 ELSE 0)
    BY <1>0, Zenon DEF Accounted
  <2>3. Cardinality(Holding(c)) \in Nat
    BY <1>0, HoldingFinite, Zenon
  <2> QED
    BY <1>3, <2>1, <2>2, <2>3 DEF Accounted
<1>5. references' \in [Clients -> Nat] /\ \A d \in Clients : Accounted(d)'
  <2>1. references' = [references EXCEPT ![c] = references[c] + 1]
    BY Zenon
  <2> QED
    BY <1>0, <1>3, <1>4, <2>1, Books, Zenon
<1>6. TypeInv'
  BY <1>0, <1>2, <1>5, Zenon DEF TypeInv
<1>7. HandledInv'
  <2>1. place # "idle"
    BY Zenon
  <2> QED
    BY <1>0, <1>1, <1>2, <2>1 DEF HandledInv
<1>8. CloseInv'
  BY <1>0, <1>2, ZenonT(30) DEF CloseInv, Closing, HandledInv
<1> QED
  BY <1>0, <1>5, <1>6, <1>7, <1>8, Zenon DEF IInv, FiniteActors

\* What IInv speaks about does not change.
LEMMA Unchanged ==
  ASSUME IInv, UNCHANGED <<created, clients, references, disconnected, eventClient, scheduled, at, handled>>
  PROVE  IInv'
<1>1. \A d \in Clients : Holding(d)' = Holding(d)
  BY Zenon DEF Holding
<1>2. \A d \in Clients : Accounted(d)'
  BY <1>1, Zenon DEF IInv, Accounted
<1>3. (TypeInv /\ HandledInv /\ CloseInv)'
  BY Zenon DEF IInv, TypeInv, HandledInv, CloseInv, Closing
<1> QED
  BY <1>2, <1>3, Zenon DEF IInv, FiniteActors

\* A new client: its references are the map's, the event's and the thread's.
LEMMA CreateConnectionIInv ==
  ASSUME IInv, at[Receiver] = "idle", CreateConnection, UNCHANGED disconnected
  PROVE  IInv'
<1>0. FiniteActors /\ TypeInv /\ HandledInv /\ CloseInv /\ \A d \in Clients : Accounted(d)
  BY Zenon DEF IInv
<1>1. PICK c : c = created + 1
  BY Zenon
<1>2. /\ c \in Clients /\ c # NoClient /\ created' = c /\ clients' = c /\ clients = NoClient
      /\ created \in Nat /\ c \in 1..c /\ c \in 0..c /\ c \in 0..MaxClients /\ Receiver \in Actors
  BY <1>0, <1>1 DEF CreateConnection, TypeInv, Clients, NoClient, FiniteActors, Actors
<1>3. /\ references' = [references EXCEPT ![c] = 3]
      /\ eventClient' = [eventClient EXCEPT ![c] = TRUE]
      /\ scheduled' = [scheduled EXCEPT ![c] = TRUE]
      /\ Handle(Receiver, c, "message")
  BY <1>1, Zenon DEF CreateConnection
<1>4. handled[Receiver] = NoClient
  BY <1>0, <1>2, Zenon DEF HandledInv
<1>5. /\ Cardinality(Holding(c)') = Cardinality(Holding(c)) + 1
      /\ \A d \in Clients : d # c => Holding(d)' = Holding(d)
  BY <1>0, <1>2, <1>3, <1>4, Takes, Zenon
<1>6. Cardinality(Holding(c)) = 0
  <2>1. \A u \in Actors : handled[u] # c
    BY <1>0, <1>1, <1>2 DEF TypeInv
  <2>2. Holding(c) = {}
    BY <2>1, Zenon DEF Holding
  <2> QED
    BY <2>2, FS_EmptySet, Zenon
<1>7. references' \in [Clients -> Nat] /\ \A d \in Clients : Accounted(d)'
  <2>1. Accounted(c)'
    <3>1. references'[c] = 3 /\ eventClient'[c]
      BY <1>0, <1>2, <1>3, Zenon DEF TypeInv
    <3> QED
      BY <1>2, <1>5, <1>6, <3>1 DEF Accounted
  <2>2. \A d \in Clients : d # c => eventClient'[d] = eventClient[d] /\ (clients' = d <=> clients = d)
    BY <1>0, <1>2, <1>3 DEF TypeInv, Clients, NoClient, FiniteActors
  <2> QED
    BY <1>0, <1>2, <1>3, <1>5, <2>1, <2>2, Books, Zenon
<1>8. /\ \A u \in Actors : at'[u] = IF u = Receiver THEN "message" ELSE at[u]
      /\ \A u \in Actors : handled'[u] = IF u = Receiver THEN c ELSE handled[u]
      /\ at' \in [Actors -> Places] /\ handled' \in [Actors -> 0..c]
  <2>1. "message" \in Places /\ \A n \in 0..created : n \in 0..c
    BY <1>1, <1>2 DEF Places
  <2> QED
    BY <1>0, <1>2, <1>3, <2>1, Zenon DEF TypeInv, Handle
<1>9. TypeInv'
  BY <1>0, <1>2, <1>3, <1>7, <1>8, Zenon DEF TypeInv
<1>10. HandledInv'
  <2>1. \A d \in Clients : (scheduled'[d] <=> d = c \/ scheduled[d]) /\ (eventClient'[d] <=> d = c \/ eventClient[d])
    BY <1>0, <1>2, <1>3, Zenon DEF TypeInv
  <2>2. c <= c /\ \A d \in Clients : d <= created => d <= c
    BY <1>1, <1>2 DEF Clients, FiniteActors
  <2>3. \A d \in Clients : scheduled'[d] \/ eventClient'[d] => d <= created'
    BY <1>0, <1>2, <2>1, <2>2, Zenon DEF HandledInv
  <2>4. \A u \in Actors : at'[u] = "idle" <=> handled'[u] = NoClient
    BY <1>0, <1>2, <1>8, Zenon DEF HandledInv
  <2> QED
    BY <2>3, <2>4, Zenon DEF HandledInv
<1>11. CloseInv'
  <2>1. \A d \in 1..created : disconnected[d]
    BY <1>0, <1>2 DEF CloseInv, NoClient
  <2>2. \A u \in Actors : ~Closing(u)
    BY <1>0, <1>2, Zenon DEF CloseInv, HandledInv, Closing
  <2>3. \A d \in 1..c : d \in 1..created \/ d = c
    BY <1>1, <1>2
  <2>4. eventClient'[c]
    BY <1>0, <1>2, <1>3, Zenon DEF TypeInv
  <2>5. \A u \in Actors : ~Closing(u)'
    BY <2>2, <1>8, Zenon DEF Closing
  <2> QED
    BY <1>2, <2>1, <2>3, <2>4, <2>5, Zenon DEF CloseInv
<1> QED
  BY <1>0, <1>7, <1>9, <1>10, <1>11, Zenon DEF IInv, FiniteActors

\* The first caller of disconnect begins to close the client.
LEMMA ClosesIInv ==
  ASSUME IInv, NEW t \in Actors, at[t] \in {"disconnect", "failed"}, ~disconnected[handled[t]],
         disconnected' = [disconnected EXCEPT ![handled[t]] = TRUE],
         scheduled' = [scheduled EXCEPT ![handled[t]] = FALSE],
         NEW place \in {"clear", "clearKept"}, GoOn(t, place),
         UNCHANGED <<created, clients, references, eventClient>>
  PROVE  IInv'
<1>0. FiniteActors /\ TypeInv /\ HandledInv /\ CloseInv /\ \A d \in Clients : Accounted(d)
  BY Zenon DEF IInv
<1>1. PICK c \in Clients : c = handled[t] /\ c \in 1..created
  BY <1>0 DEF TypeInv, HandledInv, Clients, NoClient, FiniteActors
<1>2. /\ \A u \in Actors : at'[u] = IF u = t THEN place ELSE at[u]
      /\ at' \in [Actors -> Places] /\ handled' = handled
  <2>1. place \in Places
    BY Zenon DEF Places
  <2> QED
    BY <1>0, <2>1, Zenon DEF TypeInv, GoOn
<1>3. \A d \in Clients : Accounted(d)'
  <2>1. \A d \in Clients : Holding(d)' = Holding(d)
    BY <1>0, GoesOn, Zenon
  <2> QED
    BY <1>0, <2>1, Zenon DEF Accounted
<1>4. TypeInv'
  BY <1>0, <1>1, <1>2, Zenon DEF TypeInv
<1>5. HandledInv'
  BY <1>0, <1>1, <1>2, Zenon DEF HandledInv, TypeInv
<1>6. CloseInv'
  <2>1. clients = c /\ eventClient[c]
    BY <1>0, <1>1, Zenon DEF CloseInv
  <2>2. \A u \in Actors : ~Closing(u)
    BY <1>0, <1>1, <2>1, Zenon DEF CloseInv
  <2>3. \A u \in Actors : Closing(u)' => u = t
    BY <1>2, <2>2, Zenon DEF Closing
  <2>4. disconnected'[c] /\ \A d \in 1..created : ~disconnected'[d] => ~disconnected[d]
    BY <1>0, <1>1 DEF TypeInv, Clients, FiniteActors
  <2> QED
    BY <1>0, <1>1, <1>2, <2>1, <2>3, <2>4, Zenon DEF CloseInv
<1> QED
  BY <1>0, <1>3, <1>4, <1>5, <1>6, Zenon DEF IInv, FiniteActors

\* close takes the reference from the event.
LEMMA ClearClientIInv ==
  ASSUME IInv, NEW t \in Actors, ClearClient(t)
  PROVE  IInv'
<1>0. FiniteActors /\ TypeInv /\ HandledInv /\ CloseInv /\ \A d \in Clients : Accounted(d)
  BY Zenon DEF IInv
<1>1. PICK c \in Clients : c = handled[t] /\ c \in 1..created
  BY <1>0 DEF TypeInv, HandledInv, Clients, NoClient, FiniteActors, ClearClient
<1>2. PICK place \in {"remove", "removeKept"} : GoOn(t, place)
  BY Zenon DEF ClearClient
<1>3. /\ at[t] \in {"clear", "clearKept"} /\ eventClient' = [eventClient EXCEPT ![c] = FALSE]
      /\ references' = [references EXCEPT ![c] = references[c] - 1]
      /\ scheduled' = IF references[c] = 1 THEN [scheduled EXCEPT ![c] = FALSE] ELSE scheduled
      /\ UNCHANGED <<created, clients, disconnected>>
  BY <1>1, Zenon DEF ClearClient, Release, ReleaseWith
<1>4. Closing(t) /\ clients = c /\ eventClient[c] /\ disconnected[c]
  BY <1>0, <1>1, <1>3, Zenon DEF Closing, CloseInv
<1>5. /\ \A u \in Actors : at'[u] = IF u = t THEN place ELSE at[u]
      /\ at' \in [Actors -> Places] /\ handled' = handled
  <2>1. place \in Places
    BY Zenon DEF Places
  <2> QED
    BY <1>0, <1>2, <2>1, Zenon DEF TypeInv, GoOn
<1>6. \A d \in Clients : Holding(d)' = Holding(d)
  BY <1>0, <1>2, <1>3, GoesOn, Zenon
<1>7. \A d \in Clients : eventClient'[d] = (d # c /\ eventClient[d])
  BY <1>0, <1>3, Zenon DEF TypeInv
<1>8. references' \in [Clients -> Nat] /\ \A d \in Clients : Accounted(d)'
  <2>1. references[c] = Cardinality(Holding(c)) + 1 + 1 /\ Cardinality(Holding(c)) \in Nat
    BY <1>0, <1>4, HoldingFinite, Zenon DEF Accounted
  <2>2. references'[c] = references[c] - 1
    BY <1>0, <1>3, Zenon DEF TypeInv
  <2>3. references[c] - 1 \in Nat /\ Accounted(c)'
    <3>1. ~eventClient'[c] /\ clients' = c /\ Cardinality(Holding(c)') = Cardinality(Holding(c))
      BY <1>3, <1>4, <1>6, <1>7, Zenon
    <3> QED
      BY <2>1, <2>2, <3>1 DEF Accounted
  <2>4. \A d \in Clients : d # c => eventClient'[d] = eventClient[d] /\ clients' = clients
    BY <1>0, <1>3, Zenon DEF TypeInv
  <2> QED
    BY <1>0, <1>3, <1>6, <2>3, <2>4, Books, Zenon
<1>9. TypeInv'
  BY <1>0, <1>3, <1>5, <1>7, <1>8, Zenon DEF TypeInv
<1>10. HandledInv'
  BY <1>0, <1>3, <1>5, <1>7, Zenon DEF HandledInv, TypeInv
<1>11. CloseInv'
  <2>1. \A u \in Actors : Closing(u)' => u = t
    BY <1>0, <1>4, <1>5, Zenon DEF Closing, CloseInv
  <2>2. \A d \in 1..created : ~disconnected[d] => d # c /\ d \in Clients
    BY <1>0, <1>4 DEF Clients, TypeInv, FiniteActors
  <2>3. at'[t] \notin {"clear", "clearKept"}
    BY <1>5, Zenon
  <2> QED
    BY <1>0, <1>1, <1>3, <1>4, <1>5, <1>7, <2>1, <2>2, <2>3, ZenonT(30) DEF CloseInv
<1> QED
  BY <1>0, <1>8, <1>9, <1>10, <1>11, Zenon DEF IInv, FiniteActors

\* removeConnection takes out this client and no other; its reference and the caller's go.
LEMMA RemoveConnectionIInv ==
  ASSUME IInv, NEW t \in Actors, RemoveConnection(t)
  PROVE  IInv'
<1>0. FiniteActors /\ TypeInv /\ HandledInv /\ CloseInv /\ \A d \in Clients : Accounted(d)
  BY Zenon DEF IInv
<1>1. PICK c \in Clients : c = handled[t] /\ c \in 1..created
  BY <1>0 DEF TypeInv, HandledInv, Clients, NoClient, FiniteActors, RemoveConnection
<1>2. at[t] \in {"remove", "removeKept"} /\ Closing(t) /\ clients = c /\ disconnected[c] /\ c # NoClient
  BY <1>0, <1>1 DEF Closing, CloseInv, RemoveConnection, Clients, NoClient
<1>3. /\ clients' = NoClient /\ Return(t)
      /\ references' = [references EXCEPT ![c] = references[c] - 2]
      /\ scheduled' = IF references[c] = 2 THEN [scheduled EXCEPT ![c] = FALSE] ELSE scheduled
      /\ UNCHANGED <<created, disconnected, eventClient>>
  BY <1>1, <1>2, Zenon DEF RemoveConnection, Release, ReleaseWith
<1>4. /\ \A u \in Actors : at'[u] = IF u = t THEN "idle" ELSE at[u]
      /\ \A u \in Actors : handled'[u] = IF u = t THEN NoClient ELSE handled[u]
      /\ at' \in [Actors -> Places] /\ handled' \in [Actors -> 0..created]
  <2>1. 0 \in 0..created /\ "idle" \in Places
    BY <1>0 DEF TypeInv, FiniteActors, Places
  <2> QED
    BY <1>0, <1>3, <2>1, Zenon DEF TypeInv, Return, Handle, NoClient
<1>5. /\ Cardinality(Holding(c)') = Cardinality(Holding(c)) - 1 /\ Cardinality(Holding(c)) \in Nat \ {0}
      /\ \A d \in Clients : d # c => Holding(d)' = Holding(d)
  BY <1>0, <1>1, <1>2, <1>3, Gives, Zenon
<1>6. references' \in [Clients -> Nat] /\ \A d \in Clients : Accounted(d)'
  <2>1. references[c] = Cardinality(Holding(c)) + 1 + (IF eventClient[c] THEN 1 ELSE 0)
    BY <1>0, <1>2, Zenon DEF Accounted
  <2>2. references'[c] = references[c] - 2
    BY <1>0, <1>3, Zenon DEF TypeInv
  <2>3. references[c] - 2 \in Nat /\ Accounted(c)'
    BY <1>2, <1>3, <1>5, <2>1, <2>2 DEF Accounted
  <2>4. \A d \in Clients : d # c => (clients' = d <=> clients = d)
    BY <1>2, <1>3 DEF Clients, NoClient
  <2> QED
    BY <1>0, <1>3, <1>5, <2>3, <2>4, Books, Zenon
<1>7. TypeInv'
  <2>1. clients' \in 0..created
    BY <1>0, <1>3 DEF TypeInv, NoClient, FiniteActors
  <2> QED
    BY <1>0, <1>3, <1>4, <1>6, <2>1, Zenon DEF TypeInv
<1>8. HandledInv'
  BY <1>0, <1>3, <1>4, Zenon DEF HandledInv, TypeInv
<1>9. CloseInv'
  <2>1. \A u \in Actors : ~Closing(u)'
    BY <1>0, <1>2, <1>4, Zenon DEF Closing, CloseInv
  <2>2. \A d \in 1..created : disconnected[d]
    BY <1>0, <1>2, Zenon DEF CloseInv
  <2> QED
    BY <1>3, <2>1, <2>2, Zenon DEF CloseInv
<1> QED
  BY <1>0, <1>6, <1>7, <1>8, <1>9, Zenon DEF IInv, FiniteActors

\* A scheduler that takes the event has no reference to the client yet.
LEMMA FireIInv ==
  ASSUME IInv, NEW s \in Timers, NEW c \in Clients, Fire(s, c)
  PROVE  IInv'
<1>0. FiniteActors /\ TypeInv /\ HandledInv /\ CloseInv /\ \A d \in Clients : Accounted(d)
  BY Zenon DEF IInv
<1>1. s \in Actors /\ c \in 1..created /\ c # NoClient
  BY <1>0 DEF Actors, Fire, HandledInv, Clients, NoClient, TypeInv, FiniteActors
<1>2. /\ at[s] = "idle" /\ handled[s] = NoClient
      /\ scheduled' = [scheduled EXCEPT ![c] = FALSE]
      /\ UNCHANGED <<created, clients, references, disconnected, eventClient>>
  BY <1>0, <1>1, Zenon DEF Fire, HandledInv
<1>3. /\ \A u \in Actors : at'[u] = IF u = s THEN "run" ELSE at[u]
      /\ \A u \in Actors : handled'[u] = IF u = s THEN c ELSE handled[u]
      /\ at' \in [Actors -> Places] /\ handled' \in [Actors -> 0..created]
  <2>1. c \in 0..created /\ "run" \in Places
    BY <1>1 DEF Places
  <2> QED
    BY <1>0, <1>1, <2>1, Zenon DEF TypeInv, Fire, Handle
<1>4. \A d \in Clients : Accounted(d)'
  <2>1. \A d \in Clients : d # NoClient
    BY DEF Clients, NoClient
  <2>2. \A d \in Clients : Holding(d)' = Holding(d)
    BY <1>2, <1>3, <2>1, Zenon DEF Holding
  <2> QED
    BY <1>0, <1>2, <2>2, Zenon DEF Accounted
<1>5. TypeInv'
  BY <1>0, <1>2, <1>3, Zenon DEF TypeInv
<1>6. HandledInv'
  BY <1>0, <1>1, <1>2, <1>3, Zenon DEF HandledInv, TypeInv
<1>7. CloseInv'
  BY <1>0, <1>2, <1>3 DEF CloseInv, Closing
<1> QED
  BY <1>0, <1>4, <1>5, <1>6, <1>7, Zenon DEF IInv, FiniteActors

\* The event's run refers to the client if the event still does.
LEMMA RunEventIInv ==
  ASSUME IInv, NEW s \in Timers, RunEvent(s)
  PROVE  IInv'
<1>0. FiniteActors /\ TypeInv /\ HandledInv /\ CloseInv /\ \A d \in Clients : Accounted(d)
  BY Zenon DEF IInv
<1>1. s \in Actors
  BY Zenon DEF Actors
<1>2. PICK c \in Clients : c = handled[s] /\ c \in 1..created
  BY <1>0, <1>1 DEF TypeInv, HandledInv, Clients, NoClient, FiniteActors, RunEvent
<1>3. at[s] = "run" /\ UNCHANGED <<created, clients, disconnected, eventClient, scheduled>>
  BY Zenon DEF RunEvent
<1>4. CASE eventClient[c]
  <2>1. Handle(s, c, "disconnect") /\ references' = [references EXCEPT ![c] = @ + 1]
    <3>1. GoOn(s, "disconnect") /\ references' = [references EXCEPT ![c] = @ + 1]
      BY <1>2, <1>4, Zenon DEF RunEvent
    <3>2. [handled EXCEPT ![s] = c] = handled
      BY <1>0, <1>1, <1>2, Zenon DEF TypeInv
    <3> QED
      BY <3>1, <3>2, Zenon DEF GoOn, Handle
  <2>2. c <= created
    BY <1>2 DEF Clients
  <2> QED
    BY <1>1, <1>2, <1>3, <2>1, <2>2, Refers, Zenon
<1>5. CASE ~eventClient[c]
  <2>1. Return(s) /\ UNCHANGED references
    BY <1>2, <1>5, Zenon DEF RunEvent
  <2>2. /\ \A u \in Actors : at'[u] = IF u = s THEN "idle" ELSE at[u]
        /\ \A u \in Actors : handled'[u] = IF u = s THEN NoClient ELSE handled[u]
        /\ at' \in [Actors -> Places] /\ handled' \in [Actors -> 0..created]
    <3>1. 0 \in 0..created /\ "idle" \in Places
      BY <1>0 DEF TypeInv, FiniteActors, Places
    <3> QED
      BY <1>0, <1>1, <2>1, <3>1, Zenon DEF TypeInv, Return, Handle, NoClient
  <2>3. \A d \in Clients : Accounted(d)'
    <3>1. \A d \in Clients : d # NoClient
      BY DEF Clients, NoClient
    <3>2. \A d \in Clients : Holding(d)' = Holding(d)
      BY <1>3, <2>2, <3>1, Zenon DEF Holding
    <3> QED
      BY <1>0, <1>3, <2>1, <3>2, Zenon DEF Accounted
  <2>4. TypeInv'
    BY <1>0, <1>3, <2>1, <2>2, Zenon DEF TypeInv
  <2>5. HandledInv'
    BY <1>0, <1>3, <2>2, Zenon DEF HandledInv
  <2>6. CloseInv'
    BY <1>0, <1>3, <2>2, ZenonT(30) DEF CloseInv, Closing
  <2> QED
    BY <1>0, <2>3, <2>4, <2>5, <2>6, Zenon DEF IInv, FiniteActors
<1> QED
  BY <1>4, <1>5, Zenon
--------------------------------------------------------------------------------
\* The service before its first message.
LEMMA InitIInv == FiniteActors /\ ConnectionsInit => IInv
<1> SUFFICES ASSUME FiniteActors, ConnectionsInit PROVE IInv
  BY Zenon
<1>1. TypeInv
  <2>1. "idle" \in Places
    BY Zenon DEF Places
  <2> QED
    BY <2>1 DEF FiniteActors, ConnectionsInit, TypeInv, NoClient
<1>2. HandledInv /\ CloseInv
  BY DEF FiniteActors, ConnectionsInit, HandledInv, CloseInv, Closing
<1>3. ASSUME NEW c \in Clients PROVE Accounted(c)
  <2>1. c # NoClient
    BY DEF Clients, NoClient
  <2>2. Holding(c) = {}
    BY <2>1, Zenon DEF Holding, ConnectionsInit
  <2>3. Cardinality(Holding(c)) = 0 /\ references[c] = 0 /\ clients # c /\ ~eventClient[c]
    BY <2>1, <2>2, FS_EmptySet, Zenon DEF ConnectionsInit
  <2> QED
    BY <2>3 DEF Accounted
<1> QED
  BY <1>1, <1>2, <1>3, Zenon DEF IInv

\* The thread of the service: a new message.
LEMMA ReceiveMessageIInv ==
  ASSUME IInv, ReceiveMessage
  PROVE  IInv'
<1>0. FiniteActors /\ TypeInv /\ HandledInv /\ Receiver \in Actors /\ at[Receiver] = "idle" /\ UNCHANGED disconnected
  BY Zenon DEF IInv, Actors, ReceiveMessage
<1>1. CASE clients # NoClient /\ Handle(Receiver, clients, "message")
             /\ references' = [references EXCEPT ![clients] = @ + 1]
             /\ UNCHANGED <<created, clients, eventClient, scheduled>>
  <2>1. clients \in Clients /\ clients <= created
    BY <1>0, <1>1 DEF FiniteActors, TypeInv, Clients, NoClient
  <2>2. handled[Receiver] = NoClient
    BY <1>0, Zenon DEF HandledInv
  <2> QED
    BY <1>0, <1>1, <2>1, <2>2, Refers, Zenon
<1>2. CASE CreateConnection
  BY <1>0, <1>2, CreateConnectionIInv, Zenon
<1>3. CASE UNCHANGED <<created, clients, references, eventClient, scheduled, at, handled>>
  BY <1>0, <1>3, Unchanged, Zenon
<1> QED
  BY <1>1, <1>2, <1>3, Zenon DEF ReceiveMessage

\* A client is released once by a thread that returns; scheduled' as ReleaseWith makes it.
LEMMA Released ==
  ASSUME IInv, NEW t \in Actors, at[t] \notin {"idle", "run"}, ~Closing(t), Return(t),
         NEW f \in [Clients -> BOOLEAN], ReleaseWith(handled[t], 1, f),
         \A d \in Clients : f[d] => scheduled[d] \/ d = handled[t],
         UNCHANGED <<created, clients, disconnected, eventClient>>
  PROVE  IInv'
<1>1. /\ references' = [references EXCEPT ![handled[t]] = @ - 1]
      /\ scheduled' \in [Clients -> BOOLEAN] /\ \A d \in Clients : scheduled'[d] => f[d]
  BY Zenon DEF ReleaseWith
<1> QED
  BY <1>1, LetsGo, Zenon

\* The thread of the service: the message is handled.
LEMMA ReceiverIInv ==
  ASSUME IInv, HandleMessage \/ HandleNetStatusRequest
  PROVE  IInv'
<1>0. TypeInv /\ Receiver \in Actors /\ scheduled \in [Clients -> BOOLEAN]
  BY Zenon DEF IInv, Actors, TypeInv
<1>1. CASE HandleMessage
  <2>1. at[Receiver] = "message" /\ UNCHANGED <<created, clients, disconnected, eventClient>>
    BY <1>1, Zenon DEF HandleMessage
  <2>2. CASE Return(Receiver) /\ Release(handled[Receiver], 1)
    BY <1>0, <2>1, <2>2, Released, Zenon DEF Closing, Release
  <2>3. CASE GoOn(Receiver, "status") /\ UNCHANGED <<references, scheduled>>
    BY <1>0, <2>1, <2>3, Proceeds, Zenon DEF Closing
  <2>4. CASE GoOn(Receiver, "disconnect") /\ UNCHANGED <<references, scheduled>>
    BY <1>0, <2>1, <2>4, Proceeds, Zenon DEF Closing
  <2> QED
    BY <1>1, <2>2, <2>3, <2>4, Zenon DEF HandleMessage
<1>2. CASE HandleNetStatusRequest
  <2>1. PICK c : c = handled[Receiver]
    BY Zenon
  <2>2. PICK f : f = [scheduled EXCEPT ![c] = @ \/ IsAvailable(c)]
    BY Zenon
  <2>3. /\ at[Receiver] = "status" /\ Return(Receiver) /\ ReleaseWith(c, 1, f)
        /\ UNCHANGED <<created, clients, disconnected, eventClient>>
    BY <1>2, <2>1, <2>2, Zenon DEF HandleNetStatusRequest
  <2>4. f \in [Clients -> BOOLEAN] /\ \A d \in Clients : f[d] => scheduled[d] \/ d = c
    BY <1>0, <2>2, Zenon
  <2> QED
    BY <1>0, <2>1, <2>3, <2>4, Released, Zenon DEF Closing
<1> QED
  BY <1>1, <1>2, Zenon

\* The threads of the program, disconnect apart.
LEMMA ProgramIInv ==
  ASSUME IInv, NEW p \in Programs,
         Use(p) \/ Kick(p) \/ Send(p) \/ ResetNetStatus(p) \/ RescheduleNetStatus(p)
  PROVE  IInv'
<1>0. FiniteActors /\ TypeInv /\ HandledInv /\ p \in Actors /\ scheduled \in [Clients -> BOOLEAN]
  BY Zenon DEF IInv, Actors, TypeInv
<1>1. CASE Use(p)
  <2>1. clients \in Clients /\ clients <= created
    BY <1>0, <1>1 DEF FiniteActors, TypeInv, Clients, NoClient, Use
  <2>2. handled[p] = NoClient
    BY <1>0, <1>1, Zenon DEF HandledInv, Use
  <2>3. PICK place \in {"disconnect", "kick", "send", "reset"} : Handle(p, clients, place)
    BY <1>1, Zenon DEF Use
  <2>4. /\ references' = [references EXCEPT ![clients] = @ + 1]
        /\ UNCHANGED <<created, clients, disconnected, eventClient, scheduled>>
    BY <1>1, Zenon DEF Use
  <2> QED
    BY <1>0, <2>1, <2>2, <2>3, <2>4, Refers, Zenon
<1>2. CASE Kick(p)
  BY <1>0, <1>2, Proceeds, Zenon DEF Closing, Kick
<1>3. CASE Send(p)
  <2>1. at[p] = "send" /\ UNCHANGED <<created, clients, disconnected, eventClient>>
    BY <1>3, Zenon DEF Send
  <2>2. CASE Return(p) /\ Release(handled[p], 1)
    BY <1>0, <2>1, <2>2, Released, Zenon DEF Closing, Release
  <2>3. CASE GoOn(p, "failed") /\ UNCHANGED <<references, scheduled>>
    BY <1>0, <2>1, <2>3, Proceeds, Zenon DEF Closing
  <2> QED
    BY <1>3, <2>2, <2>3, Zenon DEF Send
<1>4. CASE ResetNetStatus(p)
  <2>1. at[p] = "reset" /\ UNCHANGED <<created, clients, disconnected, eventClient>>
    BY <1>4, Zenon DEF ResetNetStatus
  <2>2. CASE Return(p) /\ Release(handled[p], 1)
    BY <1>0, <2>1, <2>2, Released, Zenon DEF Closing, Release
  <2>3. CASE GoOn(p, "reschedule") /\ UNCHANGED <<references, scheduled>>
    BY <1>0, <2>1, <2>3, Proceeds, Zenon DEF Closing
  <2> QED
    BY <1>4, <2>2, <2>3, Zenon DEF ResetNetStatus
<1>5. CASE RescheduleNetStatus(p)
  <2>1. PICK c : c = handled[p]
    BY Zenon
  <2>2. PICK f : f = [scheduled EXCEPT ![c] = TRUE]
    BY Zenon
  <2>3. /\ at[p] = "reschedule" /\ Return(p) /\ ReleaseWith(c, 1, f)
        /\ UNCHANGED <<created, clients, disconnected, eventClient>>
    BY <1>5, <2>1, <2>2, Zenon DEF RescheduleNetStatus
  <2>4. f \in [Clients -> BOOLEAN] /\ \A d \in Clients : f[d] => scheduled[d] \/ d = c
    BY <1>0, <2>2, Zenon
  <2> QED
    BY <1>0, <2>1, <2>3, <2>4, Released, Zenon DEF Closing
<1> QED
  BY <1>1, <1>2, <1>3, <1>4, <1>5, Zenon

\* disconnect: the second caller returns at once.
LEMMA DisconnectIInv ==
  ASSUME IInv, NEW t \in Actors, DisconnectStep(t)
  PROVE  IInv'
<1>0. scheduled \in [Clients -> BOOLEAN]
  BY Zenon DEF IInv, TypeInv
<1>1. CASE Disconnect(t)
  <2>1. at[t] \in {"disconnect", "failed"} /\ UNCHANGED <<created, clients, eventClient>>
    BY <1>1, Zenon DEF Disconnect
  <2>2. CASE disconnected[handled[t]]
    <3>1. Return(t) /\ Release(handled[t], 1) /\ UNCHANGED disconnected
      BY <1>1, <2>2, Zenon DEF Disconnect
    <3> QED
      BY <1>0, <2>1, <3>1, Released, Zenon DEF Closing, Release
  <2>3. CASE ~disconnected[handled[t]]
    <3>1. /\ disconnected' = [disconnected EXCEPT ![handled[t]] = TRUE]
          /\ scheduled' = [scheduled EXCEPT ![handled[t]] = FALSE] /\ UNCHANGED references
      BY <1>1, <2>3, Zenon DEF Disconnect
    <3>2. \E place \in {"clear", "clearKept"} : GoOn(t, place)
      BY <1>1, <2>3, Zenon DEF Disconnect
    <3> QED
      BY <2>1, <2>3, <3>1, <3>2, ClosesIInv, Zenon
  <2> QED
    BY <2>2, <2>3, Zenon
<1> QED
  BY <1>1, ClearClientIInv, RemoveConnectionIInv, Zenon DEF DisconnectStep

\* The invariant is inductive.
LEMMA NextIInv == IInv /\ [ConnectionsNext]_connectionVars => IInv'
<1> SUFFICES ASSUME IInv, [ConnectionsNext]_connectionVars PROVE IInv'
  BY Zenon
<1>1. ASSUME UNCHANGED connectionVars PROVE IInv'
  BY <1>1, Unchanged, Zenon DEF connectionVars
<1>2. ASSUME ReceiverStep PROVE IInv'
  BY <1>2, ReceiverIInv, DisconnectIInv, Zenon DEF ReceiverStep, Actors
<1>3. ASSUME NEW p \in Programs, Use(p) \/ ProgramStep(p) PROVE IInv'
  BY <1>3, ProgramIInv, DisconnectIInv, Zenon DEF ProgramStep, Actors
<1>4. ASSUME NEW s \in Timers, TimerStep(s) PROVE IInv'
  BY <1>4, RunEventIInv, DisconnectIInv, Zenon DEF TimerStep, Actors
<1>5. ASSUME NEW c \in Clients, FallSilent(c) PROVE IInv'
  BY <1>5, Unchanged, Zenon DEF FallSilent
<1> QED
  BY <1>1, <1>2, <1>3, <1>4, <1>5, ReceiveMessageIInv, FireIInv, Zenon DEF ConnectionsNext

\* The inductive invariant holds throughout.
THEOREM SpecIInv == ConnectionsSpec => []IInv
BY ConnectionsAssumption, InitIInv, NextIInv, PTL DEF ConnectionsSpec

\* However messages, disconnects of any number of threads and the net status event
\* interleave, the reference count of a client is the number of those that refer to it, the
\* map has every client that has not been disconnected, and a late removeConnection never
\* takes its successor for the address out of it.
THEOREM ClientsAccountedHolds == ConnectionsSpec => []ClientsAccounted
<1>1. IInv => ClientsAccounted
  BY DEF IInv, TypeInv, CloseInv, Accounted, ClientsAccounted, Clients, FiniteActors
<1> QED
  BY <1>1, SpecIInv, PTL
================================================================================
