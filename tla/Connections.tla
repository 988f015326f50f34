------------------------------ MODULE Connections ------------------------------
(***************************************************************************)
(* The clients of a DatagramServiceThread: receiveMessage, which makes a   *)
(* BaseClientProxy for an address it does not know, the map of clients,    *)
(* disconnect with close and removeConnection, and the net status event    *)
(* that disconnects a client that has been silent for too long.            *)
(*                                                                         *)
(* One address is modelled, for which clients come and go.  The service's  *)
(* thread runs its message tasks itself (executeInThread); disconnect is   *)
(* called by it, by threads of the program and by the schedulers that run  *)
(* the event.  What is done under the lock of the service is one step,     *)
(* since nobody takes another lock under it.  The buffers that close       *)
(* empties are those of BaseClient; the other events have weak references. *)
(*                                                                         *)
(* The handler is the program's: createConnection may refuse, and after    *)
(* deleteConnection nobody looks for the client any more.  stop, which     *)
(* releases the clients without the lock of the service, is not modelled.  *)
(***************************************************************************)
EXTENDS Naturals, FiniteSets

CONSTANTS
    Receiver,       \* the thread of the service
    Programs,       \* threads of the program
    Timers,         \* schedulers
    MaxClients      \* bound: the clients that are made

Actors == {Receiver} \cup Programs \cup Timers
Clients == 1..MaxClients
NoClient == 0
Nobody == "nobody"

\* The threads of a process are finitely many.
FiniteActors == IsFiniteSet(Programs) /\ IsFiniteSet(Timers) /\ MaxClients \in Nat

ASSUME ConnectionsAssumption == FiniteActors

VARIABLES
    created,            \* clients made so far
    clients,            \* ServiceClientMap: the client of the address
    references,         \* BaseClient: its reference count
    disconnected, errored,
    clientLock,         \* BaseClient is a Mutex, recursive
    eventLock,          \* netcheckupEvent: its lock
    eventClient,        \* netcheckupEvent: whether it refers to its client
    scheduled,          \* netcheckupEvent: in the queue of a scheduler
    at, handled,        \* where a thread is, and the client it handles
    quiet               \* nobody resets the net status of a client any more

connectionVars ==
    <<created, clients, references, disconnected, errored, clientLock, eventLock,
      eventClient, scheduled, at, handled, quiet>>

ConnectionsInit ==
    /\ created = 0 /\ clients = NoClient
    /\ references = [c \in Clients |-> 0]
    /\ disconnected = [c \in Clients |-> FALSE] /\ errored = [c \in Clients |-> FALSE]
    /\ clientLock = [c \in Clients |-> Nobody] /\ eventLock = [c \in Clients |-> Nobody]
    /\ eventClient = [c \in Clients |-> FALSE] /\ scheduled = [c \in Clients |-> FALSE]
    /\ at = [t \in Actors |-> "idle"] /\ handled = [t \in Actors |-> NoClient]
    /\ quiet = [c \in Clients |-> FALSE]

\* ServiceClient::isAvailable.
IsAvailable(c) == ~errored[c] /\ ~disconnected[c]

GoOn(t, place) == at' = [at EXCEPT ![t] = place] /\ UNCHANGED handled
Handle(t, c, place) == at' = [at EXCEPT ![t] = place] /\ handled' = [handled EXCEPT ![t] = c]
Return(t) == Handle(t, NoClient, "idle")

\* n references go, while the events are scheduled as sched says; with the last one the
\* destructor of the client cancels its event.
ReleaseWith(c, n, sched) ==
    /\ references' = [references EXCEPT ![c] = @ - n]
    /\ scheduled' = IF references[c] = n THEN [sched EXCEPT ![c] = FALSE] ELSE sched

Release(c, n) == ReleaseWith(c, n, scheduled)

\* The caller of disconnect has the client's lock already: send after a SocketException,
\* checkNetStatus.  disconnect then does not release it before it calls removeConnection.
Keeps(t) == t \in Timers \/ at[t] \in {"failed", "clearKept", "removeKept"}

--------------------------------------------------------------------------------
(* The thread of the service. *)

\* BaseClientProxy::init and ServiceClientMap::add.
CreateConnection ==
    LET c == created + 1
    IN  /\ clients = NoClient /\ created < MaxClients
        /\ created' = c /\ clients' = c
        /\ references' = [references EXCEPT ![c] = 3]
        /\ eventClient' = [eventClient EXCEPT ![c] = TRUE]
        /\ scheduled' = [scheduled EXCEPT ![c] = TRUE]
        /\ Handle(Receiver, c, "message")

\* receiveMessage up to the release of the service's lock.
ReceiveMessage ==
    /\ at[Receiver] = "idle"
    /\ \/ /\ clients # NoClient /\ Handle(Receiver, clients, "message")
          /\ references' = [references EXCEPT ![clients] = @ + 1]
          /\ UNCHANGED <<created, clients, eventClient, scheduled>>
       \/ CreateConnection
       \/ /\ clients = NoClient       \* the handler refuses
          /\ UNCHANGED <<created, clients, references, eventClient, scheduled, at, handled>>
    /\ UNCHANGED <<disconnected, errored, clientLock, eventLock, quiet>>

\* receiveMessage: what the message is, if the client is still available.
HandleMessage ==
    LET c == handled[Receiver]
    IN  /\ at[Receiver] = "message"
        /\ \/ /\ IsAvailable(c)
              /\ \/ ~quiet[c] /\ GoOn(Receiver, "status")     \* doNetStatusResponse
                 \/ GoOn(Receiver, "disconnect")              \* doDisconnect
              /\ UNCHANGED <<references, scheduled>>
           \/ Return(Receiver) /\ Release(c, 1)               \* another one
        /\ UNCHANGED <<created, clients, disconnected, errored, clientLock, eventLock,
                       eventClient, quiet>>

\* handleNetStatusRequest: the event is scheduled anew, under the client's lock.
HandleNetStatusRequest ==
    LET c == handled[Receiver]
    IN  /\ at[Receiver] = "status" /\ clientLock[c] = Nobody
        /\ ReleaseWith(c, 1, [scheduled EXCEPT ![c] = @ \/ IsAvailable(c)])
        /\ Return(Receiver)
        /\ UNCHANGED <<created, clients, disconnected, errored, clientLock, eventLock,
                       eventClient, quiet>>

--------------------------------------------------------------------------------
(* Threads of the program. *)

\* A thread takes the client that the handler knows, to disconnect it, to send to it or to
\* reset its net status.
Use(p) ==
    /\ at[p] = "idle" /\ clients # NoClient
    /\ \E place \in {"disconnect", "kick", "send", "reset"} :
          Handle(p, clients, place) /\ (place = "reset" => ~quiet[clients])
    /\ references' = [references EXCEPT ![clients] = @ + 1]
    /\ UNCHANGED <<created, clients, disconnected, errored, clientLock, eventLock,
                   eventClient, scheduled, quiet>>

\* disconnect(msg): setError, without the lock.
Kick(p) ==
    /\ at[p] = "kick"
    /\ errored' = [errored EXCEPT ![handled[p]] = TRUE] /\ GoOn(p, "disconnect")
    /\ UNCHANGED <<created, clients, references, disconnected, clientLock, eventLock,
                   eventClient, scheduled, quiet>>

\* send: the packet goes out or, after a SocketException, the client is disconnected by a
\* thread that has its lock.
Send(p) ==
    LET c == handled[p]
    IN  /\ at[p] = "send" /\ clientLock[c] = Nobody
        /\ \/ /\ IsAvailable(c) /\ GoOn(p, "failed")
              /\ clientLock' = [clientLock EXCEPT ![c] = p]
              /\ errored' = [errored EXCEPT ![c] = TRUE] /\ UNCHANGED <<references, scheduled>>
           \/ Return(p) /\ Release(c, 1) /\ UNCHANGED <<clientLock, errored>>
        /\ UNCHANGED <<created, clients, disconnected, eventLock, eventClient, quiet>>

\* resetNetStatusTimeout: isAvailable is asked without the lock.
ResetNetStatus(p) ==
    LET c == handled[p]
    IN  /\ at[p] = "reset"
        /\ IF IsAvailable(c) THEN GoOn(p, "reschedule") /\ UNCHANGED <<references, scheduled>>
                             ELSE Return(p) /\ Release(c, 1)
        /\ UNCHANGED <<created, clients, disconnected, errored, clientLock, eventLock,
                       eventClient, quiet>>

\* resetNetStatusTimeout under the lock: the client may have been closed since.
RescheduleNetStatus(p) ==
    LET c == handled[p]
    IN  /\ at[p] = "reschedule" /\ clientLock[c] = Nobody
        /\ Return(p) /\ ReleaseWith(c, 1, [scheduled EXCEPT ![c] = TRUE])
        /\ UNCHANGED <<created, clients, disconnected, errored, clientLock, eventLock,
                       eventClient, quiet>>

--------------------------------------------------------------------------------
(* disconnect. *)

\* Mutant: a client that is disconnected already is not left alone.
DisconnectAgain(t) ==
    LET c == handled[t]
    IN  /\ at[t] \in {"disconnect", "failed"} /\ clientLock[c] \in {Nobody, t}
        /\ clientLock' = [clientLock EXCEPT ![c] = t]
        /\ disconnected' = [disconnected EXCEPT ![c] = TRUE]
        /\ scheduled' = [scheduled EXCEPT ![c] = FALSE]
        /\ GoOn(t, IF Keeps(t) THEN "clearKept" ELSE "clear")
        /\ UNCHANGED <<references, eventLock>>
        /\ errored' = IF t \in Timers THEN [errored EXCEPT ![c] = TRUE] ELSE errored
        /\ UNCHANGED <<created, clients, eventClient, quiet>>

\* disconnect from its Locker to close, up to the cancel of the event.  The second caller
\* returns at once.  checkNetStatus sets the error under the lock.
Disconnect(t) ==
    LET c == handled[t]
    IN  /\ at[t] \in {"disconnect", "failed"} /\ clientLock[c] \in {Nobody, t}
        /\ IF disconnected[c]
             THEN /\ clientLock' = [clientLock EXCEPT ![c] = Nobody]
                  /\ eventLock' = [eventLock EXCEPT ![c] = IF @ = t THEN Nobody ELSE @]
                  /\ Return(t) /\ Release(c, 1)
                  /\ UNCHANGED disconnected
             ELSE /\ clientLock' = [clientLock EXCEPT ![c] = t]
                  /\ disconnected' = [disconnected EXCEPT ![c] = TRUE]
                  /\ scheduled' = [scheduled EXCEPT ![c] = FALSE]
                  /\ GoOn(t, IF Keeps(t) THEN "clearKept" ELSE "clear")
                  /\ UNCHANGED <<references, eventLock>>
        /\ errored' = IF t \in Timers THEN [errored EXCEPT ![c] = TRUE] ELSE errored
        /\ UNCHANGED <<created, clients, eventClient, quiet>>

\* Mutant: the event keeps its client.
ClearClientNot(t) ==
    LET c == handled[t]
    IN  /\ at[t] \in {"clear", "clearKept"} /\ eventLock[c] \in {Nobody, t}
        /\ GoOn(t, IF Keeps(t) THEN "removeKept" ELSE "remove")
        /\ clientLock' = [clientLock EXCEPT ![c] = IF Keeps(t) THEN t ELSE Nobody]
        /\ UNCHANGED <<created, clients, disconnected, errored, eventLock, scheduled, quiet,
                       references, eventClient>>

\* clearClient under the event's lock, which a scheduler that runs the event has already,
\* and the rest of close; disconnect releases the lock if it took it.
ClearClient(t) ==
    LET c == handled[t]
    IN  /\ at[t] \in {"clear", "clearKept"} /\ eventLock[c] \in {Nobody, t}
        /\ eventClient' = [eventClient EXCEPT ![c] = FALSE] /\ Release(c, 1)
        /\ GoOn(t, IF Keeps(t) THEN "removeKept" ELSE "remove")
        /\ clientLock' = [clientLock EXCEPT ![c] = IF Keeps(t) THEN t ELSE Nobody]
        /\ UNCHANGED <<created, clients, disconnected, errored, eventLock, quiet>>

\* removeConnection: what the map has for the address goes, and this client is released.
\* Then the callers return, and with them their locks and the reference.
RemoveConnection(t) ==
    LET c == handled[t]
    IN  /\ at[t] \in {"remove", "removeKept"}
        /\ clients' = NoClient
        /\ Release(c, IF clients = NoClient THEN 1 ELSE 2)
        /\ clientLock' = [clientLock EXCEPT ![c] = IF @ = t THEN Nobody ELSE @]
        /\ eventLock' = [eventLock EXCEPT ![c] = IF @ = t THEN Nobody ELSE @]
        /\ Return(t)
        /\ UNCHANGED <<created, disconnected, errored, eventClient, quiet>>

--------------------------------------------------------------------------------
(* The net status event. *)

\* A scheduler takes the event of a client when its time has come.
Fire(s, c) ==
    /\ at[s] = "idle" /\ scheduled[c]
    /\ scheduled' = [scheduled EXCEPT ![c] = FALSE] /\ Handle(s, c, "run")
    /\ UNCHANGED <<created, clients, references, disconnected, errored, clientLock, eventLock,
                   eventClient, quiet>>

\* BaseClientNetStatusCheckupEvent::run up to checkNetStatus.
RunEvent(s) ==
    LET c == handled[s]
    IN  /\ at[s] = "run" /\ eventLock[c] = Nobody
        /\ IF eventClient[c]
             THEN /\ eventLock' = [eventLock EXCEPT ![c] = s] /\ GoOn(s, "disconnect")
                  /\ references' = [references EXCEPT ![c] = @ + 1]
             ELSE Return(s) /\ UNCHANGED <<eventLock, references>>
        /\ UNCHANGED <<created, clients, disconnected, errored, clientLock, eventClient,
                       scheduled, quiet>>

\* The other end, and the program, no longer reset the net status of a client.
FallSilent(c) ==
    /\ c <= created /\ ~quiet[c] /\ quiet' = [quiet EXCEPT ![c] = TRUE]
    /\ UNCHANGED <<created, clients, references, disconnected, errored, clientLock, eventLock,
                   eventClient, scheduled, at, handled>>

DisconnectStep(t) == Disconnect(t) \/ ClearClient(t) \/ RemoveConnection(t)

ReceiverStep == HandleMessage \/ HandleNetStatusRequest \/ DisconnectStep(Receiver)

ProgramStep(p) ==
    Kick(p) \/ Send(p) \/ ResetNetStatus(p) \/ RescheduleNetStatus(p) \/ DisconnectStep(p)

TimerStep(s) == RunEvent(s) \/ DisconnectStep(s)

ConnectionsNext ==
    \/ ReceiveMessage \/ ReceiverStep
    \/ \E p \in Programs : Use(p) \/ ProgramStep(p)
    \/ \E s \in Timers : TimerStep(s) \/ \E c \in Clients : Fire(s, c)
    \/ \E c \in Clients : FallSilent(c)

\* A thread that is not waiting goes on, and a scheduler takes the event of a silent client
\* (TimedTasks); the one of another client is put off again and again.
Fairness ==
    /\ WF_connectionVars(ReceiverStep)
    /\ \A p \in Programs : WF_connectionVars(ProgramStep(p))
    /\ \A s \in Timers : WF_connectionVars(TimerStep(s))
    /\ \A c \in Clients : WF_connectionVars(quiet[c] /\ \E s \in Timers : Fire(s, c))

ConnectionsSpec == ConnectionsInit /\ [][ConnectionsNext]_connectionVars /\ Fairness
--------------------------------------------------------------------------------
\* The threads that have a reference to a client.
Holding(c) == {t \in Actors : handled[t] = c /\ at[t] # "run"}

\* Clients are accounted for, however messages, disconnects of several threads and the net
\* status event interleave: the reference count of a client is the number of those that
\* refer to it (the map, its event, the threads that handle it), so it is deleted when the
\* last of them lets go and not before; the service's map has every client that has not been
\* disconnected, and a late removeConnection never takes its successor for the address out.
ClientsAccounted ==
    \A c \in 1..created :
        /\ references[c] = Cardinality(Holding(c)) + (IF clients = c THEN 1 ELSE 0)
                               + (IF eventClient[c] THEN 1 ELSE 0)
        /\ ~disconnected[c] => clients = c /\ eventClient[c]

\* A scheduler that runs the event and a thread in close wait for each other: run has the
\* event's lock and wants the client's, close has the client's and wants the event's.
Embrace(c) ==
    \E s \in Timers, t \in Actors \ Timers :
        /\ eventLock[c] = s /\ at[s] = "disconnect"
        /\ clientLock[c] = t /\ at[t] \in {"clear", "clearKept"}

\* A client that has fallen silent, or that has been disconnected, is deleted in the end,
\* its entry in the map and its event's reference included, unless close and the event's
\* run have met with each other's lock (BaseClient.cpp:276).
SilentLeaves ==
    \A c \in Clients :
        (c <= created /\ (quiet[c] \/ disconnected[c])) ~> (references[c] = 0 \/ Embrace(c))
================================================================================
