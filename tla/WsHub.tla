-------------------------------- MODULE WsHub --------------------------------
(***************************************************************************)
(* The WebSocket hub, internal/pkg/websocket/hub.go, with its callers in   *)
(* internal/handler/websocket_handler.go and the services that broadcast.  *)
(* Goroutines: Run, which serves three channels; per connection the        *)
(* handler of the upgrade, which becomes ReadPump, and WritePump; the HTTP *)
(* requests that join and leave rooms; the broadcasters.                   *)
(*                                                                         *)
(* A step that holds hub.mu is one action.  Messages are counted, not      *)
(* told apart.  The user and school rooms are left out: nothing is         *)
(* broadcast to them.  SendToUser has no caller.                           *)
(***************************************************************************)
EXTENDS Integers, Sequences, FiniteSets

CONSTANTS
    Conns,        \* bound: WebSocket connections, each made once
    Users,
    Rooms,        \* of experiments, sessions and contests
    Requests,     \* concurrent requests that join or leave a room
    Broadcasters, \* concurrent calls of BroadcastToRoom
    None,
    SendCap,      \* capacity of a connection's send channel
    BroadcastCap  \* capacity of the broadcast channel

ASSUME HubAssumption ==
    /\ SendCap \in Nat \ {0}
    /\ BroadcastCap \in Nat \ {0}
    /\ None \notin Conns \cup Users \cup Rooms

VARIABLES
    user,      \* the user of each connection
    reader,    \* where the connection's handler, later its ReadPump, is
    writer,    \* where its WritePump is
    buffer,    \* messages in its send channel
    closed,    \* connections whose send channel is closed
    broken,    \* connections whose socket is closed, by either side
    rooms,     \* client.rooms
    clients, userIndex, roomIndex,   \* of the Hub
    hub,       \* what Run is doing, and for which connection
    broadcast, \* the broadcast channel
    call,      \* the room each broadcaster wants to send to, or None
    request,   \* the connection each request has looked up, or None
    late       \* observer: connections that joined a room when closed

conn == <<user, reader, writer, buffer, closed, broken>>
index == <<clients, userIndex, roomIndex, rooms>>
others == <<broadcast, call, request, late>>
hubVars == <<conn, index, hub, others>>

-----------------------------------------------------------------------------
Reader == {"new", "registering", "registered", "reading", "ponging", "leaving", "gone"}
Writer == {"off", "waiting", "writing", "ended"}
HubState == [at : {"select"}, client : {None}]
            \cup [at : {"register", "unregister", "stuck", "dead"}, client : Conns]

HubInit ==
    /\ user = [c \in Conns |-> None]
    /\ reader = [c \in Conns |-> "new"]
    /\ writer = [c \in Conns |-> "off"]
    /\ buffer = [c \in Conns |-> 0]
    /\ closed = {} /\ broken = {}
    /\ rooms = [c \in Conns |-> {}]
    /\ clients = {}
    /\ userIndex = [u \in Users |-> None]
    /\ roomIndex = [r \in Rooms |-> {}]
    /\ hub = [at |-> "select", client |-> None]
    /\ broadcast = <<>>
    /\ call = [b \in Broadcasters |-> None]
    /\ request = [q \in Requests |-> None]
    /\ late = {}

Full(c) == buffer[c] = SendCap
Selecting == hub.at = "select"
Alive == hub.at # "dead"
HubIs(at, c) == hub' = [at |-> at, client |-> c]
ReaderAt(c, at) == Alive /\ reader[c] = at
ReaderTo(c, at) == reader' = [reader EXCEPT ![c] = at]

-----------------------------------------------------------------------------
(* Run.  A send on register or unregister waits until Run receives it;     *)
(* the maps change in a step of their own, under the lock.                 *)

TakeRegister(c) ==
    /\ Selecting /\ reader[c] = "registering"
    /\ HubIs("register", c)
    /\ ReaderTo(c, "registered")
    /\ UNCHANGED <<user, writer, buffer, closed, broken, index, others>>

Register ==
    /\ hub.at = "register"
    /\ clients' = clients \cup {hub.client}
    /\ userIndex' = [userIndex EXCEPT ![user[hub.client]] = hub.client]
    /\ HubIs("select", None)
    /\ UNCHANGED <<conn, roomIndex, rooms, others>>

(* The deferred send of ReadPump, which then closes the socket.            *)
TakeUnregister(c) ==
    /\ Selecting /\ reader[c] = "leaving"
    /\ IF c \in clients THEN HubIs("unregister", c) ELSE UNCHANGED hub
    /\ ReaderTo(c, "gone")
    /\ broken' = broken \cup {c}
    /\ UNCHANGED <<user, writer, buffer, closed, index, others>>

WithoutClient(c) == [r \in Rooms |-> IF r \in rooms[c] THEN roomIndex[r] \ {c} ELSE roomIndex[r]]

Unregister ==
    /\ hub.at = "unregister"
    /\ clients' = clients \ {hub.client}
    /\ userIndex' = [userIndex EXCEPT ![user[hub.client]] = None]
    /\ roomIndex' = WithoutClient(hub.client)
    /\ closed' = closed \cup {hub.client}
    /\ HubIs("select", None)
    /\ UNCHANGED <<user, reader, writer, buffer, broken, rooms, others>>

(* A broadcast reaches the members in any order.  A closed channel panics  *)
(* and ends the process; at a full one Run sends to unregister, which only *)
(* Run receives from.                                                      *)
Members == roomIndex[Head(broadcast)]
Deliver(served) == buffer' = [c \in Conns |-> buffer[c] + IF c \in served THEN 1 ELSE 0]

Open(c) == c \notin closed /\ ~Full(c)

\* Mutant: Run closes the channel of a slow connection itself.
BroadcastClosingSlow ==
    /\ Selecting /\ broadcast # <<>>
    /\ Deliver({m \in Members : Open(m)})
    /\ closed' = closed \cup {m \in Members : Full(m)}
    /\ broadcast' = Tail(broadcast)
    /\ UNCHANGED <<user, reader, writer, broken, index, hub, call, request, late>>

\* Mutant: a message for an empty room is not taken out of the channel.
BroadcastToSomeone ==
    /\ Selecting /\ broadcast # <<>> /\ Members # {}
    /\ \A c \in Members : Open(c)
    /\ Deliver(Members)
    /\ broadcast' = Tail(broadcast)
    /\ UNCHANGED <<user, reader, writer, closed, broken, index, hub, call, request, late>>

TakeBroadcast ==
    /\ Selecting /\ broadcast # <<>>
    /\ \/ /\ \A c \in Members : Open(c)
          /\ Deliver(Members)
          /\ UNCHANGED hub
       \/ \E c \in Members, served \in SUBSET {m \in Members : Open(m)} :
          /\ ~Open(c)
          /\ Deliver(served)
          /\ HubIs(IF c \in closed THEN "dead" ELSE "stuck", c)
    /\ broadcast' = Tail(broadcast)
    /\ UNCHANGED <<user, reader, writer, closed, broken, index, call, request, late>>

-----------------------------------------------------------------------------
(* The handler of a connection: Connect, RegisterClient, then ReadPump.    *)

Connect(c, u) ==
    /\ ReaderAt(c, "new")
    /\ user' = [user EXCEPT ![c] = u]
    /\ ReaderTo(c, "registering")
    /\ UNCHANGED <<writer, buffer, closed, broken, index, hub, others>>

StartPumps(c) ==
    /\ ReaderAt(c, "registered")
    /\ ReaderTo(c, "reading")
    /\ writer' = [writer EXCEPT ![c] = "waiting"]
    /\ UNCHANGED <<user, buffer, closed, broken, index, hub, others>>

ReadPing(c) ==
    /\ ReaderAt(c, "reading") /\ c \notin broken
    /\ ReaderTo(c, "ponging")
    /\ UNCHANGED <<user, writer, buffer, closed, broken, index, hub, others>>

(* sendPong waits for room in the send channel.                            *)
SendPong(c) ==
    /\ ReaderAt(c, "ponging") /\ ~Full(c)
    /\ buffer' = [buffer EXCEPT ![c] = @ + 1]
    /\ ReaderTo(c, "reading")
    /\ UNCHANGED <<user, writer, closed, broken, index, hub, others>>

\* Mutant: ReadPump just returns.
ReadFailsSilently(c) ==
    /\ ReaderAt(c, "reading") /\ c \in broken
    /\ ReaderTo(c, "gone")
    /\ UNCHANGED <<user, writer, buffer, closed, broken, index, hub, others>>

ReadFails(c) ==
    /\ ReaderAt(c, "reading") /\ c \in broken
    /\ ReaderTo(c, "leaving")
    /\ UNCHANGED <<user, writer, buffer, closed, broken, index, hub, others>>

(* The peer goes away, or its pong is overdue.                             *)
Break(c) ==
    /\ Alive /\ reader[c] \notin {"new", "gone"} /\ c \notin broken
    /\ broken' = broken \cup {c}
    /\ UNCHANGED <<user, reader, writer, buffer, closed, index, hub, others>>

-----------------------------------------------------------------------------
(* WritePump takes a message and those it finds behind it; the others came *)
(* later.                                                                  *)
TakeMessages(c) ==
    /\ Alive /\ writer[c] = "waiting"
    /\ \E n \in 1 .. buffer[c] : buffer' = [buffer EXCEPT ![c] = @ - n]
    /\ writer' = [writer EXCEPT ![c] = "writing"]
    /\ UNCHANGED <<user, reader, closed, broken, index, hub, others>>

Written(c) ==
    /\ Alive /\ writer[c] = "writing" /\ c \notin broken
    /\ writer' = [writer EXCEPT ![c] = "waiting"]
    /\ UNCHANGED <<user, reader, buffer, closed, broken, index, hub, others>>

(* A message or a ping cannot be written, or the channel is closed.        *)
WriterEnds(c) ==
    /\ Alive /\ writer[c] \in {"waiting", "writing"}
    /\ writer' = [writer EXCEPT ![c] = "ended"]
    /\ broken' = broken \cup {c}
    /\ UNCHANGED <<user, reader, buffer, closed, index, hub, others>>

-----------------------------------------------------------------------------
(* The requests: GetClientByUserID, then JoinRoom or LeaveRoom.            *)

LookUp(q, u) ==
    /\ Alive /\ request[q] = None /\ userIndex[u] # None
    /\ request' = [request EXCEPT ![q] = userIndex[u]]
    /\ UNCHANGED <<conn, index, hub, broadcast, call, late>>

JoinRoom(q, r) ==
    LET c == request[q] IN
    /\ Alive /\ c # None
    /\ rooms' = [rooms EXCEPT ![c] = @ \cup {r}]
    /\ roomIndex' = [roomIndex EXCEPT ![r] = @ \cup {c}]
    /\ request' = [request EXCEPT ![q] = None]
    /\ late' = IF c \in closed THEN late \cup {c} ELSE late
    /\ UNCHANGED <<conn, clients, userIndex, hub, broadcast, call>>

\* Mutant: the client's own set is not updated.
LeaveRoomHalf(q, r) ==
    LET c == request[q] IN
    /\ Alive /\ c # None
    /\ roomIndex' = [roomIndex EXCEPT ![r] = @ \ {c}]
    /\ request' = [request EXCEPT ![q] = None]
    /\ UNCHANGED <<conn, clients, userIndex, rooms, hub, broadcast, call, late>>

LeaveRoom(q, r) ==
    LET c == request[q] IN
    /\ Alive /\ c # None
    /\ rooms' = [rooms EXCEPT ![c] = @ \ {r}]
    /\ roomIndex' = [roomIndex EXCEPT ![r] = @ \ {c}]
    /\ request' = [request EXCEPT ![q] = None]
    /\ UNCHANGED <<conn, clients, userIndex, hub, broadcast, call, late>>

(* BroadcastToRoom waits for room in the broadcast channel.                *)
CallBroadcast(b, r) ==
    /\ Alive /\ call[b] = None
    /\ call' = [call EXCEPT ![b] = r]
    /\ UNCHANGED <<conn, index, hub, broadcast, request, late>>

Enqueue(b) ==
    /\ Alive /\ call[b] # None /\ Len(broadcast) < BroadcastCap
    /\ broadcast' = Append(broadcast, call[b])
    /\ call' = [call EXCEPT ![b] = None]
    /\ UNCHANGED <<conn, index, hub, request, late>>

-----------------------------------------------------------------------------
HubStep == Register \/ Unregister \/ TakeBroadcast
ReadPump(c) == StartPumps(c) \/ SendPong(c) \/ ReadFails(c)
WritePump(c) == TakeMessages(c) \/ Written(c) \/ WriterEnds(c)

HubNext ==
    \/ HubStep
    \/ \E c \in Conns :
       \/ TakeRegister(c) \/ TakeUnregister(c)
       \/ ReadPump(c) \/ WritePump(c)
       \/ ReadPing(c) \/ Break(c)
       \/ \E u \in Users : Connect(c, u)
    \/ \E q \in Requests :
       \/ \E u \in Users : LookUp(q, u)
       \/ \E r \in Rooms : JoinRoom(q, r) \/ LeaveRoom(q, r)
    \/ \E b \in Broadcasters :
       \/ \E r \in Rooms : CallBroadcast(b, r)
       \/ Enqueue(b)

HubSpec == HubInit /\ [][HubNext]_hubVars

(* Goroutines that can run do; Run serves each of its channels in the end  *)
(* (select chooses at random); senders that wait on a full channel are     *)
(* served in turn, so that a broadcaster that again and again could send   *)
(* does.                                                                   *)
HubFairSpec ==
    /\ HubSpec
    /\ WF_hubVars(HubStep)
    /\ \A c \in Conns :
        /\ WF_hubVars(TakeRegister(c) \/ TakeUnregister(c))
        /\ WF_hubVars(ReadPump(c)) /\ WF_hubVars(WritePump(c))
    /\ \A b \in Broadcasters : SF_hubVars(Enqueue(b))

-----------------------------------------------------------------------------
(* Type correctness.                                                       *)
HubTypeOK ==
    /\ user \in [Conns -> Users \cup {None}]
    /\ reader \in [Conns -> Reader]
    /\ writer \in [Conns -> Writer]
    /\ buffer \in [Conns -> 0 .. SendCap]
    /\ closed \subseteq Conns /\ broken \subseteq Conns
    /\ rooms \in [Conns -> SUBSET Rooms]
    /\ clients \subseteq Conns
    /\ userIndex \in [Users -> Conns \cup {None}]
    /\ roomIndex \in [Rooms -> SUBSET Conns]
    /\ hub \in HubState
    /\ broadcast \in Seq(Rooms) /\ Len(broadcast) <= BroadcastCap
    /\ call \in [Broadcasters -> Rooms \cup {None}]
    /\ request \in [Requests -> Conns \cup {None}]
    /\ late \subseteq Conns

(* What a request finds under a user is a registered connection of that    *)
(* user, although a user may open and lose several connections.            *)
IndexedIsRegistered ==
    \A u \in Users : userIndex[u] # None =>
        userIndex[u] \in clients /\ user[userIndex[u]] = u

(* The rooms a connection knows of and the members the hub knows of agree  *)
(* until the connection is closed: Unregister relies on it.                *)
RoomsAgree ==
    \A c \in Conns \ closed, r \in Rooms : c \in roomIndex[r] <=> r \in rooms[c]

(* A send channel is closed only when ReadPump, which sends its pongs to   *)
(* it, has returned.                                                       *)
OpenWhileRead == \A c \in closed : reader[c] = "gone"

(* Run panics on a closed channel only after a request that had looked up  *)
(* the connection joined a room when the connection was already closed.    *)
PanicNeedsLateJoin == hub.at = "dead" => hub.client \in late

(* The two indexes of the hub never point at a connection that is gone.    *)
IndexesAgree == IndexedIsRegistered /\ RoomsAgree

(* Channels are closed in order: after the last pong, and never under a    *)
(* broadcast unless somebody joined late.                                  *)
ChannelsCloseInOrder == OpenWhileRead /\ PanicNeedsLateJoin

(* What the proofs of the four rest on: the connection Run is serving, the *)
(* registered and the closed ones are in these phases, and a closed one is *)
(* in a room only if it joined late.                                       *)
Phases ==
    /\ \A c \in Conns : reader[c] = "new" \/ user[c] \in Users
    /\ hub.at = "register" =>
         hub.client \in Conns /\ reader[hub.client] \notin {"new", "registering", "gone"}
    /\ hub.at = "unregister" => hub.client \in clients /\ reader[hub.client] = "gone"
    /\ \A c \in clients : reader[c] \notin {"new", "registering"} /\ c \notin closed
ClosedMembersAreLate ==
    \A c \in closed, r \in Rooms : c \in roomIndex[r] => c \in late

Stopped == hub.at \in {"stuck", "dead"}
PongStuck(c) == reader[c] = "ponging" /\ writer[c] = "ended" /\ Full(c)

(* A broken connection leaves the hub and its WritePump ends, unless Run   *)
(* has stopped, or ReadPump waits to send a pong that nobody will take.    *)
BrokenLeaves ==
    \A c \in Conns : c \in broken ~>
        (c \notin clients /\ writer[c] \in {"off", "ended"}) \/ Stopped \/ PongStuck(c)

(* Every call of BroadcastToRoom returns, unless Run has stopped.          *)
BroadcastReturns == \A b \in Broadcasters : call[b] # None ~> call[b] = None \/ Stopped

(* Violated: a user with a registered connection is told not connected     *)
(* once another connection of the user is unregistered.                    *)
ConnectedIsFound == \A c \in clients : userIndex[user[c]] # None
=============================================================================
