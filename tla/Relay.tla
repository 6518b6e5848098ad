-------------------------------- MODULE Relay --------------------------------
(***************************************************************************)
(* The relay between clients and a daemon that is not reachable directly:  *)
(* the Durable Object of cloudflare-adapter.ts (protocol v2) and the       *)
(* daemon's end of it, relay-transport.ts.                                 *)
(*                                                                         *)
(* The daemon keeps one control socket to the relay, over which the relay  *)
(* tells it of clients; for each client the daemon opens a data socket of  *)
(* its own.  A socket has two ends that learn of its death at different    *)
(* times, and a control socket may go silent without either end noticing.  *)
(*                                                                         *)
(* The relay gives every client socket a fresh connection id, so an id     *)
(* stands for one client socket.  The frames of a client are numbered;     *)
(* what they hold is the business of the encrypted channel.  Frames from   *)
(* the daemon to the client are forwarded without state and left out.      *)
(*                                                                         *)
(* The platform (external): a socket the relay has closed stays in         *)
(* getWebSockets until its peer has answered, and a send to it throws.     *)
(***************************************************************************)
EXTENDS Integers, Sequences, FiniteSets, SequencesExt

CONSTANTS
  Conns,           \* connection ids
  BufferLimit,     \* frames kept per connection (200 in the code)
  MaxFrames,       \* bound on the frames of a client
  MaxCuts,         \* bound on control sockets that go silent
  MaxData,         \* bound on the data sockets of one connection
  MaxFailures      \* bound on data sockets that fail to open or drop

ASSUME RelayAssumption ==
  /\ IsFiniteSet(Conns)
  /\ {MaxFrames, MaxCuts, MaxData, MaxFailures} \subseteq Nat
  /\ BufferLimit \in Nat \ {0}

VARIABLES
  client,     \* relay: the client socket of an id: "new", "in", "closing", "gone"
  nudge,      \* relay: timers of nudgeOrResetControlForConnection
  sent,       \* frames a client has sent
  pending,    \* relay: pendingFrames
  controls,   \* control sockets, oldest first: the relay's end, whether the path
              \*   is silently cut, and the notices on their way
  control,    \* daemon: controlWs, 0 while it waits to reconnect
  data,       \* data sockets of an id, oldest first: both ends, frames received
  entry,      \* daemon: dataSockets.get(id), 0 when there is none
  failures,   \* data sockets that failed so far
  farewells,  \* history: ids whose "disconnected" the daemon has handled
  unlucky,    \* history: ids whose data socket failed to open after the reset
  unflushed   \* history: ids for which a flushFrames failed

vars == <<client, nudge, sent, pending, controls, control, data, entry, failures,
          farewells, unlucky, unflushed>>

\* A control socket ends by a cut or by the reset of a client.
MaxControls == MaxCuts + Cardinality(Conns) + 1

Listed == {"open", "closing"}
Notice == [type : {"sync", "connected", "disconnected"}, ids : SUBSET Conns]
Control == [relay : {"none", "open", "closing", "closed"}, cut : BOOLEAN,
            notices : Seq(Notice)]
Data == [relay : {"none", "open", "closing", "closed"},
         daemon : {"connecting", "open", "closed"}, received : Seq(1 .. MaxFrames)]

TypeOK ==
  /\ client \in [Conns -> {"new", "in", "closing", "gone"}]
  /\ nudge \in [Conns -> {"unset", "first", "second", "done"}]
  /\ sent \in [Conns -> 0 .. MaxFrames]
  /\ pending \in [Conns -> Seq(1 .. MaxFrames)]
  /\ \A c \in Conns : Len(pending[c]) <= BufferLimit
  /\ controls \in Seq(Control) /\ Len(controls) <= MaxControls
  /\ control \in 0 .. Len(controls)
  /\ data \in [Conns -> Seq(Data)]
  /\ \A c \in Conns : Len(data[c]) <= MaxData /\ entry[c] \in 0 .. Len(data[c])
  /\ entry \in [Conns -> 0 .. MaxData]
  /\ failures \in 0 .. MaxFailures
  /\ farewells \subseteq Conns /\ unlucky \subseteq Conns
  /\ unflushed \subseteq Conns

Init ==
  /\ client = [c \in Conns |-> "new"] /\ nudge = [c \in Conns |-> "unset"]
  /\ sent = [c \in Conns |-> 0] /\ pending = [c \in Conns |-> <<>>]
  /\ controls = <<>> /\ control = 0
  /\ data = [c \in Conns |-> <<>>] /\ entry = [c \in Conns |-> 0]
  /\ failures = 0 /\ farewells = {} /\ unlucky = {}
  /\ unflushed = {}

-----------------------------------------------------------------------------
(* What the relay sees of its sockets.                                      *)

hasClientSocket(c) == client[c] \in {"in", "closing"}
hasServerDataSocket(c) == \E d \in DOMAIN data[c] : data[c][d].relay \in Listed
listConnectedConnectionIds == {c \in Conns : hasClientSocket(c)}

Closing(end) == IF end = "open" THEN "closing" ELSE end
CloseAtRelay(sockets) ==
  [i \in DOMAIN sockets |-> [sockets[i] EXCEPT !.relay = Closing(@)]]

\* notifyControls: a send to a closing control throws and closes it again; one
\* to a silent control goes nowhere.
notifyControls(notice) ==
  [i \in DOMAIN controls |->
     IF controls[i].relay = "open" /\ ~controls[i].cut
     THEN [controls[i] EXCEPT !.notices = Append(@, notice)] ELSE controls[i]]

-----------------------------------------------------------------------------
(* Clients, and the timers a client starts.                                 *)

\* fetchV2 for a client.
ClientConnects(c) ==
  /\ client[c] = "new"
  /\ client' = [client EXCEPT ![c] = "in"]
  /\ nudge' = [nudge EXCEPT ![c] = "first"]
  /\ controls' = notifyControls([type |-> "connected", ids |-> {c}])
  /\ UNCHANGED <<sent, pending, control, data, entry, failures, farewells, unlucky, unflushed>>

\* The first timer: a full list, unless the client is served or gone.
NudgeControl(c) ==
  /\ nudge[c] = "first"
  /\ IF hasClientSocket(c) /\ ~hasServerDataSocket(c)
     THEN /\ nudge' = [nudge EXCEPT ![c] = "second"]
          /\ controls' = notifyControls([type |-> "sync", ids |-> listConnectedConnectionIds])
     ELSE nudge' = [nudge EXCEPT ![c] = "done"] /\ UNCHANGED controls
  /\ UNCHANGED <<client, sent, pending, control, data, entry, failures, farewells, unlucky,
                 unflushed>>

\* The second timer: the control sockets are closed.
ResetControl(c) ==
  /\ nudge[c] = "second"
  /\ nudge' = [nudge EXCEPT ![c] = "done"]
  /\ controls' = IF hasClientSocket(c) /\ ~hasServerDataSocket(c)
                 THEN CloseAtRelay(controls) ELSE controls
  /\ UNCHANGED <<client, sent, pending, control, data, entry, failures, farewells, unlucky,
                 unflushed>>

\* Mutant: the buffer keeps one frame more than its limit.
bufferFrameLate(frames, frame) ==
  IF Len(frames) <= BufferLimit THEN Append(frames, frame) ELSE Append(Tail(frames), frame)

\* Mutant: a full buffer makes room at its end.
bufferFrameDropsLatest(frames, frame) ==
  IF Len(frames) < BufferLimit THEN Append(frames, frame) ELSE Append(Front(frames), frame)

\* bufferFrame: the oldest frames make room.
bufferFrame(frames, frame) ==
  IF Len(frames) < BufferLimit THEN Append(frames, frame) ELSE Append(Tail(frames), frame)

\* What reaches a data socket, if the daemon still reads from it.
Deliver(socket, frames) ==
  IF socket.relay = "open" /\ socket.daemon = "open"
  THEN [socket EXCEPT !.received = @ \o frames] ELSE socket

\* webSocketMessage of a client.
ClientSends(c) ==
  /\ hasClientSocket(c) /\ sent[c] < MaxFrames
  /\ sent' = [sent EXCEPT ![c] = @ + 1]
  /\ IF hasServerDataSocket(c)
     THEN /\ data' = [data EXCEPT ![c] = [d \in DOMAIN @ |-> Deliver(@[d], <<sent[c] + 1>>)]]
          /\ UNCHANGED pending
     ELSE /\ pending' = [pending EXCEPT ![c] = bufferFrame(@, sent[c] + 1)]
          /\ UNCHANGED data
  /\ UNCHANGED <<client, nudge, controls, control, entry, failures, farewells, unlucky, unflushed>>

\* webSocketClose of a client: it left, or answered the relay's close.
ClientLeaves(c) ==
  /\ hasClientSocket(c)
  /\ client' = [client EXCEPT ![c] = "gone"]
  /\ pending' = [pending EXCEPT ![c] = <<>>]
  /\ data' = [data EXCEPT ![c] = CloseAtRelay(@)]
  /\ controls' = notifyControls([type |-> "disconnected", ids |-> {c}])
  /\ UNCHANGED <<nudge, sent, control, entry, failures, farewells, unlucky, unflushed>>

-----------------------------------------------------------------------------
(* The control socket.                                                      *)

\* connectControl, at start and when the reconnect timer fires.
ConnectControl ==
  /\ control = 0
  /\ controls' = Append(controls, [relay |-> "none", cut |-> FALSE, notices |-> <<>>])
  /\ control' = Len(controls) + 1
  /\ UNCHANGED <<client, nudge, sent, pending, data, entry, failures, farewells, unlucky,
                 unflushed>>

\* Mutant: a new control socket is not told of the clients that wait.
RelayAcceptsControlSilently ==
  /\ control # 0 /\ controls[control].relay = "none"
  /\ controls' = [CloseAtRelay(controls) EXCEPT ![control].relay = "open"]
  /\ UNCHANGED <<client, nudge, sent, pending, control, data, entry, failures, farewells,
                 unlucky, unflushed>>

\* fetchV2 for the control socket: it replaces the others and gets the list.
RelayAcceptsControl ==
  /\ control # 0 /\ controls[control].relay = "none"
  /\ controls' =
       [CloseAtRelay(controls) EXCEPT
          ![control].relay = "open",
          ![control].notices = <<[type |-> "sync", ids |-> listConnectedConnectionIds]>>]
  /\ UNCHANGED <<client, nudge, sent, pending, control, data, entry, failures, farewells,
                 unlucky, unflushed>>

\* The path goes silent: what is on its way or sent from now on does not arrive.
ControlCut(n) ==
  /\ controls[n].relay \in Listed /\ ~controls[n].cut
  /\ Cardinality({i \in DOMAIN controls : controls[i].cut}) < MaxCuts
  /\ controls' = [controls EXCEPT ![n].cut = TRUE, ![n].notices = <<>>]
  /\ UNCHANGED <<client, nudge, sent, pending, control, data, entry, failures, farewells,
                 unlucky, unflushed>>

\* The daemon's close event: the relay closed the socket, or no pong came for
\* CONTROL_STALE_TIMEOUT_MS.  scheduleReconnect follows.
DaemonLosesControl ==
  /\ control # 0
  /\ \/ controls[control].cut
     \/ controls[control].relay \in {"closing", "closed"} /\ controls[control].notices = <<>>
  /\ control' = 0
  /\ UNCHANGED <<client, nudge, sent, pending, controls, data, entry, failures, farewells,
                 unlucky, unflushed>>

\* The relay's close event of a control socket, which changes nothing else.
RelayLosesControl(n) ==
  /\ controls[n].relay \in Listed /\ (controls[n].cut \/ control # n)
  /\ controls' = [controls EXCEPT ![n].relay = "closed"]
  /\ UNCHANGED <<client, nudge, sent, pending, control, data, entry, failures, farewells,
                 unlucky, unflushed>>

-----------------------------------------------------------------------------
(* Data sockets.                                                            *)

\* ensureClientDataSocket for every id of a notice.
Ensured(ids) == {c \in ids : entry[c] = 0}
ensureClientDataSockets(ids) ==
  /\ \A c \in Ensured(ids) : Len(data[c]) < MaxData
  /\ data' = [c \in Conns |->
       IF c \in Ensured(ids)
       THEN Append(data[c], [relay |-> "none", daemon |-> "connecting", received |-> <<>>])
       ELSE data[c]]
  /\ entry' = [c \in Conns |-> IF c \in Ensured(ids) THEN Len(data[c]) + 1 ELSE entry[c]]

\* Mutant: a data socket that is still connecting is left to itself.
FarewellToOpen(ids) ==
  /\ data' = [c \in Conns |->
       IF c \in ids /\ entry[c] # 0 /\ data[c][entry[c]].daemon = "open"
       THEN [data[c] EXCEPT ![entry[c]].daemon = "closed"] ELSE data[c]]
  /\ entry' = [c \in Conns |->
       IF c \in ids /\ entry[c] # 0 /\ data[c][entry[c]].daemon = "open" THEN 0 ELSE entry[c]]

\* "disconnected": the data socket is closed and forgotten.
Farewell(ids) ==
  /\ data' = [c \in Conns |->
       IF c \in ids /\ entry[c] # 0
       THEN [data[c] EXCEPT ![entry[c]].daemon = "closed"] ELSE data[c]]
  /\ entry' = [c \in Conns |-> IF c \in ids THEN 0 ELSE entry[c]]

\* The message event of the control socket; one of a replaced socket is ignored.
DaemonHandlesNotice(n) ==
  /\ control = n /\ ~controls[n].cut /\ controls[n].notices # <<>>
  /\ LET notice == Head(controls[n].notices)
     IN IF notice.type = "disconnected"
        THEN Farewell(notice.ids) /\ farewells' = farewells \cup notice.ids
        ELSE ensureClientDataSockets(notice.ids) /\ UNCHANGED farewells
  /\ controls' = [controls EXCEPT ![n].notices = Tail(@)]
  /\ UNCHANGED <<client, nudge, sent, pending, control, failures, unlucky, unflushed>>

\* flushFrames when the send of frame k + 1 throws: that frame alone goes back.
FlushFails(c, d, k) ==
  /\ k < Len(pending[c])
  /\ data' = [data EXCEPT ![c] = [CloseAtRelay(@) EXCEPT ![d] =
       [relay |-> "open", daemon |-> "open", received |-> SubSeq(pending[c], 1, k)]]]
  /\ pending' = [pending EXCEPT ![c] = <<pending[c][k + 1]>>]
  /\ unflushed' = unflushed \cup {c}

\* flushFrames when every send succeeds.
Flush(c, d) ==
  /\ data' = [data EXCEPT ![c] = [CloseAtRelay(@) EXCEPT ![d] =
       [relay |-> "open", daemon |-> "open", received |-> pending[c]]]]
  /\ pending' = [pending EXCEPT ![c] = <<>>]
  /\ UNCHANGED unflushed

\* fetchV2 for a data socket: it replaces the others of its id and gets the
\* frames that waited for it.
RelayAcceptsData(c) ==
  /\ entry[c] # 0 /\ data[c][entry[c]].daemon = "connecting"
  /\ \/ Flush(c, entry[c])
     \/ \E k \in 0 .. MaxFrames : FlushFails(c, entry[c], k)
  /\ UNCHANGED <<client, nudge, sent, controls, control, entry, failures, farewells, unlucky>>

\* The data socket does not open in time, or its handshake fails.
DataOpenFails(c) ==
  /\ entry[c] # 0 /\ data[c][entry[c]].daemon = "connecting" /\ failures < MaxFailures
  /\ failures' = failures + 1
  /\ data' = [data EXCEPT ![c][entry[c]].daemon = "closed"]
  /\ entry' = [entry EXCEPT ![c] = 0]
  /\ unlucky' = IF nudge[c] = "done" THEN unlucky \cup {c} ELSE unlucky
  /\ UNCHANGED <<client, nudge, sent, pending, controls, control, farewells, unflushed>>

\* The daemon's close event of data socket d; its entry goes if it is still d.
DaemonDataClosed(c, d) ==
  /\ data[c][d].daemon = "open"
  /\ \/ data[c][d].relay \in {"closing", "closed"} /\ UNCHANGED failures
     \/ data[c][d].relay = "open" /\ failures < MaxFailures /\ failures' = failures + 1
  /\ data' = [data EXCEPT ![c][d].daemon = "closed"]
  /\ entry' = [entry EXCEPT ![c] = IF @ = d THEN 0 ELSE @]
  /\ UNCHANGED <<client, nudge, sent, pending, controls, control, farewells, unlucky, unflushed>>

\* webSocketClose of data socket d: the client has to reconnect.
RelayDataClosed(c, d) ==
  /\ data[c][d].relay \in Listed
  /\ \/ data[c][d].daemon = "closed" /\ UNCHANGED failures
     \/ data[c][d].daemon = "open" /\ failures < MaxFailures /\ failures' = failures + 1
  /\ data' = [data EXCEPT ![c][d].relay = "closed"]
  /\ client' = [client EXCEPT ![c] = IF @ = "in" THEN "closing" ELSE @]
  /\ UNCHANGED <<nudge, sent, pending, controls, control, entry, farewells, unlucky, unflushed>>

-----------------------------------------------------------------------------
ControlStep ==
  \/ ConnectControl \/ RelayAcceptsControl \/ DaemonLosesControl
  \/ \E n \in DOMAIN controls : DaemonHandlesNotice(n)

DataStep(c) == RelayAcceptsData(c) \/ DataOpenFails(c)

Next ==
  \/ ControlStep
  \/ \E n \in DOMAIN controls : ControlCut(n) \/ RelayLosesControl(n)
  \/ \E c \in Conns :
       \/ ClientConnects(c) \/ NudgeControl(c) \/ ResetControl(c)
       \/ ClientSends(c) \/ ClientLeaves(c) \/ DataStep(c)
       \/ \E d \in DOMAIN data[c] : DaemonDataClosed(c, d) \/ RelayDataClosed(c, d)

Spec == Init /\ [][Next]_vars

\* Timers fire, connections that are tried come to an end, and what arrives is
\* handled.  Nothing makes a client come or go.
Fairness ==
  /\ WF_vars(ConnectControl) /\ WF_vars(RelayAcceptsControl) /\ WF_vars(DaemonLosesControl)
  /\ \A n \in 1 .. MaxControls : WF_vars(n \in DOMAIN controls /\ DaemonHandlesNotice(n))
  /\ \A c \in Conns :
       /\ WF_vars(NudgeControl(c)) /\ WF_vars(ResetControl(c)) /\ WF_vars(DataStep(c))
       /\ \A d \in 1 .. MaxData : WF_vars(d \in DOMAIN data[c] /\ RelayDataClosed(c, d))

FairSpec == Spec /\ Fairness

-----------------------------------------------------------------------------
(* Properties.                                                              *)

\* The daemon reads the frames of a client without a gap and in order, however
\* they were buffered, flushed and forwarded, unless a flush failed: a full
\* buffer loses its oldest frames only.
FramesContiguous ==
  \A c \in Conns : \A d \in DOMAIN data[c] :
    LET r == data[c][d].received
    IN c \notin unflushed => \A i \in 1 .. Len(r) - 1 : r[i + 1] = r[i] + 1

\* Once the daemon was told that a client is gone, no list or notice that was on
\* its way makes it keep or open a data socket for that client.
FarewellIsFinal == \A c \in farewells : entry[c] = 0

\* A client that stays gets a data socket, whatever happens to the control
\* socket meanwhile: by the notice, by the nudge, or by the list that a new
\* control socket starts with.  The one exception is a data socket that failed
\* to open when the timers of its client were spent.
Served(c) == entry[c] # 0 /\ data[c][entry[c]].relay = "open"
StayingClientServed ==
  \A c \in Conns : client[c] = "in" ~> (client[c] # "in" \/ Served(c) \/ c \in unlucky)
=============================================================================
