----------------------------- MODULE E2EEChannel -----------------------------
(***************************************************************************)
(* The end-to-end encrypted channel of encrypted-channel.ts: a client's    *)
(* and a daemon's EncryptedChannel over the two directions of one relay    *)
(* connection, with the wrappers both sides put around it.                 *)
(*                                                                         *)
(* A frame is a handshake message or a message sealed with the key both    *)
(* sides derive; messages are numbered in the order the application hands  *)
(* them over.  The relay keeps the frames of a client until the daemon     *)
(* attaches, and drops the oldest ones when there are too many; after that *)
(* the connection delivers in order until it is closed.                    *)
(***************************************************************************)
EXTENDS Integers, Sequences, FiniteSets, SequencesExt

CONSTANTS
  PendingLimit,    \* MAX_PENDING_SENDS
  RelayLimit,      \* frames the relay keeps until the daemon attaches
  MaxMessages,     \* bound on the messages of each side
  MaxHellos        \* bound on the handshake frames in flight

ASSUME ChannelAssumption ==
  /\ {PendingLimit, RelayLimit} \subseteq Nat \ {0}
  /\ {MaxMessages, MaxHellos} \subseteq Nat

VARIABLES
  client,     \* state of the client's channel
  pending,    \* client: pendingSends
  flushing,   \* client: what flushPendingSends still has to send
  asked,      \* messages the client's application has sent
  up,         \* frames on their way to the daemon
  attached,   \* the daemon's data socket is there
  daemon,     \* "waiting" for hello, "replying", "open" or "closed"
  buffered,   \* daemon: bufferedMessages
  held,       \* daemon: pendingMessages until attachSocket has returned
  served,     \* daemon: attachSocket has returned
  delivered,  \* messages the daemon's session received
  told,       \* messages the daemon's session has sent
  down,       \* frames on their way to the client
  heard,      \* messages the client's application received
  replaced,   \* the daemon's data socket took the place of an earlier one
  hasty,      \* history: messages sent past others that waited to be flushed
  evicted     \* history: messages that a full pendingSends lost

vars == <<client, pending, flushing, asked, up, attached, daemon, buffered, held, served,
          delivered, told, down, heard, replaced, hasty, evicted>>
daemonVars == <<attached, daemon, buffered, held, served, delivered, told, replaced>>
clientVars == <<client, pending, flushing, asked, heard, hasty, evicted>>

Messages == 1 .. MaxMessages
Hello == 0
Ready == 0
Sealed(frame) == frame # 0
Handshaking(frames) == Len(SelectSeq(frames, LAMBDA f : ~Sealed(f)))

TypeOK ==
  /\ client \in {"handshaking", "open", "closed"}
  /\ pending \in Seq(Messages) /\ Len(pending) <= PendingLimit
  /\ flushing \in Seq(Messages) /\ asked \in 0 .. MaxMessages
  /\ up \in Seq({Hello} \cup Messages) /\ down \in Seq({Ready} \cup Messages)
  /\ attached \in BOOLEAN /\ served \in BOOLEAN
  /\ daemon \in {"waiting", "replying", "open", "closed"}
  /\ buffered \in Seq({Hello} \cup Messages) /\ held \in Seq(Messages)
  /\ delivered \in Seq(Messages) /\ told \in 0 .. MaxMessages
  /\ heard \in Seq(Messages) /\ replaced \in BOOLEAN
  /\ hasty \subseteq Messages /\ evicted \subseteq Messages

Init ==
  /\ client = "handshaking" /\ pending = <<>> /\ flushing = <<>> /\ asked = 0
  /\ up = <<Hello>> /\ attached = FALSE
  /\ daemon = "waiting" /\ buffered = <<>> /\ held = <<>> /\ served = FALSE
  /\ delivered = <<>> /\ told = 0 /\ down = <<>> /\ heard = <<>>
  /\ replaced = FALSE /\ hasty = {} /\ evicted = {}

\* The relay drops the oldest frames of a client that no daemon serves.
Upstream(frames) ==
  IF attached \/ Len(frames) <= RelayLimit
  THEN frames ELSE SubSeq(frames, Len(frames) - RelayLimit + 1, Len(frames))

\* The loop over bufferedMessages: handshake messages are left out.  (SelectSeq,
\* written as a recursive function that can be reasoned about.)
Replayed(frames) ==
  LET F[i \in 0 .. Len(frames)] ==
        IF i = 0 THEN <<>>
        ELSE IF Sealed(frames[i]) THEN Append(F[i - 1], frames[i]) ELSE F[i - 1]
  IN F[Len(frames)]

-----------------------------------------------------------------------------
(* The client.                                                              *)

\* sendHello: the retry timer runs until the channel is open.
SendHello ==
  /\ client = "handshaking"
  /\ Handshaking(up) + Handshaking(buffered) + Handshaking(down) < MaxHellos
  /\ up' = Upstream(Append(up, Hello))
  /\ UNCHANGED <<daemonVars, clientVars, down>>

\* Mutant: one message more than the limit is kept.
SendPendingLate ==
  /\ client = "handshaking" /\ asked < MaxMessages
  /\ asked' = asked + 1
  /\ IF Len(pending) <= PendingLimit
     THEN pending' = Append(pending, asked + 1) /\ UNCHANGED evicted
     ELSE /\ pending' = Append(Tail(pending), asked + 1)
          /\ evicted' = evicted \cup {Head(pending)}
  /\ UNCHANGED <<daemonVars, client, flushing, up, down, heard, hasty>>

\* send before the handshake: kept, the oldest message makes room.
SendPending ==
  /\ client = "handshaking" /\ asked < MaxMessages
  /\ asked' = asked + 1
  /\ IF Len(pending) < PendingLimit
     THEN pending' = Append(pending, asked + 1) /\ UNCHANGED evicted
     ELSE /\ pending' = Append(Tail(pending), asked + 1)
          /\ evicted' = evicted \cup {Head(pending)}
  /\ UNCHANGED <<daemonVars, client, flushing, up, down, heard, hasty>>

\* send on an open channel goes straight to the transport.
SendNow ==
  /\ client = "open" /\ asked < MaxMessages
  /\ asked' = asked + 1
  /\ up' = Upstream(Append(up, asked + 1))
  /\ hasty' = IF flushing # <<>> THEN hasty \cup {asked + 1} ELSE hasty
  /\ UNCHANGED <<daemonVars, client, pending, flushing, down, heard, evicted>>

\* One turn of the loop of flushPendingSends.
FlushNext ==
  /\ client = "open" /\ flushing # <<>>
  /\ up' = Upstream(Append(up, Head(flushing)))
  /\ flushing' = Tail(flushing)
  /\ UNCHANGED <<daemonVars, client, pending, asked, down, heard, hasty, evicted>>

\* handleMessage of e2ee_ready while the handshake runs: the channel opens, and
\* what waited is about to be flushed.
ClientOpens ==
  /\ client = "handshaking" /\ down # <<>> /\ Head(down) = Ready
  /\ client' = "open"
  /\ flushing' = pending /\ pending' = <<>>
  /\ down' = Tail(down)
  /\ UNCHANGED <<daemonVars, asked, up, heard, hasty, evicted>>

\* handleMessage of anything else: other traffic is ignored until the channel
\* is open, and so is a repeated e2ee_ready afterwards.
ClientReceives ==
  /\ client \in {"handshaking", "open"} /\ down # <<>>
  /\ client = "handshaking" => Sealed(Head(down))
  /\ heard' = IF client = "open" /\ Sealed(Head(down)) THEN Append(heard, Head(down)) ELSE heard
  /\ down' = Tail(down)
  /\ UNCHANGED <<daemonVars, client, pending, flushing, asked, up, hasty, evicted>>

-----------------------------------------------------------------------------
(* The daemon.                                                              *)

\* The data socket opens and attachEncryptedSocket waits for hello.
Attach ==
  /\ ~attached
  /\ attached' = TRUE
  /\ UNCHANGED <<clientVars, up, daemon, buffered, held, served, delivered, told, down, replaced>>

\* The daemon opened another data socket for the same client: its frames now
\* go to a channel that knows nothing of the handshake so far.
Replace ==
  /\ attached /\ ~replaced /\ {client, daemon} # {"closed"}
  /\ replaced' = TRUE
  /\ daemon' = "waiting" /\ buffered' = <<>> /\ held' = <<>> /\ served' = FALSE
  /\ delivered' = <<>> /\ up' = <<>>
  /\ UNCHANGED <<clientVars, attached, told, down>>

\* handleHello: the ready frame is handed to the socket, and what comes next is
\* buffered.
HandleHello ==
  /\ attached /\ daemon = "waiting" /\ up # <<>> /\ ~Sealed(Head(up))
  /\ daemon' = "replying"
  /\ up' = Tail(up) /\ down' = Append(down, Ready)
  /\ UNCHANGED <<clientVars, attached, buffered, held, served, delivered, told, replaced>>

\* A first frame that is no hello fails the handshake.
InvalidHello ==
  /\ attached /\ daemon = "waiting" /\ up # <<>> /\ Sealed(Head(up))
  /\ daemon' = "closed"
  /\ up' = Tail(up)
  /\ UNCHANGED <<clientVars, attached, buffered, held, served, delivered, told, down, replaced>>

\* Mutant: what comes while the ready frame is sent is not kept.
BufferNextForgets ==
  /\ daemon = "replying" /\ up # <<>>
  /\ up' = Tail(up)
  /\ UNCHANGED <<clientVars, attached, daemon, buffered, held, served, delivered, told, down, replaced>>

BufferNext ==
  /\ daemon = "replying" /\ up # <<>>
  /\ buffered' = Append(buffered, Head(up))
  /\ up' = Tail(up)
  /\ UNCHANGED <<clientVars, attached, daemon, held, served, delivered, told, down, replaced>>

\* Mutant: the channel does not open when another hello was buffered.
DaemonOpensOnce ==
  /\ daemon = "replying" /\ \A i \in DOMAIN buffered : Sealed(buffered[i])
  /\ daemon' = "open"
  /\ held' = Replayed(buffered) /\ buffered' = <<>>
  /\ UNCHANGED <<clientVars, up, attached, served, delivered, told, down, replaced>>

\* The send of the ready frame is done: the channel opens and handles what was
\* buffered, save handshake messages.  The session is not attached yet.
DaemonOpens ==
  /\ daemon = "replying"
  /\ daemon' = "open"
  /\ held' = Replayed(buffered) /\ buffered' = <<>>
  /\ UNCHANGED <<clientVars, up, attached, served, delivered, told, down, replaced>>

\* Mutant: what was held is handed over behind what came since.
SessionAttachedLate ==
  /\ daemon = "open" /\ ~served
  /\ served' = TRUE
  /\ delivered' = IF held = <<>> THEN delivered ELSE Append(Tail(held), Head(held))
  /\ held' = <<>>
  /\ UNCHANGED <<clientVars, up, attached, daemon, buffered, told, down, replaced>>

\* attachSocket has returned: the session gets what was held.
SessionAttached ==
  /\ daemon = "open" /\ ~served
  /\ served' = TRUE
  /\ delivered' = delivered \o held /\ held' = <<>>
  /\ UNCHANGED <<clientVars, up, attached, daemon, buffered, told, down, replaced>>

\* handleMessage of an open daemon channel: a hello of the same key is answered
\* again, a message is handed over.
DaemonReceives ==
  /\ daemon = "open" /\ up # <<>>
  /\ up' = Tail(up)
  /\ IF Sealed(Head(up))
     THEN /\ IF served
             THEN delivered' = Append(delivered, Head(up)) /\ UNCHANGED held
             ELSE held' = Append(held, Head(up)) /\ UNCHANGED delivered
          /\ UNCHANGED down
     ELSE down' = Append(down, Ready) /\ UNCHANGED <<held, delivered>>
  /\ UNCHANGED <<clientVars, attached, daemon, buffered, served, told, replaced>>

\* send of the encrypted socket, which the session has once it is attached.
DaemonSends ==
  /\ daemon = "open" /\ served /\ told < MaxMessages
  /\ told' = told + 1
  /\ down' = Append(down, told + 1)
  /\ UNCHANGED <<clientVars, up, attached, daemon, buffered, held, served, delivered, replaced>>

-----------------------------------------------------------------------------
\* The transport closes, by either side or for a failed handshake: both
\* channels hear of it.  What waited to be sent or received is gone.
Close ==
  /\ {client, daemon} # {"closed"}
  /\ client' = "closed" /\ daemon' = "closed"
  /\ up' = <<>> /\ down' = <<>>
  /\ UNCHANGED <<pending, flushing, asked, attached, buffered, held, served, delivered, told,
                 heard, replaced, hasty, evicted>>

ClientStep == SendPending \/ SendNow \/ FlushNext \/ ClientOpens \/ ClientReceives
DaemonStep ==
  \/ HandleHello \/ InvalidHello \/ BufferNext \/ DaemonOpens
  \/ SessionAttached \/ DaemonReceives \/ DaemonSends

\* The relay closes the client of a data socket that failed or was replaced.
Kick == (replaced \/ daemon = "closed") /\ Close

Next == SendHello \/ ClientStep \/ Attach \/ Replace \/ DaemonStep \/ Close

Spec == Init /\ [][Next]_vars

\* The retry timer fires, frames arrive, sends complete, the daemon attaches and
\* the relay tells the client when its data socket is gone.
Fairness ==
  /\ WF_vars(SendHello) /\ WF_vars(ClientOpens) /\ WF_vars(ClientReceives)
  /\ WF_vars(FlushNext) /\ WF_vars(Attach)
  /\ WF_vars(HandleHello) /\ WF_vars(InvalidHello) /\ WF_vars(DaemonOpens)
  /\ WF_vars(SessionAttached) /\ WF_vars(DaemonReceives) /\ WF_vars(Kick)

FairSpec == Spec /\ Fairness

-----------------------------------------------------------------------------
(* Properties.                                                              *)

\* The daemon's session gets the client's messages in the order they were sent,
\* except that one sent while flushPendingSends is under way may overtake the
\* ones it has still to send.
OnlyFlushIsOvertaken ==
  \A i, j \in 1 .. Len(delivered) :
    i < j /\ delivered[i] >= delivered[j] => delivered[i] \in hasty

\* Everything under way has arrived on an open channel.
Settled ==
  /\ client = "open" /\ daemon = "open" /\ served
  /\ up = <<>> /\ down = <<>> /\ flushing = <<>>

\* An open channel loses nothing in either direction, whichever side was open
\* first and whatever was buffered on the way, except what a full pendingSends
\* dropped.
NothingLost ==
  Settled /\ ~replaced =>
    /\ ToSet(delivered) = (1 .. asked) \ evicted
    /\ heard = [i \in 1 .. told |-> i]

\* Neither side waits for ever in a handshake the other one is not in, although
\* the relay drops hellos and the daemon may change its data socket under a
\* client that is open already: both get to be open, or the client is closed
\* and can connect again.
HandshakeEnds ==
  (client = "handshaking" \/ daemon # "open")
    ~> (client = "closed" \/ (client = "open" /\ daemon = "open"))
=============================================================================
