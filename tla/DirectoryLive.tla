---------------------------- MODULE DirectoryLive ----------------------------
(***************************************************************************)
(* Live updates of the agent directory: one client session of the daemon   *)
(* (its agent_update subscription, its fetch_agents handler and the        *)
(* per-agent queues that feed the subscription), the daemon-global         *)
(* sequence of the agent collection it shares with the other sessions, and *)
(* the UI replica at the other end of the socket.                          *)
(*                                                                         *)
(* DirectorySync models how a read answers a cursor; this module models    *)
(* everything that happens around a read: the awaits between gathering a   *)
(* listing and absorbing it, between capturing a subscription and          *)
(* publishing to it, updates buffered while a subscription bootstraps,     *)
(* refreshes that supersede one another, the cursor a live update moves,   *)
(* the agents that pages of a timeline bring along, and the session that   *)
(* survives its socket and is resumed.                                     *)
(*                                                                         *)
(* An agent's state is its version (its updatedAt); 0 stands for "no such  *)
(* agent" and, in an update, for a removal.  Tombstones are never trimmed  *)
(* and the daemon does not restart here: DirectorySync covers both.        *)
(***************************************************************************)
EXTENDS Integers, Sequences, FiniteSets, Functions

CONSTANTS
  Agents,
  MaxChanges,      \* bound on the changes of all agents
  MaxHead,         \* bound on the sequence numbers of the collection
  MaxFetches,      \* bound on the refreshes the UI starts
  MaxExtras,       \* bound on deleted agents and fetched timeline pages together
  MaxDisconnects   \* bound on lost sockets

ASSUME BoundsAssumption ==
  /\ IsFiniteSet(Agents)
  /\ {MaxChanges, MaxHead, MaxFetches, MaxExtras, MaxDisconnects} \subseteq Nat

VARIABLES
  version,       \* agent manager: versions an agent has gone through
  deletedBy,     \* who deleted the agent: "nobody", "me" or "other" (another session)
  value,         \* VersionedCollection: version of the entry, 0 when there is none
  seq,           \* VersionedCollection: sequence of the entry or of its tombstone
  head,          \* VersionedCollection.nextSeq
  subscription,  \* AgentUpdatesService: the current subscription, 0 for none
  bootstrapping, \* AgentUpdatesService: subscriptions with isBootstrapping set
  pending,       \* AgentUpdatesService: pendingUpdatesByAgentId of the current one
  tail,          \* liveAgentUpdateTails: per agent the jobs not finished yet
  captured,      \* per agent: the subscription its running job read, or Idle
  listings,      \* fetch_agents handlers that await their listing
  connected,     \* the session has a socket
  requests,      \* fetch_agents requests on their way to the session
  wire,          \* messages on their way to the UI
  view,          \* UI replica: version of an agent, 0 when it has none
  cursor,        \* UI cursor of the agents, 0 for none
  transaction,   \* UI: request of the current refresh transaction, 0 for none
  deltas,        \* UI: updates the transaction recorded
  satisfied,     \* UI: satisfiedDemandSource is the current connection
  skipped,       \* history: agents whose change a live update's cursor passed over
  unplaced,      \* UI: agents that only a page has shown, without their project
  paged,         \* history: agents a page took forward within the transaction
  tokens,        \* UI: agents whose page on its way has a valid lifecycle token
  pages,         \* pages fetched so far
  fetches,       \* refreshes started so far
  disconnects    \* sockets lost so far

daemon == <<version, deletedBy, value, seq, head>>
session == <<subscription, bootstrapping, pending, tail, captured, listings>>
paging == <<tokens, pages>>
ui == <<view, cursor, transaction, deltas, satisfied, skipped, unplaced, paged, paging,
        fetches>>
vars == <<version, deletedBy, value, seq, head, subscription, bootstrapping, pending,
          tail, captured, listings, connected, requests, wire, view, cursor,
          transaction, deltas, satisfied, skipped, unplaced, paged, tokens, pages,
          fetches, disconnects>>

Idle == -1
Versions == 0 .. MaxChanges
Changes == SumFunction(version)
Requests == 1 .. MaxFetches
Content == [Agents -> Versions]
Truth(a) == IF deletedBy[a] = "nobody" THEN version[a] ELSE 0
Current == [a \in Agents |-> Truth(a)]

Update == [type : {"update"}, agent : Agents, ver : Versions, seq : 0 .. MaxHead]
Deleted == [type : {"deleted"}, agent : Agents]
Page == [type : {"page"}, agent : Agents, ver : Versions]
Failure == [type : {"error"}, request : Requests]
Answer == [type : {"response"}, request : Requests, mode : {"snapshot", "changes"},
           values : Content, removals : SUBSET Agents, headSeq : 0 .. MaxHead]

TypeOK ==
  /\ version \in Content /\ value \in Content /\ view \in Content
  /\ deletedBy \in [Agents -> {"nobody", "me", "other"}]
  /\ seq \in [Agents -> 0 .. MaxHead]
  /\ head \in 0 .. MaxHead /\ cursor \in 0 .. MaxHead
  /\ subscription \in {0} \cup Requests
  /\ bootstrapping \subseteq Requests
  /\ pending \in Seq(Update) /\ deltas \in Seq(Update)
  /\ tail \in [Agents -> Seq(Versions)]
  /\ captured \in [Agents -> {Idle, 0} \cup Requests]
  /\ listings \subseteq [request : Requests, after : 0 .. MaxHead, list : Content]
  /\ connected \in BOOLEAN /\ satisfied \in BOOLEAN
  /\ requests \in Seq([request : Requests, after : 0 .. MaxHead])
  /\ wire \in Seq(Update \cup Deleted \cup Page \cup Failure \cup Answer)
  /\ transaction \in {0} \cup Requests /\ skipped \subseteq Agents
  /\ unplaced \subseteq Agents /\ paged \subseteq Agents
  /\ tokens \subseteq Agents /\ pages \in 0 .. MaxExtras
  /\ fetches \in 0 .. MaxFetches /\ disconnects \in 0 .. MaxDisconnects

Init ==
  /\ version = [a \in Agents |-> 0]
  /\ deletedBy = [a \in Agents |-> "nobody"]
  /\ value = [a \in Agents |-> 0] /\ seq = [a \in Agents |-> 0] /\ head = 0
  /\ subscription = 0 /\ bootstrapping = {} /\ pending = <<>>
  /\ tail = [a \in Agents |-> <<>>] /\ captured = [a \in Agents |-> Idle]
  /\ listings = {}
  /\ connected = TRUE /\ requests = <<>> /\ wire = <<>>
  /\ view = [a \in Agents |-> 0] /\ cursor = 0 /\ transaction = 0 /\ deltas = <<>>
  /\ satisfied = FALSE /\ skipped = {} /\ fetches = 0 /\ disconnects = 0
  /\ unplaced = {} /\ paged = {} /\ tokens = {} /\ pages = 0

\* Session.emit: without a socket the message goes nowhere.
Emit(messages) == wire' = IF connected THEN wire \o messages ELSE wire

-----------------------------------------------------------------------------
(* The agents and the collection.                                           *)

\* An agent_state event: forwardLiveAgent projects the agent at once and
\* queues the update behind the agent's earlier ones.
AgentChanges(a) ==
  /\ deletedBy[a] = "nobody" /\ Changes < MaxChanges /\ version[a] < MaxChanges
  /\ version' = [version EXCEPT ![a] = @ + 1]
  /\ tail' = [tail EXCEPT ![a] = Append(@, version[a] + 1)]
  /\ UNCHANGED <<deletedBy, value, seq, head, subscription, bootstrapping, pending,
                 captured, listings, connected, requests, wire, ui, disconnects>>

\* The agent is there, to be deleted or opened; the one bound is for both.
Present(a) ==
  /\ deletedBy[a] = "nobody" /\ version[a] > 0
  /\ pages + Cardinality({b \in Agents : deletedBy[b] # "nobody"}) < MaxExtras

\* AgentLifecycleSession.delete in this session: agent_deleted is emitted at
\* once, the removal is queued behind the updates still awaited.
DeleteAgent(a) ==
  /\ Present(a)
  /\ deletedBy' = [deletedBy EXCEPT ![a] = "me"]
  /\ tail' = [tail EXCEPT ![a] = Append(@, 0)]
  /\ Emit(<<[type |-> "deleted", agent |-> a]>>)
  /\ UNCHANGED <<version, value, seq, head, subscription, bootstrapping, pending,
                 captured, listings, connected, requests, ui, disconnects>>

\* The same in another session: nothing is queued in this one.
OtherDeletes(a) ==
  /\ Present(a)
  /\ deletedBy' = [deletedBy EXCEPT ![a] = "other"]
  /\ UNCHANGED <<version, value, seq, head, session, connected, requests, wire, ui,
                 disconnects>>

\* VersionedCollection.replace and remove of one agent; nothing is sequenced
\* when the entry already has that value or is already gone.
Sequence(a, v) ==
  IF value[a] = v
  THEN UNCHANGED <<value, seq, head>>
  ELSE /\ head < MaxHead
       /\ head' = head + 1
       /\ value' = [value EXCEPT ![a] = v]
       /\ seq' = [seq EXCEPT ![a] = head + 1]

\* Another session sequences the agent, perhaps from a listing or a payload
\* that it gathered some time ago.
OtherSequences(a, v) ==
  /\ v <= version[a] /\ v # value[a]
  /\ Sequence(a, v)
  /\ UNCHANGED <<version, deletedBy, session, connected, requests, wire, ui, disconnects>>

-----------------------------------------------------------------------------
(* AgentUpdatesService.                                                     *)

\* Map.set: a later update of an agent takes the place of the earlier one.
Buffer(updates, u) ==
  IF \E i \in DOMAIN updates : updates[i].agent = u.agent
  THEN [i \in DOMAIN updates |-> IF updates[i].agent = u.agent THEN u ELSE updates[i]]
  ELSE Append(updates, u)

\* bufferOrEmit(sub, u).  What a superseded subscription buffers is never
\* flushed.
BufferOrEmit(sub, u) ==
  IF sub \in bootstrapping
  THEN /\ pending' = IF sub = subscription THEN Buffer(pending, u) ELSE pending
       /\ UNCHANGED wire
  ELSE Emit(<<u>>) /\ UNCHANGED pending

\* sequence(...) and bufferOrEmit(...) in one go, for the subscription the job
\* captured; without one nothing is sequenced.
Publish(sub, a, v) ==
  IF sub = 0
  THEN UNCHANGED <<value, seq, head, pending, wire>>
  ELSE /\ Sequence(a, v)
       /\ BufferOrEmit(sub, [type |-> "update", agent |-> a, ver |-> v, seq |-> seq'[a]])

\* emitLiveAgentUpdate up to its first await: the subscription is read.
StartUpdate(a) ==
  /\ tail[a] # <<>> /\ Head(tail[a]) # 0 /\ captured[a] = Idle
  /\ captured' = [captured EXCEPT ![a] = subscription]
  /\ UNCHANGED <<daemon, subscription, bootstrapping, pending, tail, listings,
                 connected, requests, wire, ui, disconnects>>

\* emitLiveAgentUpdate after its awaits.
FinishUpdate(a) ==
  /\ captured[a] # Idle
  /\ Publish(captured[a], a, Head(tail[a]))
  /\ captured' = [captured EXCEPT ![a] = Idle]
  /\ tail' = [tail EXCEPT ![a] = Tail(@)]
  /\ UNCHANGED <<version, deletedBy, subscription, bootstrapping, listings, connected,
                 requests, ui, disconnects>>

\* The job of removeAgent awaits nothing.
RunRemoval(a) ==
  /\ tail[a] # <<>> /\ Head(tail[a]) = 0
  /\ Publish(subscription, a, 0)
  /\ tail' = [tail EXCEPT ![a] = Tail(@)]
  /\ UNCHANGED <<version, deletedBy, subscription, bootstrapping, captured, listings,
                 connected, requests, ui, disconnects>>

-----------------------------------------------------------------------------
(* Session.handleFetchAgents.                                               *)

\* Up to the first await: beginSubscription, then listAgents, which projects
\* the agents as they are now.
FetchAgents ==
  /\ requests # <<>>
  /\ LET r == Head(requests)
     IN /\ subscription' = r.request
        /\ bootstrapping' = bootstrapping \cup {r.request}
        /\ listings' = listings \cup {[request |-> r.request, after |-> r.after,
                                       list |-> Current]}
  /\ pending' = <<>>
  /\ requests' = Tail(requests)
  /\ UNCHANGED <<daemon, tail, captured, connected, wire, ui, disconnects>>

\* replaceAll(list): replaced entries first, then the removed ones.
Touched(list) == {a \in Agents : list[a] # value[a]}
Orders(list) ==
  {f \in [Touched(list) -> (head + 1) .. (head + Cardinality(Touched(list)))] :
     \A a, b \in Touched(list) :
       /\ f[a] = f[b] => a = b
       /\ list[a] # 0 /\ list[b] = 0 => f[a] < f[b]}

AbsorbListing(list, order) ==
  /\ head + Cardinality(Touched(list)) <= MaxHead
  /\ head' = head + Cardinality(Touched(list))
  /\ value' = list
  /\ seq' = [a \in Agents |-> IF a \in Touched(list) THEN order[a] ELSE seq[a]]

\* The answer to a cursor, read from the collection as replaceAll left it.
Response(l) ==
  LET changes == l.after # 0
      fresh(a) == ~changes \/ seq'[a] > l.after
  IN [type |-> "response", request |-> l.request,
      mode |-> IF changes THEN "changes" ELSE "snapshot",
      values |-> [a \in Agents |-> IF fresh(a) THEN value'[a] ELSE 0],
      removals |-> {a \in Agents : changes /\ fresh(a) /\ value'[a] = 0},
      headSeq |-> head']

\* flushBootstrapped: what was buffered follows the answer, save upserts
\* older than the answer's entry.  (This and the loops of the UI below are
\* recursive functions because those can be reasoned about.)
Flushed(resp) ==
  LET kept[i \in 0 .. Len(pending)] ==
        IF i = 0 THEN <<>>
        ELSE IF pending[i].ver = 0 \/ pending[i].ver >= resp.values[pending[i].agent]
             THEN Append(kept[i - 1], pending[i]) ELSE kept[i - 1]
  IN kept[Len(pending)]

\* Mutant: the buffer is forgotten instead of being replayed.
FetchRepliesUnflushed(l, order) ==
  /\ l \in listings
  /\ AbsorbListing(l.list, order)
  /\ Emit(<<Response(l)>>)
  /\ bootstrapping' = IF l.request = subscription
                      THEN bootstrapping \ {l.request} ELSE bootstrapping
  /\ pending' = IF l.request = subscription THEN <<>> ELSE pending
  /\ listings' = listings \ {l}
  /\ UNCHANGED <<version, deletedBy, subscription, tail, captured, connected, requests,
                 ui, disconnects>>

\* After the await: the listing is absorbed and answered, and the updates
\* buffered meanwhile are flushed unless the subscription was superseded.
FetchReplies(l, order) ==
  /\ l \in listings
  /\ AbsorbListing(l.list, order)
  /\ LET mine == l.request = subscription
     IN /\ Emit(<<Response(l)>> \o (IF mine THEN Flushed(Response(l)) ELSE <<>>))
        /\ bootstrapping' = IF mine THEN bootstrapping \ {l.request} ELSE bootstrapping
        /\ pending' = IF mine THEN <<>> ELSE pending
  /\ listings' = listings \ {l}
  /\ UNCHANGED <<version, deletedBy, subscription, tail, captured, connected, requests,
                 ui, disconnects>>

\* The listing throws: clearSubscription and an rpc_error.
FetchFails(l) ==
  /\ l \in listings
  /\ subscription' = IF l.request = subscription THEN 0 ELSE subscription
  /\ pending' = IF l.request = subscription THEN <<>> ELSE pending
  /\ Emit(<<[type |-> "error", request |-> l.request]>>)
  /\ listings' = listings \ {l}
  /\ UNCHANGED <<daemon, bootstrapping, tail, captured, connected, requests, ui,
                 disconnects>>

\* fetchTimeline: the UI captures a lifecycle token of the agent, the session
\* answers with a page and the agent as it is now.  (The token is taken when the
\* page is sent: one that becomes void before then makes the page inert.)
FetchTimeline(a) ==
  /\ connected /\ Present(a)
  /\ \A i \in 1 .. Len(wire) : ~(wire[i].type = "page" /\ wire[i].agent = a)
  /\ Emit(<<[type |-> "page", agent |-> a, ver |-> version[a]]>>)
  /\ tokens' = tokens \cup {a} /\ pages' = pages + 1
  /\ UNCHANGED <<daemon, session, connected, requests, view, cursor, transaction, deltas,
                 satisfied, skipped, unplaced, paged, fetches, disconnects>>

-----------------------------------------------------------------------------
(* The UI: DirectorySync with its transactions and replica.                 *)

\* Mutant: whatever comes last wins.
AcceptAny(content, u) == [content EXCEPT ![u.agent] = u.ver]

\* acceptAgentDirectoryUpdate: an older upsert does not replace a newer one.
Accept(content, u) ==
  [content EXCEPT ![u.agent] = IF u.ver = 0 \/ u.ver >= @ THEN u.ver ELSE @]
AcceptAll(content, updates) ==
  LET after[i \in 0 .. Len(updates)] ==
        IF i = 0 THEN content ELSE Accept(after[i - 1], updates[i])
  IN after[Len(updates)]

Larger(x, y) == IF x < y THEN y ELSE x

\* Mutant: the cursor names the next sequence number instead of the last.
NoteLiveCursorsPast(cur, updates) ==
  LET noted[i \in 0 .. Len(updates)] ==
        IF i = 0 THEN cur ELSE Larger(noted[i - 1], updates[i].seq + 1)
  IN noted[Len(updates)]

\* writeCursor and noteLiveCursor: forwards only.
NoteLiveCursors(cur, updates) ==
  LET noted[i \in 0 .. Len(updates)] ==
        IF i = 0 THEN cur ELSE Larger(noted[i - 1], updates[i].seq)
  IN noted[Len(updates)]

\* refreshAgents: begin() supersedes the current transaction and inherits its
\* updates; the request carries the cursor of this moment.
Refresh ==
  /\ connected /\ fetches < MaxFetches
  /\ fetches' = fetches + 1
  /\ transaction' = fetches + 1
  /\ requests' = Append(requests, [request |-> fetches + 1, after |-> cursor])
  /\ paged' = {}
  /\ UNCHANGED <<daemon, session, connected, wire, view, cursor, deltas, satisfied,
                 skipped, unplaced, paging, disconnects>>

\* An update that is accepted brings the agent's project.
Place(updates) ==
  unplaced' = {a \in unplaced : \A i \in 1 .. Len(updates) :
                 updates[i].agent = a => updates[i].ver # 0 /\ updates[i].ver < view[a]}

\* advance: an agent that joins, leaves or is removed has its token voided.
Advance(updates) ==
  /\ tokens' = {a \in tokens : /\ view[a] = 0 <=> view'[a] = 0
                               /\ \A i \in 1 .. Len(updates) :
                                    updates[i].agent = a => updates[i].ver # 0}
  /\ UNCHANGED pages

\* agent_update: recorded while a transaction is open, applied at once
\* otherwise.
ReceiveUpdate(u) ==
  IF transaction # 0
  THEN /\ deltas' = Append(deltas, u)
       /\ UNCHANGED <<view, cursor, transaction, satisfied, skipped, unplaced, paged, paging>>
  ELSE /\ view' = Accept(view, u)
       /\ cursor' = NoteLiveCursors(cursor, <<u>>)
       /\ skipped' = (skipped \ {u.agent}) \cup
            {a \in Agents \ {u.agent} : /\ seq[a] \in (cursor + 1) .. u.seq
                                       /\ IF a \in unplaced THEN view[a] <= value[a]
                                                           ELSE view[a] < value[a]}
       /\ Place(<<u>>) /\ Advance(<<u>>)
       /\ UNCHANGED <<deltas, transaction, satisfied, paged>>

\* agent_deleted is applied at once, whatever transaction is open.
ReceiveDeleted(m) ==
  /\ view' = [view EXCEPT ![m.agent] = 0]
  /\ unplaced' = unplaced \ {m.agent} /\ tokens' = tokens \ {m.agent}
  /\ UNCHANGED <<cursor, deltas, transaction, satisfied, skipped, paged, pages>>

\* submitTimelineAgent: unless its token is void the agent of a page goes into the
\* replica like an update, whatever transaction is open; it moves no cursor and
\* brings no project.
ReceivePage(m) ==
  /\ tokens' = tokens \ {m.agent}
  /\ IF m.agent \in tokens
     THEN /\ view' = Accept(view, m)
          /\ unplaced' = IF view[m.agent] = 0 THEN unplaced \cup {m.agent} ELSE unplaced
          /\ paged' = IF transaction # 0 /\ m.ver > view[m.agent]
                      THEN paged \cup {m.agent} ELSE paged
     ELSE UNCHANGED <<view, unplaced, paged>>
  /\ UNCHANGED <<cursor, deltas, transaction, satisfied, skipped, pages>>

\* What commitChanges carries over: projectAgentDirectoryEntry has nothing of an
\* agent without a project.
Carried(a) == IF a \in unplaced THEN 0 ELSE view[a]

\* commitChanges and commitSnapshot, then the updates recorded meanwhile.
Committed(m) ==
  [a \in Agents |->
     IF a \in m.removals THEN 0
     ELSE IF m.mode = "changes" /\ m.values[a] = 0 THEN Carried(a) ELSE m.values[a]]

\* The answer of the current transaction completes it.
ReceiveResponse(m) ==
  /\ m.request = transaction
  /\ view' = AcceptAll(Committed(m), deltas)
  /\ cursor' = NoteLiveCursors(Larger(cursor, m.headSeq), deltas)
  /\ transaction' = 0 /\ deltas' = <<>> /\ satisfied' = TRUE
  /\ unplaced' = {} /\ paged' = {} /\ Advance(<<>>)
  /\ UNCHANGED skipped

\* fail() and abort(): the recorded updates are applied, the cursor stays.
ReceiveError(m) ==
  /\ m.request = transaction
  /\ view' = AcceptAll(view, deltas) /\ Place(deltas) /\ Advance(deltas)
  /\ transaction' = 0 /\ deltas' = <<>> /\ paged' = {}
  /\ UNCHANGED <<cursor, satisfied, skipped>>

\* The answer of a superseded transaction is inert.
ReceiveStale(m) ==
  /\ m.request # transaction
  /\ UNCHANGED <<view, cursor, transaction, deltas, satisfied, skipped, unplaced, paged,
                 paging>>

Receive ==
  /\ wire # <<>>
  /\ LET m == Head(wire)
     IN \/ m.type = "update" /\ ReceiveUpdate(m)
        \/ m.type = "deleted" /\ ReceiveDeleted(m)
        \/ m.type = "page" /\ ReceivePage(m)
        \/ m.type = "response" /\ ReceiveResponse(m)
        \/ m.type = "error" /\ ReceiveError(m)
        \/ m.type \in {"response", "error"} /\ ReceiveStale(m)
  /\ wire' = Tail(wire)
  /\ UNCHANGED <<daemon, session, connected, requests, fetches, disconnects>>

-----------------------------------------------------------------------------
(* The socket.  The daemon keeps the session for a grace period: its        *)
(* subscription and its queues go on without a socket.                      *)

\* What is in flight is lost, and the page fetches with it; connectionChanged
\* aborts the transaction.
Disconnect ==
  /\ connected /\ disconnects < MaxDisconnects
  /\ connected' = FALSE /\ disconnects' = disconnects + 1
  /\ requests' = <<>> /\ wire' = <<>>
  /\ view' = AcceptAll(view, deltas) /\ Place(deltas)
  /\ transaction' = 0 /\ deltas' = <<>> /\ satisfied' = FALSE /\ paged' = {}
  /\ tokens' = {}
  /\ UNCHANGED <<daemon, session, cursor, skipped, fetches, pages>>

\* resumeSession: the same session serves the new socket.
Resume ==
  /\ ~connected
  /\ connected' = TRUE
  /\ UNCHANGED <<daemon, session, requests, wire, ui, disconnects>>

\* The grace period is over: cleanupConnection disposes of the session, and
\* the next connection gets a new one.
GraceEnds ==
  /\ ~connected
  /\ connected' = TRUE
  /\ subscription' = 0 /\ bootstrapping' = {} /\ pending' = <<>> /\ listings' = {}
  /\ tail' = [a \in Agents |-> <<>>] /\ captured' = [a \in Agents |-> Idle]
  /\ UNCHANGED <<daemon, requests, wire, ui, disconnects>>

Next ==
  \/ \E a \in Agents :
       \/ AgentChanges(a) \/ DeleteAgent(a) \/ OtherDeletes(a)
       \/ StartUpdate(a) \/ FinishUpdate(a) \/ RunRemoval(a) \/ FetchTimeline(a)
       \/ \E v \in Versions : OtherSequences(a, v)
  \/ FetchAgents
  \/ \E l \in listings : FetchFails(l) \/ \E order \in Orders(l.list) : FetchReplies(l, order)
  \/ Refresh \/ Receive
  \/ Disconnect \/ Resume \/ GraceEnds

Spec == Init /\ [][Next]_vars

-----------------------------------------------------------------------------
(* Properties.                                                              *)

\* Nothing is under way between the agents and the replica, and the session
\* pushes what happens next.
Quiet ==
  /\ connected /\ requests = <<>> /\ wire = <<>> /\ transaction = 0
  /\ subscription # 0 /\ subscription \notin bootstrapping /\ listings = {}
  /\ \A a \in Agents : tail[a] = <<>>

\* However refreshes overlap, fail and supersede one another, listings age,
\* subscriptions are replaced under a running update and sockets are lost, once a
\* refresh has succeeded on the connection an update of a living agent can be
\* missing only because the live update of another agent moved the cursor over it
\* (noteLiveCursor): what the collection sequenced after the cursor always arrives.
LostOnlyBehindCursor ==
  Quiet /\ satisfied => \A a \in Agents :
    deletedBy[a] = "nobody" /\ a \notin skipped => view[a] = Truth(a)

\* An answer gathered before an await, a stale collection entry or a replayed
\* update never takes the replica of a living agent back to an earlier version.
\* Two things may: the commit of a refresh takes back what a page brought while
\* the refresh was under way, and one that merges changes drops an agent that only
\* a page has shown and that a live update's cursor has passed over.
Exposed == paged \cup (skipped \cap unplaced)
NeverBackwards ==
  [][\A a \in Agents :
       deletedBy[a] = "nobody" /\ a \notin Exposed => view'[a] >= view[a]]_vars
=============================================================================
