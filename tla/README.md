# A TLA+ model of the frogg daemon

frogg is a daemon that runs AI coding agents on a machine and lets phones,
browsers, a desktop application and a command line prompt and watch them. This
directory holds TLA+ specifications of the parts of the daemon whose correctness
depends on the order in which things happen, the TLC configurations that check
them on small instances, and TLAPS proofs for every instance.

Paths below are relative to `src/`; `server/` stands for
`packages/server/src/server/`.

## 1. Inventory

| Part | State | Operations | Module |
| --- | --- | --- | --- |
| Sequenced directory, `server/directory-sync` | per entity: values and tombstones with sequence numbers, head, expired-through mark; one generation per daemon start | `replace`, `remove`, `replaceAll`, `readSnapshot`, `readAfter`, `synchronize*`, `sequence*Update` | `DirectorySync` |
| Directory replica, `apps/ui/src/runtime/directory-sync` | entries, one cursor per entity, an open refresh transaction and its deltas | refresh, commit of a snapshot or of changes, live delta, agent of a timeline page, cursor note, abort | `DirectorySync`, `DirectoryLive` |
| Agent updates, `server/session/agent-updates`, and `fetch_agents` in `server/session.ts` | subscription, bootstrap buffer, per-agent queues | subscribe, live update, removal, flush | `DirectoryLive` |
| Agent run, `server/agent/agent-run-state.ts` and part of `agent-manager.ts` | tracked run of an agent, foreground and active turn, lifecycle, replacement flag, staged events, steer barrier, event queue, waiters, finalized turns | `streamAgent`, `replaceAgentRun`, `cancelAgentRun`, `steerOrReplaceActiveTurn`, `closeAgent`, the handlers of turn events | `AgentRun` |
| Agent storage, `server/agent/agent-storage.ts`, and the operations that write it | a record per agent on disk and in a cache, a write queue, the delete fence | snapshot, upsert, rename, archive, unarchive, delete, load | `AgentRecord` |
| Interrupted turns, `server/agent/interrupted-turns.ts` | a flag in the record | mark at a stop, continue after the next start | `AgentRecord` |
| Automatic resumption, `server/agent/usage-limit-auto-resume.ts`, with `auto-clean-cut.ts` and `clean-cut.ts` | a timer and an attempt count per agent, what the snapshot shows | schedule, re-arm, fire, cancel, summarise, restart, prompt; reload, close, load and register the agent | `AutoResume` |
| PID lock, `server/pid-lock.ts`, `packages/server/scripts/supervisor-entrypoint.ts` | the file `frogg.pid`: owner, content, age | `acquirePidLock`, `refreshPidLock`, `updatePidLock`, `releasePidLock` | `PidLock` |
| Relay, `packages/relay/src/cloudflare-adapter.ts`, `server/relay-transport.ts` | client, control and data sockets, frames that wait, timers | connect, notify, nudge, reset, forward, flush, reconnect | `Relay` |
| Encrypted channel, `packages/relay/src/encrypted-channel.ts` | handshake state and buffers of both sides | hello, ready, send, flush, attach, close | `E2EEChannel` |
| Agent timeline and stream coalescer | rows with sequence numbers, epoch; buffered deltas, timer | append, fetch a window; handle, flush | - |
| Permissions, `agent-manager.ts` | pending requests, buffered resolutions, responses under way | request, respond, resolve | - |
| Pairing, `pairing-code-store.ts`, `pairing-request-store.ts`, `auth-rate-limit.ts` | codes and requests with deadlines, failure counts | issue, redeem, approve, expire | - |
| Workspaces, terminals, speech, hub, user interfaces, command line | see `PROJECT.json` | | - |

The hard behaviour is the same in most of them. The daemon is a single Node
process, so nothing interleaves inside synchronous code, but every `await` lets
other requests, provider events and timers in; what was read before it may be
stale after it. Providers are external programs that report in their own time,
late, twice, or without saying which turn they mean. Connections drop, and the
two ends of a socket learn of it at different times. The daemon stops, crashes
and restarts. The PID lock is the one place where several processes share state,
through single file system calls and nothing else.

What makes the parts correct:

- **Directory**: a client that reads only what changed has, after every read,
  what a client that reads everything has; live updates between and during reads
  neither lose an agent's last state nor take it back, save in the two ways that
  section 5 names.
- **Agent run**: the agent, its tracked run and the streams that clients consume
  agree on which turn is running; a turn ends for a reason; every cancellation
  gets its answer and every stream its end.
- **Record**: what the user decided (deleted, archived, renamed) survives every
  write that was under way, and restarts; a turn that a stop cut off is marked,
  and continued once.
- **Resumption**: what the snapshot shows is what is queued, as soon as the agent
  has emitted a state; a queued resume is
  not forgotten; refusals come to an end.
- **PID lock**: one daemon per home; a crash never keeps the next daemon out; a
  daemon that lost its lock stops.
- **Relay and channel**: a client that stays is served; one that left is not
  served again; frames arrive in order and without gaps; no handshake waits for
  ever.

`PROJECT.json` lists the hazards, each at the line where it bites, with the
properties that cover it.

## 2. Modules

| Module | What it is |
| --- | --- |
| `DirectorySync` | the sequenced directory and the replicas that read it |
| `DirectoryMirror` | what it promises: reading changes is like being sent a full copy |
| `DirectoryLive` | one client session's subscription, listings and socket, and the UI replica behind them |
| `AgentRun` | the run of one agent: callers, manager, provider |
| `AgentRecord` | the stored record of one agent, what writes it, stop, crash and start |
| `AutoResume` | the queued resume of one agent |
| `PidLock` | supervisors and the lock file |
| `Relay` | the relay, the daemon's end of it and the clients |
| `E2EEChannel` | a client's and a daemon's encrypted channel over one relay connection |
| `MC*` | symmetry sets for TLC, and the entry points of the runs |
| `*Proofs` | theorems: `DirectorySyncProofs`, `DirectoryLiveProofs`, `AgentRunProofs`, `AgentRecordProofs`, `AutoResumeProofs`, `PidLockProofs`, `RelayProofs`, `E2EEChannelProofs` |

The modules are independent of each other except that `DirectorySync` implements
`DirectoryMirror`. Where two models meet, one takes the other's promise:
`DirectoryLive` answers reads the way `DirectorySync` does; `E2EEChannel` takes
the relay as a connection that drops the oldest frames until the daemon attaches
and may have its data socket replaced; `AutoResume` and `AgentRecord` keep of a
run only whether there is one.

Definitions marked "Mutant", such as `ReplaceKeepsTombstone` or `TrimmedLate`, are
broken variants of the definition that follows them. Nothing uses them; put in
place of the original, each makes TLC report the property that `PROJECT.json`
lists with it.

### DirectorySync

One `VersionedCollection`. Its two maps are the functions `value`, `valueSeq` and
`tombstone` over the ids; 0 and `None` mean "no entry". `Replace` and `Remove` are
the calls behind `sequence*Update`; `Synchronize` is `synchronize*`: it absorbs a
listing (`replaceAll`) and answers from the result in one step, as the code does
between two awaits. Which listed entry comes first is left open (`Orders`), with
removals after replacements as in the code. Trimming once at the end of a listing
gives what trimming after each removal gives, because it always takes the oldest.
A fingerprint stands for the projection, so "same fingerprint" is equality.

A reader has a replica, a cursor and at most one answer on its way. `Commit` is
the completion of a refresh: clear unless the answer lists changes, set, delete,
then move the cursor, never backwards within a generation. `Lose` is a dropped
connection or a superseded refresh, `Restart` a new daemon with an empty
collection and a new generation, which the clients' replicas and cursors survive.

Callers are left open: any value may be replaced, removed or listed at any time.
Live updates are the subject of `DirectoryLive`.

### DirectoryLive

What happens around a read. An agent's state is its version (its `updatedAt`); 0
is "no such agent" and, in an update, a removal. `AgentChanges` is an `agent_state`
event: the agent is projected at once and the update queued behind the agent's
earlier ones (`tail`). `StartUpdate` and `FinishUpdate` are `emitLiveAgentUpdate`
before and after its awaits: the subscription is read in the first (`captured`)
and published to in the second. `FetchAgents` and `FetchReplies` are the two halves
of `handleFetchAgents`: subscribe and list; then absorb the listing, answer, and
flush what was buffered meanwhile unless the subscription was superseded. The
other sessions of the daemon sequence updates in the same collection
(`OtherSequences`) and delete agents (`OtherDeletes`).

On the UI's side `Refresh` opens a transaction that supersedes the one before and
inherits its updates; `Receive` handles an update (recorded while a transaction is
open, else applied, moving the cursor), a deletion, an answer or an error, of the
current or of a superseded request. `Disconnect` loses what is on the wire; the
session lives on (`Resume`) or is disposed of (`GraceEnds`).

A fourth writer of the replica is the page of an agent's timeline: `FetchTimeline`
is `fetchTimeline` with the session's answer, `ReceivePage` is `submitTimelineAgent`.
The agent of a page goes in whatever transaction is open, if it is no older than
what is there and its lifecycle token has not been voided since it was taken
(`tokens`, voided by `Advance`, by a deletion and by a lost socket). It moves no cursor, and
it brings no project: an agent that only a page has shown is `unplaced`, and the
commit of a "changes" answer, which projects the agents it carries over, has nothing
of it (`Carried`). The commits themselves (`Committed`) compare nothing: what the
answer says of an agent replaces what is there. `paged` records the agents that a
page took forward since the transaction was opened; the two together are
`Exposed`, the exceptions of `NeverBackwards`.

Left out:

- filters of the subscription (every agent matches), updates of agents that are
  only stored, trimming and restarts (in `DirectorySync`), daemons that know no
  sequence numbers;
- in `emitLiveAgentUpdate`, a projection that throws (`agent-updates-service.ts:372`;
  the job is skipped) and an agent without a project, which is sent as a removal (`:322`);
- more than one page of an agent on the wire: identical fetches share one request
  (`apps/ui/src/timeline/fetch-agent-timeline-once.ts`), fetches of other windows do not;
- other writers of the replica. Like a page, an agent that was fetched alone
  (`storeFetchedAgentDetail`, `apps/ui/src/panels/agent-panel.tsx:298`), the reply to the
  creation of an agent (`:416` there, and
  `apps/ui/src/components/workspace-setup-dialog.tsx:296`) and the store's `setAgents`
  (`apps/ui/src/contexts/session-context.tsx:251`) put an agent in; archiving
  (`agent_archived`, and the optimistic write and its undoing in
  `apps/ui/src/hooks/use-archive-agent.ts:251` and `:328`) changes a field that
  versions do not show; the disk cache fills the replica before the first refresh.
  `NeverBackwards` says nothing of what these write.

### AgentRun

One agent. `agent` holds the fields of the managed agent that runs change, `run`
is the entry in `AgentRunState.runs`, `staged`, `barrier` and `queue` are the three
places where an event can wait (behind a start that is pending, behind a steer
that is being decided, and in the per-agent chain of `enqueueSessionEvent`). Each
caller is an RPC that prompts, cancels, replaces or steers; `call` says where it
is. `mutator` is whose turn it is in `runForegroundMutation`; `target` is the
settled promise of the run that the running cancellation captured. The provider
is modelled by what `AgentSession` may do: start turns that were or were not asked
for, announce them, end them once or repeatedly, answer `startTurn`, `interrupt`
and `steer` late, in any way.

An action is what the code does between two awaits that can really be delayed.
`handleStreamEvent` is one step, because the only thing it awaits is the durable
timeline store and the daemon configures none. For the same reason the event
queue is a chain of microtasks; Node runs those to the end before it takes the
next timer or request, so timers and requests are guarded by `Drained`.
Completions of provider calls are not, which allows more interleavings than Node.

Left out: pending permissions, timeline contents, emitted state, usage, the limit
of 50 remembered finalized turns, and reload or resume of a closed agent (a closed
agent stays closed). A session that acknowledges an interrupt is taken to have
announced the turn it stops (`Interrupted`): one that announced it only after the
forced cancellation would make that turn active again.

`Untagged` says whether the provider reports autonomous turns without turn ids.
The Codex session does when it has no foreground turn of its own
(`server/agent/providers/codex-app-server-agent.ts:5134`), and
`attachManagedTurnIdentity` then credits the event to whatever turn is active.

### AgentRecord

One agent's record: title, archive status and the interrupted-turn flag, on disk
and in the cache. Every change is a mutation in the record's write queue. A
snapshot is projected onto the cached record when its turn comes (`Project`: the
archive status survives, the flag does not, the title is kept unless the caller
gives one); an upsert replaces the record by one that its caller has read before;
a flag needs a record. `MutationBegins` and `writeRecord` are the two halves of a
mutation, because the file is written before the cache.

The operations around it are those that queue mutations: loading and registering
an agent, turns, renaming, clearing the attention of a stored agent, archiving
(loaded: a snapshot, the archived record and the close, in the lifecycle lane;
stored: one upsert), restoring, closing, deleting (fence, close, removal). A stop
closes every agent, waits for the close snapshots, and marks the turns it cut
off; a crash loses memory and either has or has not written what was being
written; a start loads the file, and continues a marked turn after clearing the
mark. `stale` records the fields that an upsert of an older read brought back; it
names the exceptions in the properties.

Left out: writes that fail (the record stays as it was, and the error goes to the
caller or to the log), the other fields of a record, the second of two identical writes that
each state event causes, the index by execution, moved files, and children.

### AutoResume

One agent. `published` is what its snapshot shows, `timer` the entry in `pending`,
`ending` the terminal events whose `detect()` has not returned: detection awaits
nothing external, so only provider events come in between, timers and requests do
not (`Examined`). `schedule` keeps a queued resume that knows its reset, counts the
attempt, or gives up. Every state the manager emits for an agent that is closed or
shows nothing queued drops the timer (`StateHeard`).

When the timer `fire`s, a resume is on its own unless the agent is closed or
its lifecycle is "running". That lifecycle is not the same as having a turn: while
`startTurn` is awaited it is still "idle", and it is "initializing" during a
registration, so a resume is sent in both cases. It may overlap the next one
(`resume`): it may have the conversation summarised, restart the session
(`CutRestarts`, `CutEnds`), and then prompts. A prompt that finds a turn goes through
`replaceAgentRun`, which makes the agent "running", emits that state, and waits for the
turn to end (`StartRun`, `ReplacedEnds`).

`agent` says whether the agent is in the manager's map. Three things take it out
and bring a new one in: a reload, a transfer to another account and a clean cut made
by the user, all through `reloadAgentSession` (`Reload`); the clean cut of a resume
(`CutRestarts`); and a close followed by a load. What the old agent showed is not
carried over. The new one is `Load`ed or put back (`ReloadEnds`) as "inserted", shows
nothing, and emits its first state only after an await (`Announce`), which drops the
timer; then its session is listened to (`Ready`). In between, the timer of the
predecessor may fire, prompts may come and a turn may fail to start.

Prompts of the user, autonomous turns, the cancel RPC, the setting, reload, close and
archival come in anywhere. Time is abstracted to whether the reset a provider
told is still ahead.

Left out: `dispose` when the daemon stops; a snapshot write that fails during a
registration; an agent left "running" without a turn (`AgentRun`, section 5); an
archived agent that is loaded only for its history; states that other operations
emit between the insertion and the registration's own, which only drop the timer
earlier; steering a turn that runs, which changes nothing here.

### PidLock

Each process starts once; a restart is another process. A lock file is named by
the process that wrote it, `path` says which one `frogg.pid` names, `empty` which are
truncated, `fresh` which have a recent modification time. Every file system call
that another process can observe or disturb is a step, and a process can die
between any two. Assumed of time: a live process that rewrites its lock does so
within the 450 ms in which readers retry, and the PID of a dead owner is not taken
by another program. Left out: an owner that acquires its own lock again and a lock
of another brand; neither changes the file's owner.

### Relay

Protocol v2. A socket has two ends: `relay` is where the relay's end is, `daemon`
where the daemon's is, and they learn of a close separately; a control socket may
also go silent (`cut`), which the daemon notices by its missing pongs. The relay
tells the control socket of clients (`notifyControls`), nudges it with a full list
and then closes it when a client remains without a data socket (`NudgeControl`,
`ResetControl`). The daemon opens a data socket for each client it hears of
(`ensureClientDataSockets`) and closes it when told that the client left
(`Farewell`). `RelayAcceptsData` includes `flushFrames`, also when one of its sends
throws. External: the platform keeps a socket it was asked to close in its list
until the peer has answered, and a send to it throws.

Left out: protocol v1, frames from the daemon to the client (forwarded without
state), stopping the transport, and hibernation of the Durable Object, which keeps the
sockets but loses the frames in `pendingFrames`.

### E2EEChannel

The client's side sends hello on a timer until it hears ready, keeps what the
application sends before that (`pending`, bounded) and flushes it one await at a
time (`FlushNext`), while new sends go straight out (`SendNow`). The daemon's side
answers hello; what arrives while that answer is being sent is `buffered`, and what
arrives until the session is attached is `held`. `Replace` is a second data socket
for the same client: the new channel knows nothing of the handshake, so the
client's next frame fails it or restarts it, and the relay closes the client. Keys
and nonces are not modelled: a sealed frame is one the peer can open.

Left out: a client that presents another key, and the negotiation of binary frames.

## 3. Runs

| Run | Instance | Shows |
| --- | --- | --- |
| `directory` | 3 ids, 2 values, 1 reader, 1 tombstone kept, 4 sequence numbers, 2 daemon starts | the collection is consistent, the tombstone limit holds inside a listing, a replica reflects its cursor, the mirror is implemented |
| `live` | 2 agents, 2 changes, 3 sequence numbers, 2 refreshes, 1 deletion or timeline page, 1 lost socket | once quiet, only what a cursor jumped over is missing from the replica; nothing goes backwards but what a page brought |
| `run_bookkeeping` | 2 callers, 2 turns, 1 waiting event, untagged events | agent and tracked run agree, also when events name no turn |
| `run_live` | 2 callers, 2 turns, 1 waiting event, fairness | no stream loses its run, turns end for a cause, cancellations are answered, streams end |
| `record` | 2 titles, 1 mutation waiting and 1 being written, 1 stop, any number of crashes | deleted stays deleted, archived archived, the title kept; a stop leaves its mark, a turn is continued once |
| `resume` | 2 attempts, 3 ends under examination, 2 resumes at once, 2 silent ends, 14 refusals in a row, fairness | snapshot and timer agree once a state was emitted, nothing is queued when off, refusals end, a queued resume is not forgotten |
| `pid_serial` | 4 processes, one start at a time | exclusion, and a lone start never fails |
| `pid_race` | 3 processes, 2 of them from the desktop, all starting at once, fairness | a start fails only when contended, starts end, ousted holders stop |
| `relay` | 1 client, buffer of 2, 3 frames, 2 silent cuts, 6 data sockets, 1 failure, fairness | frames without gaps, a farewell is final, a client that stays is served |
| `channel` | buffers of 2, 4 messages each way, 3 hellos in flight, fairness | order, nothing lost, the handshake ends |
| `run_idle`, `pid_exclusion` | see section 5 | disagreements with tests and documents |

Bounds. Three ids and one tombstone let one listing remove two entries, trim one
of them and still leave a third to compare with; two generations are enough for a
cursor to outlive a restart; one reader is enough because readers do not influence
each other. For `live`, two refreshes give a superseded one with a listing that is
still awaited, two changes an update that overtakes a listing or meets another
agent's, and three sequence numbers let another session sequence in between; one
page suffices to take an agent forward while a refresh is under way, or to show one
that no refresh has shown. Each of the two exceptions of `NeverBackwards` is needed:
without either, TLC finds a replica that goes backwards in this instance. Two
callers let a replacement meet another client's cancellation. Two records at once
on their way to the disk give every order of two writers; more only repeat it. Two
resumes overlap when one summarises while the next is queued; three ends let a
refusal be followed by a served turn before either is examined; fourteen refusals are
one more than `GivesUp` allows, so the bound on them hides nothing. Four processes
that start one after the other give a lock that was written, truncated, abandoned
and taken over. Three frames overflow a relay buffer of two; a control socket that
is cut twice meets the nudge and the reset; four messages overflow a pending
buffer of two and leave one to overtake the flush. Clients of the relay share only
the control socket; two of them without frames were checked by hand in addition,
with the same result. All bounds are in the guards and named in the constants.

Deadlock is checked for the directory, where a listing that changes nothing can
always be read. It is not in the other runs: a closed agent, a process that ended,
a session whose requests are used up and a closed channel stay so.

Fairness. All of it is weak unless said otherwise.

- `AgentRun`: the queue is served and a stream that heard its terminal returns (both
  are microtasks), timers fire, the chain of mutations is served in order (strong,
  per caller, as the chain is first come first served), and a provider answers a
  steer. Nothing is assumed of when a provider ends a turn or returns from
  `startTurn`, and nothing of what callers ask for.
- `AutoResume`: a turn's end is examined, timers fire, the awaited summary, restart
  and prompt return, closes, reloads and registrations end. Nothing makes a turn start
  or end. Ends of background work
  that reported no start are bounded (`MaxSilent`), because each may be one more
  refusal that postpones the queued resume.
- `PidLock`: file system calls return, the heartbeat timer fires, and a start which
  retries while the owner rewrites the lock now and then finds it whole.
- `Relay`: the daemon reconnects, connections that are tried succeed or fail, notices
  that arrive are handled, timers fire and a closed data socket is noticed. Nothing
  makes a client come, stay or go.
- `E2EEChannel`: the retry timer fires, frames arrive, sends complete, the daemon
  attaches, and the relay closes the client of a data socket that is gone.

## 4. Proofs

Every safety property that a run checks is proved, for every value of the constants
that satisfies the named assumptions (`ASSUME`) of its module. These only say that
bounds are natural numbers, that limits are not zero, that what is counted is finite
and that special values are not ordinary ones; three theorems (`StreamsNotLeftBehind`, `TurnsEndForCause`, `SerialExclusion`) add
assumptions of their own, named below.

**DirectorySyncProofs** (`TypeCorrect`, `CollectionCorrect`, `TombstonesStayBounded`,
`ReplicaCorrect`, `MirrorImplemented`). `CollectionOK` is inductive with `TypeOK`;
what it needs is arithmetic on the order in which a listing's calls take sequence
numbers, and that trimming keeps the youngest tombstones, so whatever was trimmed
is older than whatever is left. The bound on tombstones counts: a tombstone is kept
only if fewer than `MaxTombstones` are younger, so the oldest one kept has at most
`MaxTombstones - 1` others beside it (`TrimBounds`). `ReplicaReflectsCursor` says of
a replica *and* of the answer on its way that they hold every change up to their
sequence number. The second half is needed because between read and commit the
collection moves on and may trim. The central lemma is that applying the changes
after a cursor to content that reflects that cursor gives the collection's
content. The refinement maps an answer to the content it will produce and follows
step by step.

**DirectoryLiveProofs** (`TypeCorrect`, `NeverGoesBack`, `LostOnlyBehind`). The two
properties are about what the replica shows; the invariant is about everything that
may still change it. `NeverGoesBack` holds of every agent that is not `Exposed`. The
invariant's parts:

- `Queues`: the queue of a living agent ends with the agent's version, so the last
  job publishes the newest state;
- `Known`, `Told`: whatever is listed, buffered, recorded or on the wire is a version
  the agent has had, with a sequence number that was given;
- `Served`: refreshes are served in the order of their numbers and the last one
  decides about the subscription, so an answer to the open transaction finds the
  subscription that was made for it;
- `Frozen`: while a refresh is under way the replica is at most as far as the answer,
  which is why an answer gathered before an await takes nothing back; agents that a
  page took forward meanwhile (`paged`) are excepted;
- `Apart`: an agent that only a page has shown is ahead of its entry once the cursor
  has passed it, so a "changes" answer that does not bring it would drop it; the
  answer of the refresh under way does bring it, unless a page showed it after the
  listing was made;
- `Passed`, `Buffered`, `Sent`: what the cursor has passed is in the replica or
  skipped, and stays so with every update and answer on its way;
- `Covered`: where the newest version of each living agent is: still to be published,
  or listed, answered or settled in the replica (`Placed`).

`LostOnlyBehind` is `Covered` when nothing is under way. What the three loops of the
code compute (flush of the buffer, replay of the recorded updates, move of the
cursor) is shown by least-element induction over the recursive functions that model
them.

**AgentRunProofs** (`TypeCorrect`, `ForegroundTracked`, `RunningTracked`,
`StreamsNotLeftBehind`, `TurnsEndForCause`). The inductive invariant adds who owns the
tracked run: a pending run belongs to a caller that is starting, a started one to a
stream of the same turn that has not heard its end, and a cancellation that still
waits has captured the run that is tracked now. Without the owner, a start that
returns after its run was dropped could not be told from one that still counts. The
proof has one lemma per action. The last two theorems assume that events name their
turns (`~Untagged`); their strengthening is that every terminal on its way, wherever
it waits, names a turn the provider has ended. The assumption is needed: with
untagged events TLC finds a run in which an autonomous turn's end is credited to the
foreground turn.

**AgentRecordProofs** (`TypeCorrect`, `DeletedStaysDeleted`, `DecisionsHold`,
`StopMarksTurn`, `TurnContinuedOnce`). The fence of a deletion is kept in memory only.
While it is up, no mutation writes; after a restart it is gone, and the argument is
that nothing is left that could write: a stop ends with the queue drained, a crash
empties it, and every operation that begins afterwards needs the record it would
change. The invariant therefore says what is left in a daemon that is down, and that
a removed record is either fenced or has nothing waiting. For the user's decisions
it says what the mutation being written and those behind it will leave: the last
mutation that gives a title gives the one that was asked for (`TitleComing`), and
nothing under way restores an archived agent (`ShelvedStays`), unless an edit was based
on a stale read. For the mark of a stop: a turn that was cut off is marked on disk, in
the record being written or by a mutation that waits (`MarkComing`), and a mark that
somebody may still act on stands for a stop that was not continued yet
(`FlagsCounted`). Both use that a running daemon's cache is what is on disk
(`CacheIsDisk`) and what can still be in the queue during a stop (`QueueShape`).

**AutoResumeProofs** (`TypeCorrect`, `SnapshotAgrees`, `NothingQueuedWhenOff`,
`RefusalsEnd`). The first properties are inductive together with the types. What
carries them is that `schedule` does nothing for an agent that is not loaded, that an
agent which leaves the map takes along what it showed, and that the timer it leaves
behind is dropped by the first state of its successor: until then `PublishedIffQueued`
asks nothing of the timer. `RefusalsEnd` keeps an account of a streak. Another resume
can follow a refusal only from one of its *chances*: a resume on its way, the timer, a
resumed turn, the turn that has to make way for it, or an end under examination. No
step within a streak adds a chance; an examination uses its own up or passes it to the
timer and counts an attempt, and starting the count over uses one up. So
`streak + Chances * (MaxAttempts + 1) - attempts` does not grow, apart from the refusal
under examination, which is added and taken off again (`Counted`). There are never more
chances than resumes that can be on their way and two turns, which gives the bound.
The bound is not claimed to be tight; in the instance of `resume` the longest streak is 11, the
bound 13.

**PidLockProofs** (`TypeCorrect`, `LoneStartSucceeds`, `SerialExclusion`). A start that
shares its time with no live process meets no live owner and nothing is published
behind its back. For exclusion, with starts that do not overlap and no desktop
reclaiming (`MaxStarters = 1`, `Desktop = {}`): the holder is the process that `frogg.pid` names, and the only start
under way unlinks nothing but what a dead process left. `pid_exclusion` shows that
the first assumption is needed.

**RelayProofs** (`TypeCorrect`, `FarewellsHold`, `FramesWithoutGap`). A client that left
is not served again because notices are ordered: one that says a client left is true,
and none behind it on the same socket names that client as present (`NoticesOrdered`);
once the farewell was handled, nothing on the current control socket asks for the
client (`FarewellsFinal`). Frames have no gaps because what waits at the relay and
what a data socket received are runs of consecutive numbers, which end with the last
frame sent while the socket is being served (`FramesRun`); overflow drops at the front
and leaves a run. The bound on control sockets in `TypeOK` counts them: each but the
current one was cut off or reset by a timer that cannot fire again (`ControlsCounted`).

**E2EEChannelProofs** (`TypeCorrect`, `OnlyFlushOvertakes`, `OpenChannelLosesNothing`).
`Places` and `Sides` say where messages can be in each state of the two channels,
`OnceAsked` that nothing is anywhere that was not sent, `OneAfterTheOther` that what is
further on its way was sent earlier, within each place and between them, except for
the sends that went out during a flush, and `Conserved` that on a channel which kept
its data socket every message that was not evicted is somewhere. `Answered` is the
other direction: the client has heard a prefix, the rest is on its way in order. The
loop over `bufferedMessages` is one step of the model; what it leaves is shown by
least-element induction.

Only model-checked are the liveness properties `CancelAnswered`, `StreamFinishes`,
`OustedHolderStops`, `StartEnds`, `StayingClientServed`, `HandshakeEnds` and
`NotForgotten`: they need fairness and `ENABLED`, which the prover does not handle.

## 5. Disagreements found

Two have a run of their own, because a test or a document states what the run
refutes:

- **A cancelled replacement can leave the agent running** (`run_idle`,
  `server/agent/agent-manager.ts:3110`). A replacement has asked the provider for its
  turn; a user cancels; the session acknowledges, but the start does not come back
  in time. The pending run is dropped, and because `pendingReplacement` is still
  raised the lifecycle is left alone. The start fails later without lowering the
  flag. Nothing is tracked, `hasInFlightRun` stays true, and further cancellations do
  not lower the flag either; the next prompt does. The test at
  `agent-manager.test.ts:7280` expects an idle agent after such a cancellation, for a
  run that replaces nothing.
- **Two daemons can hold the lock** (`pid_exclusion`, `server/pid-lock.ts:201` and `:147`).
  A start that read no lock looks once more whether the file exists and deletes it
  as unreadable if it does, although another daemon may have published it between
  the two looks; in the same way a start that judged an owner dead deletes the lock
  of a third one. The incident report says that exactly one daemon wins.
  `OustedHolderStops` bounds the damage: the daemon whose file was deleted stops at
  its next heartbeat.

The others are behaviours that a reader of the code may not expect. Each is in the
model; where a property would fail because of it, the property names the exception.

- A crash while `updatePidLock` rewrites the lock leaves it empty
  (`server/pid-lock.ts:344`); `FailsOnlyWhenContended` shows that the next start gets
  past it.
- A deletion in another session is not pushed
  (`server/session/agent-lifecycle/agent-lifecycle-session.ts:78`); the replica keeps
  the agent until its next refresh. `LostOnlyBehindCursor` speaks of living agents only.
- The commit of a refresh compares no versions. What a page of a timeline brought
  while the refresh was under way (`apps/ui/src/runtime/directory-sync/agent-replica.ts:110`)
  is taken back by an answer whose listing was made earlier (`:151`), until the live update of the
  same change arrives; `paged` in `NeverBackwards`.
- A commit of changes carries over only agents that have a project (`:189`), so it drops
  an agent that only a page has shown. Normally the answer brings it, but not when a
  live update of another agent has moved the cursor past it; `skipped` and `unplaced`
  together in `NeverBackwards`.
- A session's own deletion can be undone in its replica: the removal buffered for a
  superseded subscription is dropped, while the updates that the superseded refresh
  recorded are inherited and applied after the new answer (`server/session/agent-updates/agent-updates-service.ts:195`,
  `apps/ui/src/runtime/directory-sync/transaction.ts:35`).
- A live update moves the cursor to its own sequence number although earlier
  changes of other agents may not have been seen; the next refresh then does not
  ask for them (`apps/ui/src/runtime/directory-sync/index.ts:775`; `skipped` in
  `LostOnlyBehindCursor`). This needs no lost socket: an answer that lists a change is
  superseded by a second refresh, the second one fails and clears the subscription, a
  job that had captured the first subscription publishes another agent's update,
  which moves the cursor, and a third refresh asks only for what came after.
- The relay accepts a data socket whose client has left; it stays when the notice
  that the client left, which is sent once, was lost (`packages/relay/src/cloudflare-adapter.ts:538`).
- A flush whose send throws puts that frame back and loses the ones behind it
  (`packages/relay/src/cloudflare-adapter.ts:270`; `unflushed` in `FramesContiguous`).
- A message sent while the sends that waited for the handshake are flushed overtakes
  them (`packages/relay/src/encrypted-channel.ts:498`; `hasty` in
  `OnlyFlushIsOvertaken`).
- A known reset is forgotten when the turn that is refused again reported its start:
  `turn_started` has cancelled the queued resume by then, so there is none to keep
  (`server/agent/usage-limit-auto-resume.ts:208`, beside the comment at `:104`).
- A reload, an account transfer and a clean cut made by the user drop a queued resume
  without a word: the new agent shows none, and its first state drops the timer
  (`server/agent/agent-manager.ts:1572`). The comment at
  `server/agent/usage-limit-auto-resume.ts:55` names the cancel RPC and the user sending
  anything as what drops it. `NotForgotten` counts it as dropped with its session.
- Between an agent's insertion and its first state (`server/agent/agent-manager.ts:3540`,
  `:3551`) the timer of its predecessor is pending and nothing shows it; it may even fire.
  `PublishedIffQueued` excepts that window.
- A resume may be sent while a turn is starting, because the lifecycle is still "idle"
  then (`server/agent/usage-limit-auto-resume.ts:150`); each one that overlaps another can
  count its own attempts, hence the bound of `GivesUp`.
- A clean cut cancels a turn that was started while it wrote its summary
  (`server/agent/clean-cut.ts:467`), and the resume that follows replaces a turn of the
  user (`server/bootstrap.ts:1692`).
- A stored edit that has read the record before it was archived un-archives it
  (`server/session.ts:6900`, `server/agent/agent-manager.ts:2130`), and a registration
  that has read the title before a rename undoes the rename
  (`server/agent/agent-manager.ts:3517`); `stale` in `DecisionsStick`.

## 6. Plan

1. `AgentTimeline` and `StreamCoalescer`: append, windows by cursor, flush order;
   promise: what a client pieces together from windows and live rows has no gap and
   no duplicate.
2. `Permissions` as an extension of `AgentRun`: a response races a resolution, a
   cancellation and the end of the turn.
3. `Pairing`: codes and requests with deadlines, at most one use.
4. `Supervisor` restarts (back-off, lifecycle intents) and port allocation.
5. Proofs: refinement of an abstract specification by `DirectoryLive` (a replica that
   is sent versions in order) and by `AgentRecord` (a record that changes atomically);
   the action properties that the inductive invariants already imply, such as a
   cursor that never moves back.

Not modelled, and not planned: rendering and stores of the user interfaces, input
and output of git, terminals, files and speech, message schemas and their generated
validators, the providers' own protocols, the hub, the Rust port, packaging. Most of
the repository's lines are of these kinds: third-party or generated code, text in
several languages, drawing, and calls of external programs. They hold no state that
several actors change in an order worth exploring, or, as with the providers, they
are in the models only as what `AgentSession` may do.
