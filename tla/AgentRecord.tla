------------------------------ MODULE AgentRecord ------------------------------
(***************************************************************************)
(* The stored record of one agent: AgentStorage (agent-storage.ts), the    *)
(* operations of the daemon that write it, and the daemon's stop, crash    *)
(* and start, after which a turn that was cut off is continued             *)
(* (interrupted-turns.ts).                                                 *)
(*                                                                         *)
(* Every change of the record is a mutation in the agent's write queue.  A *)
(* snapshot is projected onto the cached record when its turn comes; an    *)
(* upsert replaces the record by one its caller has read before.  A write  *)
(* reaches the disk atomically and the cache after it.                     *)
(*                                                                         *)
(* What the record holds besides its title, its archive status and the     *)
(* interrupted-turn flag is left out, and so are the two identical writes  *)
(* each state event causes.                                                *)
(***************************************************************************)
EXTENDS Naturals, Sequences, SequencesExt

CONSTANTS
  Titles,        \* titles an agent can have
  MaxQueue,      \* bound on the mutations that wait
  MaxStops       \* bound on the stops that cut a turn off

Kept == "kept"    \* instead of a title: the one in the record

ASSUME RecordAssumption ==
  /\ Titles # {} /\ Kept \notin Titles
  /\ {MaxQueue, MaxStops} \subseteq Nat

VARIABLES
  disk,      \* the record's file
  cache,     \* cache.get(agentId)
  queue,     \* mutations chained on pendingWrites
  writing,   \* what writeRecord is writing
  deleting,  \* the agent is in deleting: nothing is written any more
  removed,   \* remove() has returned
  live,      \* the agent in the manager: not loaded, registered, loaded or closing
  initial,   \* initialPersistedTitle while the agent is being registered
  running,   \* the agent is mid-turn
  lane,      \* the lifecycle mutation that archives the live agent
  restoring, \* records unarchiveSnapshot has read and not yet written
  daemon,    \* "up", "closing" its agents, "marking" or "down"
  cut,       \* the stop found the agent mid-turn
  resumer,   \* where resumeInterruptedAgents is
  title,     \* history: the last title asked for
  shelved,   \* history: archived, and nobody has asked for it since
  stops,     \* history: stops that marked the turn
  stale,     \* history: fields of which a write has brought an earlier value back
  continued  \* history: continuation prompts, counted up to MaxStops + 1

vars == <<disk, cache, queue, writing, deleting, removed, live, initial, running, lane,
          restoring, daemon, cut, resumer, title, shelved, stops, stale,
          continued>>
store == <<disk, cache, writing, deleting, removed>>
history == <<title, shelved, stops, stale, continued>>
process == <<daemon, cut, resumer>>

NoRecord == [title |-> "none"]
Record == [title : Titles, archived : BOOLEAN, flag : BOOLEAN]
Exists == cache # NoRecord
Snapshot(by, name) == [kind |-> "snapshot", by |-> by, title |-> name]
Upsert(by, record) == [kind |-> "upsert", by |-> by, record |-> record]
Flag(by, on) == [kind |-> "flag", by |-> by, on |-> on]
Callers == {"agent", "close", "archive", "shelve", "restore", "rename", "edit", "stop", "resume"}
Mutation ==
  [kind : {"snapshot"}, by : Callers, title : Titles \cup {Kept}]
    \cup [kind : {"upsert"}, by : Callers, record : Record]
    \cup [kind : {"flag"}, by : Callers, on : BOOLEAN]
NoWrite == [by |-> "none", record |-> NoRecord]

TypeOK ==
  /\ disk \in Record \cup {NoRecord} /\ cache \in Record \cup {NoRecord}
  /\ queue \in Seq(Mutation)
  /\ writing \in [by : Callers, record : Record] \cup {NoWrite}
  /\ {deleting, removed, running, cut, shelved} \subseteq BOOLEAN
  /\ stale \subseteq {"title", "archived", "flag"}
  /\ live \in {"absent", "registered", "loaded", "closing"} 
  /\ initial \in Titles \cup {Kept}
  /\ lane \in {"free", "snapshotting", "marking", "closing"}
  /\ restoring \in Record \cup {NoRecord}
  /\ daemon \in {"up", "closing", "marking", "down"}
  /\ resumer \in {"none", "listed", "unresumable", "clearing", "dropping", "prompting"}
  /\ title \in Titles /\ stops \in 0..MaxStops /\ continued \in 0..(MaxStops + 1)

Init ==
  /\ disk \in [title : Titles, archived : {FALSE}, flag : {FALSE}] /\ cache = disk
  /\ queue = <<>> /\ writing = NoWrite
  /\ deleting = FALSE /\ removed = FALSE
  /\ live = "absent" /\ initial = Kept /\ running = FALSE
  /\ lane = "free" /\ restoring = NoRecord
  /\ daemon = "up" /\ cut = FALSE /\ resumer = "none"
  /\ title = disk.title /\ shelved = FALSE
  /\ stops = 0 /\ stale = {} /\ continued = 0

-----------------------------------------------------------------------------
(* The write queue.                                                        *)

Enqueue(mutation) ==
  Len(queue) < MaxQueue /\ queue' = Append(queue, mutation)

\* A call's mutation has not been written yet.
Pending(by) == writing.by = by \/ \E i \in DOMAIN queue : queue[i].by = by
Drained == queue = <<>> /\ writing = NoWrite

\* Mutant: a snapshot forgets the archive status of the stored record.
ProjectForgets(mutation, record) ==
  [title |-> IF mutation.title # Kept THEN mutation.title ELSE record.title,
   archived |-> FALSE, flag |-> FALSE]

\* applySnapshot projects the agent onto what is stored: the archive status
\* survives, the interrupted turn does not.
Project(mutation, record) ==
  [title |-> IF mutation.title # Kept THEN mutation.title ELSE record.title,
   archived |-> record # NoRecord /\ record.archived, flag |-> FALSE]

Mutate(mutation, record) ==
  CASE mutation.kind = "snapshot" -> Project(mutation, record)
    [] mutation.kind = "upsert" -> mutation.record
    [] mutation.kind = "flag" -> [record EXCEPT !.flag = mutation.on]

\* What an upsert of a record that was read before takes back without being
\* asked to.
Asked(by) == CASE by = "rename" -> {"title"}
               [] by \in {"archive", "shelve", "restore"} -> {"archived"}
               [] OTHER -> {}
Undone(mutation) ==
  IF mutation.kind = "upsert" /\ Exists
  THEN {f \in {"title", "archived", "flag"} \ Asked(mutation.by) : mutation.record[f] # cache[f]}
  ELSE {}

\* Mutant: a mutation does not ask whether the record is being deleted.
MutationUnfenced ==
  /\ queue # <<>> /\ writing = NoWrite /\ (Exists \/ Head(queue).kind # "flag")
  /\ queue' = Tail(queue)
  /\ writing' = [by |-> Head(queue).by, record |-> Mutate(Head(queue), cache)]
  /\ stale' = stale \cup Undone(Head(queue))
  /\ UNCHANGED <<disk, cache, deleting, removed, live, initial, running, lane, restoring,
                 process, title, shelved, stops, continued>>

\* The next mutation; after beginDelete none of them does anything, and a
\* flag needs a record.
MutationBegins ==
  /\ queue # <<>> /\ writing = NoWrite
  /\ queue' = Tail(queue)
  /\ IF deleting \/ (~Exists /\ Head(queue).kind = "flag")
     THEN UNCHANGED writing
     ELSE writing' = [by |-> Head(queue).by, record |-> Mutate(Head(queue), cache)]
  /\ stale' = stale \cup Undone(Head(queue))
  /\ UNCHANGED <<disk, cache, deleting, removed, live, initial, running, lane, restoring,
                 process, title, shelved, stops, continued>>

\* writeRecord: the file, then the cache.
writeRecord ==
  /\ writing # NoWrite
  /\ disk' = writing.record /\ cache' = writing.record /\ writing' = NoWrite
  /\ shelved' = (shelved \/ (writing.by \in {"archive", "shelve"} /\ writing.record.archived
                               /\ restoring = NoRecord /\ ~Pending("restore")))
  /\ UNCHANGED <<queue, deleting, removed, live, initial, running, lane, restoring, process,
                 title, stops, stale, continued>>

-----------------------------------------------------------------------------
(* The agent and its user.                                                 *)

\* The manager has the agent; one that is being closed is out already.
InManager == live \in {"registered", "loaded"}

\* Mutant: an agent is loaded whether or not it has a record.
RegisterMissing ==
  /\ daemon = "up" /\ live = "absent" /\ ~Pending("close")
  /\ live' = "registered" /\ initial' = cache.title
  /\ UNCHANGED <<store, queue, running, lane, restoring, process, history>>

\* ensureAgentLoaded waits for a close under way and reads the record; loading
\* registers the agent with the title the record has now.  An archived agent
\* is loaded to show its history.
Register ==
  /\ daemon = "up" /\ live = "absent" /\ ~Pending("close") /\ Exists
  /\ live' = "registered" /\ initial' = cache.title
  /\ UNCHANGED <<store, queue, running, lane, restoring, process, history>>

\* Runtime information has arrived: registerSession persists and publishes.
Registered ==
  /\ live = "registered" /\ live' = "loaded" /\ initial' = Kept
  /\ Enqueue(Snapshot("agent", initial))
  /\ stale' = stale \cup IF initial = title THEN {} ELSE {"title"}
  /\ UNCHANGED <<store, running, lane, restoring, process, title, shelved, stops,
                 continued>>

\* Anything that emits the agent's state, a turn's start and end among them.
\* An archived agent is unarchived before it is prompted.
Prompt ==
  /\ daemon = "up" /\ live = "loaded" /\ Exists /\ ~cache.archived /\ ~running /\ running' = TRUE
  /\ Enqueue(Snapshot("agent", Kept))
  /\ UNCHANGED <<store, live, initial, lane, restoring, process, history>>
TurnEnds ==
  /\ running /\ running' = FALSE
  /\ Enqueue(Snapshot("agent", Kept))
  /\ UNCHANGED <<store, live, initial, lane, restoring, process, history>>

\* updateAgentMetadata waits for its turn in the lifecycle lane.
Rename(name) ==
  /\ daemon = "up" /\ lane = "free" /\ Exists /\ ~deleting /\ name # title
  /\ title' = name
  /\ IF ~InManager
     THEN Enqueue(Upsert("rename", [cache EXCEPT !.title = name]))
     ELSE Enqueue(Snapshot("agent", name))
  /\ UNCHANGED <<store, live, initial, running, lane, restoring, process, shelved, stops,
                 stale, continued>>

\* Attention of an agent that is not loaded: its record is written back.
ClearStoredAttention ==
  /\ daemon = "up" /\ ~InManager /\ Exists /\ ~cache.archived
  /\ Enqueue(Upsert("edit", cache))
  /\ UNCHANGED <<store, live, initial, running, lane, restoring, process, history>>

\* closeAgent: the agent leaves the manager, its session is closed, and then
\* its last snapshot is queued.
Leave == live' = "closing" /\ running' = FALSE /\ initial' = Kept
Close ==
  /\ daemon = "up" /\ InManager /\ Leave
  /\ UNCHANGED <<store, queue, lane, restoring, process, history>>
Closed ==
  /\ live = "closing" /\ live' = "absent"
  /\ Enqueue(Snapshot("close", Kept))
  /\ UNCHANGED <<store, initial, running, lane, restoring, process, history>>

\* archiveAgent of a loaded agent, in the lane: a snapshot, the archived
\* record, close.  A record that is gone is an error.
ArchiveBegins ==
  /\ daemon = "up" /\ InManager /\ lane = "free"
  /\ lane' = "snapshotting" /\ Enqueue(Snapshot("archive", Kept))
  /\ UNCHANGED <<store, live, initial, running, restoring, process, history>>
ArchiveMarks ==
  /\ lane = "snapshotting" /\ ~Pending("archive")
  /\ IF Exists
     THEN lane' = "marking" /\ Enqueue(Upsert("archive", [cache EXCEPT !.archived = TRUE]))
     ELSE lane' = "free" /\ UNCHANGED queue
  /\ UNCHANGED <<store, live, initial, running, restoring, process, history>>
ArchiveCloses ==
  /\ lane = "marking" /\ ~Pending("archive") /\ lane' = "closing"
  /\ IF InManager THEN Leave ELSE UNCHANGED <<live, running, initial>>
  /\ UNCHANGED <<store, queue, restoring, process, history>>
ArchiveEnds ==
  /\ lane = "closing" /\ live # "closing" /\ ~Pending("close") /\ lane' = "free"
  /\ UNCHANGED <<store, queue, live, initial, running, restoring, process, history>>

\* archiveSnapshot of an agent that is not loaded.
ArchiveStored ==
  /\ daemon = "up" /\ ~InManager /\ Exists /\ ~cache.archived
  /\ Enqueue(Upsert("shelve", [cache EXCEPT !.archived = TRUE]))
  /\ UNCHANGED <<store, live, initial, running, lane, restoring, process, history>>

\* unarchiveSnapshot: the record is read, the provider restores its own
\* archive, and the record is written.
UnarchiveReads ==
  /\ daemon = "up" /\ Exists /\ cache.archived /\ restoring = NoRecord
  /\ restoring' = cache /\ shelved' = FALSE
  /\ UNCHANGED <<store, queue, live, initial, running, lane, process, title, stops,
                 stale, continued>>
UnarchiveWrites ==
  /\ restoring # NoRecord /\ restoring' = NoRecord
  /\ Enqueue(Upsert("restore", [restoring EXCEPT !.archived = FALSE]))
  /\ UNCHANGED <<store, live, initial, running, lane, process, history>>

\* delete: the fence comes before the close, whose snapshot it drops.
DeleteBegins ==
  /\ daemon = "up" /\ Exists /\ ~deleting /\ deleting' = TRUE
  /\ IF InManager THEN Leave ELSE UNCHANGED <<live, running, initial>>
  /\ UNCHANGED <<disk, cache, queue, writing, removed, lane, restoring, process,
                 history>>
remove ==
  /\ deleting /\ ~removed /\ live # "closing" /\ Drained
  /\ removed' = TRUE /\ disk' = NoRecord /\ cache' = NoRecord
  /\ UNCHANGED <<queue, writing, deleting, live, initial, running, lane, restoring, process,
                 history>>

-----------------------------------------------------------------------------
(* Stop, crash and start of the daemon.                                    *)

\* Requests are no longer accepted and every agent is closed; what was asked
\* for before goes on.
StopBegins ==
  /\ daemon = "up" /\ stops < MaxStops
  /\ daemon' = "closing" /\ cut' = running
  /\ IF InManager THEN Leave ELSE UNCHANGED <<live, running, initial>>
  /\ UNCHANGED <<store, queue, lane, restoring, resumer, history>>

\* Mutant: the mark does not wait for the close snapshots.
StopMarksEarly ==
  /\ daemon = "closing"
  /\ daemon' = "marking"
  /\ IF cut THEN queue' = <<Flag("stop", TRUE)>> \o queue /\ stops' = stops + 1
     ELSE UNCHANGED <<queue, stops>>
  /\ UNCHANGED <<store, live, initial, running, lane, restoring, cut, resumer, title, shelved,
                 stale, continued>>

\* Close snapshots are rebuilt without the flag: it is set after they land.
StopMarks ==
  /\ daemon = "closing" /\ live # "closing" /\ Drained
  /\ daemon' = "marking"
  /\ IF cut THEN Enqueue(Flag("stop", TRUE)) /\ stops' = stops + 1
     ELSE UNCHANGED <<queue, stops>>
  /\ UNCHANGED <<store, live, initial, running, lane, restoring, cut, resumer, title, shelved,
                 stale, continued>>
StopEnds ==
  /\ daemon = "marking" /\ Drained /\ daemon' = "down"
  /\ live' = "absent" /\ lane' = "free" /\ restoring' = NoRecord
  /\ UNCHANGED <<store, queue, initial, running, cut, resumer, history>>

\* Memory is lost; a write under way is on the disk or is not.
Crash ==
  /\ daemon' = "down" /\ daemon # "down" /\ cut' = FALSE
  /\ disk' \in {disk} \cup IF writing = NoWrite THEN {} ELSE {writing.record}
  /\ queue' = <<>> /\ writing' = NoWrite
  /\ live' = "absent" /\ initial' = Kept
  /\ running' = FALSE /\ lane' = "free" /\ restoring' = NoRecord
  /\ title' = IF disk' = NoRecord THEN title ELSE disk'.title
  /\ shelved' = (shelved /\ disk' # NoRecord /\ disk'.archived)
  /\ UNCHANGED <<cache, deleting, removed, resumer, stops, stale, continued>>

\* The records are loaded and the flagged ones listed; one that is archived
\* or too old is only cleared.
Start ==
  /\ daemon = "down" /\ daemon' = "up" /\ cut' = FALSE
  /\ cache' = disk /\ deleting' = FALSE
  /\ resumer' \in IF disk = NoRecord \/ ~disk.flag THEN {"none"}
                  ELSE IF disk.archived THEN {"unresumable"} ELSE {"listed", "unresumable"}
  /\ title' = IF deleting /\ disk # NoRecord THEN disk.title ELSE title
  /\ UNCHANGED <<disk, queue, writing, removed, live, initial, running, lane, restoring,
                 shelved, stops, stale, continued>>

\* Mutant: the flag stays when the turn is continued.
ResumeClearsLate ==
  /\ daemon = "up" /\ resumer \in {"listed", "unresumable"}
  /\ resumer' = IF resumer = "listed" THEN "clearing" ELSE "dropping"
  /\ UNCHANGED <<store, queue, live, initial, running, lane, restoring, daemon, cut, history>>

\* clearInterruptedTurn; another write may have dropped the flag already.
ResumeClears ==
  /\ daemon = "up" /\ resumer \in {"listed", "unresumable"}
  /\ resumer' = IF resumer = "listed" THEN "clearing" ELSE "dropping"
  /\ IF Exists /\ cache.flag THEN Enqueue(Flag("resume", FALSE)) ELSE UNCHANGED queue
  /\ UNCHANGED <<store, live, initial, running, lane, restoring, daemon, cut, history>>
ResumeCleared ==
  /\ daemon = "up" /\ resumer \in {"clearing", "dropping"} /\ ~Pending("resume")
  /\ resumer' = IF resumer = "clearing" THEN "prompting" ELSE "none"
  /\ UNCHANGED <<store, queue, live, initial, running, lane, restoring, daemon, cut, history>>

\* sendPromptToAgent with the continuation prompt, once the agent is loaded;
\* an archived agent is left alone, a deleted one is an error.
ResumePrompts ==
  /\ daemon = "up" /\ resumer = "prompting" /\ resumer' = "none"
  /\ IF deleting \/ ~Exists \/ cache.archived
     THEN UNCHANGED <<queue, running, continued>>
     ELSE /\ live = "loaded" /\ running' = TRUE
          /\ continued' = IF continued > MaxStops THEN continued ELSE continued + 1
          /\ Enqueue(Snapshot("agent", Kept))
  /\ UNCHANGED <<store, live, initial, lane, restoring, daemon, cut, title, shelved, stops,
                 stale>>

Next ==
  \/ MutationBegins \/ writeRecord
  \/ Register \/ Registered \/ Prompt \/ TurnEnds \/ ClearStoredAttention
  \/ Close \/ Closed
  \/ \E name \in Titles : Rename(name)
  \/ ArchiveBegins \/ ArchiveMarks \/ ArchiveCloses \/ ArchiveEnds \/ ArchiveStored
  \/ UnarchiveReads \/ UnarchiveWrites \/ DeleteBegins \/ remove
  \/ StopBegins \/ StopMarks \/ StopEnds \/ Crash \/ Start
  \/ ResumeClears \/ ResumeCleared \/ ResumePrompts

Spec == Init /\ [][Next]_vars

-----------------------------------------------------------------------------
(* A deleted agent stays deleted: no write that was under way or comes     *)
(* later brings its file back, restarts included.                          *)
StaysDeleted == removed => disk = NoRecord

(* What the user has decided sticks: an archived agent stays archived in   *)
(* the cache and on the disk until somebody asks for it, and the title it  *)
(* was given is kept.  No snapshot of a running, closing or restarted      *)
(* agent commits an earlier status or title, and no crash brings one back. *)
(* The exceptions are an upsert of a record, and for the title also a      *)
(* registration, that has read the field before it was changed.            *)
DecisionsStick ==
  /\ shelved /\ ~removed /\ "archived" \notin stale
       => disk.archived /\ (daemon = "down" \/ cache.archived)
  /\ daemon = "up" /\ Drained /\ Exists /\ ~deleting /\ "title" \notin stale
       => cache.title = title

(* A stop marks the turn it cut off: when it is over, the flag is on disk, *)
(* unless the agent is being deleted or an upsert has written a record     *)
(* that was read before.                                                   *)
StopLeavesFlag == (daemon = "down" /\ cut /\ ~deleting /\ "flag" \notin stale) => disk.flag

(* A turn that was cut off is continued at most once, crashes and further  *)
(* starts included, unless an upsert has written a record that was read    *)
(* before the flag was cleared.                                            *)
ContinuedOnce == "flag" \notin stale => continued <= stops
=============================================================================
