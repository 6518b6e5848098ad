-------------------------- MODULE AgentRecordProofs --------------------------
(***************************************************************************)
(* Proofs about the stored record of an agent, for any titles, any length  *)
(* of the write queue and any number of stops and crashes: its variables   *)
(* keep their types, a deleted agent stays deleted, an archived one        *)
(* archived, the title asked for last is kept, a stop leaves the mark of   *)
(* the turn it cut off, and a turn is continued at most once.              *)
(*                                                                         *)
(* The fence that beginDelete raises is kept in memory only.  While it is  *)
(* up no mutation writes; after a restart it is gone, and the argument is  *)
(* that nothing is left that could write: a stop ends with the queue       *)
(* drained, a crash empties it, and every operation that begins afterwards *)
(* needs the record it would change.                                       *)
(*                                                                         *)
(* The other invariants follow a decision through the queue: a mutation    *)
(* whose turn it is sees the record as the one before it has left it, so   *)
(* what it is not about it keeps, or it is an upsert whose reader was too  *)
(* early, and the field is stale from then on.                             *)
(***************************************************************************)
EXTENDS AgentRecord, TLAPS

\* Only removal takes the record away.
RecordKept == ~removed => disk # NoRecord /\ cache # NoRecord

\* A turn runs in a loaded agent, and a daemon that stops has none.
RunsLoaded ==
  /\ running => live = "loaded"
  /\ daemon # "up" => ~InManager

\* What is left in a daemon that is down, and of a deleted agent after it.
Nothing ==
  /\ queue = <<>> /\ writing = NoWrite
  /\ live = "absent" /\ lane = "free" /\ restoring = NoRecord
DownHasNothing == daemon = "down" => Nothing
RemovedIsGone ==
  removed => /\ disk = NoRecord /\ cache = NoRecord /\ writing = NoWrite
             /\ deleting \/ (Nothing /\ ~cut)

\* A stop under way has not been counted yet.
StopCounts == daemon = "closing" => stops < MaxStops

Inv == TypeOK /\ StopCounts /\ RecordKept /\ RunsLoaded /\ DownHasNothing /\ RemovedIsGone

-----------------------------------------------------------------------------
(* What the other invariants need.                                         *)

Flagged(record) == record # NoRecord /\ record.flag
Marks(mutation) == mutation.kind = "flag" /\ mutation.on
Queued == ToSet(queue)

\* What a running daemon has in memory is what is on the disk.
CacheIsDisk == daemon # "down" => cache = disk

\* Turns are marked at the end of a stop, when nothing but upserts is left to
\* come; an archived record is written as archived.
QueueShape ==
  /\ \A m \in Queued :
       /\ Marks(m) => daemon = "marking"
       /\ daemon = "marking" => m.kind = "upsert" \/ Marks(m)
       /\ m.kind = "upsert" /\ m.by \in {"archive", "shelve"} => m.record.archived
  /\ daemon = "marking" => live = "absent"

\* The mark of a turn that was cut off is to be written, being written or
\* written.
MarkComing ==
  daemon \in {"marking", "down"} /\ cut /\ ~deleting /\ "flag" \notin stale =>
    \/ \E m \in Queued : Marks(m)
    \/ IF writing = NoWrite THEN disk.flag ELSE writing.record.flag

\* A flag that somebody may still act on stands for a stop that has not been
\* continued; it is gone when the prompt is sent.
ResumeAhead == daemon = "up" /\ resumer \in {"listed", "clearing", "prompting"}
FlagAhead ==
  Flagged(disk) \/ Flagged(writing.record) \/ (\E m \in Queued : Marks(m)) \/ ResumeAhead
FlagsCounted ==
  "flag" \notin stale =>
    /\ continued <= stops /\ (FlagAhead => continued < stops)
    /\ daemon # "marking" /\ Flagged(writing.record) => Flagged(disk)
    /\ daemon = "up" /\ resumer = "clearing" /\ ~deleting =>
         \/ ~Flagged(disk)
         \/ writing.by = "resume" /\ ~Flagged(writing.record)
         \/ Flag("resume", FALSE) \in Queued
    /\ daemon = "up" /\ resumer = "prompting" /\ ~deleting => ~Flagged(disk)

\* An archived agent nobody has asked for: nothing that would restore it is
\* under way.
ShelvedStays ==
  shelved =>
    /\ restoring = NoRecord /\ ~Pending("restore")
    /\ ~removed /\ "archived" \notin stale =>
         disk.archived /\ (writing # NoWrite => writing.record.archived)

\* The last of the mutations that give the agent a title gives it the one that
\* was asked for.
Titling(mutation) ==
  \/ mutation.kind = "snapshot" /\ mutation.title # Kept
  \/ mutation.kind = "upsert" /\ mutation.by = "rename"
TitleOf(mutation) == IF mutation.kind = "snapshot" THEN mutation.title ELSE mutation.record.title
TitledLast(q, name, otherwise) ==
  /\ \A i \in 1 .. Len(q) :
       Titling(q[i]) /\ (\A j \in (i + 1) .. Len(q) : ~Titling(q[j])) => TitleOf(q[i]) = name
  /\ (\A i \in 1 .. Len(q) : ~Titling(q[i])) => otherwise = name
TitleComing ==
  ~deleting /\ ~removed /\ "title" \notin stale =>
    TitledLast(queue, title, IF writing = NoWrite THEN disk.title ELSE writing.record.title)

-----------------------------------------------------------------------------
(* Records and mutations.                                                  *)

(* A record with a field changed is a record, and NoRecord is none.        *)
LEMMA RecordTypes ==
  /\ NoRecord \notin Record
  /\ \A r \in Record :
       /\ r.title \in Titles
       /\ \A b \in BOOLEAN : /\ [r EXCEPT !.archived = b] \in Record
                            /\ [r EXCEPT !.flag = b] \in Record
       /\ \A name \in Titles : [r EXCEPT !.title = name] \in Record
BY DEF Record, NoRecord

(* What the callers put in the queue are mutations.                        *)
LEMMA MutationTypes ==
  \A by \in Callers :
    /\ \A name \in Titles \cup {Kept} : Snapshot(by, name) \in Mutation
    /\ \A r \in Record : Upsert(by, r) \in Mutation
    /\ \A b \in BOOLEAN : Flag(by, b) \in Mutation
BY DEF Mutation, Snapshot, Upsert, Flag

(* What a mutation makes of a record is a record again.                    *)
LEMMA MutateTypes ==
  ASSUME NEW m \in Mutation, NEW r \in Record
  PROVE  Mutate(m, r) \in Record
<1>1. CASE m.kind = "snapshot"
  <2>1. m.title \in Titles \cup {Kept}
    BY <1>1 DEF Mutation
  <2> QED
    BY <1>1, <2>1 DEF Mutate, Project, Record
<1>2. CASE m.kind = "upsert"
  BY <1>2 DEF Mutate, Mutation
<1>3. CASE m.kind = "flag"
  BY <1>3, RecordTypes DEF Mutate, Mutation
<1> QED
  BY <1>1, <1>2, <1>3 DEF Mutation

-----------------------------------------------------------------------------
(* The invariant.                                                          *)

(* One step of the daemon, the user or the disk keeps the invariant.       *)
LEMMA NextKeeps == Inv /\ [Next]_vars => Inv'
<1> SUFFICES ASSUME Inv, [Next]_vars PROVE Inv'
  OBVIOUS
<1> USE DEF Inv, StopCounts, TypeOK, RecordKept, RunsLoaded, DownHasNothing,
            RemovedIsGone, Nothing, InManager, Exists, Enqueue, Callers, store, process, history
<1>1. CASE MutationBegins
  <2>1. queue' \in Seq(Mutation) /\ Head(queue) \in Mutation
    BY <1>1 DEF MutationBegins
  <2>2. writing' \in [by : Callers, record : Record] \cup {NoWrite}
    <3>1. CASE deleting \/ (~Exists /\ Head(queue).kind = "flag")
      BY <1>1, <3>1 DEF MutationBegins
    <3>2. CASE ~(deleting \/ (~Exists /\ Head(queue).kind = "flag"))
      <4>1. cache \in Record
        BY <1>1, <3>2 DEF MutationBegins
      <4>2. Mutate(Head(queue), cache) \in Record
        BY <2>1, <4>1, MutateTypes
      <4>3. Head(queue).by \in Callers
        BY <2>1 DEF Mutation
      <4> QED
        BY <1>1, <3>2, <4>2, <4>3 DEF MutationBegins
    <3> QED
      BY <3>1, <3>2
  <2>3. stale' \subseteq {"title", "archived", "flag"}
    BY <1>1 DEF MutationBegins, Undone
  <2>4. removed' => writing' = NoWrite /\ (deleting' \/ (Nothing' /\ ~cut'))
    BY <1>1 DEF MutationBegins
  <2> QED
    BY <1>1, <2>1, <2>2, <2>3, <2>4 DEF MutationBegins
<1>2. CASE writeRecord
  <2>1. writing.record \in Record
    BY <1>2 DEF writeRecord
  <2> QED
    BY <1>2, <2>1, RecordTypes DEF writeRecord
<1>3. CASE Register
  BY <1>3, RecordTypes DEF Register
<1>4. CASE Registered
  BY <1>4, MutationTypes DEF Registered
<1>5. CASE Prompt
  BY <1>5, MutationTypes DEF Prompt
<1>6. CASE TurnEnds
  <2>1. TypeOK'
    <3>1. Snapshot("agent", Kept) \in Mutation
      BY MutationTypes
    <3>2. queue' \in Seq(Mutation)
      BY <1>6, <3>1 DEF TurnEnds
    <3> QED
      BY <1>6, <3>2 DEF TurnEnds
  <2>2. StopCounts' /\ RecordKept' /\ RunsLoaded' /\ DownHasNothing' /\ RemovedIsGone'
    BY <1>6, MutationTypes DEF TurnEnds
  <2> QED
    BY <2>1, <2>2
<1>7. CASE ClearStoredAttention
  BY <1>7, MutationTypes DEF ClearStoredAttention
<1>8. CASE Close
  BY <1>8 DEF Close, Leave
<1>9. CASE Closed
  BY <1>9, MutationTypes DEF Closed
<1>10. CASE ArchiveBegins
  BY <1>10, MutationTypes DEF ArchiveBegins
<1>11. CASE ArchiveMarks
  <2>1. TypeOK'
    <3>1. Exists => Upsert("archive", [cache EXCEPT !.archived = TRUE]) \in Mutation
      BY MutationTypes, RecordTypes
    <3>2. queue' \in Seq(Mutation)
      BY <1>11, <3>1 DEF ArchiveMarks
    <3> QED
      BY <1>11, <3>2 DEF ArchiveMarks
  <2>2. StopCounts' /\ RecordKept' /\ RunsLoaded' /\ DownHasNothing' /\ RemovedIsGone'
    BY <1>11, MutationTypes, RecordTypes DEF ArchiveMarks
  <2> QED
    BY <2>1, <2>2
<1>12. CASE ArchiveCloses
  <2>1. TypeOK'
    BY <1>12 DEF ArchiveCloses, Leave
  <2>2. StopCounts' /\ RecordKept' /\ RunsLoaded' /\ DownHasNothing' /\ RemovedIsGone'
    BY <1>12 DEF ArchiveCloses, Leave
  <2> QED
    BY <2>1, <2>2
<1>13. CASE ArchiveEnds
  BY <1>13 DEF ArchiveEnds
<1>14. CASE ArchiveStored
  <2>1. TypeOK'
    <3>1. Exists => Upsert("shelve", [cache EXCEPT !.archived = TRUE]) \in Mutation
      BY MutationTypes, RecordTypes
    <3>2. queue' \in Seq(Mutation)
      BY <1>14, <3>1 DEF ArchiveStored
    <3> QED
      BY <1>14, <3>2 DEF ArchiveStored
  <2>2. StopCounts' /\ RecordKept' /\ RunsLoaded' /\ DownHasNothing' /\ RemovedIsGone'
    BY <1>14, MutationTypes, RecordTypes DEF ArchiveStored
  <2> QED
    BY <2>1, <2>2
<1>15. CASE UnarchiveReads
  <2>1. TypeOK'
    BY <1>15 DEF UnarchiveReads
  <2>2. StopCounts' /\ RecordKept' /\ RunsLoaded' /\ DownHasNothing' /\ RemovedIsGone'
    BY <1>15 DEF UnarchiveReads
  <2> QED
    BY <2>1, <2>2
<1>16. CASE UnarchiveWrites
  <2>1. TypeOK'
    <3>1. restoring # NoRecord =>
            Upsert("restore", [restoring EXCEPT !.archived = FALSE]) \in Mutation
      BY MutationTypes, RecordTypes
    <3>2. queue' \in Seq(Mutation)
      BY <1>16, <3>1 DEF UnarchiveWrites
    <3> QED
      BY <1>16, <3>2 DEF UnarchiveWrites
  <2>2. StopCounts' /\ RecordKept' /\ RunsLoaded' /\ DownHasNothing' /\ RemovedIsGone'
    BY <1>16, MutationTypes, RecordTypes DEF UnarchiveWrites
  <2> QED
    BY <2>1, <2>2
<1>17. CASE DeleteBegins
  <2>1. TypeOK'
    <3>1. /\ live' \in {"absent", "registered", "loaded", "closing"}
          /\ initial' \in Titles \cup {Kept}
          /\ running' \in BOOLEAN /\ deleting' \in BOOLEAN
      <4>1. CASE InManager
        BY <1>17, <4>1, Zenon DEF DeleteBegins, Leave
      <4>2. CASE ~InManager
        BY <1>17, <4>2, Zenon DEF DeleteBegins
      <4> QED
        BY <4>1, <4>2
    <3> QED
      BY <1>17, <3>1 DEF DeleteBegins
  <2>2. StopCounts' /\ RecordKept' /\ RunsLoaded' /\ DownHasNothing' /\ RemovedIsGone'
    BY <1>17 DEF DeleteBegins, Leave
  <2> QED
    BY <2>1, <2>2
<1>18. CASE remove
  BY <1>18 DEF remove, Drained
<1>19. CASE StopBegins
  <2>1. TypeOK'
    <3>1. cut' \in BOOLEAN /\ running' \in BOOLEAN
      BY <1>19 DEF StopBegins, Leave
    <3> QED
      BY <1>19, <3>1 DEF StopBegins, Leave
  <2>2. StopCounts' /\ RecordKept' /\ RunsLoaded' /\ DownHasNothing' /\ RemovedIsGone'
    BY <1>19 DEF StopBegins, Leave
  <2> QED
    BY <2>1, <2>2
<1>20. CASE StopMarks
  <2>1. TypeOK'
    <3> DEFINE mark == Flag("stop", TRUE)
    <3>1. mark \in Mutation
      BY MutationTypes
    <3>2. queue' \in Seq(Mutation)
      <4>1. queue' = queue \/ queue' = Append(queue, mark)
        BY <1>20, Zenon DEF StopMarks
      <4> HIDE DEF mark
      <4> QED
        BY <3>1, <4>1
    <3>3. stops' \in 0 .. MaxStops
      <4>1. stops < MaxStops
        BY <1>20 DEF StopMarks
      <4>2. stops' = stops \/ stops' = stops + 1
        BY <1>20 DEF StopMarks
      <4> QED
        BY <4>1, <4>2, RecordAssumption
    <3> QED
      BY <1>20, <3>2, <3>3 DEF StopMarks
  <2>2. StopCounts' /\ RecordKept' /\ RunsLoaded' /\ DownHasNothing' /\ RemovedIsGone'
    BY <1>20, MutationTypes, RecordAssumption DEF StopMarks, Drained
  <2> QED
    BY <2>1, <2>2
<1>21. CASE StopEnds
  BY <1>21 DEF StopEnds, Drained
<1>22. CASE Crash
  <2>1. TypeOK'
    <3>1. disk' \in Record \cup {NoRecord}
      BY <1>22 DEF Crash
    <3>2. title' \in Titles
      BY <1>22, <3>1, RecordTypes DEF Crash
    <3>3. shelved' \in BOOLEAN
      BY <1>22 DEF Crash
    <3>4. cut' \in BOOLEAN /\ running' \in BOOLEAN
      BY <1>22, Zenon DEF Crash
    <3> QED
      BY <1>22, <3>1, <3>2, <3>3, <3>4 DEF Crash
  <2>2. StopCounts' /\ RecordKept' /\ RunsLoaded' /\ DownHasNothing' /\ RemovedIsGone'
    BY <1>22, RecordTypes DEF Crash
  <2> QED
    BY <2>1, <2>2
<1>23. CASE Start
  <2>1. TypeOK'
    <3>1. title' \in Titles
      BY <1>23, RecordTypes DEF Start
    <3>2. resumer' \in {"none", "listed", "unresumable"}
      BY <1>23 DEF Start
    <3> QED
      BY <1>23, <3>1, <3>2 DEF Start
  <2>2. StopCounts' /\ RecordKept' /\ RunsLoaded' /\ DownHasNothing' /\ RemovedIsGone'
    BY <1>23 DEF Start
  <2> QED
    BY <2>1, <2>2
<1>24. CASE ResumeClears
  <2>1. TypeOK'
    <3> DEFINE mark == Flag("resume", FALSE)
    <3>1. mark \in Mutation
      BY MutationTypes
    <3>2. queue' \in Seq(Mutation)
      <4>1. queue' = queue \/ queue' = Append(queue, mark)
        BY <1>24, Zenon DEF ResumeClears
      <4> HIDE DEF mark
      <4> QED
        BY <3>1, <4>1
    <3> QED
      BY <1>24, <3>2 DEF ResumeClears
  <2>2. StopCounts' /\ RecordKept' /\ RunsLoaded' /\ DownHasNothing' /\ RemovedIsGone'
    BY <1>24, MutationTypes DEF ResumeClears
  <2> QED
    BY <2>1, <2>2
<1>25. CASE ResumeCleared
  BY <1>25 DEF ResumeCleared
<1>26. CASE ResumePrompts
  <2>1. TypeOK'
    <3>1. Snapshot("agent", Kept) \in Mutation
      BY MutationTypes
    <3>2. queue' \in Seq(Mutation)
      BY <1>26, <3>1 DEF ResumePrompts
    <3>3. continued' \in 0 .. (MaxStops + 1)
      <4>1. continued' = continued \/ (continued <= MaxStops /\ continued' = continued + 1)
        BY <1>26, RecordAssumption DEF ResumePrompts
      <4> QED
        BY <4>1, RecordAssumption
    <3>4. running' \in BOOLEAN
      BY <1>26, Zenon DEF ResumePrompts
    <3> QED
      BY <1>26, <3>2, <3>3, <3>4 DEF ResumePrompts
  <2>2. StopCounts' /\ RecordKept' /\ RunsLoaded' /\ DownHasNothing' /\ RemovedIsGone'
    BY <1>26, MutationTypes, RecordAssumption DEF ResumePrompts
  <2> QED
    BY <2>1, <2>2
<1>27. ASSUME NEW name \in Titles, Rename(name)
      PROVE  Inv'
  BY <1>27, MutationTypes, RecordTypes DEF Rename
<1>28. CASE UNCHANGED vars
  BY <1>28 DEF vars
<1> QED
  BY <1>1, <1>2, <1>3, <1>4, <1>5, <1>6, <1>7, <1>8, <1>9, <1>10,
     <1>11, <1>12, <1>13, <1>14, <1>15, <1>16, <1>17, <1>18, <1>19,
     <1>20, <1>21, <1>22, <1>23, <1>24, <1>25, <1>26, <1>27, <1>28 DEF Next

(* The invariant holds in every reachable state.                           *)
LEMMA InvHolds == Spec => []Inv
<1>1. Init => Inv
  <2> SUFFICES ASSUME Init PROVE Inv
    OBVIOUS
  <2>1. disk \in Record /\ cache \in Record /\ title \in Titles
    BY DEF Init, Record
  <2>2. /\ queue \in Seq(Mutation) /\ stops \in 0 .. MaxStops /\ continued \in 0 .. (MaxStops + 1)
        /\ stale = {}
    BY RecordAssumption DEF Init
  <2>3. {deleting, removed, running, cut, shelved} \subseteq BOOLEAN /\ ~removed /\ ~running
    BY Zenon DEF Init
  <2>4. /\ writing = NoWrite /\ live = "absent" /\ initial = Kept /\ lane = "free"
        /\ restoring = NoRecord /\ daemon = "up" /\ resumer = "none"
    BY DEF Init
  <2> QED
    BY <2>1, <2>2, <2>3, <2>4, RecordTypes
    DEF Inv, StopCounts, TypeOK, RecordKept, RunsLoaded, DownHasNothing, RemovedIsGone, InManager
<1> QED BY <1>1, NextKeeps, PTL DEF Spec

-----------------------------------------------------------------------------
(* Steps that leave the store alone.                                       *)

(* What is queued, after Append and before Tail.                           *)
LEMMA QueuedFacts ==
  ASSUME NEW q \in Seq(Mutation)
  PROVE  /\ \A m \in Mutation : ToSet(Append(q, m)) = ToSet(q) \cup {m}
         /\ q # <<>> => ToSet(q) = {Head(q)} \cup ToSet(Tail(q))
         /\ q = <<>> => ToSet(q) = {}
         /\ ToSet(q) \subseteq Mutation
<1>1. ASSUME NEW m \in Mutation PROVE ToSet(Append(q, m)) = ToSet(q) \cup {m}
  <2>1. /\ Len(q) \in Nat /\ Len(Append(q, m)) = Len(q) + 1
        /\ Append(q, m)[Len(q) + 1] = m
        /\ \A i \in 1 .. Len(q) : Append(q, m)[i] = q[i]
        /\ DOMAIN q = 1 .. Len(q) /\ DOMAIN Append(q, m) = 1 .. Len(q) + 1
    OBVIOUS
  <2>2. 1 .. Len(q) + 1 = (1 .. Len(q)) \cup {Len(q) + 1}
    BY <2>1
  <2> QED
    BY <2>1, <2>2 DEF ToSet
<1>2. ASSUME q # <<>> PROVE ToSet(q) = {Head(q)} \cup ToSet(Tail(q))
  <2>1. /\ Len(q) \in Nat \ {0} /\ Head(q) = q[1]
        /\ DOMAIN q = 1 .. Len(q) /\ DOMAIN Tail(q) = 1 .. Len(q) - 1
        /\ \A i \in 1 .. Len(q) - 1 : Tail(q)[i] = q[i + 1]
    BY <1>2
  <2>2. \A i \in 2 .. Len(q) : i - 1 \in 1 .. Len(q) - 1 /\ (i - 1) + 1 = i
    BY <2>1
  <2>3. 1 .. Len(q) = {1} \cup 2 .. Len(q)
    BY <2>1
  <2>4. \A i \in 1 .. Len(q) - 1 : i + 1 \in 1 .. Len(q)
    BY <2>1
  <2>5. ASSUME NEW x \in ToSet(q), x # Head(q) PROVE x \in ToSet(Tail(q))
    <3>1. PICK i \in 1 .. Len(q) : q[i] = x
      BY <2>1 DEF ToSet
    <3>2. i \in 2 .. Len(q)
      BY <2>1, <2>3, <2>5, <3>1
    <3>3. Tail(q)[i - 1] = x /\ i - 1 \in DOMAIN Tail(q)
      BY <2>1, <2>2, <3>1, <3>2
    <3> QED
      BY <3>3 DEF ToSet
  <2>6. ASSUME NEW x \in ToSet(Tail(q)) PROVE x \in ToSet(q)
    BY <2>1, <2>4 DEF ToSet
  <2>7. Head(q) \in ToSet(q)
    BY <2>1, <2>3 DEF ToSet
  <2> QED
    BY <2>5, <2>6, <2>7
<1>3. q = <<>> => ToSet(q) = {}
  BY DEF ToSet
<1>4. ToSet(q) \subseteq Mutation
  BY DEF ToSet
<1> QED
  BY <1>1, <1>2, <1>3, <1>4

(* What is queued after a step that queues one more mutation.              *)
LEMMA QueuedAppend ==
  ASSUME queue \in Seq(Mutation), NEW m \in Mutation, queue' = Append(queue, m)
  PROVE  Queued' = Queued \cup {m}
<1>1. ToSet(Append(queue, m)) = ToSet(queue) \cup {m}
  BY QueuedFacts
<1> QED
  BY <1>1 DEF Queued

(* A call is pending when its mutation is queued or being written.         *)
LEMMA PendingFacts ==
  ASSUME TypeOK, NEW by
  PROVE  Pending(by) <=> writing.by = by \/ \E m \in Queued : m.by = by
BY DEF Pending, Queued, ToSet

\* What a request may queue.
Fits(m) ==
  /\ ~Marks(m) /\ (daemon = "marking" => m.kind = "upsert")
  /\ m.kind = "upsert" /\ m.by \in {"archive", "shelve"} => m.record.archived
  /\ m.by = "restore" => restoring # NoRecord
  /\ IF Titling(m) THEN TitleOf(m) = title' \/ "title" \in stale' ELSE title' = title

\* A step of the agent or of its user asks for something or for nothing.
Requests ==
  /\ UNCHANGED <<disk, cache, writing, removed, daemon, cut, resumer, stops, continued>>
  /\ (deleting => deleting') /\ stale \subseteq stale'
  /\ (shelved' => shelved) /\ (shelved' /\ restoring = NoRecord => restoring' = NoRecord)
  /\ daemon = "marking" /\ live = "absent" => live' = "absent"
  /\ \/ UNCHANGED <<queue, title>>
     \/ \E m \in Mutation : queue' = Append(queue, m) /\ Fits(m)

Request ==
  \/ Register \/ Registered \/ Prompt \/ TurnEnds \/ ClearStoredAttention
  \/ Close \/ Closed
  \/ \E name \in Titles : Rename(name)
  \/ ArchiveBegins \/ ArchiveMarks \/ ArchiveCloses \/ ArchiveEnds \/ ArchiveStored
  \/ UnarchiveReads \/ UnarchiveWrites \/ DeleteBegins

(* What the mutations of requests look like.                               *)
LEMMA RequestShapes ==
  ASSUME NEW by, NEW name, NEW r
  PROVE  /\ Snapshot(by, name).kind = "snapshot" /\ Snapshot(by, name).by = by
         /\ Snapshot(by, name).title = name
         /\ Upsert(by, r).kind = "upsert" /\ Upsert(by, r).by = by /\ Upsert(by, r).record = r
         /\ \A b : Flag(by, b).kind = "flag" /\ Flag(by, b).by = by /\ Flag(by, b).on = b
BY DEF Snapshot, Upsert, Flag

(* Every request leaves the store, the process and the counters alone.     *)
LEMMA RequestsOnly ==
  ASSUME Inv, QueueShape, Request PROVE Requests
<1> USE DEF Inv, RunsLoaded, InManager, Exists, Enqueue, store, process, history
<1>0. /\ {disk, cache} \subseteq Record \cup {NoRecord} /\ restoring \in Record \cup {NoRecord}
      /\ initial \in Titles \cup {Kept}
      /\ daemon = "marking" => live = "absent"
  BY DEF TypeOK, QueueShape
<1>1. ASSUME NEW by \in Callers, NEW name \in Titles \cup {Kept}
      PROVE  /\ Snapshot(by, name) \in Mutation
             /\ daemon # "marking" /\ by # "restore"
                  /\ (IF name = Kept THEN title' = title
                      ELSE name = title' \/ "title" \in stale') => Fits(Snapshot(by, name))
  <2> DEFINE m == Snapshot(by, name)
  <2>0. m \in Mutation
    BY MutationTypes
  <2>1. m.kind = "snapshot" /\ m.by = by /\ m.title = name
    BY DEF Snapshot
  <2> HIDE DEF m
  <2>2. (Titling(m) <=> name # Kept) /\ TitleOf(m) = name /\ ~Marks(m)
    BY <2>1 DEF Titling, TitleOf, Marks
  <2>3. daemon # "marking" /\ by # "restore"
          /\ (IF name = Kept THEN title' = title ELSE name = title' \/ "title" \in stale')
          => Fits(m)
    BY <2>1, <2>2 DEF Fits
  <2> QED
    BY <2>0, <2>3 DEF m
<1>2. ASSUME NEW by \in Callers, NEW r \in Record
      PROVE  /\ Upsert(by, r) \in Mutation
             /\ (by \in {"archive", "shelve"} => r.archived) /\ (by = "restore" => restoring # NoRecord)
                  /\ (IF by = "rename" THEN r.title = title' ELSE title' = title)
                  => Fits(Upsert(by, r))
  BY MutationTypes, RequestShapes DEF Fits, Marks, Titling, TitleOf
<1>3. \A r \in Record :
        /\ [r EXCEPT !.archived = TRUE] \in Record /\ [r EXCEPT !.archived = TRUE].archived
        /\ [r EXCEPT !.archived = FALSE] \in Record
        /\ \A name \in Titles : /\ [r EXCEPT !.title = name] \in Record
                                /\ [r EXCEPT !.title = name].title = name
  BY DEF Record
<1>4. CASE Register
  BY <1>4 DEF Register, Requests
<1>5. CASE Registered
  <2>1. Fits(Snapshot("agent", initial)) /\ Snapshot("agent", initial) \in Mutation
    BY <1>0, <1>1, <1>5 DEF Registered, Callers
  <2> QED
    BY <1>5, <2>1 DEF Registered, Requests
<1>6. CASE Prompt
  BY <1>1, <1>6 DEF Prompt, Requests, Callers
<1>7. CASE TurnEnds
  BY <1>1, <1>7 DEF TurnEnds, Requests, Callers
<1>8. CASE ClearStoredAttention
  BY <1>0, <1>2, <1>8 DEF ClearStoredAttention, Requests, Callers
<1>9. CASE Close
  BY <1>9 DEF Close, Leave, Requests
<1>10. CASE Closed
  BY <1>0, <1>1, <1>10 DEF Closed, Requests, Callers
<1>11. ASSUME NEW name \in Titles, Rename(name) PROVE Requests
  <2>1. CASE InManager
    BY <1>1, <1>11, <2>1, RecordAssumption DEF Rename, Requests, Callers
  <2>2. CASE ~InManager
    <3>1. cache \in Record
      BY <1>0, <1>11 DEF Rename
    <3> QED
      BY <1>2, <1>3, <1>11, <2>2, <3>1 DEF Rename, Requests, Callers
  <2> QED
    BY <2>1, <2>2
<1>12. CASE ArchiveBegins
  BY <1>1, <1>12 DEF ArchiveBegins, Requests, Callers
<1>13. CASE ArchiveMarks
  <2>1. CASE cache \in Record
    BY <1>2, <1>3, <1>13, <2>1 DEF ArchiveMarks, Requests, Callers
  <2>2. CASE cache = NoRecord
    BY <1>13, <2>2 DEF ArchiveMarks, Requests
  <2> QED
    BY <1>0, <2>1, <2>2
<1>14. CASE ArchiveCloses
  BY <1>0, <1>14 DEF ArchiveCloses, Leave, Requests
<1>15. CASE ArchiveEnds
  BY <1>15 DEF ArchiveEnds, Requests
<1>16. CASE ArchiveStored
  BY <1>0, <1>2, <1>3, <1>16 DEF ArchiveStored, Requests, Callers
<1>17. CASE UnarchiveReads
  BY <1>17 DEF UnarchiveReads, Requests
<1>18. CASE UnarchiveWrites
  BY <1>0, <1>2, <1>3, <1>18 DEF UnarchiveWrites, Requests, Callers
<1>19. CASE DeleteBegins
  BY <1>19 DEF DeleteBegins, Leave, Requests
<1> QED
  BY <1>4, <1>5, <1>6, <1>7, <1>8, <1>9, <1>10, <1>11, <1>12, <1>13, <1>14, <1>15, <1>16,
     <1>17, <1>18, <1>19 DEF Request

-----------------------------------------------------------------------------
(* The write queue.                                                        *)

(* The mutation whose turn it is: what is written, unless the record is    *)
(* being deleted, keeps every field that the mutation is not about, or the *)
(* field is stale from then on.                                            *)
LEMMA BeginsFacts ==
  ASSUME Inv, CacheIsDisk, MutationBegins
  PROVE  LET m == Head(queue) IN
         /\ m \in Mutation /\ Queued = {m} \cup Queued'
         /\ UNCHANGED <<disk, cache, deleting, removed, live, initial, running, lane, restoring,
                        daemon, cut, resumer, title, shelved, stops, continued>>
         /\ queue # <<>> /\ queue' = Tail(queue) /\ writing = NoWrite /\ stale \subseteq stale'
         /\ daemon # "down" /\ (removed => deleting)
         /\ deleting => writing' = NoWrite
         /\ ~deleting =>
              /\ disk \in Record /\ writing' # NoWrite /\ writing'.by = m.by
              /\ "flag" \notin stale' =>
                   (writing'.record.flag <=> Marks(m) \/ (m.kind = "upsert" /\ disk.flag))
              /\ "archived" \notin stale' /\ disk.archived =>
                   writing'.record.archived
                     \/ (m.kind = "upsert" /\ m.by \in {"archive", "shelve", "restore"}
                           /\ ~m.record.archived)
              /\ "title" \notin stale' =>
                   writing'.record.title = IF Titling(m) THEN TitleOf(m) ELSE disk.title
<1> DEFINE m == Head(queue)
<1>1. /\ queue # <<>> /\ queue' = Tail(queue) /\ writing = NoWrite
      /\ stale' = stale \cup Undone(m)
      /\ UNCHANGED <<disk, cache, deleting, removed, live, initial, running, lane, restoring,
                     daemon, cut, resumer, title, shelved, stops, continued>>
  BY DEF MutationBegins, process
<1>2. m \in Mutation /\ queue \in Seq(Mutation)
  BY <1>1 DEF Inv, TypeOK
<1>3. Queued = {m} \cup Queued'
  BY <1>1, <1>2, QueuedFacts DEF Queued
<1>4. daemon # "down" /\ (removed => deleting) /\ cache = disk
  BY <1>1 DEF Inv, DownHasNothing, RemovedIsGone, Nothing, CacheIsDisk
<1>5. deleting => writing' = NoWrite
  BY <1>1 DEF MutationBegins
<1>6. ASSUME ~deleting
      PROVE  /\ disk \in Record /\ writing' # NoWrite /\ writing'.by = m.by
             /\ "flag" \notin stale' =>
                  (writing'.record.flag <=> Marks(m) \/ (m.kind = "upsert" /\ disk.flag))
             /\ "archived" \notin stale' /\ disk.archived =>
                  writing'.record.archived
                    \/ (m.kind = "upsert" /\ m.by \in {"archive", "shelve", "restore"}
                          /\ ~m.record.archived)
             /\ "title" \notin stale' =>
                  writing'.record.title = IF Titling(m) THEN TitleOf(m) ELSE disk.title
  <2>1. disk \in Record /\ disk # NoRecord /\ Exists
    BY <1>4, <1>6 DEF Inv, TypeOK, RecordKept, Exists
  <2> DEFINE r == Mutate(m, disk)
  <2>2. writing' = [by |-> m.by, record |-> r]
    BY <1>4, <1>6, <2>1 DEF MutationBegins
  <2>3. m.by \in Callers
    BY <1>2 DEF Mutation
  <2>4. writing' # NoWrite /\ writing'.by = m.by /\ writing'.record = r
    BY <2>2, <2>3 DEF NoWrite, Callers
  <2>5. CASE m.kind = "snapshot"
    <3>1. /\ ~r.flag /\ r.archived = disk.archived
          /\ r.title = IF m.title # Kept THEN m.title ELSE disk.title
      BY <2>1, <2>5 DEF Mutate, Project, Record
    <3> QED
      BY <2>1, <2>4, <2>5, <3>1 DEF Marks, Titling, TitleOf
  <2>6. CASE m.kind = "upsert"
    <3>1. r = m.record /\ r \in Record
      BY <1>2, <2>6 DEF Mutate, Mutation
    <3>2. Undone(m) = {f \in {"title", "archived", "flag"} \ Asked(m.by) : r[f] # disk[f]}
      BY <1>4, <2>1, <2>6, <3>1 DEF Undone
    <3>3. "flag" \notin Asked(m.by)
          /\ ("title" \in Asked(m.by) => m.by = "rename")
          /\ ("archived" \in Asked(m.by) => m.by \in {"archive", "shelve", "restore"})
      BY <2>3 DEF Asked, Callers
    <3>4. /\ "flag" \notin stale' => r.flag = disk.flag
          /\ "title" \notin stale' /\ m.by # "rename" => r.title = disk.title
          /\ "archived" \notin stale' /\ m.by \notin {"archive", "shelve", "restore"}
               => r.archived = disk.archived
      BY <1>1, <3>2, <3>3
    <3>5. r.flag \in BOOLEAN /\ disk.flag \in BOOLEAN
      BY <2>1, <3>1 DEF Record
    <3>6. ~Marks(m) /\ (Titling(m) <=> m.by = "rename") /\ TitleOf(m) = r.title
      BY <2>6, <3>1 DEF Marks, Titling, TitleOf
    <3> HIDE DEF m, r
    <3> QED
      BY <2>1, <2>4, <2>6, <3>1, <3>4, <3>5, <3>6
  <2>7. CASE m.kind = "flag"
    <3>1. r.flag = m.on /\ r.archived = disk.archived /\ r.title = disk.title
      BY <2>1, <2>7 DEF Mutate, Record
    <3>2. m.on \in BOOLEAN
      BY <1>2, <2>7 DEF Mutation
    <3>3. (Marks(m) <=> m.on) /\ ~Titling(m)
      BY <2>7 DEF Marks, Titling
    <3> HIDE DEF m, r
    <3> QED
      BY <2>1, <2>4, <2>7, <3>1, <3>2, <3>3
  <2> QED
    BY <1>2, <2>5, <2>6, <2>7 DEF Mutation
<1> QED
  BY <1>1, <1>2, <1>3, <1>4, <1>5, <1>6

(* The end of a stop queues the mark of a turn that was cut off.           *)
LEMMA StopMarksFacts ==
  ASSUME Inv, StopMarks
  PROVE  /\ daemon = "closing" /\ daemon' = "marking" /\ live' = "absent"
         /\ queue = <<>> /\ writing = NoWrite
         /\ UNCHANGED <<disk, cache, writing, deleting, removed, restoring, cut, resumer, title,
                        shelved, stale, continued>>
         /\ \/ cut /\ queue' = Append(queue, Flag("stop", TRUE)) /\ stops' = stops + 1
                   /\ Queued' = {Flag("stop", TRUE)}
            \/ ~cut /\ UNCHANGED <<queue, stops>> /\ Queued' = {}
         /\ Marks(Flag("stop", TRUE)) /\ Flag("stop", TRUE) \in Mutation
<1>1. /\ daemon = "closing" /\ daemon' = "marking" /\ live # "closing" /\ Drained
      /\ UNCHANGED <<disk, cache, writing, deleting, removed, live, restoring, cut, resumer, title,
                     shelved, stale, continued>>
  BY DEF StopMarks, store
<1>2. live = "absent" /\ queue \in Seq(Mutation)
  BY <1>1 DEF Inv, TypeOK, RunsLoaded, InManager
<1>3. queue = <<>> /\ writing = NoWrite /\ Queued = {}
  BY <1>1, <1>2, QueuedFacts DEF Drained, Queued
<1>4. Flag("stop", TRUE) \in Mutation /\ Marks(Flag("stop", TRUE))
  <2>1. Flag("stop", TRUE) \in Mutation
    BY MutationTypes DEF Callers
  <2> QED
    BY <2>1 DEF Marks, Flag
<1>5. CASE cut
  <2>1. queue' = Append(queue, Flag("stop", TRUE)) /\ stops' = stops + 1
    BY <1>5, Zenon DEF StopMarks, Enqueue
  <2> QED
    BY <1>1, <1>2, <1>3, <1>4, <1>5, <2>1, QueuedAppend
<1>6. CASE ~cut
  <2>1. UNCHANGED <<queue, stops>>
    BY <1>6 DEF StopMarks
  <2>2. Queued' = {}
    BY <1>3, <2>1 DEF Queued
  <2> QED
    BY <1>1, <1>2, <1>3, <1>4, <1>6, <2>1, <2>2
<1> QED
  BY <1>5, <1>6

(* The resumer clears the flag of the record it has listed.                *)
LEMMA ResumeClearsFacts ==
  ASSUME Inv, ResumeClears
  PROVE  /\ daemon = "up" /\ resumer \in {"listed", "unresumable"}
         /\ resumer' = IF resumer = "listed" THEN "clearing" ELSE "dropping"
         /\ UNCHANGED <<disk, cache, writing, deleting, removed, live, restoring, daemon, cut,
                        title, shelved, stops, stale, continued>>
         /\ \/ Exists /\ cache.flag /\ queue' = Append(queue, Flag("resume", FALSE))
                      /\ Queued' = Queued \cup {Flag("resume", FALSE)}
            \/ ~(Exists /\ cache.flag) /\ queue' = queue /\ Queued' = Queued
         /\ Flag("resume", FALSE) \in Mutation /\ ~Marks(Flag("resume", FALSE))
         /\ Flag("resume", FALSE).kind = "flag" /\ Flag("resume", FALSE).by = "resume"
<1>1. /\ daemon = "up" /\ resumer \in {"listed", "unresumable"}
      /\ resumer' = IF resumer = "listed" THEN "clearing" ELSE "dropping"
      /\ UNCHANGED <<disk, cache, writing, deleting, removed, live, restoring, daemon, cut,
                     title, shelved, stops, stale, continued>>
  BY DEF ResumeClears, store, history
<1>2. Flag("resume", FALSE) \in Mutation
  BY MutationTypes DEF Callers
<1>3. /\ ~Marks(Flag("resume", FALSE))
      /\ Flag("resume", FALSE).kind = "flag" /\ Flag("resume", FALSE).by = "resume"
  BY DEF Marks, Flag
<1>4. CASE Exists /\ cache.flag
  <2>1. queue' = Append(queue, Flag("resume", FALSE))
    BY <1>4, Zenon DEF ResumeClears, Enqueue
  <2>2. Queued' = Queued \cup {Flag("resume", FALSE)}
    BY <1>2, <2>1, QueuedAppend DEF Inv, TypeOK
  <2> QED
    BY <1>1, <1>2, <1>3, <1>4, <2>1, <2>2
<1>5. CASE ~(Exists /\ cache.flag)
  <2>1. queue' = queue
    BY <1>5, Zenon DEF ResumeClears
  <2> QED
    BY <1>1, <1>2, <1>3, <1>5, <2>1 DEF Queued
<1> QED
  BY <1>4, <1>5

(* The resumer's prompt.                                                   *)
LEMMA ResumePromptsFacts ==
  ASSUME Inv, ResumePrompts
  PROVE  /\ daemon = "up" /\ resumer = "prompting" /\ resumer' = "none"
         /\ UNCHANGED <<disk, cache, writing, deleting, removed, live, restoring, daemon, cut,
                        title, shelved, stops, stale>>
         /\ \/ UNCHANGED <<queue, continued>> /\ Queued' = Queued
            \/ /\ ~deleting /\ continued' \in {continued, continued + 1}
               /\ queue' = Append(queue, Snapshot("agent", Kept))
               /\ Queued' = Queued \cup {Snapshot("agent", Kept)}
         /\ Snapshot("agent", Kept) \in Mutation /\ Snapshot("agent", Kept).kind = "snapshot"
         /\ Snapshot("agent", Kept).title = Kept /\ Snapshot("agent", Kept).by = "agent"
<1>1. /\ daemon = "up" /\ resumer = "prompting" /\ resumer' = "none"
      /\ UNCHANGED <<disk, cache, writing, deleting, removed, live, restoring, daemon, cut,
                     title, shelved, stops, stale>>
  BY DEF ResumePrompts, store
<1>2. Snapshot("agent", Kept) \in Mutation
  BY MutationTypes DEF Callers
<1>3. /\ Snapshot("agent", Kept).kind = "snapshot" /\ Snapshot("agent", Kept).title = Kept
      /\ Snapshot("agent", Kept).by = "agent"
  BY DEF Snapshot
<1>4. CASE deleting \/ ~Exists \/ cache.archived
  <2>1. UNCHANGED <<queue, continued>>
    BY <1>4 DEF ResumePrompts
  <2> QED
    BY <1>1, <1>2, <1>3, <2>1 DEF Queued
<1>5. CASE ~(deleting \/ ~Exists \/ cache.archived)
  <2>1. /\ continued' \in {continued, continued + 1}
        /\ queue' = Append(queue, Snapshot("agent", Kept))
    BY <1>5 DEF ResumePrompts, Enqueue
  <2>2. Queued' = Queued \cup {Snapshot("agent", Kept)}
    BY <1>2, <2>1, QueuedAppend DEF Inv, TypeOK
  <2> QED
    BY <1>1, <1>2, <1>3, <1>5, <2>1, <2>2
<1> QED
  BY <1>4, <1>5

(* What a request does to the queue as a set.                              *)
LEMMA RequestQueue ==
  ASSUME Inv, QueueShape, Request
  PROVE  Queued \subseteq Queued' /\ \A m \in Queued' : m \in Queued \/ (m \in Mutation /\ Fits(m))
<1>0. queue \in Seq(Mutation)
  BY DEF Inv, TypeOK
<1>1. CASE UNCHANGED queue
  BY <1>1 DEF Queued
<1>2. ASSUME NEW m \in Mutation, queue' = Append(queue, m), Fits(m)
      PROVE  Queued' = Queued \cup {m}
  BY <1>0, <1>2, QueuedAppend
<1> QED
  BY <1>1, <1>2, RequestsOnly DEF Requests

(* A daemon that is down has nothing queued, and one that stops, crashes   *)
(* or starts leaves nothing.                                               *)
LEMMA NothingQueued ==
  ASSUME Inv, StopEnds \/ Crash \/ Start PROVE Queued' = {} /\ queue' = <<>> /\ writing' = NoWrite
<1>1. queue' = <<>> /\ writing' = NoWrite
  BY DEF StopEnds, store, Crash, Start, Drained, Inv, DownHasNothing, Nothing
<1> QED
  BY <1>1 DEF Queued, ToSet

(* A running daemon's cache, and what waits in the queue.                  *)
LEMMA ShapeKeeps ==
  ASSUME Inv, CacheIsDisk, QueueShape, [Next]_vars
  PROVE  CacheIsDisk' /\ QueueShape'
<1>1. CASE Request
  BY <1>1, RequestsOnly, RequestQueue DEF Requests, CacheIsDisk, QueueShape, Fits
<1>2. CASE MutationBegins
  BY <1>2, BeginsFacts DEF CacheIsDisk, QueueShape
<1>3. CASE writeRecord
  BY <1>3 DEF writeRecord, process, CacheIsDisk, QueueShape, Queued
<1>4. CASE remove
  BY <1>4 DEF remove, process, CacheIsDisk, QueueShape, Queued
<1>5. CASE StopBegins
  BY <1>5 DEF StopBegins, store, CacheIsDisk, QueueShape, Queued
<1>6. CASE StopMarks
  <2>1. Flag("stop", TRUE).kind = "flag"
    BY DEF Flag
  <2> QED
    BY <1>6, <2>1, StopMarksFacts DEF CacheIsDisk, QueueShape
<1>7. CASE StopEnds \/ Crash \/ Start
  BY <1>7, NothingQueued DEF StopEnds, Crash, Start, CacheIsDisk, QueueShape
<1>8. CASE ResumeClears
  BY <1>8, ResumeClearsFacts DEF CacheIsDisk, QueueShape
<1>9. CASE ResumeCleared
  BY <1>9 DEF ResumeCleared, store, CacheIsDisk, QueueShape, Queued
<1>10. CASE ResumePrompts
  BY <1>10, ResumePromptsFacts DEF CacheIsDisk, QueueShape, Marks
<1>11. CASE UNCHANGED vars
  BY <1>11 DEF vars, CacheIsDisk, QueueShape, Queued
<1> QED
  BY <1>1, <1>2, <1>3, <1>4, <1>5, <1>6, <1>7, <1>8, <1>9, <1>10, <1>11 DEF Next, Request

-----------------------------------------------------------------------------
(* Marks, flags, archive status and title.                                 *)

(* The mark of a turn that was cut off is not lost.                        *)
LEMMA MarkKeeps ==
  ASSUME Inv, CacheIsDisk, QueueShape, MarkComing, [Next]_vars
  PROVE  MarkComing'
<1>1. CASE Request
  BY <1>1, RequestsOnly, RequestQueue DEF Requests, MarkComing
<1>2. CASE MutationBegins
  <2> DEFINE m == Head(queue)
  <2> SUFFICES ASSUME daemon \in {"marking", "down"}, cut, ~deleting, "flag" \notin stale',
                      \A k \in Queued' : ~Marks(k)
               PROVE  writing' # NoWrite /\ writing'.record.flag
    BY <1>2, BeginsFacts DEF MarkComing
  <2>1. /\ writing = NoWrite /\ writing' # NoWrite /\ stale \subseteq stale' /\ daemon = "marking"
        /\ Queued = {m} \cup Queued'
        /\ (writing'.record.flag <=> Marks(m) \/ (m.kind = "upsert" /\ disk.flag))
    BY <1>2, BeginsFacts
  <2>2. Marks(m) \/ (m.kind = "upsert" /\ disk.flag)
    BY <2>1 DEF MarkComing, QueueShape
  <2> QED
    BY <2>1, <2>2
<1>3. CASE writeRecord
  BY <1>3 DEF writeRecord, process, MarkComing, Queued
<1>4. CASE remove
  BY <1>4 DEF remove, MarkComing
<1>5. CASE StopBegins
  BY <1>5 DEF StopBegins, MarkComing
<1>6. CASE StopMarks
  BY <1>6, StopMarksFacts DEF MarkComing
<1>7. CASE StopEnds
  <2>1. Queued = {}
    BY <1>7, QueuedFacts DEF StopEnds, Drained, Queued, Inv, TypeOK
  <2> QED
    BY <1>7, <2>1 DEF StopEnds, Drained, store, history, MarkComing
<1>8. CASE Crash \/ Start
  BY <1>8 DEF Crash, Start, MarkComing
<1>9. CASE ResumeClears
  BY <1>9, ResumeClearsFacts DEF MarkComing
<1>10. CASE ResumeCleared
  BY <1>10 DEF ResumeCleared, MarkComing
<1>11. CASE ResumePrompts
  BY <1>11, ResumePromptsFacts DEF MarkComing
<1>12. CASE UNCHANGED vars
  BY <1>12 DEF vars, MarkComing, Queued
<1> QED
  BY <1>1, <1>2, <1>3, <1>4, <1>5, <1>6, <1>7, <1>8, <1>9, <1>10, <1>11, <1>12 DEF Next, Request

(* What is written besides the flag leaves no more flags than there were.  *)
LEMMA FlagsKeep ==
  ASSUME Inv, CacheIsDisk, QueueShape, FlagsCounted, [Next]_vars
  PROVE  FlagsCounted'
<1>0. continued \in Nat /\ stops \in Nat /\ MaxStops \in Nat /\ NoWrite.record = NoRecord
      /\ NoWrite.by = "none"
  BY RecordAssumption DEF Inv, TypeOK, NoWrite
<1>a. ~Flagged(NoRecord)
  BY DEF Flagged
<1>1. CASE Request
  BY <1>1, RequestsOnly, RequestQueue DEF Requests, FlagsCounted, FlagAhead, ResumeAhead, Fits
<1>2. CASE MutationBegins
  <2> DEFINE m == Head(queue)
  <2> SUFFICES ASSUME "flag" \notin stale' PROVE FlagsCounted'
    BY DEF FlagsCounted
  <2>1. /\ writing = NoWrite /\ Queued = {m} \cup Queued' /\ stale \subseteq stale'
        /\ UNCHANGED <<disk, deleting, daemon, resumer, stops, continued>>
        /\ (deleting => writing' = NoWrite)
        /\ (~deleting => writing'.by = m.by /\ disk \in Record /\ writing' # NoWrite
              /\ (writing'.record.flag <=> Marks(m) \/ (m.kind = "upsert" /\ disk.flag)))
    BY <1>2, BeginsFacts
  <2>2. Flagged(writing'.record) => Marks(m) \/ Flagged(disk)
    BY <1>0, <1>a, <2>1, RecordTypes DEF Flagged
  <2>3. Marks(m) => daemon = "marking"
    BY <2>1 DEF QueueShape
  <2>4. FlagAhead' => FlagAhead
    BY <2>1, <2>2 DEF FlagAhead, ResumeAhead
  <2>5. m = Flag("resume", FALSE) /\ ~deleting =>
          writing'.by = "resume" /\ ~Flagged(writing'.record)
    BY <2>1 DEF Flag, Marks, Flagged
  <2> HIDE DEF m
  <2> QED
    BY <1>0, <2>1, <2>2, <2>3, <2>4, <2>5 DEF FlagsCounted
<1>3. CASE writeRecord
  <2>1. /\ disk' = writing.record /\ writing' = NoWrite /\ Queued' = Queued
        /\ UNCHANGED <<deleting, daemon, resumer, stops, continued, stale>>
    BY <1>3 DEF writeRecord, process, Queued
  <2>2. daemon # "down"
    BY <1>3 DEF writeRecord, Inv, DownHasNothing, Nothing
  <2>3. FlagAhead' => FlagAhead
    BY <1>0, <1>a, <2>1 DEF FlagAhead, ResumeAhead
  <2> QED
    BY <1>0, <1>a, <2>1, <2>2, <2>3 DEF FlagsCounted
<1>4. CASE remove
  <2>1. /\ disk' = NoRecord /\ Queued' = Queued /\ deleting
        /\ UNCHANGED <<deleting, daemon, resumer, stops, continued, stale, writing>>
        /\ writing = NoWrite
    BY <1>4 DEF remove, process, history, Queued, Drained
  <2>2. FlagAhead' => FlagAhead
    BY <1>a, <2>1 DEF FlagAhead, ResumeAhead
  <2> QED
    BY <1>0, <1>a, <2>1, <2>2 DEF FlagsCounted
<1>5. CASE StopBegins
  <2>1. /\ daemon = "up" /\ daemon' = "closing" /\ Queued' = Queued
        /\ UNCHANGED <<disk, writing, stops, continued, stale>>
    BY <1>5 DEF StopBegins, store, history, Queued
  <2>2. FlagAhead' => FlagAhead
    BY <2>1 DEF FlagAhead, ResumeAhead
  <2> QED
    BY <2>1, <2>2 DEF FlagsCounted
<1>6. CASE StopMarks
  <2>1. /\ daemon = "closing" /\ daemon' = "marking" /\ UNCHANGED <<disk, writing, stale, continued>>
        /\ \/ stops' = stops + 1
           \/ stops' = stops /\ Queued' = {}
    BY <1>6, StopMarksFacts
  <2>2. stops' = stops => (FlagAhead' => FlagAhead)
    BY <1>0, <2>1 DEF FlagAhead, ResumeAhead
  <2>3. "flag" \notin stale' => continued' <= stops' /\ (FlagAhead' => continued' < stops')
    BY <1>0, <2>1, <2>2 DEF FlagsCounted
  <2> QED
    BY <2>1, <2>3 DEF FlagsCounted
<1>7. CASE StopEnds
  <2>1. daemon' = "down" /\ UNCHANGED <<disk, stops, continued, stale>>
    BY <1>7 DEF StopEnds, store, history
  <2>2. FlagAhead' => FlagAhead
    BY <1>0, <1>7, <1>a, <2>1, NothingQueued DEF FlagAhead, ResumeAhead
  <2> QED
    BY <1>0, <1>7, <1>a, <2>1, <2>2, NothingQueued DEF FlagsCounted
<1>8. CASE Crash
  <2>1. /\ daemon' = "down" /\ UNCHANGED <<stops, continued, stale>>
        /\ disk' = disk \/ disk' = writing.record
    BY <1>8 DEF Crash
  <2>2. FlagAhead' => FlagAhead
    BY <1>0, <1>8, <1>a, <2>1, NothingQueued DEF FlagAhead, ResumeAhead
  <2> QED
    BY <1>0, <1>8, <1>a, <2>1, <2>2, NothingQueued DEF FlagsCounted
<1>9. CASE Start
  <2>1. /\ UNCHANGED <<disk, stops, continued, stale>>
        /\ resumer' \in {"none", "listed", "unresumable"}
        /\ resumer' = "listed" => Flagged(disk)
    BY <1>9 DEF Start, Flagged
  <2>2. FlagAhead' => FlagAhead
    BY <1>0, <1>9, <1>a, <2>1, NothingQueued DEF FlagAhead, ResumeAhead
  <2> QED
    BY <1>0, <1>9, <1>a, <2>1, <2>2, NothingQueued DEF FlagsCounted
<1>10. CASE ResumeClears
  <2>1. FlagAhead' => FlagAhead
    BY <1>10, ResumeClearsFacts DEF FlagAhead, ResumeAhead
  <2>2. resumer' = "clearing" => ~Flagged(disk) \/ Flag("resume", FALSE) \in Queued'
    BY <1>10, ResumeClearsFacts DEF CacheIsDisk, Exists, Flagged
  <2>3. /\ UNCHANGED <<disk, writing, daemon, stops, stale, continued>>
        /\ resumer' \in {"clearing", "dropping"}
    BY <1>10, ResumeClearsFacts
  <2> QED
    BY <2>1, <2>2, <2>3 DEF FlagsCounted
<1>11. CASE ResumeCleared
  <2>1. /\ resumer \in {"clearing", "dropping"} /\ ~Pending("resume") /\ daemon = "up"
        /\ resumer' = IF resumer = "clearing" THEN "prompting" ELSE "none"
        /\ UNCHANGED <<disk, writing, deleting, daemon, stops, stale, continued>>
        /\ Queued' = Queued
    BY <1>11 DEF ResumeCleared, store, history, Queued
  <2>2. writing.by # "resume" /\ Flag("resume", FALSE) \notin Queued
    BY <2>1, PendingFacts DEF Inv, Flag
  <2>3. FlagAhead' => FlagAhead
    BY <2>1 DEF FlagAhead, ResumeAhead
  <2> QED
    BY <2>1, <2>2, <2>3 DEF FlagsCounted
<1>12. CASE ResumePrompts
  <2> SUFFICES ASSUME "flag" \notin stale PROVE FlagsCounted'
    BY <1>12, ResumePromptsFacts DEF FlagsCounted
  <2>1. /\ daemon = "up" /\ resumer = "prompting" /\ resumer' = "none"
        /\ UNCHANGED <<disk, writing, daemon, stops, stale>>
        /\ \A m \in Queued' : ~Marks(m)
        /\ \/ continued' = continued
           \/ ~deleting /\ continued' = continued + 1
    BY <1>12, ResumePromptsFacts DEF QueueShape, Marks
  <2>2. continued < stops
    BY <2>1 DEF FlagsCounted, FlagAhead, ResumeAhead
  <2>3. ~deleting => ~FlagAhead'
    BY <2>1 DEF FlagsCounted, FlagAhead, ResumeAhead
  <2>4. continued' <= stops /\ (FlagAhead' => continued' < stops)
    BY <1>0, <2>1, <2>2, <2>3
  <2> QED
    BY <2>1, <2>4 DEF FlagsCounted
<1>13. CASE UNCHANGED vars
  BY <1>13 DEF vars, FlagsCounted, FlagAhead, ResumeAhead, Queued
<1> QED
  BY <1>1, <1>2, <1>3, <1>4, <1>5, <1>6, <1>7, <1>8, <1>9, <1>10, <1>11, <1>12, <1>13
     DEF Next, Request

(* An archived agent stays archived.                                       *)
LEMMA ShelvedKeeps ==
  ASSUME Inv, CacheIsDisk, QueueShape, ShelvedStays, [Next]_vars, TypeOK'
  PROVE  ShelvedStays'
<1> DEFINE NoRestore == restoring = NoRecord /\ writing.by # "restore"
                          /\ \A m \in Queued : m.by # "restore"
           Archived == ~removed /\ "archived" \notin stale =>
                         disk.archived /\ (writing # NoWrite => writing.record.archived)
<1>0. NoWrite.by = "none"
  BY DEF NoWrite
<1>a. shelved => NoRestore /\ Archived
  BY PendingFacts DEF ShelvedStays, Inv
<1>b. (shelved' => NoRestore' /\ Archived') => ShelvedStays'
  <2>1. ASSUME NoRestore' PROVE ~Pending("restore")'
    BY <2>1 DEF Pending, Queued, ToSet, TypeOK
  <2> QED
    BY <2>1 DEF ShelvedStays
<1> SUFFICES ASSUME shelved' PROVE NoRestore' /\ Archived'
  BY <1>b
<1>1. CASE Request
  BY <1>1, <1>a, RequestsOnly, RequestQueue DEF Requests, Fits
<1>2. CASE MutationBegins
  <2> DEFINE m == Head(queue)
  <2>1. /\ writing = NoWrite /\ Queued = {m} \cup Queued' /\ stale \subseteq stale'
        /\ UNCHANGED <<disk, deleting, removed, restoring, shelved>>
        /\ (deleting => writing' = NoWrite)
        /\ (~deleting => writing'.by = m.by)
    BY <1>2, BeginsFacts
  <2>2. NoRestore' /\ m.by # "restore"
    BY <1>0, <1>a, <2>1
  <2>3. Archived'
    <3> SUFFICES ASSUME ~removed, "archived" \notin stale', ~deleting
                 PROVE  disk.archived /\ writing'.record.archived
      BY <1>a, <2>1
    <3>1. disk.archived
      BY <1>a, <2>1
    <3>2. \/ writing'.record.archived
          \/ m.kind = "upsert" /\ m.by \in {"archive", "shelve"} /\ ~m.record.archived
      BY <1>2, <2>2, <3>1, BeginsFacts
    <3> QED
      BY <2>1, <3>1, <3>2 DEF QueueShape
  <2> QED
    BY <2>2, <2>3
<1>3. CASE writeRecord
  <2>1. /\ disk' = writing.record /\ writing' = NoWrite /\ Queued' = Queued /\ writing # NoWrite
        /\ UNCHANGED <<removed, restoring, stale>>
        /\ shelved \/ (writing.record.archived /\ restoring = NoRecord /\ ~Pending("restore"))
    BY <1>3 DEF writeRecord, Queued
  <2>2. NoRestore
    BY <1>a, <2>1, PendingFacts DEF Inv
  <2> QED
    BY <1>0, <1>a, <2>1, <2>2
<1>4. CASE remove
  BY <1>4, <1>a DEF remove, history, Queued
<1>5. CASE StopBegins
  BY <1>5, <1>a DEF StopBegins, store, history, Queued
<1>6. CASE StopMarks
  <2>1. Flag("stop", TRUE).by = "stop"
    BY DEF Flag
  <2> QED
    BY <1>6, <1>a, <2>1, StopMarksFacts
<1>7. CASE StopEnds
  BY <1>0, <1>7, <1>a, NothingQueued DEF StopEnds, store, history
<1>8. CASE Crash
  <2>1. /\ shelved /\ disk'.archived /\ restoring' = NoRecord
    BY <1>8 DEF Crash
  <2> QED
    BY <1>0, <1>8, <2>1, NothingQueued
<1>9. CASE Start
  BY <1>0, <1>9, <1>a, NothingQueued DEF Start
<1>10. CASE ResumeClears
  BY <1>10, <1>a, ResumeClearsFacts
<1>11. CASE ResumeCleared
  BY <1>11, <1>a DEF ResumeCleared, store, history, Queued
<1>12. CASE ResumePrompts
  BY <1>12, <1>a, ResumePromptsFacts
<1>13. CASE UNCHANGED vars
  BY <1>13, <1>a DEF vars, Queued
<1> QED
  BY <1>1, <1>2, <1>3, <1>4, <1>5, <1>6, <1>7, <1>8, <1>9, <1>10, <1>11, <1>12, <1>13
     DEF Next, Request

(* The title that comes last, when a mutation is queued or has its turn.   *)
LEMMA TitledFacts ==
  ASSUME NEW q \in Seq(Mutation), NEW name, NEW other, NEW m \in Mutation
  PROVE  /\ TitledLast(q, name, other) /\ ~Titling(m) => TitledLast(Append(q, m), name, other)
         /\ Titling(m) => TitledLast(Append(q, m), TitleOf(m), other)
         /\ q # <<>> /\ TitledLast(q, name, other) =>
              TitledLast(Tail(q), name,
                         IF Titling(Head(q)) THEN TitleOf(Head(q)) ELSE other)
         /\ TitledLast(<<>>, name, other) <=> other = name
<1> DEFINE a == Append(q, m)
<1>1. /\ Len(q) \in Nat /\ Len(a) = Len(q) + 1 /\ a[Len(q) + 1] = m
      /\ \A i \in 1 .. Len(q) : a[i] = q[i]
  OBVIOUS
<1> HIDE DEF a
<1>2. /\ \A i \in 1 .. Len(a) : i = Len(q) + 1 \/ i \in 1 .. Len(q)
      /\ Len(q) + 1 \in 1 .. Len(a)
      /\ \A i \in 1 .. Len(q) : Len(q) + 1 \in (i + 1) .. Len(a) /\ i \in 1 .. Len(a)
      /\ \A i \in 1 .. Len(q) : \A j \in (i + 1) .. Len(q) :
           j \in (i + 1) .. Len(a) /\ j \in 1 .. Len(q)
  BY <1>1
<1>3. ASSUME TitledLast(q, name, other), ~Titling(m) PROVE TitledLast(a, name, other)
  BY <1>1, <1>2, <1>3 DEF TitledLast
<1>4. ASSUME Titling(m) PROVE TitledLast(a, TitleOf(m), other)
  BY <1>1, <1>2, <1>4 DEF TitledLast
<1>5. ASSUME q # <<>>, TitledLast(q, name, other)
      PROVE  TitledLast(Tail(q), name, IF Titling(Head(q)) THEN TitleOf(Head(q)) ELSE other)
  <2> DEFINE t == Tail(q)
  <2>1. /\ Len(q) \in Nat \ {0} /\ Len(t) = Len(q) - 1 /\ Head(q) = q[1]
        /\ \A i \in 1 .. Len(t) : t[i] = q[i + 1]
    BY <1>5
  <2> HIDE DEF t
  <2>2. /\ \A i \in 1 .. Len(t) : i + 1 \in 1 .. Len(q)
        /\ \A i \in 1 .. Len(q) : i = 1 \/ (i - 1 \in 1 .. Len(t) /\ (i - 1) + 1 = i)
        /\ \A i \in 1 .. Len(t) : \A j \in (i + 2) .. Len(q) :
             j - 1 \in (i + 1) .. Len(t) /\ j - 1 \in 1 .. Len(t) /\ (j - 1) + 1 = j
        /\ \A j \in 2 .. Len(q) : j - 1 \in 1 .. Len(t) /\ (j - 1) + 1 = j
        /\ 1 \in 1 .. Len(q)
    BY <2>1
  <2>3. ASSUME NEW i \in 1 .. Len(t), Titling(t[i]),
               \A j \in (i + 1) .. Len(t) : ~Titling(t[j])
        PROVE  TitleOf(t[i]) = name
    <3>1. \A j \in ((i + 1) + 1) .. Len(q) : ~Titling(q[j])
      <4> TAKE j \in ((i + 1) + 1) .. Len(q)
      <4>1. j \in (i + 2) .. Len(q)
        BY <2>1
      <4> QED
        BY <2>1, <2>2, <2>3, <4>1
    <3> QED
      BY <1>5, <2>1, <2>2, <2>3, <3>1 DEF TitledLast
  <2>4. ASSUME \A i \in 1 .. Len(t) : ~Titling(t[i])
        PROVE  name = IF Titling(Head(q)) THEN TitleOf(Head(q)) ELSE other
    <3>1. \A j \in 2 .. Len(q) : ~Titling(q[j])
      BY <2>1, <2>2, <2>4
    <3>2. CASE Titling(q[1])
      <4>1. \A j \in (1 + 1) .. Len(q) : ~Titling(q[j])
        BY <3>1
      <4> QED
        BY <1>5, <2>1, <2>2, <3>2, <4>1 DEF TitledLast
    <3>3. CASE ~Titling(q[1])
      <4>1. \A i \in 1 .. Len(q) : ~Titling(q[i])
        BY <2>1, <2>2, <2>4, <3>3
      <4> QED
        BY <1>5, <2>1, <3>3, <4>1 DEF TitledLast
    <3> QED
      BY <3>2, <3>3
  <2> QED
    BY <2>3, <2>4 DEF TitledLast, t
<1>6. TitledLast(<<>>, name, other) <=> other = name
  BY DEF TitledLast
<1> QED
  BY <1>3, <1>4, <1>5, <1>6 DEF a

(* The title that was asked for is the one that comes last.                *)
LEMMA TitleKeeps ==
  ASSUME Inv, CacheIsDisk, QueueShape, TitleComing, [Next]_vars
  PROVE  TitleComing'
<1> DEFINE base == IF writing = NoWrite THEN disk.title ELSE writing.record.title
<1>0. queue \in Seq(Mutation)
  BY DEF Inv, TypeOK
<1>a. ~deleting /\ ~removed /\ "title" \notin stale => TitledLast(queue, title, base)
  BY DEF TitleComing
<1>b. (~deleting' /\ ~removed' /\ "title" \notin stale' => TitledLast(queue', title', base'))
        => TitleComing'
  BY DEF TitleComing
<1>c. \A m \in Mutation :
        ~Titling(m) /\ TitledLast(queue, title, base) => TitledLast(Append(queue, m), title, base)
  BY <1>0, TitledFacts
<1> SUFFICES ASSUME ~deleting', ~removed', "title" \notin stale'
             PROVE  TitledLast(queue', title', base')
  BY <1>b
<1>1. CASE Request
  <2>1. Requests
    BY <1>1, RequestsOnly
  <2>2. TitledLast(queue, title, base) /\ base' = base
    BY <1>a, <2>1 DEF Requests
  <2>3. CASE UNCHANGED <<queue, title>>
    BY <2>2, <2>3
  <2>4. ASSUME NEW m \in Mutation, queue' = Append(queue, m), Fits(m)
        PROVE  TitledLast(queue', title', base')
    <3> HIDE DEF base
    <3>1. CASE Titling(m)
      BY <1>0, <2>2, <2>4, <3>1, TitledFacts DEF Fits
    <3>2. CASE ~Titling(m)
      BY <1>0, <2>2, <2>4, <3>2, TitledFacts DEF Fits
    <3> QED
      BY <3>1, <3>2
  <2> QED
    BY <2>1, <2>3, <2>4 DEF Requests
<1>2. CASE MutationBegins
  <2> DEFINE m == Head(queue)
  <2>1. /\ m \in Mutation /\ queue # <<>> /\ queue' = Tail(queue) /\ writing = NoWrite
        /\ stale \subseteq stale' /\ UNCHANGED <<disk, deleting, removed, title>>
        /\ writing' # NoWrite
        /\ writing'.record.title = IF Titling(m) THEN TitleOf(m) ELSE disk.title
    BY <1>2, BeginsFacts
  <2>2. TitledLast(queue, title, disk.title)
    BY <1>a, <2>1
  <2>3. TitledLast(Tail(queue), title, IF Titling(m) THEN TitleOf(m) ELSE disk.title)
    BY <1>0, <2>1, <2>2, TitledFacts
  <2> QED
    BY <2>1, <2>3
<1>3. CASE writeRecord
  BY <1>3, <1>a DEF writeRecord
<1>4. CASE remove
  BY <1>4 DEF remove
<1>5. CASE StopBegins
  BY <1>5, <1>a DEF StopBegins, store, history
<1>6. CASE StopMarks
  <2>1. ~Titling(Flag("stop", TRUE))
    BY DEF Titling, Flag
  <2>2. UNCHANGED <<disk, writing, deleting, removed, title, stale>>
        /\ (queue' = queue \/ queue' = Append(queue, Flag("stop", TRUE)))
        /\ Flag("stop", TRUE) \in Mutation
    BY <1>6, StopMarksFacts
  <2>3. TitledLast(queue, title, base) /\ base' = base
    BY <1>a, <2>2
  <2>4. TitledLast(Append(queue, Flag("stop", TRUE)), title, base)
    BY <1>c, <2>1, <2>2, <2>3, Zenon
  <2> HIDE DEF base
  <2> QED
    BY <2>2, <2>3, <2>4
<1>7. CASE StopEnds
  BY <1>7, <1>a DEF StopEnds, store, history
<1>8. CASE Crash
  <2>1. disk' # NoRecord /\ title' = disk'.title
    BY <1>8, NextKeeps DEF Crash, Inv, RecordKept
  <2>2. queue' = <<>> /\ writing' = NoWrite
    BY <1>8, NothingQueued
  <2>3. TitledLast(<<>>, title', disk'.title)
    BY <2>1 DEF TitledLast
  <2> QED
    BY <2>2, <2>3
<1>9. CASE Start
  <2>1. queue' = <<>> /\ writing' = NoWrite /\ queue = <<>> /\ writing = NoWrite
    BY <1>9, NothingQueued DEF Start, Inv, DownHasNothing, Nothing
  <2>2. disk # NoRecord /\ UNCHANGED <<disk, stale, removed>>
    BY <1>9 DEF Start, Inv, RecordKept
  <2>3. CASE deleting
    <3>1. title' = disk'.title
      BY <1>9, <2>2, <2>3 DEF Start
    <3>2. TitledLast(<<>>, title', disk'.title)
      BY <3>1 DEF TitledLast
    <3> QED
      BY <2>1, <3>2
  <2>4. CASE ~deleting
    <3>1. title' = title
      BY <1>9, <2>4 DEF Start
    <3> QED
      BY <1>a, <2>1, <2>2, <2>4, <3>1
  <2> QED
    BY <2>3, <2>4
<1>10. CASE ResumeClears
  <2>1. ~Titling(Flag("resume", FALSE))
    BY DEF Titling, Flag
  <2>2. UNCHANGED <<disk, writing, deleting, removed, title, stale>>
        /\ (queue' = queue \/ queue' = Append(queue, Flag("resume", FALSE)))
        /\ Flag("resume", FALSE) \in Mutation
    BY <1>10, ResumeClearsFacts
  <2>3. TitledLast(queue, title, base) /\ base' = base
    BY <1>a, <2>2
  <2>4. TitledLast(Append(queue, Flag("resume", FALSE)), title, base)
    BY <1>c, <2>1, <2>2, <2>3, Zenon
  <2> HIDE DEF base
  <2> QED
    BY <2>2, <2>3, <2>4
<1>11. CASE ResumeCleared
  BY <1>11, <1>a DEF ResumeCleared, store, history
<1>12. CASE ResumePrompts
  <2>1. ~Titling(Snapshot("agent", Kept))
    BY DEF Titling, Snapshot
  <2>2. UNCHANGED <<disk, writing, deleting, removed, title, stale>>
        /\ (queue' = queue \/ queue' = Append(queue, Snapshot("agent", Kept)))
        /\ Snapshot("agent", Kept) \in Mutation
    BY <1>12, ResumePromptsFacts
  <2>3. TitledLast(queue, title, base) /\ base' = base
    BY <1>a, <2>2
  <2>4. TitledLast(Append(queue, Snapshot("agent", Kept)), title, base)
    BY <1>c, <2>1, <2>2, <2>3, Zenon
  <2> HIDE DEF base
  <2> QED
    BY <2>2, <2>3, <2>4
<1>13. CASE UNCHANGED vars
  BY <1>13, <1>a DEF vars
<1> QED
  BY <1>1, <1>2, <1>3, <1>4, <1>5, <1>6, <1>7, <1>8, <1>9, <1>10, <1>11, <1>12, <1>13
     DEF Next, Request

-----------------------------------------------------------------------------
(* The theorems.                                                           *)

(* All of it holds in every reachable state.                               *)
More == CacheIsDisk /\ QueueShape /\ MarkComing /\ FlagsCounted /\ ShelvedStays /\ TitleComing
LEMMA MoreHolds == Spec => [](Inv /\ More)
<1>1. Init => More
  <2> SUFFICES ASSUME Init PROVE More
    OBVIOUS
  <2>1. Queued = {} /\ queue = <<>> /\ NoWrite.record = NoRecord
    BY DEF Init, Queued, ToSet, NoWrite
  <2>2. disk \in Record /\ ~disk.flag /\ cache = disk /\ title = disk.title /\ writing = NoWrite
        /\ daemon = "up" /\ resumer = "none" /\ ~shelved /\ stops = 0 /\ continued = 0
    BY DEF Init, Record
  <2>3. CacheIsDisk /\ QueueShape /\ MarkComing
    BY <2>1, <2>2 DEF CacheIsDisk, QueueShape, MarkComing
  <2>4. FlagsCounted
    BY <2>1, <2>2 DEF FlagsCounted, FlagAhead, ResumeAhead, Flagged
  <2>5. ShelvedStays
    BY <2>2 DEF ShelvedStays
  <2>6. TitleComing
    BY <2>1, <2>2 DEF TitleComing, TitledLast
  <2> QED
    BY <2>3, <2>4, <2>5, <2>6 DEF More
<1>2. Inv /\ More /\ [Next]_vars => More'
  <2> SUFFICES ASSUME Inv, More, [Next]_vars PROVE More'
    OBVIOUS
  <2>1. TypeOK'
    BY NextKeeps DEF Inv
  <2> QED
    BY <2>1, ShapeKeeps, MarkKeeps, FlagsKeep, ShelvedKeeps, TitleKeeps DEF More
<1> QED
  BY <1>1, <1>2, InvHolds, PTL DEF Spec

(* The variables keep their types; in particular no mutation is applied to *)
(* a record that is not there.                                             *)
THEOREM TypeCorrect == Spec => []TypeOK
BY InvHolds, PTL DEF Inv

(* Once remove() has returned, the record's file does not come back,       *)
(* whatever was queued, under way or asked for, and however the daemon is  *)
(* stopped, crashes and starts.                                            *)
THEOREM DeletedStaysDeleted == Spec => []StaysDeleted
<1>1. Inv => StaysDeleted
  BY DEF Inv, RemovedIsGone, StaysDeleted
<1> QED BY <1>1, InvHolds, PTL

(* What the user has decided sticks, for any number of mutations that      *)
(* wait, whatever the agent persists in between and wherever the daemon is *)
(* stopped or crashes: an archived agent stays archived, and the title     *)
(* asked for last is the one that is kept.                                 *)
THEOREM DecisionsHold == Spec => []DecisionsStick
<1>1. Inv /\ More => DecisionsStick
  <2> SUFFICES ASSUME Inv, More PROVE DecisionsStick
    OBVIOUS
  <2>1. shelved /\ ~removed /\ "archived" \notin stale
          => disk.archived /\ (daemon = "down" \/ cache.archived)
    BY DEF More, ShelvedStays, CacheIsDisk
  <2>2. ASSUME daemon = "up", Drained, Exists, ~deleting, "title" \notin stale
        PROVE  cache.title = title
    <3>1. queue = <<>> /\ writing = NoWrite /\ cache = disk /\ ~removed
      BY <2>2 DEF Drained, More, CacheIsDisk, Exists, Inv, RemovedIsGone
    <3>2. TitledLast(<<>>, title, disk.title)
      BY <2>2, <3>1 DEF More, TitleComing
    <3> QED
      BY <3>1, <3>2 DEF TitledLast
  <2> QED
    BY <2>1, <2>2 DEF DecisionsStick
<1> QED BY <1>1, MoreHolds, PTL

(* A stop that is over has left the flag of the turn it cut off, although  *)
(* the lifecycle lane and an unarchive may still queue what they have read *)
(* before.                                                                 *)
THEOREM StopMarksTurn == Spec => []StopLeavesFlag
<1>1. Inv /\ More => StopLeavesFlag
  <2> SUFFICES ASSUME Inv, More, daemon = "down", cut, ~deleting, "flag" \notin stale
               PROVE  disk.flag
    BY DEF StopLeavesFlag
  <2>1. Queued = {} /\ writing = NoWrite
    BY QueuedFacts DEF Inv, TypeOK, DownHasNothing, Nothing, Queued
  <2> QED
    BY <2>1 DEF More, MarkComing
<1> QED BY <1>1, MoreHolds, PTL

(* No turn is continued more often than it was cut off, whatever number of *)
(* stops, crashes and starts there is.                                     *)
THEOREM TurnContinuedOnce == Spec => []ContinuedOnce
<1>1. More => ContinuedOnce
  BY DEF More, FlagsCounted, ContinuedOnce
<1> QED BY <1>1, MoreHolds, PTL
=============================================================================
