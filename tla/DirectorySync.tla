---------------------------- MODULE DirectorySync ----------------------------
(***************************************************************************)
(* The daemon's sequenced directory (packages/server directory-sync): one  *)
(* VersionedCollection of a DirectorySyncService, and the replicas that    *)
(* clients keep of it by reading "what changed after my cursor".           *)
(*                                                                         *)
(* The collection stamps every visible change with the next sequence       *)
(* number.  A removal leaves a tombstone so that a later read can report   *)
(* it; only MaxTombstones of them are kept.  A read is answered with the   *)
(* changes after the reader's cursor, or with a full snapshot when the     *)
(* cursor belongs to another daemon start or is too old.  The callers      *)
(* (sessions sequencing live updates, listing RPCs) are left open: any     *)
(* value may be replaced, removed or listed at any time.  A reader here    *)
(* moves its cursor only by committing a read; the cursor jumps that live  *)
(* pushes cause in the UI are outside this module.                         *)
(***************************************************************************)
EXTENDS Integers, FiniteSets

CONSTANTS
  Ids,            \* ids of the directory entries (projects, workspaces or agents)
  Values,         \* the projections an entry can have
  None,           \* no value
  Readers,        \* client replicas
  MaxTombstones,  \* VersionedCollectionOptions.maxTombstones
  MaxSeq,         \* bound on the sequence numbers of one daemon start
  MaxGeneration   \* bound on daemon starts

ASSUME IdsAssumption == IsFiniteSet(Ids)
ASSUME NoneAssumption == None \notin Values
ASSUME BoundsAssumption ==
  MaxTombstones \in Nat /\ MaxSeq \in Nat /\ MaxGeneration \in Nat

VARIABLES
  value,              \* valuesById: value of an id, None when the map has no entry
  valueSeq,           \* valuesById: sequence of that entry, 0 when there is none
  tombstone,          \* tombstonesById: sequence of a removal, 0 when there is none
  expiredThroughSeq,  \* highest sequence of a tombstone that was trimmed
  nextSeq,            \* the head sequence
  generation,         \* the daemon start this collection belongs to
  view,               \* per reader: its replica of the directory
  cursor,             \* per reader: [generation, afterSeq] of its last committed read
  response            \* per reader: the read on its way to it, or NoResponse

collection == <<value, valueSeq, tombstone, expiredThroughSeq, nextSeq, generation>>
vars == <<value, valueSeq, tombstone, expiredThroughSeq, nextSeq, generation,
          view, cursor, response>>

Slot == Values \cup {None}
Content == [Ids -> Slot]
Empty == [i \in Ids |-> None]
NoResponse == [mode |-> "none", generation |-> 0, headSeq |-> 0,
               values |-> Empty, removals |-> {}]
Modes == {"none", "changes", "snapshot"}

\* Generations start at 1: 0 is the cursor of a reader that never read.
NoCursor == [generation |-> 0, afterSeq |-> 0]

TypeOK ==
  /\ value \in Content
  /\ valueSeq \in [Ids -> Nat]
  /\ tombstone \in [Ids -> Nat]
  /\ expiredThroughSeq \in Nat
  /\ nextSeq \in Nat
  /\ generation \in Nat \ {0}
  /\ view \in [Readers -> Content]
  /\ cursor \in [Readers -> [generation : Nat, afterSeq : Nat]]
  /\ response \in [Readers -> [mode : Modes, generation : Nat, headSeq : Nat,
                               values : Content, removals : SUBSET Ids]]

Init ==
  /\ value = Empty
  /\ valueSeq = [i \in Ids |-> 0]
  /\ tombstone = [i \in Ids |-> 0]
  /\ expiredThroughSeq = 0
  /\ nextSeq = 0
  /\ generation = 1
  /\ view = [r \in Readers |-> Empty]
  /\ cursor = [r \in Readers |-> NoCursor]
  /\ response = [r \in Readers |-> NoResponse]

-----------------------------------------------------------------------------
(* trimTombstones: the oldest tombstones go until MaxTombstones are left.   *)
(* tombstonesById is in insertion order and remove() re-inserts, so oldest  *)
(* means smallest sequence.                                                 *)

Largest(S) == CHOOSE m \in S : \A x \in S : x <= m

\* Mutant: one tombstone too many is kept.
TrimmedLate(ts) ==
  {i \in Ids : ts[i] # 0 /\ Cardinality({j \in Ids : ts[j] > ts[i]}) > MaxTombstones}

Trimmed(ts) ==
  {i \in Ids : ts[i] # 0 /\ Cardinality({j \in Ids : ts[j] > ts[i]}) >= MaxTombstones}

Trim(ts) == [i \in Ids |-> IF i \in Trimmed(ts) THEN 0 ELSE ts[i]]

ExpiredAfter(ts) == Largest({expiredThroughSeq} \cup {ts[i] : i \in Trimmed(ts)})

-----------------------------------------------------------------------------
(* The collection's operations.                                             *)

\* Mutant: the tombstone of an entry that comes back is forgotten.
ReplaceKeepsTombstone(i, v) ==
  /\ nextSeq < MaxSeq
  /\ value[i] # v
  /\ nextSeq' = nextSeq + 1
  /\ value' = [value EXCEPT ![i] = v]
  /\ valueSeq' = [valueSeq EXCEPT ![i] = nextSeq + 1]
  /\ UNCHANGED <<tombstone, expiredThroughSeq, generation, view, cursor, response>>

\* replace: an unchanged projection (same fingerprint) takes no sequence number.
Replace(i, v) ==
  /\ nextSeq < MaxSeq
  /\ value[i] # v
  /\ nextSeq' = nextSeq + 1
  /\ value' = [value EXCEPT ![i] = v]
  /\ valueSeq' = [valueSeq EXCEPT ![i] = nextSeq + 1]
  /\ tombstone' = [tombstone EXCEPT ![i] = 0]
  /\ UNCHANGED <<expiredThroughSeq, generation, view, cursor, response>>

\* remove: only a visible entry is removed; an unknown or already removed id
\* takes no sequence number.
Remove(i) ==
  /\ nextSeq < MaxSeq
  /\ value[i] # None
  /\ nextSeq' = nextSeq + 1
  /\ value' = [value EXCEPT ![i] = None]
  /\ valueSeq' = [valueSeq EXCEPT ![i] = 0]
  /\ LET ts == [tombstone EXCEPT ![i] = nextSeq + 1]
     IN /\ tombstone' = Trim(ts)
        /\ expiredThroughSeq' = ExpiredAfter(ts)
  /\ UNCHANGED <<generation, view, cursor, response>>

\* replaceAll(list): replace() every listed entry, then remove() the visible
\* entries that are not listed.  Each call that changes something takes the
\* next sequence number; `order` is the order in which the calls came.
Changed(list) == {i \in Ids : list[i] # None /\ list[i] # value[i]}
Gone(list) == {i \in Ids : list[i] = None /\ value[i] # None}
Touched(list) == Changed(list) \cup Gone(list)

Orders(list) ==
  {f \in [Touched(list) -> (nextSeq + 1) .. (nextSeq + Cardinality(Touched(list)))] :
     /\ \A i, j \in Touched(list) : f[i] = f[j] => i = j
     /\ \A i \in Changed(list), j \in Gone(list) : f[i] < f[j]}

ReplaceAll(list, order) ==
  LET ts == [i \in Ids |-> IF i \in Gone(list) THEN order[i]
                           ELSE IF i \in Changed(list) THEN 0 ELSE tombstone[i]]
  IN /\ value' = list
     /\ valueSeq' = [i \in Ids |-> IF i \in Changed(list) THEN order[i]
                                   ELSE IF i \in Gone(list) THEN 0 ELSE valueSeq[i]]
     /\ tombstone' = Trim(ts)
     /\ expiredThroughSeq' = ExpiredAfter(ts)
     /\ nextSeq' = nextSeq + Cardinality(Touched(list))

-----------------------------------------------------------------------------
(* Reads.  They are evaluated on the collection as replaceAll left it.      *)

ReadSnapshot(content, head) ==
  [mode |-> "snapshot", generation |-> generation, headSeq |-> head,
   values |-> content, removals |-> {}]

\* The changes after a cursor: values and tombstones with a later sequence.
ReadChanges(after, content, seqs, ts, head) ==
  [mode |-> "changes", generation |-> generation, headSeq |-> head,
   values |-> [i \in Ids |-> IF content[i] # None /\ seqs[i] > after
                             THEN content[i] ELSE None],
   removals |-> {i \in Ids : ts[i] > after}]

\* Mutant: changes are read from a cursor that trimming has overtaken.
ReadAfterUnchecked(after, content, seqs, ts, expired, head) ==
  IF after > head
  THEN ReadSnapshot(content, head)
  ELSE ReadChanges(after, content, seqs, ts, head)

\* readAfter: a cursor below the trimmed tombstones, or above the head,
\* falls back to a snapshot.
ReadAfter(after, content, seqs, ts, expired, head) ==
  IF after < expired \/ after > head
  THEN ReadSnapshot(content, head)
  ELSE ReadChanges(after, content, seqs, ts, head)

\* Mutant: a cursor of an earlier daemon start is taken for one of this start.
ReadAnyGeneration(cur, content, seqs, ts, expired, head) ==
  IF cur = NoCursor
  THEN ReadSnapshot(content, head)
  ELSE ReadAfter(cur.afterSeq, content, seqs, ts, expired, head)

\* DirectorySyncService.read: a cursor of another daemon start, or no cursor,
\* gets a snapshot.
Read(cur, content, seqs, ts, expired, head) ==
  IF cur.generation # generation
  THEN ReadSnapshot(content, head)
  ELSE ReadAfter(cur.afterSeq, content, seqs, ts, expired, head)

\* synchronizeProjects / synchronizeWorkspaces / synchronizeAgents: absorb the
\* listing, then answer the reader from the result.  A request supersedes the
\* reader's earlier one, whose answer is then ignored.
Synchronize(r, list, order) ==
  /\ nextSeq + Cardinality(Touched(list)) <= MaxSeq
  /\ ReplaceAll(list, order)
  /\ response' = [response EXCEPT ![r] =
       Read(cursor[r], value', valueSeq', tombstone', expiredThroughSeq', nextSeq')]
  /\ UNCHANGED <<generation, view, cursor>>

-----------------------------------------------------------------------------
(* The reader.                                                              *)

\* A snapshot replaces the replica; changes are merged into it.
CommitSnapshot(resp) ==
  [i \in Ids |-> IF i \in resp.removals THEN None ELSE resp.values[i]]

CommitChanges(v, resp) ==
  [i \in Ids |->
     IF i \in resp.removals THEN None
     ELSE IF resp.values[i] # None THEN resp.values[i] ELSE v[i]]

\* fetchWorkspaceSnapshot and commitAgentSnapshot: what an answer makes of
\* content v.
Apply(v, resp) ==
  IF resp.mode = "changes" THEN CommitChanges(v, resp) ELSE CommitSnapshot(resp)

\* Mutant: the cursor is one short of the head it stands for.
WriteCursorShort(old, new) ==
  IF old.generation = new.generation /\ old.afterSeq >= new.afterSeq
  THEN old ELSE [new EXCEPT !.afterSeq = @ - 1]

\* writeCursor: never backwards within a generation.
WriteCursor(old, new) ==
  IF old.generation = new.generation /\ old.afterSeq >= new.afterSeq THEN old ELSE new

\* The answer arrives and the refresh transaction completes.
Commit(r) ==
  /\ response[r] # NoResponse
  /\ view' = [view EXCEPT ![r] = Apply(view[r], response[r])]
  /\ cursor' = [cursor EXCEPT ![r] =
       WriteCursor(cursor[r], [generation |-> response[r].generation,
                               afterSeq |-> response[r].headSeq])]
  /\ response' = [response EXCEPT ![r] = NoResponse]
  /\ UNCHANGED collection

\* The connection drops, or the refresh is superseded, before the answer is
\* committed: replica and cursor stay as they were.
Lose(r) ==
  /\ response[r] # NoResponse
  /\ response' = [response EXCEPT ![r] = NoResponse]
  /\ UNCHANGED <<value, valueSeq, tombstone, expiredThroughSeq, nextSeq, generation,
                 view, cursor>>

\* The daemon restarts: a new DirectorySyncService with a new generation and
\* empty collections; answers in flight die with their connections, replicas
\* and cursors survive in the clients.
Restart ==
  /\ generation < MaxGeneration
  /\ generation' = generation + 1
  /\ value' = Empty
  /\ valueSeq' = [i \in Ids |-> 0]
  /\ tombstone' = [i \in Ids |-> 0]
  /\ expiredThroughSeq' = 0
  /\ nextSeq' = 0
  /\ response' = [r \in Readers |-> NoResponse]
  /\ UNCHANGED <<view, cursor>>

\* sequenceProjectUpdate / sequenceWorkspaceUpdate / sequenceAgentUpdate: a live
\* update passes through the collection on its way to a session.
SequenceUpdate ==
  \/ \E i \in Ids, v \in Values : Replace(i, v)
  \/ \E i \in Ids : Remove(i)

Next ==
  \/ SequenceUpdate
  \/ \E r \in Readers, list \in Content : \E order \in Orders(list) :
        Synchronize(r, list, order)
  \/ \E r \in Readers : Commit(r)
  \/ \E r \in Readers : Lose(r)
  \/ Restart

Spec == Init /\ [][Next]_vars

-----------------------------------------------------------------------------
(* Properties.                                                              *)

\* Bookkeeping of VersionedCollection: an id is visible or tombstoned, never
\* both; sequence numbers are unique and not above the head; trimming took
\* older tombstones than those it kept.
CollectionOK ==
  /\ \A i \in Ids : value[i] # None <=> valueSeq[i] # 0
  /\ \A i \in Ids : value[i] # None => tombstone[i] = 0
  /\ \A i \in Ids : valueSeq[i] <= nextSeq /\ tombstone[i] <= nextSeq
  /\ \A i, j \in Ids : i # j /\ valueSeq[i] # 0 =>
        valueSeq[i] # valueSeq[j] /\ valueSeq[i] # tombstone[j]
  /\ \A i, j \in Ids : i # j /\ tombstone[i] # 0 => tombstone[i] # tombstone[j]
  /\ \A i \in Ids : tombstone[i] # 0 => tombstone[i] > expiredThroughSeq
  /\ expiredThroughSeq <= nextSeq

\* trimTombstones after every removal keeps at most MaxTombstones of them,
\* however many calls a replaceAll makes.
TombstonesBounded ==
  Cardinality({i \in Ids : tombstone[i] # 0}) <= MaxTombstones

\* Content v reflects every change of the collection up to sequence s.
Reflects(v, s) ==
  /\ s <= nextSeq
  /\ \A i \in Ids : value[i] # None /\ valueSeq[i] <= s => v[i] = value[i]
  /\ \A i \in Ids :
        value[i] = None /\ tombstone[i] <= s /\ expiredThroughSeq <= s => v[i] = None

\* A replica whose cursor belongs to this daemon start holds every change up
\* to its cursor, and so will it once the answer in flight is committed: no
\* change can fall between two reads, whatever was trimmed, restarted or lost
\* in between.
ReplicaReflectsCursor ==
  \A r \in Readers :
    /\ cursor[r].generation <= generation
    /\ cursor[r].generation = generation => Reflects(view[r], cursor[r].afterSeq)
    /\ response[r] # NoResponse =>
         /\ response[r].generation = generation
         /\ Reflects(Apply(view[r], response[r]), response[r].headSeq)
         /\ cursor[r].generation = generation => cursor[r].afterSeq <= response[r].headSeq

\* Refinement: a read of changes delivers what a full copy would.
Pending(r) ==
  IF response[r] = NoResponse THEN {} ELSE {Apply(view[r], response[r])}

Mirror == INSTANCE DirectoryMirror WITH
  Contents <- Content, directory <- value,
  answer <- [r \in Readers |-> Pending(r)], replica <- view

\* Incremental reads implement the full-copy directory.
ImplementsMirror == Mirror!Spec
=============================================================================
