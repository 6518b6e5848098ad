---------------------------- MODULE PidLockProofs ----------------------------
(***************************************************************************)
(* What holds of PidLock for any number of processes: a lone start never   *)
(* fails, and starts that do not overlap exclude each other.               *)
(***************************************************************************)
EXTENDS PidLock, FiniteSetTheorems, TLAPS

\* Type correctness of the lock file and of the processes' phases.
THEOREM TypeCorrect == Spec => []TypeOK
<1>1. Init => TypeOK
  BY DEF Init, TypeOK, Phases
<1>2. TypeOK /\ [Next]_vars => TypeOK'
  <2> SUFFICES ASSUME TypeOK, [Next]_vars PROVE TypeOK'
    OBVIOUS
  <2> USE DEF TypeOK, Phases, Starting, Holding, Over, Goto
  <2>1. ASSUME NEW p \in Procs, Start(p) PROVE TypeOK'
    BY <2>1 DEF Start
  <2>2. ASSUME NEW p \in Procs, Acquire(p) PROVE TypeOK'
    BY <2>2 DEF Acquire, ReadLock, ProbeFile, ReadUnreadable, FindDeadOwner,
                FindLiveOwner, ConfirmOwner, ConfirmAbandoned, Discard, Publish
  <2>3. ASSUME NEW p \in Procs, Hold(p) PROVE TypeOK'
    BY <2>3 DEF Hold, Heartbeat, HeartbeatLost, UpdateTruncates, UpdateWrites, Stop,
                ReleaseReads, ReleaseUnlinks
  <2>4. ASSUME NEW p \in Procs, Crash(p) PROVE TypeOK'
    BY <2>4 DEF Crash
  <2>5. CASE Stall
    BY <2>5 DEF Stall
  <2>6. CASE UNCHANGED vars
    BY <2>6 DEF vars
  <2>7. QED
    BY <2>1, <2>2, <2>3, <2>4, <2>5, <2>6 DEF Next
<1>3. QED
  BY <1>1, <1>2, PTL DEF Spec

-----------------------------------------------------------------------------
(* A start that shares its time with no live process.                       *)

\* A process that has not published names no lock, and has read no lock of
\* its own.
NotYetPublished ==
  \A p \in Procs :
    pc[p] \in {"new"} \cup Starting => path # p /\ seen[p] # p

\* While a start is alone, nobody else runs, nothing is published behind its
\* back, and it never meets a live owner.
AloneMeansAlone ==
  \A p \in Procs :
    pc[p] \in Starting /\ p \notin contended =>
      /\ \A q \in Procs : q # p => ~Running(q)
      /\ pc[p] \in {"probing", "publishing"} => path = NoFile
      /\ pc[p] \notin {"confirming", "rechecking"}

\* A start that looks at a lock has read one.
HasSeen == \A p \in Procs : pc[p] \in {"checking", "confirming"} => seen[p] \in Procs

LoneInv == TypeOK /\ NotYetPublished /\ AloneMeansAlone /\ HasSeen /\ FailsOnlyWhenContended

\* A step of the start of p.
LEMMA AcquireKeepsLoneInv ==
  ASSUME LoneInv, TypeOK', NEW p \in Procs, Acquire(p)
  PROVE  LoneInv'
<1> USE ProcsAssumption DEF LoneInv, NotYetPublished, AloneMeansAlone, HasSeen,
        FailsOnlyWhenContended, Running, Goto, Starting, Over, TypeOK
<1>1. CASE ReadLock(p) \/ ProbeFile(p)
  BY <1>1 DEF ReadLock, ProbeFile, Readable
<1>2. CASE ReadUnreadable(p)
  BY <1>2 DEF ReadUnreadable
<1>3. CASE FindDeadOwner(p)
  BY <1>3 DEF FindDeadOwner
<1>4. CASE FindLiveOwner(p)
  BY <1>4 DEF FindLiveOwner
<1>5. CASE ConfirmOwner(p) \/ ConfirmAbandoned(p)
  BY <1>5 DEF ConfirmOwner, ConfirmAbandoned
<1>6. CASE Discard(p)
  BY <1>6 DEF Discard
<1>7. CASE Publish(p)
  BY <1>7 DEF Publish
<1>8. QED
  BY <1>1, <1>2, <1>3, <1>4, <1>5, <1>6, <1>7 DEF Acquire

\* A start fails only when it shared its time with another live process,
\* whatever dead owners or truncated files it met.
THEOREM LoneStartSucceeds == Spec => []FailsOnlyWhenContended
<1>1. Init => LoneInv
  BY ProcsAssumption DEF Init, LoneInv, TypeOK, Phases, NotYetPublished, AloneMeansAlone,
     HasSeen, FailsOnlyWhenContended, Starting
<1>2. LoneInv /\ TypeOK' /\ [Next]_vars => LoneInv'
  <2> SUFFICES ASSUME LoneInv, TypeOK', [Next]_vars PROVE LoneInv'
    OBVIOUS
  <2>1. ASSUME NEW p \in Procs, Acquire(p) PROVE LoneInv'
    BY <2>1, AcquireKeepsLoneInv
  <2> USE ProcsAssumption DEF LoneInv, NotYetPublished, AloneMeansAlone, HasSeen,
          FailsOnlyWhenContended, Running, Goto, Starting, Holding, Over, TypeOK
  <2>2. ASSUME NEW p \in Procs, Start(p) PROVE LoneInv'
    BY <2>2 DEF Start
  <2>3. ASSUME NEW p \in Procs, Hold(p) PROVE LoneInv'
    <3>1. CASE Heartbeat(p) \/ HeartbeatLost(p)
      BY <3>1 DEF Heartbeat, HeartbeatLost
    <3>2. CASE UpdateTruncates(p) \/ UpdateWrites(p)
      BY <3>2 DEF UpdateTruncates, UpdateWrites
    <3>3. CASE Stop(p) \/ ReleaseReads(p) \/ ReleaseUnlinks(p)
      BY <3>3 DEF Stop, ReleaseReads, ReleaseUnlinks
    <3>4. QED
      BY <2>3, <3>1, <3>2, <3>3 DEF Hold
  <2>4. ASSUME NEW p \in Procs, Crash(p) PROVE LoneInv'
    BY <2>4 DEF Crash
  <2>5. CASE Stall
    BY <2>5 DEF Stall
  <2>6. CASE UNCHANGED vars
    BY <2>6 DEF vars
  <2>7. QED
    BY <2>1, <2>2, <2>3, <2>4, <2>5, <2>6 DEF Next
<1>3. QED
  BY <1>1, <1>2, TypeCorrect, PTL DEF Spec, LoneInv

-----------------------------------------------------------------------------
(* Starts that do not overlap, and no desktop reclaiming.                   *)

OneStarts ==
  \A p, q \in Procs : pc[p] \in Starting /\ pc[q] \in Starting => p = q

\* frogg.pid names the process that holds or is about to release the lock.
HolderIsNamed ==
  \A p \in Procs : pc[p] \in Holding \cup {"releasing"} => path = p

\* The file that frogg.pid names was written by a process that started, and
\* the only start under way unlinks nothing but what a dead process left.
StarterIsSafe ==
  /\ \A p \in Procs : pc[p] = "new" => path # p
  /\ \A p \in Procs : pc[p] \in Starting => path # p
  /\ \A p \in Procs : pc[p] = "checking" => path = NoFile \/ path = seen[p]
  /\ \A p \in Procs : pc[p] = "discarding" => path = NoFile \/ ~Running(path)
  /\ \A p \in Procs : pc[p] \in {"probing", "publishing"} => path = NoFile
  /\ \A p \in Procs : pc[p] \notin {"confirming", "rechecking"}

SerialInv == TypeOK /\ OneStarts /\ HolderIsNamed /\ StarterIsSafe

\* With room for one start at a time and no desktop process, no step breaks
\* the exclusion.
LEMMA SerialStep ==
  ASSUME MaxStarters = 1, Desktop = {}, SerialInv, TypeOK', [Next]_vars
  PROVE  SerialInv'
<1> USE ProcsAssumption DEF SerialInv, OneStarts, HolderIsNamed, StarterIsSafe,
        Running, Goto, Starting, Holding, Over, TypeOK
<1>1. ASSUME NEW p \in Procs, Start(p) PROVE SerialInv'
  <2> DEFINE S == {q \in Procs : pc[q] \in Starting}
  <2>1. IsFiniteSet(S) /\ Cardinality(S) \in Nat
    BY FS_Subset, FS_CardinalityType
  <2>2. Cardinality(S) = 0
    BY <1>1, <2>1 DEF Start
  <2>3. S = {}
    BY <2>1, <2>2, FS_EmptySet
  <2>4. QED
    BY <1>1, <2>3 DEF Start
<1>2. ASSUME NEW p \in Procs, Acquire(p) PROVE SerialInv'
  <2>1. CASE ReadLock(p) \/ ProbeFile(p)
    BY <2>1 DEF ReadLock, ProbeFile, Readable
  <2>2. CASE ReadUnreadable(p)
    BY <2>2 DEF ReadUnreadable
  <2>3. CASE FindDeadOwner(p)
    BY <2>3 DEF FindDeadOwner
  <2>4. CASE FindLiveOwner(p)
    BY <2>4 DEF FindLiveOwner, CanReclaim
  <2>5. CASE ConfirmOwner(p) \/ ConfirmAbandoned(p)
    BY <2>5 DEF ConfirmOwner, ConfirmAbandoned
  <2>6. CASE Discard(p)
    BY <2>6 DEF Discard
  <2>7. CASE Publish(p)
    BY <2>7 DEF Publish
  <2>8. QED
    BY <1>2, <2>1, <2>2, <2>3, <2>4, <2>5, <2>6, <2>7 DEF Acquire
<1>3. ASSUME NEW p \in Procs, Hold(p) PROVE SerialInv'
  <2>1. CASE Heartbeat(p) \/ HeartbeatLost(p)
    BY <2>1 DEF Heartbeat, HeartbeatLost
  <2>2. CASE UpdateTruncates(p) \/ UpdateWrites(p)
    BY <2>2 DEF UpdateTruncates, UpdateWrites
  <2>3. CASE Stop(p) \/ ReleaseReads(p)
    BY <2>3 DEF Stop, ReleaseReads
  <2>4. CASE ReleaseUnlinks(p)
    BY <2>4 DEF ReleaseUnlinks
  <2>5. QED
    BY <1>3, <2>1, <2>2, <2>3, <2>4 DEF Hold
<1>4. ASSUME NEW p \in Procs, Crash(p) PROVE SerialInv'
  BY <1>4 DEF Crash
<1>5. CASE Stall
  BY <1>5 DEF Stall
<1>6. CASE UNCHANGED vars
  BY <1>6 DEF vars
<1>7. QED
  BY <1>1, <1>2, <1>3, <1>4, <1>5, <1>6 DEF Next

\* Supervisors whose starts never overlap never hold the lock together, for
\* any number of them and whatever crashes in between.
THEOREM SerialExclusion ==
  ASSUME MaxStarters = 1, Desktop = {}
  PROVE  Spec => []MutualExclusion
<1>1. Init => SerialInv
  BY ProcsAssumption DEF Init, SerialInv, TypeOK, Phases, OneStarts, HolderIsNamed,
     StarterIsSafe, Starting, Holding
<1>2. SerialInv /\ TypeOK' /\ [Next]_vars => SerialInv'
  BY SerialStep
<1>3. SerialInv => MutualExclusion
  BY DEF SerialInv, HolderIsNamed, MutualExclusion
<1>4. QED
  BY <1>1, <1>2, <1>3, TypeCorrect, PTL DEF Spec
=============================================================================
