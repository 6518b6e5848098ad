------------------------------- MODULE PidLock -------------------------------
(***************************************************************************)
(* The daemon's PID lock (pid-lock.ts): one supervisor per home directory. *)
(*                                                                         *)
(* Every process starts once; a restart is another process.  A process     *)
(* publishes one lock file, so the file (its inode) is named by the        *)
(* process that wrote it, and `path` says which one frogg.pid names.  Each *)
(* file system call is a step of its own, and a process can die between    *)
(* any two.                                                                *)
(*                                                                         *)
(* Two things are assumed of time: a live process that rewrites its lock   *)
(* does so within the 450 ms that readers retry, and the PID of a dead     *)
(* owner is not taken over by another program.                             *)
(***************************************************************************)
EXTENDS Naturals, FiniteSets

CONSTANTS
  Procs,        \* supervisor processes
  Desktop,      \* those that the desktop app launches
  NoFile,       \* frogg.pid does not exist
  MaxStarters   \* how many processes may be acquiring the lock at once

ASSUME ProcsAssumption ==
  NoFile \notin Procs /\ IsFiniteSet(Procs) /\ Desktop \subseteq Procs
ASSUME StartersAssumption == MaxStarters \in Nat

VARIABLES
  path,       \* the lock file that frogg.pid names
  empty,      \* lock files whose content is truncated
  fresh,      \* lock files whose mtime is recent
  pc,         \* where each process is
  seen,       \* the lock a starting process read
  contended   \* starting processes that shared their start with a live process

vars == <<path, empty, fresh, pc, seen, contended>>

Starting ==
  {"reading", "probing", "checking", "confirming", "rechecking", "discarding", "publishing"}
Holding == {"holding", "writing"}
Over == {"failed", "exited", "crashed"}
Phases == {"new"} \cup Starting \cup Holding \cup {"stopping", "releasing"} \cup Over

TypeOK ==
  /\ path \in Procs \cup {NoFile}
  /\ empty \in SUBSET Procs
  /\ fresh \in SUBSET Procs
  /\ pc \in [Procs -> Phases]
  /\ seen \in [Procs -> Procs \cup {NoFile}]
  /\ contended \in SUBSET Procs

Init ==
  /\ path = NoFile
  /\ empty = {}
  /\ fresh = {}
  /\ pc = [p \in Procs |-> "new"]
  /\ seen = [p \in Procs |-> NoFile]
  /\ contended = {}

\* isPidRunning
Running(p) == pc[p] \notin {"new"} \cup Over

\* What a reader makes of frogg.pid.
Readable == path # NoFile /\ path \notin empty

Goto(p, phase) == pc' = [pc EXCEPT ![p] = phase]

-----------------------------------------------------------------------------
(* acquirePidLock.                                                          *)

Start(p) ==
  /\ pc[p] = "new"
  /\ Cardinality({q \in Procs : pc[q] \in Starting}) < MaxStarters
  /\ Goto(p, "reading")
  /\ contended' = contended \cup {q \in Procs : q # p /\ pc[q] \in Starting}
       \cup (IF \E q \in Procs : q # p /\ Running(q) THEN {p} ELSE {})
  /\ UNCHANGED <<path, empty, fresh, seen>>

\* readPidLockWithRetry: no file, or a lock.
ReadLock(p) ==
  /\ pc[p] = "reading"
  /\ path = NoFile \/ Readable
  /\ seen' = [seen EXCEPT ![p] = path]
  /\ Goto(p, IF path = NoFile THEN "probing" ELSE "checking")
  /\ UNCHANGED <<path, empty, fresh, contended>>

\* acquirePidLock read no lock and asks once more whether the file exists: one
\* that does by now is taken for an unreadable lock.
ProbeFile(p) ==
  /\ pc[p] = "probing"
  /\ Goto(p, IF path = NoFile THEN "publishing" ELSE "discarding")
  /\ UNCHANGED <<path, empty, fresh, seen, contended>>

\* Mutants: an unreadable lock fails the start, as it did before the fix of the
\* incident; or it is read again for ever.
ReadUnreadableFails(p) ==
  /\ pc[p] = "reading"
  /\ path # NoFile /\ path \in empty /\ ~Running(path)
  /\ Goto(p, "failed")
  /\ UNCHANGED <<path, empty, fresh, seen, contended>>

ReadUnreadableRetries(p) ==
  /\ pc[p] = "reading"
  /\ path # NoFile /\ path \in empty /\ ~Running(path)
  /\ Goto(p, "reading")
  /\ UNCHANGED <<path, empty, fresh, seen, contended>>

\* The file stayed unreadable through all retries: nobody is writing it.
ReadUnreadable(p) ==
  /\ pc[p] = "reading"
  /\ path # NoFile /\ path \in empty /\ ~Running(path)
  /\ Goto(p, "discarding")
  /\ UNCHANGED <<path, empty, fresh, seen, contended>>

\* canReclaimLiveLock
CanReclaim(p, q) == p \in Desktop /\ q \in Desktop

\* Mutants: the owner is taken for alive; the start moves to a phase that
\* nothing handles.
FindDeadOwnerFails(p) ==
  /\ pc[p] = "checking" /\ ~Running(seen[p])
  /\ Goto(p, "failed")
  /\ UNCHANGED <<path, empty, fresh, seen, contended>>

FindDeadOwnerUnhandled(p) ==
  /\ pc[p] = "checking" /\ ~Running(seen[p])
  /\ Goto(p, "clearing")
  /\ UNCHANGED <<path, empty, fresh, seen, contended>>

\* clearExistingPidLock: a dead owner's lock is abandoned.
FindDeadOwner(p) ==
  /\ pc[p] = "checking" /\ ~Running(seen[p])
  /\ Goto(p, "discarding")
  /\ UNCHANGED <<path, empty, fresh, seen, contended>>

\* isPidLockFresh looks at the file that is there now.
Fresh == path # NoFile /\ path \in fresh

\* Mutant: any lock without a recent heartbeat is taken, whoever owns it.
FindLiveOwnerStale(p) ==
  /\ pc[p] = "checking" /\ Running(seen[p])
  /\ Goto(p, IF ~Fresh THEN "confirming" ELSE "failed")
  /\ UNCHANGED <<path, empty, fresh, seen, contended>>

FindLiveOwner(p) ==
  /\ pc[p] = "checking" /\ Running(seen[p])
  /\ Goto(p, IF CanReclaim(p, seen[p]) /\ ~Fresh THEN "confirming" ELSE "failed")
  /\ UNCHANGED <<path, empty, fresh, seen, contended>>

\* Read again before taking the lock of a live owner that stopped its heartbeat,
\* then look at the file's age again; a file that is gone has none.
ConfirmOwner(p) ==
  /\ pc[p] = "confirming"
  /\ Goto(p, IF Readable /\ path = seen[p] THEN "rechecking" ELSE "failed")
  /\ UNCHANGED <<path, empty, fresh, seen, contended>>

ConfirmAbandoned(p) ==
  /\ pc[p] = "rechecking"
  /\ Goto(p, IF Fresh THEN "failed" ELSE "discarding")
  /\ UNCHANGED <<path, empty, fresh, seen, contended>>

\* unlink(frogg.pid), whatever it names by now.
Discard(p) ==
  /\ pc[p] = "discarding"
  /\ path' = NoFile
  /\ Goto(p, "publishing")
  /\ UNCHANGED <<empty, fresh, seen, contended>>

\* writeNewPidLock: link() publishes the finished file, or fails with EEXIST.
Publish(p) ==
  /\ pc[p] = "publishing"
  /\ IF path = NoFile
     THEN path' = p /\ fresh' = fresh \cup {p} /\ Goto(p, "holding")
     ELSE Goto(p, "failed") /\ UNCHANGED <<path, fresh>>
  /\ UNCHANGED <<empty, seen, contended>>

-----------------------------------------------------------------------------
(* The holder.                                                              *)

\* startPidLockHeartbeat / refreshPidLock: the lock is still ours.
Heartbeat(p) ==
  /\ pc[p] \in Holding /\ path = p /\ p \notin empty
  /\ fresh' = fresh \cup {p}
  /\ UNCHANGED <<path, empty, pc, seen, contended>>

\* Mutant: a missing lock file is taken for a transient error.
HeartbeatLostToOther(p) ==
  /\ pc[p] \in Holding /\ path \notin {p, NoFile}
  /\ Goto(p, "stopping")
  /\ UNCHANGED <<path, empty, fresh, seen, contended>>

\* The lock is gone or somebody else's: the supervisor shuts down.
HeartbeatLost(p) ==
  /\ pc[p] \in Holding /\ path # p
  /\ Goto(p, "stopping")
  /\ UNCHANGED <<path, empty, fresh, seen, contended>>

\* No heartbeat for five minutes (a suspended machine, a stalled process).
Stall ==
  /\ path \in fresh
  /\ fresh' = fresh \ {path}
  /\ UNCHANGED <<path, empty, pc, seen, contended>>

\* updatePidLock, once the worker listens: truncate, then write.
UpdateTruncates(p) ==
  /\ pc[p] = "holding" /\ path = p
  /\ empty' = empty \cup {p}
  /\ Goto(p, "writing")
  /\ UNCHANGED <<path, fresh, seen, contended>>

UpdateWrites(p) ==
  /\ pc[p] = "writing"
  /\ empty' = empty \ {p}
  /\ fresh' = fresh \cup {p}
  /\ Goto(p, "holding")
  /\ UNCHANGED <<path, seen, contended>>

\* The supervisor exits: releasePidLock.
Stop(p) ==
  /\ pc[p] = "holding"
  /\ Goto(p, "stopping")
  /\ UNCHANGED <<path, empty, fresh, seen, contended>>

ReleaseReads(p) ==
  /\ pc[p] = "stopping"
  /\ Goto(p, IF path = p /\ Readable THEN "releasing" ELSE "exited")
  /\ UNCHANGED <<path, empty, fresh, seen, contended>>

ReleaseUnlinks(p) ==
  /\ pc[p] = "releasing"
  /\ path' = NoFile
  /\ Goto(p, "exited")
  /\ UNCHANGED <<empty, fresh, seen, contended>>

Crash(p) ==
  /\ Running(p)
  /\ Goto(p, "crashed")
  /\ UNCHANGED <<path, empty, fresh, seen, contended>>

-----------------------------------------------------------------------------
Acquire(p) ==
  \/ ReadLock(p) \/ ProbeFile(p) \/ ReadUnreadable(p)
  \/ FindDeadOwner(p) \/ FindLiveOwner(p) \/ ConfirmOwner(p) \/ ConfirmAbandoned(p)
  \/ Discard(p) \/ Publish(p)

Hold(p) ==
  \/ Heartbeat(p) \/ HeartbeatLost(p)
  \/ UpdateTruncates(p) \/ UpdateWrites(p)
  \/ Stop(p) \/ ReleaseReads(p) \/ ReleaseUnlinks(p)

Next == (\E p \in Procs : Start(p) \/ Acquire(p) \/ Hold(p) \/ Crash(p)) \/ Stall

Spec == Init /\ [][Next]_vars

\* A process takes its next step: file system calls return, and the heartbeat
\* timer fires.  A start that keeps looking at a lock its owner rewrites now and
\* then does see it whole (SF): the rewrite is short, the retries span 450 ms.
Fairness ==
  \A p \in Procs : SF_vars(Acquire(p)) /\ WF_vars(HeartbeatLost(p))
                   /\ WF_vars(UpdateWrites(p))

FairSpec == Spec /\ Fairness

-----------------------------------------------------------------------------
(* Properties.                                                              *)

\* At most one process believes that it holds the lock.
MutualExclusion ==
  \A p, q \in Procs : pc[p] \in Holding /\ pc[q] \in Holding => p = q

\* A start fails only when another process was alive meanwhile: neither a dead
\* owner's lock nor a truncated one keeps a lone daemon from starting.
FailsOnlyWhenContended ==
  \A p \in Procs : pc[p] = "failed" => p \in contended

\* Nobody is left without the file: the holder that frogg.pid does not name
\* finds out at its heartbeat and stops.
OustedHolderStops ==
  \A p \in Procs : (pc[p] \in Holding /\ path # p) ~> pc[p] \notin Holding

\* Every start comes to an end.
StartEnds ==
  \A p \in Procs : pc[p] \in Starting ~> pc[p] \notin Starting
=============================================================================
