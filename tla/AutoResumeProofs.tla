------------------------- MODULE AutoResumeProofs -------------------------
(***************************************************************************)
(* Proofs about the queued resume: what the snapshot shows and the timer   *)
(* agree as soon as an agent has emitted a state, and nothing is queued    *)
(* while the setting is off, for any number of attempts, resumes, events   *)
(* and session replacements; and refusals in a row come to an end.         *)
(***************************************************************************)
EXTENDS AutoResume, FiniteSetTheorems, TLAPS

\* The three invariants are inductive together.
Inv == TypeOK /\ PublishedIffQueued /\ QueuedOnlyIfEnabled

(* What a turn's end leaves in the queue, and the count of the attempts.   *)
LEMMA ScheduleKeeps ==
  ASSUME Inv, NEW limit \in {"bare", "past", "future"}, enabled, schedule(limit),
         UNCHANGED <<agent, enabled>>
  PROVE  /\ attempts' \in 0 .. MaxAttempts
         /\ published' \in {"none", "vague", "known"} /\ timer' \in {"none", "armed", "far"}
         /\ published' # "none" => Loaded
         /\ ahead' \in BOOLEAN /\ owed' \in BOOLEAN
         /\ PublishedIffQueued' /\ QueuedOnlyIfEnabled'
<1>1. CASE ~Loaded \/ Kept(limit)
  BY <1>1 DEF Inv, TypeOK, PublishedIffQueued, QueuedOnlyIfEnabled, schedule, queue, Loaded
<1>2. CASE ~(~Loaded \/ Kept(limit)) /\ attempts = MaxAttempts
  BY <1>2, ResumeAssumption
  DEF Inv, TypeOK, PublishedIffQueued, QueuedOnlyIfEnabled, schedule, queue, Loaded
<1>3. CASE ~(~Loaded \/ Kept(limit)) /\ attempts # MaxAttempts
  <2>1. timer' \in {"armed", "far"} /\ published' \in {"vague", "known"}
        /\ attempts' = attempts + 1 /\ ahead' \in BOOLEAN /\ owed' \in BOOLEAN
    BY <1>3 DEF Inv, TypeOK, schedule, arm
  <2> QED
    BY <1>3, <2>1, ResumeAssumption
    DEF Inv, TypeOK, PublishedIffQueued, QueuedOnlyIfEnabled, Loaded
<1> QED BY <1>1, <1>2, <1>3

(* The resumes keep their type when the agent is taken out of the map.     *)
LEMMA TakenOutKeeps ==
  ASSUME TypeOK, TakenOut
  PROVE  resume' \in [Resumes -> {"none", "summarising", "restarting", "sending"}]
BY DEF TypeOK, TakenOut

(* One step of the service, the agent or the user keeps the invariants.    *)
LEMMA NextKeeps == Inv /\ [Next]_vars => Inv'
<1> SUFFICES ASSUME Inv, [Next]_vars PROVE Inv'
  OBVIOUS
<1> USE DEF Inv, TypeOK, PublishedIffQueued, QueuedOnlyIfEnabled, Loaded, queue, run, history
<1>1. CASE Prompt
  BY <1>1 DEF Prompt, StartRun, StateHeard
<1>2. CASE TurnStarted
  BY <1>2 DEF TurnStarted, TurnStartedHeard, cancel
<1>3. CASE AutonomousTurn
  BY <1>3 DEF AutonomousTurn, TurnStartedHeard, cancel
<1>4. CASE TurnEnds
  <2>1. PICK event \in End : Examine(event)
    BY <1>4 DEF TurnEnds
  <2>2. ending' \in Seq(End) /\ streak' \in Nat
    BY <2>1 DEF Examine
  <2>3. turn' = "none" /\ ~running' /\ running' \in BOOLEAN /\ origin' = "none"
    BY <1>4, Zenon DEF TurnEnds, NoTurn
  <2>4. /\ UNCHANGED <<agent, published, attempts, enabled, resume, ahead, owed, silent>>
        /\ timer' = IF published = "none" THEN "none" ELSE timer
    BY <1>4, <2>1 DEF TurnEnds, Examine, StateHeard
  <2> QED BY <2>2, <2>3, <2>4
<1>5. CASE ReplacedEnds
  <2>1. PICK event \in End : Examine(event)
    BY <1>5 DEF ReplacedEnds
  <2>2. ending' \in Seq(End) /\ streak' \in Nat
    BY <2>1 DEF Examine
  <2>3. running' \in BOOLEAN /\ turn' = "starting" /\ turn = "replacing"
    BY <1>5, Zenon DEF ReplacedEnds
  <2>4. /\ UNCHANGED <<agent, origin, published, attempts, enabled, resume, ahead, owed, silent>>
        /\ timer' = IF published = "none" THEN "none" ELSE timer
    BY <1>5, <2>1 DEF ReplacedEnds, Examine, StateHeard
  <2> QED BY <2>2, <2>3, <2>4
<1>6. CASE BackgroundEnds
  <2>1. PICK event \in End : Examine(event)
    BY <1>6 DEF BackgroundEnds, End
  <2> QED BY <1>6, <2>1 DEF BackgroundEnds, Examine, End
<1>7. CASE TurnCanceled
  BY <1>7 DEF TurnCanceled, NoTurn, StateHeard
<1>8. CASE Detected
  <2>1. ending' \in Seq(End) /\ Head(ending) \in End
    BY <1>8 DEF Detected, Examined
  <2>2. UNCHANGED <<agent, turn, running, origin, enabled, resume, streak, silent>>
    BY <1>8 DEF Detected
  <2>3. CASE Head(ending).limit # "none" /\ enabled
    <3>1. Head(ending).limit \in {"bare", "past", "future"}
      BY <2>1, <2>3 DEF End
    <3>2. schedule(Head(ending).limit)
      BY <1>8, <2>3 DEF Detected
    <3> HIDE DEF Inv, PublishedIffQueued, QueuedOnlyIfEnabled
    <3>3. /\ attempts' \in 0 .. MaxAttempts
          /\ published' \in {"none", "vague", "known"} /\ timer' \in {"none", "armed", "far"}
          /\ published' # "none" => Loaded
          /\ ahead' \in BOOLEAN /\ owed' \in BOOLEAN
          /\ PublishedIffQueued' /\ QueuedOnlyIfEnabled'
      BY <2>2, <2>3, <3>1, <3>2, ScheduleKeeps
    <3> QED BY <2>1, <2>2, <3>3 DEF Inv
  <2>4. CASE ~(Head(ending).limit # "none" /\ enabled)
    BY <1>8, <2>1, <2>4, ResumeAssumption DEF Detected
  <2> QED BY <2>3, <2>4
<1>9. CASE CloseBegins
  BY <1>9, TakenOutKeeps DEF CloseBegins, TakenOut, NoTurn
<1>10. CASE CloseEnds
  BY <1>10 DEF CloseEnds, StateHeard
<1>11. CASE Reload
  BY <1>11, TakenOutKeeps DEF Reload, TakenOut, NoTurn
<1>12. CASE Load
  BY <1>12 DEF Load
<1>13. CASE ReloadEnds
  <2>1. resume' \in [Resumes -> {"none", "summarising", "restarting", "sending"}]
    BY <1>13, TakenOutKeeps DEF ReloadEnds
  <2> QED BY <1>13, <2>1 DEF ReloadEnds
<1>14. CASE Announce
  BY <1>14 DEF Announce, StateHeard, Dropped
<1>15. CASE Ready
  BY <1>15 DEF Ready, StateHeard
<1>16. CASE ResetPasses
  BY <1>16 DEF ResetPasses
<1>17. CASE Rearm
  BY <1>17 DEF Rearm
<1>18. CASE fire
  <2>1. resume' \in [Resumes -> {"none", "summarising", "restarting", "sending"}]
    BY <1>18 DEF fire
  <2> QED BY <1>18, <2>1 DEF fire, cancel, Dropped
<1>19. ASSUME NEW r \in Resumes,
              CutFails(r) \/ CutRestarts(r) \/ CutEnds(r) \/ ResumeSends(r) \/ ResumeFails(r)
       PROVE Inv'
  <2>1. CASE CutFails(r)
    BY <2>1 DEF CutFails
  <2>2. CASE CutRestarts(r)
    <3>1. resume' \in [Resumes -> {"none", "summarising", "restarting", "sending"}]
      BY <2>2 DEF CutRestarts
    <3> QED BY <2>2, <3>1 DEF CutRestarts, NoTurn
  <2>3. CASE CutEnds(r)
    BY <2>3 DEF CutEnds
  <2>4. CASE ResumeSends(r)
    <3>1. CASE Loaded
      BY <2>4, <3>1 DEF ResumeSends, StartRun, StateHeard
    <3>2. CASE ~Loaded
      BY <2>4, <3>2 DEF ResumeSends
    <3> QED BY <3>1, <3>2
  <2>5. CASE ResumeFails(r)
    BY <2>5 DEF ResumeFails
  <2> QED BY <1>19, <2>1, <2>2, <2>3, <2>4, <2>5
<1>20. CASE cancelAutoResume
  BY <1>20 DEF cancelAutoResume, StateHeard
<1>21. CASE SetEnabled
  BY <1>21 DEF SetEnabled, cancel
<1>22. CASE UNCHANGED vars
  BY <1>22 DEF vars
<1> QED
  BY <1>1, <1>2, <1>3, <1>4, <1>5, <1>6, <1>7, <1>8, <1>9, <1>10, <1>11, <1>12, <1>13,
     <1>14, <1>15, <1>16, <1>17, <1>18, <1>19, <1>20, <1>21, <1>22 DEF Next

(* The invariants hold in every reachable state.                           *)
LEMMA InvHolds == Spec => []Inv
<1>1. Init => Inv
  <2> SUFFICES ASSUME Init PROVE Inv
    OBVIOUS
  <2>1. enabled \in BOOLEAN /\ ahead \in BOOLEAN /\ owed \in BOOLEAN /\ enabled
        /\ running \in BOOLEAN /\ ~running
    BY Zenon DEF Init
  <2>2. attempts \in 0 .. MaxAttempts /\ streak \in Nat /\ silent \in Nat /\ ending \in Seq(End)
        /\ resume \in [Resumes -> {"none", "summarising", "restarting", "sending"}]
    BY ResumeAssumption, SMT DEF Init
  <2>3. agent = "ready" /\ turn = "none" /\ origin = "none" /\ published = "none"
        /\ timer = "none"
    BY DEF Init
  <2> QED
    BY <2>1, <2>2, <2>3
    DEF Inv, TypeOK, PublishedIffQueued, QueuedOnlyIfEnabled, Loaded
<1> QED BY <1>1, NextKeeps, PTL DEF Spec

(* The variables keep their types, the count of the attempts its bound.    *)
THEOREM TypeCorrect == Spec => []TypeOK
BY InvHolds, PTL DEF Inv

(* What the snapshot shows and the timer agree, but for an agent that was  *)
(* just put in the map and has emitted no state yet.                       *)
THEOREM SnapshotAgrees == Spec => []PublishedIffQueued
BY InvHolds, PTL DEF Inv

(* Nothing is queued while autoResumeOnUsageLimit is off.                  *)
THEOREM NothingQueuedWhenOff == Spec => []QueuedOnlyIfEnabled
BY InvHolds, PTL DEF Inv

-----------------------------------------------------------------------------
(* The end of a streak.  A refusal can be followed by another only if      *)
(* something is left to send a resume: one on its way, a timer, a resumed  *)
(* turn, the turn it replaces, or an end under examination.  Nothing that  *)
(* happens within a streak adds to these chances; an examination either    *)
(* counts an attempt or uses a chance up, and starting the count over uses *)
(* one up.                                                                 *)

Active == {r \in Resumes : resume[r] # "none"}
One(b) == IF b THEN 1 ELSE 0
Slots == Cardinality(Resumes)
Unit == MaxAttempts + 1
Turns == One(origin = "resume") + One(origin = "resume" /\ turn = "replacing")
Chances == Cardinality(Active) + One(timer # "none") + Turns + Len(ending)

\* Within a streak only the service starts turns.
Own == streak > 0 => origin \in {"none", "resume"}

\* Ends that are no refusals come before those of the streak.
OnlyRefused ==
  \A i \in 1 .. Len(ending) : ending[i].limit = "none" => streak + i <= Len(ending)

\* The whole streak is under examination: the timer may be taken besides.
First == streak <= Len(ending)
Room == First => Cardinality(Active) + Turns + streak <= Slots + 2

\* What a streak has used and what it has left stay within the bound.
Counted ==
  ~First =>
    /\ Chances <= Slots + 2
    /\ streak + Chances * Unit <= (Slots + 2) * Unit + 1 + attempts + Len(ending)

Streak == Own /\ OnlyRefused /\ Room /\ Counted /\ GivesUp

(* Weights grow with what is weighed, by a whole unit at a time.           *)
LEMMA Weigh ==
  ASSUME NEW a \in Nat, NEW b \in Nat, NEW m \in Nat
  PROVE  /\ a * m \in Nat
         /\ a <= b => a * m <= b * m
         /\ a < b => a * m + m <= b * m
<1>1. a * m \in Nat /\ b * m \in Nat
  BY SMT
<1>2. ASSUME a <= b PROVE a * m <= b * m
  <2>1. b * m = a * m + (b - a) * m /\ (b - a) * m >= 0
    BY <1>2, SMT
  <2> QED BY <1>1, <2>1, SMT
<1>3. ASSUME a < b PROVE a * m + m <= b * m
  <2>1. b * m = a * m + m + (b - a - 1) * m /\ (b - a - 1) * m >= 0
    BY <1>3, SMT
  <2> QED BY <1>1, <2>1, SMT
<1> QED BY <1>1, <1>2, <1>3

LEMMA UnitTyped == Unit \in Nat /\ Unit = MaxAttempts + 1
BY ResumeAssumption DEF Unit

(* The resumes on their way are counted, before and after a step.          *)
LEMMA ActiveCounted ==
  /\ Slots \in Nat /\ (Slots + 2) * Unit \in Nat /\ Slots + 2 <= (Slots + 2) * Unit
  /\ IsFiniteSet(Active) /\ Cardinality(Active) \in Nat /\ Cardinality(Active) <= Slots
  /\ Cardinality(Active') \in Nat /\ Cardinality(Active') <= Slots
<1>1. Slots \in Nat
  BY ResumeAssumption, FS_CardinalityType DEF Slots
<1>2. (Slots + 2) * Unit \in Nat /\ Slots + 2 <= (Slots + 2) * Unit
  <2>1. (Slots + 2) * Unit = (Slots + 2) + (Slots + 2) * MaxAttempts
        /\ (Slots + 2) * MaxAttempts \in Nat
    BY <1>1, UnitTyped, ResumeAssumption, SMT
  <2> QED BY <1>1, <2>1
<1>3. ASSUME NEW S \in SUBSET Resumes
      PROVE  IsFiniteSet(S) /\ Cardinality(S) \in Nat /\ Cardinality(S) <= Slots
  BY ResumeAssumption, FS_CardinalityType, FS_Subset DEF Slots
<1>4. Active \in SUBSET Resumes /\ Active' \in SUBSET Resumes
  BY DEF Active
<1> QED BY <1>1, <1>2, <1>3, <1>4

(* A resume takes a free slot, a resume leaves its slot.                   *)
LEMMA SlotTaken ==
  ASSUME TypeOK, NEW r \in Resumes, resume[r] = "none",
         NEW where \in {"summarising", "restarting", "sending"},
         resume' = [resume EXCEPT ![r] = where]
  PROVE  Cardinality(Active') = Cardinality(Active) + 1
<1>1. Active' = Active \cup {r} /\ r \notin Active
  BY DEF Active, TypeOK
<1> QED BY <1>1, ActiveCounted, FS_AddElement

LEMMA SlotFreed ==
  ASSUME TypeOK, NEW r \in Resumes, resume[r] # "none",
         resume' = [resume EXCEPT ![r] = "none"]
  PROVE  Cardinality(Active') = Cardinality(Active) - 1
<1>1. Active' = Active \ {r} /\ r \in Active
  BY DEF Active, TypeOK
<1> QED BY <1>1, ActiveCounted, FS_RemoveElement

LEMMA SlotHeld ==
  ASSUME TypeOK, NEW r \in Resumes, resume[r] # "none",
         NEW where \in {"summarising", "restarting", "sending"},
         resume' = [resume EXCEPT ![r] = where]
  PROVE  Cardinality(Active') = Cardinality(Active)
<1>1. Active' = Active
  BY DEF Active, TypeOK
<1> QED BY <1>1

LEMMA SlotsAlone ==
  ASSUME UNCHANGED resume PROVE Cardinality(Active') = Cardinality(Active)
<1>1. Active' = Active
  BY DEF Active
<1> QED BY <1>1

LEMMA ChancesTyped ==
  ASSUME TypeOK, TypeOK'
  PROVE  /\ Chances \in Nat /\ Chances' \in Nat /\ Turns \in Nat /\ Turns' \in Nat
         /\ Len(ending) \in Nat /\ Len(ending') \in Nat
<1>1. Len(ending) \in Nat /\ Len(ending') \in Nat
  BY DEF TypeOK
<1>2. Turns \in 0 .. 2 /\ Turns' \in 0 .. 2
  BY DEF Turns, One
<1>3. One(timer # "none") \in 0 .. 1 /\ One(timer' # "none") \in 0 .. 1
  BY DEF One
<1>4. Chances' = Cardinality(Active') + One(timer' # "none") + Turns' + Len(ending')
  BY DEF Chances, One
<1> QED BY <1>1, <1>2, <1>3, <1>4, ActiveCounted, SMTT(60) DEF Chances

(* A step that ends the streak leaves nothing to count.                    *)
LEMMA StreakBroken ==
  ASSUME TypeOK, TypeOK', streak' = 0, Turns' <= 1 PROVE Streak'
<1>1. Own' /\ OnlyRefused' /\ First'
  BY ChancesTyped DEF Own, OnlyRefused, First
<1>2. GivesUp'
  BY ActiveCounted DEF GivesUp, Slots, Unit
<1>3. Room'
  BY ActiveCounted, ChancesTyped DEF Room, Slots
<1> QED BY <1>1, <1>2, <1>3 DEF Streak, Counted

(* A step that examines nothing and starts no resume beyond the chances    *)
(* there are keeps the account.                                            *)
LEMMA ChancesSpent ==
  ASSUME TypeOK, TypeOK', Streak, Own', UNCHANGED <<attempts, ending, streak>>,
         ~First => Chances' <= Chances,
         First => Cardinality(Active') + Turns' + streak <= Slots + 2
  PROVE  Streak'
<1>1. Slots \in Nat /\ Chances \in Nat /\ Chances' \in Nat
  BY ActiveCounted, ChancesTyped
<1>2. OnlyRefused' /\ GivesUp' /\ Room'
  BY DEF Streak, OnlyRefused, GivesUp, First, Room, Slots
<1>3. ASSUME ~First PROVE /\ Chances' <= Slots + 2
        /\ streak' + Chances' * Unit
             <= (Slots + 2) * Unit + 1 + attempts' + Len(ending)
  <2>1. Chances <= Slots + 2
        /\ streak + Chances * Unit <= (Slots + 2) * Unit + 1 + attempts + Len(ending)
    BY <1>3 DEF Streak, Counted
  <2>2. Chances' * Unit <= Chances * Unit
        /\ Chances' * Unit \in Nat /\ Chances * Unit \in Nat
    BY <1>1, <1>3, UnitTyped, Weigh
  <2>3. streak \in Nat /\ attempts \in Nat /\ Len(ending) \in Nat /\ (Slots + 2) * Unit \in Nat
    BY ActiveCounted DEF TypeOK
  <2> QED BY <1>1, <1>3, <2>1, <2>2, <2>3
<1>4. Counted'
  BY <1>3 DEF Counted, First, Slots
<1> QED BY <1>2, <1>4 DEF Streak

(* A resumed turn is refused, or the turn it replaces: the streak grows,   *)
(* and the turn's chance is now that of its examination.                   *)
LEMMA StreakGrows ==
  ASSUME TypeOK, TypeOK', Streak, UNCHANGED <<resume, attempts>>,
         timer' # "none" => timer # "none", Turns' < Turns,
         origin = "resume", origin' \in {"none", "resume"}, streak' = streak + 1,
         NEW event \in End, event.limit # "none", ending' = Append(ending, event)
  PROVE  Streak'
<1>1. /\ Slots \in Nat /\ (Slots + 2) * Unit \in Nat /\ Slots + 2 <= (Slots + 2) * Unit
      /\ Cardinality(Active') = Cardinality(Active) /\ Cardinality(Active) \in Nat
      /\ Chances \in Nat /\ Chances' \in Nat /\ Turns \in Nat /\ Turns' \in Nat
      /\ streak \in Nat /\ attempts \in Nat /\ attempts <= MaxAttempts /\ Len(ending) \in Nat
  BY ActiveCounted, ChancesTyped, SlotsAlone, ResumeAssumption DEF TypeOK
<1>2. Len(ending') = Len(ending) + 1 /\ ending'[Len(ending) + 1] = event
      /\ \A i \in 1 .. Len(ending) : ending'[i] = ending[i]
  BY DEF TypeOK
<1>3. Own' /\ (First' <=> First)
  BY <1>1, <1>2 DEF Own, First
<1>4. OnlyRefused'
  BY <1>1, <1>2 DEF Streak, OnlyRefused
<1>5. Room'
  BY <1>1, <1>3, SMTT(60) DEF Streak, Room, Slots
<1>6. Chances' <= Chances /\ Chances >= Len(ending) + 1
  BY <1>1, <1>2, SMTT(60) DEF Chances, One
<1>7. CASE First
  <2>1. GivesUp'
    BY <1>1, <1>3, <1>5, <1>7 DEF GivesUp, Room, Slots, Unit
  <2> QED BY <1>3, <1>4, <1>5, <1>7, <2>1 DEF Streak, Counted, Own
<1>8. CASE ~First
  <2> DEFINE p == Chances * Unit
             n == Chances' * Unit
             q == (Slots + 2) * Unit
             m == (Len(ending) + 1) * Unit
  <2>1. Chances <= Slots + 2 /\ streak + p <= q + 1 + attempts + Len(ending)
    BY <1>8 DEF Streak, Counted
  <2>2. p \in Nat /\ n \in Nat /\ n <= p /\ m \in Nat /\ m <= p
    BY <1>1, <1>6, UnitTyped, Weigh, SMTT(60)
  <2>3. m >= Unit + Len(ending)
    <3>1. m = Unit + Len(ending) + Len(ending) * MaxAttempts
          /\ Len(ending) * MaxAttempts \in Nat
      BY <1>1, UnitTyped, ResumeAssumption, SMT
    <3> QED BY <1>1, <3>1, UnitTyped
  <2>4. q \in Nat
    BY <1>1
  <2> HIDE DEF p, n, q, m
  <2>5. streak + 1 <= q + 1 /\ streak + 1 + n <= q + 1 + attempts + Len(ending) + 1
    BY <1>1, <2>1, <2>2, <2>3, <2>4, UnitTyped, ResumeAssumption
  <2>6. GivesUp'
    BY <2>5 DEF GivesUp, Slots, Unit, q
  <2>7. /\ Chances' <= Slots + 2
        /\ streak' + Chances' * Unit <= (Slots + 2) * Unit + 1 + attempts' + Len(ending')
    <3>1. Chances' <= Slots + 2
      BY <1>1, <1>6, <2>1
    <3>2. streak' = streak + 1 /\ attempts' = attempts /\ Len(ending') = Len(ending) + 1
      BY <1>2
    <3>3. q + 1 + attempts + Len(ending) + 1 = q + 1 + attempts + (Len(ending) + 1)
      BY <1>1, <2>4
    <3>4. streak' + n <= q + 1 + attempts' + Len(ending')
      BY <2>5, <3>2, <3>3
    <3> QED BY <3>1, <3>4 DEF n, q
  <2>8. Counted'
    BY <2>7 DEF Counted, Slots, Unit
  <2> QED BY <1>3, <1>4, <1>5, <2>6, <2>8 DEF Streak, Own
<1> QED BY <1>7, <1>8

(* What an examination does to the count and the timer: it may count an    *)
(* attempt and queue a resume, start the count over, or do nothing.        *)
LEMMA Examination ==
  ASSUME Inv, Detected, Head(ending) \in End, Head(ending).limit # "none"
  PROVE  \/ attempts' = attempts + 1
         \/ attempts = MaxAttempts /\ attempts' = 0 /\ UNCHANGED timer
         \/ UNCHANGED <<attempts, timer>>
<1>1. CASE enabled
  BY <1>1 DEF Detected, schedule, queue
<1>2. CASE ~enabled
  BY <1>2 DEF Detected, queue, Served
<1> QED BY <1>1, <1>2

(* The end that is examined within a streak uses up its chance, or passes  *)
(* it on to the timer and is counted as an attempt.                        *)
LEMMA StreakExamined ==
  ASSUME Inv, Inv', Streak, Detected
  PROVE  Streak'
<1>1. /\ Slots \in Nat /\ (Slots + 2) * Unit \in Nat
      /\ Cardinality(Active') = Cardinality(Active) /\ Cardinality(Active) \in Nat
      /\ Chances \in Nat /\ Chances' \in Nat /\ Turns \in Nat
      /\ streak \in Nat /\ attempts \in Nat /\ attempts' \in Nat /\ Len(ending) \in Nat
  <2>1. Cardinality(Active') = Cardinality(Active)
    BY SlotsAlone DEF Detected
  <2> QED BY <2>1, ActiveCounted, ChancesTyped, ResumeAssumption DEF Inv, TypeOK
<1>2. UNCHANGED <<streak, origin, turn>> /\ Turns' = Turns
  BY DEF Detected, Turns, One, run
<1>3. /\ ending # <<>> /\ ending' = Tail(ending)
      /\ Len(ending') = Len(ending) - 1 /\ Len(ending) > 0 /\ Head(ending) = ending[1]
      /\ Head(ending) \in End
      /\ \A i \in 1 .. Len(ending) - 1 : ending'[i] = ending[i + 1]
  BY DEF Inv, TypeOK, Detected, Examined
<1>4. Own' /\ GivesUp'
  BY <1>2 DEF Streak, Own, GivesUp
<1>5. OnlyRefused'
  BY <1>1, <1>2, <1>3 DEF Streak, OnlyRefused
<1>6. /\ Chances = Cardinality(Active) + One(timer # "none") + Turns + Len(ending)
      /\ Chances' = Cardinality(Active) + One(timer' # "none") + Turns + Len(ending) - 1
  BY <1>1, <1>2, <1>3 DEF Chances, One
<1>7. CASE First'
  <2>1. First
    BY <1>1, <1>2, <1>3, <1>7 DEF First
  <2>2. Room'
    BY <1>1, <1>2, <2>1 DEF Streak, Room, Slots
  <2> QED BY <1>4, <1>5, <1>7, <2>2 DEF Streak, Counted
<1>8. CASE ~First' /\ First
  <2>1. streak = Len(ending)
    <3>1. streak <= Len(ending) /\ ~(streak' <= Len(ending'))
      BY <1>8 DEF First
    <3>2. streak' = streak /\ Len(ending') = Len(ending) - 1
      BY <1>2, <1>3
    <3> QED BY <1>1, <3>1, <3>2
  <2>2. Chances' <= Slots + 2
    BY <1>1, <1>6, <1>8, <2>1 DEF Streak, Room, One
  <2>3. Chances' * Unit <= (Slots + 2) * Unit /\ Chances' * Unit \in Nat
    BY <1>1, <2>2, UnitTyped, Weigh
  <2>4. streak' + Chances' * Unit <= (Slots + 2) * Unit + 1 + attempts' + Len(ending')
    BY <1>1, <1>2, <1>3, <2>1, <2>3
  <2>5. Counted'
    BY <2>2, <2>4 DEF Counted, Slots, Unit
  <2> QED BY <1>4, <1>5, <1>8, <2>5 DEF Streak, Room
<1>9. CASE ~First' /\ ~First
  <2>1. Head(ending).limit # "none"
    BY <1>1, <1>3, <1>9 DEF Streak, OnlyRefused, First
  <2>2. \/ attempts' = attempts + 1
        \/ attempts = MaxAttempts /\ attempts' = 0 /\ UNCHANGED timer
        \/ UNCHANGED <<attempts, timer>>
    BY <1>3, <2>1, Examination
  <2>3. Chances' <= Chances /\ (UNCHANGED timer => Chances' < Chances)
    BY <1>1, <1>6, SMTT(60) DEF One
  <2> DEFINE p == Chances * Unit
             n == Chances' * Unit
             q == (Slots + 2) * Unit
  <2>4. /\ p \in Nat /\ n \in Nat /\ q \in Nat /\ n <= p
        /\ UNCHANGED timer => n + Unit <= p
    BY <1>1, <2>3, UnitTyped, Weigh
  <2>5. Chances <= Slots + 2 /\ streak + p <= q + 1 + attempts + Len(ending)
    BY <1>9 DEF Streak, Counted
  <2> HIDE DEF p, n, q
  <2>6. streak + n <= q + 1 + attempts' + Len(ending) - 1
    <3>1. CASE attempts' = attempts + 1
      BY <1>1, <2>4, <2>5, <3>1
    <3>2. CASE attempts = MaxAttempts /\ attempts' = 0 /\ UNCHANGED timer
      <4>1. n + Unit <= p
        BY <2>4, <3>2
      <4> QED BY <1>1, <2>4, <2>5, <3>2, <4>1, UnitTyped
    <3>3. CASE UNCHANGED <<attempts, timer>>
      <4>1. n + Unit <= p /\ attempts' = attempts
        BY <2>4, <3>3
      <4>2. Unit >= 1
        BY UnitTyped, ResumeAssumption
      <4> QED BY <1>1, <2>4, <2>5, <4>1, <4>2, UnitTyped
    <3> QED BY <2>2, <3>1, <3>2, <3>3
  <2>7. Counted'
    BY <1>1, <1>2, <1>3, <2>3, <2>5, <2>6 DEF Counted, Slots, Unit, n, q
  <2> QED BY <1>4, <1>5, <1>9, <2>7 DEF Streak, Room
<1> QED BY <1>7, <1>8, <1>9

(* Every step keeps the account of the streak.                             *)
LEMMA NextKeepsStreak ==
  ASSUME Inv, Inv', Streak, [Next]_vars
  PROVE  Streak'
<1>0. TypeOK /\ TypeOK'
  BY DEF Inv
<1> DEFINE Spends ==
             /\ UNCHANGED <<attempts, ending, streak>> /\ Own'
             /\ ~First => Chances' <= Chances
             /\ First => Cardinality(Active') + Turns' + streak <= Slots + 2
<1>a. ASSUME Spends PROVE Streak'
  <2>1. /\ UNCHANGED <<attempts, ending, streak>> /\ Own'
        /\ ~First => Chances' <= Chances
        /\ First => Cardinality(Active') + Turns' + streak <= Slots + 2
    BY <1>a
  <2> QED BY <1>0, <2>1, ChancesSpent
<1>b. /\ Slots \in Nat /\ Cardinality(Active) \in Nat /\ Cardinality(Active) <= Slots
      /\ Cardinality(Active') \in Nat /\ Len(ending) \in Nat /\ streak \in Nat
      /\ Turns \in Nat /\ Turns' \in Nat
      /\ Examined /\ First => streak = 0
  BY <1>0, ActiveCounted, ChancesTyped DEF TypeOK, Examined, First
<1>c. Own /\ (First => Cardinality(Active) + Turns + streak <= Slots + 2)
  BY DEF Streak, Room
\* A step that starts no turn and leaves the resumes where they are.
<1>d. ASSUME UNCHANGED <<attempts, ending, streak>>, Cardinality(Active') <= Cardinality(Active),
             \/ UNCHANGED <<turn, origin>>
             \/ turn \in {"starting", "replacing"} /\ turn' = "running" /\ UNCHANGED origin
             \/ origin' = "none",
             timer' # "none" => timer # "none"
      PROVE Streak'
  <2>1. Turns' <= Turns /\ Own'
    BY <1>d, <1>c DEF Turns, One, Own
  <2>2. Chances' <= Chances
    BY <1>b, <1>d, <2>1 DEF Chances, One
  <2> QED BY <1>a, <1>b, <1>c, <1>d, <2>1, <2>2
<1> USE DEF queue, run, history
<1>1. CASE Prompt
  <2>1. streak' = 0 /\ Turns' <= 1
    BY <1>1 DEF Prompt, StartRun, Turns, One
  <2> QED BY <1>0, <2>1, StreakBroken
<1>2. CASE TurnStarted
  <2>1. Cardinality(Active') = Cardinality(Active)
    BY <1>2, SlotsAlone DEF TurnStarted
  <2> QED BY <1>2, <1>b, <1>d, <2>1 DEF TurnStarted, TurnStartedHeard, cancel
<1>3. CASE AutonomousTurn
  <2>1. streak' = 0 /\ Turns' <= 1
    BY <1>3 DEF AutonomousTurn, Turns, One
  <2> QED BY <1>0, <2>1, StreakBroken
<1>4. CASE TurnEnds
  <2>1. PICK event \in End : Examine(event)
    BY <1>4 DEF TurnEnds
  <2>2. Turns' = 0 /\ origin' = "none"
    BY <1>4 DEF TurnEnds, NoTurn, Turns, One
  <2>3. CASE origin = "resume" /\ event.limit # "none"
    <3>1. Turns' < Turns
      BY <2>2, <2>3 DEF Turns, One
    <3>2. timer' # "none" => timer # "none"
      BY <1>4 DEF TurnEnds, StateHeard
    <3> QED BY <1>0, <2>1, <2>2, <2>3, <3>1, <3>2, StreakGrows DEF Examine
  <2>4. CASE ~(origin = "resume" /\ event.limit # "none")
    BY <1>0, <2>1, <2>2, <2>4, StreakBroken DEF Examine
  <2> QED BY <2>3, <2>4
<1>5. CASE ReplacedEnds
  <2>1. PICK event \in End : Examine(event)
    BY <1>5 DEF ReplacedEnds
  <2>2. /\ UNCHANGED origin /\ turn = "replacing" /\ turn' = "starting"
        /\ timer' # "none" => timer # "none"
    BY <1>5 DEF ReplacedEnds, StateHeard
  <2>3. Turns' <= 1 /\ (origin = "resume" => Turns' < Turns)
    BY <2>2 DEF Turns, One
  <2>4. CASE origin = "resume" /\ event.limit # "none"
    BY <1>0, <2>1, <2>2, <2>3, <2>4, StreakGrows DEF Examine
  <2>5. CASE ~(origin = "resume" /\ event.limit # "none")
    BY <1>0, <2>1, <2>3, <2>5, StreakBroken DEF Examine
  <2> QED BY <2>4, <2>5
<1>6. CASE BackgroundEnds
  <2>1. origin = "none" /\ UNCHANGED <<origin, turn>>
    BY <1>0, <1>6 DEF BackgroundEnds, TypeOK
  <2>2. streak' = 0 /\ Turns' <= 1
    BY <1>6, <2>1 DEF BackgroundEnds, Examine, Turns, One
  <2> QED BY <1>0, <2>2, StreakBroken
<1>7. CASE TurnCanceled
  <2>1. streak' = 0 /\ Turns' <= 1
    BY <1>7 DEF TurnCanceled, NoTurn, Turns, One
  <2> QED BY <1>0, <2>1, StreakBroken
<1>8. CASE Detected
  BY <1>8, StreakExamined
<1>e. ASSUME TakenOut PROVE Cardinality(Active') = Cardinality(Active)
  <2>1. Active' = Active
    BY <1>0, <1>e DEF TakenOut, Active, TypeOK
  <2> QED BY <2>1
<1>9. CASE CloseBegins
  <2>1. TakenOut /\ UNCHANGED <<timer, attempts, ending, streak>>
    BY <1>9 DEF CloseBegins
  <2>2. Cardinality(Active') = Cardinality(Active) /\ origin' = "none"
    BY <1>e, <2>1 DEF TakenOut, NoTurn
  <2> QED BY <1>b, <1>d, <2>1, <2>2
<1>10. CASE CloseEnds
  <2>1. Cardinality(Active') = Cardinality(Active)
    BY <1>10, SlotsAlone DEF CloseEnds
  <2> QED BY <1>10, <1>b, <1>d, <2>1 DEF CloseEnds, StateHeard
<1>11. CASE Reload
  <2>1. TakenOut /\ UNCHANGED <<timer, attempts, ending, streak>>
    BY <1>11 DEF Reload
  <2>2. Cardinality(Active') = Cardinality(Active) /\ origin' = "none"
    BY <1>e, <2>1 DEF TakenOut, NoTurn
  <2> QED BY <1>b, <1>d, <2>1, <2>2
<1>12. CASE Load
  <2>1. Cardinality(Active') = Cardinality(Active)
    BY <1>12, SlotsAlone DEF Load
  <2> QED BY <1>12, <1>b, <1>d, <2>1 DEF Load
<1>13. CASE ReloadEnds
  <2>1. Cardinality(Active') = Cardinality(Active)
    BY <1>13, <1>e, SlotsAlone DEF ReloadEnds
  <2> QED BY <1>13, <1>b, <1>d, <2>1 DEF ReloadEnds
<1>14. CASE Announce
  <2>1. Cardinality(Active') = Cardinality(Active)
    BY <1>14, SlotsAlone DEF Announce
  <2> QED BY <1>14, <1>b, <1>d, <2>1 DEF Announce, StateHeard
<1>15. CASE Ready
  <2>1. Cardinality(Active') = Cardinality(Active)
    BY <1>15, SlotsAlone DEF Ready
  <2> QED BY <1>15, <1>b, <1>d, <2>1 DEF Ready, StateHeard
<1>16. CASE ResetPasses
  <2>1. Cardinality(Active') = Cardinality(Active)
    BY <1>16, SlotsAlone DEF ResetPasses
  <2> QED BY <1>16, <1>b, <1>d, <2>1 DEF ResetPasses
<1>17. CASE Rearm
  <2>1. Cardinality(Active') = Cardinality(Active)
    BY <1>17, SlotsAlone DEF Rearm
  <2> QED BY <1>17, <1>b, <1>d, <2>1 DEF Rearm
<1>18. CASE fire
  <2>1. CASE UNCHANGED resume
    <3>1. Cardinality(Active') = Cardinality(Active)
      BY <2>1, SlotsAlone
    <3> QED BY <1>18, <1>b, <1>d, <3>1 DEF fire, cancel
  <2>2. CASE ~UNCHANGED resume
    <3>1. PICK r \in Resumes, cold \in BOOLEAN :
            /\ resume[r] = "none"
            /\ resume' = [resume EXCEPT ![r] = IF cold THEN "summarising" ELSE "sending"]
      BY <1>18, <2>2 DEF fire
    <3>2. Cardinality(Active') = Cardinality(Active) + 1
      BY <1>0, <3>1, SlotTaken
    <3>3. /\ UNCHANGED <<attempts, ending, streak, turn, origin>> /\ Examined
          /\ timer = "armed" /\ timer' = "none" /\ ~running
      BY <1>18, <2>2 DEF fire, cancel
    <3>4. Turns' = Turns /\ Turns <= 2
      BY <3>3 DEF Turns, One
    <3>5. Chances' <= Chances
      BY <1>b, <3>2, <3>3, <3>4 DEF Chances, One
    <3>6. Cardinality(Active') <= Slots
      BY ActiveCounted
    <3>7. First => Cardinality(Active') + Turns' + streak <= Slots + 2
      BY <1>b, <3>3, <3>4, <3>6
    <3> QED BY <1>a, <1>c, <3>3, <3>5, <3>7 DEF Own
  <2> QED BY <2>1, <2>2
<1>19. ASSUME NEW r \in Resumes,
              CutFails(r) \/ CutRestarts(r) \/ CutEnds(r) \/ ResumeSends(r) \/ ResumeFails(r)
       PROVE Streak'
  <2>1. CASE CutFails(r)
    <3>1. Cardinality(Active') = Cardinality(Active)
      BY <1>0, <2>1, SlotHeld DEF CutFails
    <3> QED BY <1>b, <1>d, <2>1, <3>1 DEF CutFails
  <2>2. CASE CutRestarts(r)
    <3>1. Active' = Active
      BY <1>0, <2>2 DEF CutRestarts, Active, TypeOK
    <3> QED BY <1>b, <1>d, <2>2, <3>1 DEF CutRestarts, NoTurn
  <2>3. CASE CutEnds(r)
    <3>1. Cardinality(Active') = Cardinality(Active)
      BY <1>0, <2>3, SlotHeld DEF CutEnds
    <3> QED BY <1>b, <1>d, <2>3, <3>1 DEF CutEnds
  <2>4. CASE ResumeSends(r)
    <3>1. Cardinality(Active') = Cardinality(Active) - 1
      BY <1>0, <2>4, SlotFreed DEF ResumeSends
    <3>2. CASE ~Loaded
      BY <1>b, <1>d, <2>4, <3>1, <3>2 DEF ResumeSends
    <3>3. CASE Loaded
      <4>1. /\ UNCHANGED <<attempts, ending, streak>> /\ Examined /\ origin' = "resume"
            /\ turn' = IF turn = "none" THEN "starting" ELSE "replacing"
            /\ timer' # "none" => timer # "none"
        BY <2>4, <3>3 DEF ResumeSends, StartRun, StateHeard
      <4>2. Turns' <= 2 /\ Own'
        BY <4>1 DEF Turns, One, Own
      <4>3. ~First => Turns' <= Turns + 1
        <5>1. ~First => origin \in {"none", "resume"}
          BY <1>b, <1>c DEF Own, First
        <5> QED BY <1>0, <4>1, <5>1 DEF Turns, One, TypeOK
      <4>4. ~First => Chances' <= Chances
        BY <1>b, <3>1, <4>1, <4>3 DEF Chances, One
      <4>5. First => Cardinality(Active') + Turns' + streak <= Slots + 2
        BY <1>b, <3>1, <4>1, <4>2
      <4> QED BY <1>a, <4>1, <4>2, <4>4, <4>5
    <3> QED BY <3>2, <3>3
  <2>5. CASE ResumeFails(r)
    <3>1. Cardinality(Active') = Cardinality(Active) - 1
      BY <1>0, <2>5, SlotFreed DEF ResumeFails
    <3> QED BY <1>b, <1>d, <2>5, <3>1 DEF ResumeFails
  <2> QED BY <1>19, <2>1, <2>2, <2>3, <2>4, <2>5
<1>20. CASE cancelAutoResume
  <2>1. Cardinality(Active') = Cardinality(Active)
    BY <1>20, SlotsAlone DEF cancelAutoResume
  <2> QED BY <1>20, <1>b, <1>d, <2>1 DEF cancelAutoResume, StateHeard
<1>21. CASE SetEnabled
  <2>1. Cardinality(Active') = Cardinality(Active)
    BY <1>21, SlotsAlone DEF SetEnabled
  <2> QED BY <1>21, <1>b, <1>d, <2>1 DEF SetEnabled, cancel
<1>22. CASE UNCHANGED vars
  <2>1. Cardinality(Active') = Cardinality(Active)
    BY <1>22, SlotsAlone DEF vars
  <2> QED BY <1>22, <1>b, <1>d, <2>1 DEF vars
<1> QED
  BY <1>1, <1>2, <1>3, <1>4, <1>5, <1>6, <1>7, <1>8, <1>9, <1>10, <1>11, <1>12, <1>13,
     <1>14, <1>15, <1>16, <1>17, <1>18, <1>19, <1>20, <1>21, <1>22 DEF Next

(* Refusals in a row come to an end: the attempts and one more for each    *)
(* resume that can be on its way, for the turn they lead to and the turn   *)
(* that makes way for it, and one.                                         *)
THEOREM RefusalsEnd == Spec => []GivesUp
<1>1. Init => Streak
  <2> SUFFICES ASSUME Init PROVE Streak
    OBVIOUS
  <2>1. Own /\ OnlyRefused /\ First
    BY DEF Init, Own, OnlyRefused, First
  <2>2. GivesUp
    BY ActiveCounted DEF Init, GivesUp, Slots, Unit
  <2>3. Room
    BY ActiveCounted DEF Init, Room, Turns, One
  <2> QED BY <2>1, <2>2, <2>3 DEF Streak, Counted
<1>2. Inv /\ Inv' /\ Streak /\ [Next]_vars => Streak'
  BY NextKeepsStreak
<1>3. Streak => GivesUp
  BY DEF Streak
<1> QED BY <1>1, <1>2, <1>3, InvHolds, PTL DEF Spec
=============================================================================
