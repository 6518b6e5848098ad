--------------------------- MODULE AgentRunProofs ---------------------------
(***************************************************************************)
(* Proofs about AgentRun, for any callers, turns and event bound.          *)
(*                                                                         *)
(* The invariant that carries them all says who owns the tracked run: a    *)
(* pending foreground run belongs to the call that waits for startTurn, a  *)
(* started one to the call that streams its turn and has not seen the end. *)
(***************************************************************************)
EXTENDS AgentRun, SequenceTheorems, TLAPS

-----------------------------------------------------------------------------
(* Sequences of events.                                                     *)

\* Flushing the staged events leaves out one of them and invents none.
LEMMA WithoutStartType ==
  ASSUME NEW S, NEW s \in Seq(S), NEW x
  PROVE  WithoutStart(s, x) \in Seq(S)
<1> DEFINE at == {i \in 1 .. Len(s) : s[i] = [type |-> "started", turn |-> x]}
           n == CHOOSE i \in at : TRUE
<1>1. CASE at = {}
  BY <1>1 DEF WithoutStart
<1>2. CASE at # {}
  <2>1. n \in 1 .. Len(s)
    BY <1>2
  <2>2. Len(s) \in Nat /\ \A i \in 1 .. Len(s) : s[i] \in S
    OBVIOUS
  <2>3. ASSUME NEW m \in 1 .. Len(s)
        PROVE  SubSeq(s, 1, m - 1) \in Seq(S) /\ SubSeq(s, m + 1, Len(s)) \in Seq(S)
    <3>1. m \in Int /\ m - 1 \in Int /\ m + 1 \in Int /\ Len(s) \in Int
      BY <2>2, <2>3
    <3>2. \A i \in 1 .. m - 1 : s[i] \in S
      BY <2>2, <2>3
    <3>3. \A i \in m + 1 .. Len(s) : s[i] \in S
      BY <2>2, <2>3
    <3>4. SubSeq(s, 1, m - 1) \in Seq(S)
      BY <3>1, <3>2, SubSeqProperties
    <3>5. SubSeq(s, m + 1, Len(s)) \in Seq(S)
      BY <3>1, <3>3, SubSeqProperties
    <3>6. QED
      BY <3>4, <3>5
  <2>4. SubSeq(s, 1, n - 1) \in Seq(S) /\ SubSeq(s, n + 1, Len(s)) \in Seq(S)
    <3> HIDE DEF n
    <3> QED BY <2>1, <2>3
  <2>5. WithoutStart(s, x) = SubSeq(s, 1, n - 1) \o SubSeq(s, n + 1, Len(s))
    BY <1>2 DEF WithoutStart
  <2>6. QED
    <3> HIDE DEF n
    <3> QED BY <2>4, <2>5
<1>3. QED
  BY <1>1, <1>2

\* What the queue, the barrier and the staging area do to sequences.
LEMMA SequenceTypes ==
  ASSUME NEW S
  PROVE  /\ <<>> \in Seq(S)
         /\ \A e \in S : <<e>> \in Seq(S)
         /\ \A s, t \in Seq(S) : s \o t \in Seq(S)
         /\ \A s \in Seq(S) : s # <<>> => Head(s) \in S /\ Tail(s) \in Seq(S)
  OBVIOUS

\* A barrier that holds more events.
LEMMA BarrierType ==
  ASSUME NEW S, NEW b \in [on : BOOLEAN, events : S], NEW x \in S
  PROVE  [b EXCEPT !.events = x] \in [on : BOOLEAN, events : S]
  OBVIOUS

-----------------------------------------------------------------------------
(* The handlers, as functions of an agent and its tracked run.              *)

\* The shapes that a tracked run can have.
Shape(r) ==
  \/ r = NoRun
  \/ r.kind = "foreground" /\ r.token \in Callers /\ r.start = "pending" /\ r = ForegroundRun(r.token)
  \/ r.kind = "foreground" /\ r.token \in Callers /\ r.start = "started" /\ r.turn \in Turns
  \/ r.kind = "autonomous" /\ r.start = "started"

\* ForegroundIsTracked and RunningIsTracked of an agent and a run.
Tracked(a, r) ==
  /\ a.foreground # NoTurn =>
       r.kind = "foreground" /\ r.start = "started" /\ r.turn = a.foreground
  /\ r.kind = "foreground" /\ r.start = "started" => a.foreground = r.turn

Busy(a, r) ==
  a.lifecycle = "running" => r # NoRun \/ a.active # NoTurn \/ a.pendingReplacement

\* The events that reach a handler: those of the session, and the terminal that
\* a forced cancellation makes up, which may name an anonymous turn.
ManagedEvent == [type : {"started", "ended", "failed"}, turn : TurnIds]

\* Session events are managed events.
LEMMA EventsManaged == Event \subseteq ManagedEvent
  BY DEF Event, ManagedEvent, TurnIds

\* An event names a turn the manager knows how to name.
LEMMA IdentityType ==
  ASSUME NEW a \in AgentFields, NEW e \in ManagedEvent
  PROVE  Identity(a, e) \in TurnIds
  BY DEF Identity, AgentFields, ManagedEvent, TurnIds

\* applyActiveTurnTerminal touches the active turn only.
LEMMA CloseActiveType ==
  ASSUME NEW a \in AgentFields, NEW t \in TurnIds
  PROVE  /\ CloseActive(a, t) \in AgentFields
         /\ CloseActive(a, t).lifecycle = a.lifecycle
         /\ CloseActive(a, t).foreground = a.foreground
         /\ CloseActive(a, t).pendingReplacement = a.pendingReplacement
         /\ CloseActive(a, t).lastError = a.lastError
         /\ CloseActive(a, t).finalized = a.finalized
  BY DEF CloseActive, AgentFields, TurnIds

\* finalizeForegroundTurn leaves no foreground turn, and "running" only for a
\* replacement.
LEMMA FinalizeType ==
  ASSUME NEW a \in AgentFields, NEW t \in TurnIds
  PROVE  /\ Finalize(a, t) \in AgentFields
         /\ Finalize(a, t).foreground = NoTurn
         /\ Finalize(a, t).pendingReplacement = a.pendingReplacement
         /\ Finalize(a, t).lifecycle = "running" => a.pendingReplacement
         /\ Finalize(a, t).lifecycle # "closed"
<1> DEFINE b == CloseActive(a, t)
<1>1. b \in AgentFields /\ b.pendingReplacement = a.pendingReplacement
  BY CloseActiveType
<1>2. NoTurn \in TurnIds
  BY DEF TurnIds
<1>3. (IF t = NoTurn THEN b.finalized ELSE b.finalized \cup {t}) \in SUBSET (Turns \cup {Anonymous})
  BY <1>1 DEF AgentFields, TurnIds
<1> HIDE DEF b
<1>4. Finalize(a, t) =
        [b EXCEPT !.foreground = NoTurn,
                  !.finalized = IF t = NoTurn THEN @ ELSE @ \cup {t},
                  !.lifecycle = IF a.lastError THEN "error"
                                ELSE IF a.pendingReplacement THEN "running" ELSE "idle"]
  BY DEF Finalize, b
<1>5. QED
  BY <1>1, <1>2, <1>3, <1>4 DEF AgentFields

\* The terminal handlers leave the foreground turn to finalizeForegroundTurn.
LEMMA TerminateType ==
  ASSUME NEW a \in AgentFields, NEW e \in ManagedEvent, NEW t \in TurnIds
  PROVE  /\ Terminate(a, e, t) \in AgentFields
         /\ Terminate(a, e, t).foreground = a.foreground
         /\ Terminate(a, e, t).pendingReplacement = a.pendingReplacement
         /\ Terminate(a, e, t).lifecycle = "running" =>
              Stale(a, t) \/ a.foreground # NoTurn \/ a.pendingReplacement
         /\ Stale(a, t) => Terminate(a, e, t) = a
<1>1. CASE Stale(a, t)
  BY <1>1 DEF Terminate
<1>2. CASE ~Stale(a, t)
  <2> DEFINE b == CloseActive(a, t)
  <2>1. b \in AgentFields /\ b.foreground = a.foreground
        /\ b.pendingReplacement = a.pendingReplacement /\ b.lifecycle = a.lifecycle
    BY CloseActiveType
  <2>2. Terminate(a, e, t) =
          [b EXCEPT !.lastError = (e.type = "failed"),
                    !.lifecycle =
                      IF a.foreground # NoTurn THEN @
                      ELSE IF e.type = "failed" THEN "error"
                      ELSE IF a.pendingReplacement THEN @ ELSE "idle"]
    BY <1>2 DEF Terminate
  <2>3. (e.type = "failed") \in BOOLEAN
    OBVIOUS
  <2> HIDE DEF b
  <2>4. QED
    BY <1>2, <2>1, <2>2, <2>3 DEF AgentFields
<1>3. QED
  BY <1>1, <1>2

\* A terminal event: either it is dropped, or it takes the foreground turn and
\* the foreground run away together.
LEMMA HandleTerminalCorrect ==
  ASSUME NEW a \in AgentFields, NEW r \in RunFields, NEW e \in ManagedEvent,
         Shape(r), Tracked(a, r), Busy(a, r)
  PROVE  LET h == HandleTerminal(a, r, e)
         IN /\ h.agent \in AgentFields /\ h.notify \in BOOLEAN
            /\ Tracked(h.agent, h.run) /\ Busy(h.agent, h.run)
            /\ h.run = r \/ h.run = NoRun
            /\ h.notify => h.run = IF Settles(r, Identity(a, e)) THEN NoRun ELSE r
            /\ ~h.notify => h.run = r /\ h.agent = a
            /\ a.foreground # NoTurn /\ h.agent.foreground # a.foreground =>
                 h.notify /\ Identity(a, e) = a.foreground
<1> DEFINE t == Identity(a, e)
           after == Terminate(a, e, t)
           foreground == t # NoTurn /\ a.foreground = t
           h == HandleTerminal(a, r, e)
<1>1. t \in TurnIds
  BY IdentityType
<1>2. after \in AgentFields /\ after.foreground = a.foreground
      /\ after.pendingReplacement = a.pendingReplacement
      /\ (after.lifecycle = "running" =>
           Stale(a, t) \/ a.foreground # NoTurn \/ a.pendingReplacement)
      /\ (Stale(a, t) => after = a)
  BY <1>1, TerminateType
<1>3. Finalize(after, t) \in AgentFields /\ Finalize(after, t).foreground = NoTurn
      /\ (Finalize(after, t).lifecycle = "running" => a.pendingReplacement)
      /\ Finalize(after, t).pendingReplacement = a.pendingReplacement
  BY <1>1, <1>2, FinalizeType
<1>4. a.foreground # NoTurn => a.foreground \in Turns
  BY DEF Tracked, Shape, NoRun, ForegroundRun
<1>5. CASE t \in a.finalized
  <2>1. h = [agent |-> a, run |-> r, notify |-> FALSE]
    BY <1>5 DEF HandleTerminal
  <2>2. QED
    BY <2>1
<1>6. CASE t \notin a.finalized
  <2>1. h = [agent |-> IF foreground THEN Finalize(after, t) ELSE after,
             run |-> IF Settles(r, t) THEN NoRun ELSE r, notify |-> TRUE]
    BY <1>6 DEF HandleTerminal
  <2> HIDE DEF t, after, h
  <2>2. CASE foreground
    <3>1. Settles(r, t)
      BY <2>2 DEF Settles, Tracked
    <3>2. h.agent = Finalize(after, t) /\ h.run = NoRun /\ h.notify = TRUE
      BY <2>1, <2>2, <3>1
    <3>3. Tracked(h.agent, h.run) /\ Busy(h.agent, h.run)
      BY <1>3, <3>2 DEF Tracked, Busy, NoRun
    <3>4. QED
      BY <1>3, <2>2, <3>1, <3>2, <3>3 DEF t, h
  <2>3. CASE ~foreground
    <3>1. h.agent = after /\ h.run = (IF Settles(r, t) THEN NoRun ELSE r) /\ h.notify = TRUE
      BY <2>1, <2>3
    <3>2. Settles(r, t) => r.kind = "autonomous" /\ a.foreground = NoTurn
      BY <2>3, NamesAssumption DEF Settles, Tracked, Shape, NoRun, ForegroundRun
    <3>3. Tracked(h.agent, h.run)
      BY <1>2, <3>1, <3>2 DEF Tracked, NoRun
    <3>4. Busy(h.agent, h.run)
      <4>1. SUFFICES ASSUME h.agent.lifecycle = "running", h.run = NoRun,
                            ~h.agent.pendingReplacement
                     PROVE  h.agent.active # NoTurn
        BY DEF Busy
      <4>2. a.foreground = NoTurn
        BY <3>1, <3>2, <4>1 DEF Tracked, NoRun
      <4>3. Stale(a, t)
        BY <1>2, <3>1, <4>1, <4>2
      <4>4. QED
        BY <1>2, <3>1, <4>3 DEF Stale
    <3>5. h.run = r \/ h.run = NoRun
      BY <3>1
    <3>6. QED
      BY <1>2, <3>1, <3>3, <3>4, <3>5 DEF t, h
  <2>4. QED
    BY <2>2, <2>3
<1>7. QED
  BY <1>5, <1>6

\* A turn_started event opens an autonomous run when there is no run.
LEMMA HandleStartedCorrect ==
  ASSUME NEW a \in AgentFields, NEW r \in RunFields, NEW e \in ManagedEvent,
         e.type = "started", Shape(r), Tracked(a, r), Busy(a, r)
  PROVE  LET h == HandleStarted(a, r, e)
         IN /\ h.agent \in AgentFields /\ h.notify = FALSE
            /\ Tracked(h.agent, h.run) /\ Busy(h.agent, h.run)
            /\ h.run = r \/ (r = NoRun /\ \E t \in TurnIds : h.run = AutonomousRun(t))
            /\ h.agent.foreground = a.foreground
<1> DEFINE t == Identity(a, e)
           h == HandleStarted(a, r, e)
<1>1. CASE a.foreground # NoTurn
  <2>1. h = [agent |-> a, run |-> r, notify |-> FALSE]
    BY <1>1 DEF HandleStarted
  <2>2. QED
    BY <2>1
<1>2. CASE a.foreground = NoTurn
  <2>1. t \in TurnIds
    BY IdentityType
  <2>2. h.agent = [a EXCEPT !.active = t, !.lifecycle = "running"]
        /\ h.run = Track(r, t) /\ h.notify = FALSE
    BY <1>2 DEF HandleStarted
  <2> HIDE DEF t, h
  <2>3. h.agent \in AgentFields /\ h.agent.foreground = NoTurn
    BY <1>2, <2>1, <2>2 DEF AgentFields
  <2>4. h.run = IF r = NoRun THEN AutonomousRun(t) ELSE r
    BY <2>2 DEF Track
  <2>5. h.run # NoRun
    BY <2>4 DEF AutonomousRun, NoRun
  <2>6. Tracked(h.agent, h.run) /\ Busy(h.agent, h.run)
    BY <1>2, <2>3, <2>4, <2>5 DEF Tracked, Busy, AutonomousRun
  <2>7. QED
    BY <1>2, <2>1, <2>2, <2>3, <2>4, <2>6 DEF h
<1>3. QED
  BY <1>1, <1>2

\* Both together.
LEMMA HandlerCorrect ==
  ASSUME NEW a \in AgentFields, NEW r \in RunFields, NEW e \in ManagedEvent,
         Shape(r), Tracked(a, r), Busy(a, r)
  PROVE  LET h == HandleStreamEvent(a, r, e)
         IN /\ h.agent \in AgentFields /\ h.run \in RunFields /\ h.notify \in BOOLEAN
            /\ Shape(h.run) /\ Tracked(h.agent, h.run) /\ Busy(h.agent, h.run)
            /\ \/ h.run = r \/ h.run = NoRun
               \/ r = NoRun /\ h.run.kind = "autonomous"
            /\ h.notify => h.run = IF Settles(r, Identity(a, e)) THEN NoRun ELSE r
            /\ ~h.notify /\ r # NoRun => h.run = r
            /\ a.foreground # NoTurn /\ h.agent.foreground # a.foreground =>
                 h.notify /\ e.type # "started" /\ Identity(a, e) = a.foreground
<1> DEFINE h == HandleStreamEvent(a, r, e)
<1>1. NoRun \in RunFields /\ Shape(NoRun)
  BY DEF NoRun, RunFields, TurnIds, Shape
<1>2. \A t \in TurnIds : /\ AutonomousRun(t) \in RunFields /\ Shape(AutonomousRun(t))
                         /\ AutonomousRun(t).kind = "autonomous"
  BY DEF AutonomousRun, RunFields, Shape
<1>3. CASE e.type = "started"
  <2>1. h = HandleStarted(a, r, e)
    BY <1>3 DEF HandleStreamEvent
  <2>2. /\ h.agent \in AgentFields /\ h.notify = FALSE
        /\ Tracked(h.agent, h.run) /\ Busy(h.agent, h.run)
        /\ h.run = r \/ (r = NoRun /\ \E t \in TurnIds : h.run = AutonomousRun(t))
        /\ h.agent.foreground = a.foreground
    <3> DEFINE g == HandleStarted(a, r, e)
    <3>1. /\ g.agent \in AgentFields /\ g.notify = FALSE
          /\ Tracked(g.agent, g.run) /\ Busy(g.agent, g.run)
          /\ g.run = r \/ (r = NoRun /\ \E t \in TurnIds : g.run = AutonomousRun(t))
          /\ g.agent.foreground = a.foreground
      BY <1>3, HandleStartedCorrect
    <3> HIDE DEF g, h
    <3>2. QED
      BY <2>1, <3>1 DEF g
  <2> HIDE DEF h
  <2>3. h.run \in RunFields /\ Shape(h.run) /\ (h.run = r \/ (r = NoRun /\ h.run.kind = "autonomous"))
    BY <1>2, <2>2
  <2>4. QED
    BY <2>2, <2>3 DEF h
<1>4. CASE e.type # "started"
  <2>1. h = HandleTerminal(a, r, e)
    BY <1>4 DEF HandleStreamEvent
  <2>2. QED
    BY <1>1, <1>4, <2>1, HandleTerminalCorrect
<1>5. QED
  BY <1>3, <1>4

-----------------------------------------------------------------------------
(* The inductive invariant.                                                 *)

Prompting == {"starting", "streaming"}

PromptOK(cl) ==
  /\ cl.pc \in Prompting => cl.turn \in Turns
  /\ cl.pc = "starting" => ~cl.heard

OwnerWaits ==
  /\ run.kind = "foreground" /\ run.start = "pending" => call[run.token].pc = "starting"
  /\ run.kind = "foreground" /\ run.start = "started" =>
       /\ call[run.token].pc = "streaming" /\ call[run.token].turn = run.turn
       /\ ~call[run.token].heard
  /\ \A c \in Callers : PromptOK(call[c])

TargetLives == target = "live" => run # NoRun

Inv ==
  /\ TypeOK
  /\ Shape(run)
  /\ Tracked(agent, run)
  /\ Busy(agent, run)
  /\ OwnerWaits
  /\ TargetLives

\* A call that neither prompted nor prompts may move as it likes, while the
\* tracked run stays or becomes one that nobody owns.
LEMMA QuietCall ==
  ASSUME Inv, NEW c \in Callers,
         call[c].pc \notin Prompting, call'[c].pc \notin Prompting,
         \A d \in Callers : d # c => call'[d] = call[d],
         run' = run \/ run'.kind # "foreground"
  PROVE  OwnerWaits'
<1>1. run.kind = "foreground" => run.token \in Callers /\ run.token # c
  BY DEF Inv, OwnerWaits, Shape, NoRun, Prompting
<1>2. PromptOK(call'[c])
  BY DEF PromptOK, Prompting
<1>3. \A d \in Callers : PromptOK(call'[d])
  BY <1>2 DEF Inv, OwnerWaits
<1>4. QED
  BY <1>1, <1>3 DEF Inv, OwnerWaits

\* The same when no call moves.
LEMMA QuietRun ==
  ASSUME Inv, UNCHANGED call, run' = run \/ run'.kind # "foreground"
  PROVE  OwnerWaits'
  BY DEF Inv, OwnerWaits, Prompting

\* The calls' record after a step that changes one of them.
LEMMA OneCall ==
  ASSUME TypeOK, NEW c \in Callers, NEW rec \in CallFields,
         call' = [call EXCEPT ![c] = rec]
  PROVE  /\ call' \in [Callers -> CallFields]
         /\ call'[c] = rec
         /\ \A d \in Callers : d # c => call'[d] = call[d]
  BY DEF TypeOK

\* IdleCall and what it is turned into are records of a call.
LEMMA CallTypes ==
  /\ IdleCall \in CallFields /\ IdleCall.pc = "idle"
  /\ \A job \in {"cancel", "replace"} :
       [IdleCall EXCEPT !.pc = "waiting", !.job = job] \in CallFields
  /\ [IdleCall EXCEPT !.pc = "resuming"] \in CallFields
  BY DEF IdleCall, CallFields, TurnIds

\* The record of a call that waits for startTurn.
LEMMA StartRecord ==
  ASSUME NEW t \in Turns, NEW replacing \in BOOLEAN
  PROVE  LET rec == [IdleCall EXCEPT !.pc = "starting", !.turn = t, !.replacing = replacing]
         IN /\ rec \in CallFields /\ rec.pc = "starting"
            /\ rec.turn = t /\ rec.heard = FALSE
  BY DEF IdleCall, CallFields, TurnIds

\* A fresh agent satisfies the invariant.
LEMMA InitInv == Init => Inv
<1> SUFFICES ASSUME Init PROVE Inv
  OBVIOUS
<1>1. TypeOK
  <2>1. call \in [Callers -> CallFields]
    BY CallTypes DEF Init
  <2>2. agent \in AgentFields /\ run \in RunFields
    BY DEF Init, AgentFields, RunFields, NoRun, TurnIds
  <2>3. staged \in Seq(Event) /\ queue \in Seq(Event)
        /\ barrier \in [on : BOOLEAN, events : Seq(Event)]
    BY SequenceTypes DEF Init, NoBarrier
  <2>4. QED
    BY <2>1, <2>2, <2>3 DEF Init, TypeOK
<1>2. Shape(run) /\ Tracked(agent, run) /\ Busy(agent, run) /\ TargetLives
  BY DEF Init, Shape, Tracked, Busy, TargetLives, NoRun
<1>3. OwnerWaits
  BY DEF Init, OwnerWaits, PromptOK, NoRun, IdleCall, Prompting
<1>4. QED
  BY <1>1, <1>2, <1>3 DEF Inv

-----------------------------------------------------------------------------
(* Provider steps and the dispatch of events.                               *)

\* An emitted event is queued, staged or held.
LEMMA EmitInv ==
  ASSUME Inv, NEW e \in Event, Emit(e),
         turn' \in [Turns -> {"unborn", "live", "over"}], announced' \in SUBSET Turns,
         anonymous' \in BOOLEAN
  PROVE  Inv'
<1>1. queue' \in Seq(Event) /\ staged' \in Seq(Event)
      /\ barrier' \in [on : BOOLEAN, events : Seq(Event)]
  <2>1. queue \in Seq(Event) /\ staged \in Seq(Event) /\ barrier \in [on : BOOLEAN, events : Seq(Event)]
    BY DEF Inv, TypeOK
  <2>2. <<e>> \in Seq(Event)
    BY SequenceTypes
  <2>3. \A s \in Seq(Event) : s \o <<e>> \in Seq(Event)
    BY <2>2, SequenceTypes
  <2>4. CASE barrier.on
    <3>1. barrier' = [barrier EXCEPT !.events = barrier.events \o <<e>>]
          /\ UNCHANGED <<staged, queue>>
      BY <2>4 DEF Emit, Enqueue
    <3>2. barrier.events \o <<e>> \in Seq(Event)
      BY <2>1, <2>3
    <3>3. barrier' \in [on : BOOLEAN, events : Seq(Event)]
      BY <2>1, <3>1, <3>2, BarrierType
    <3>4. QED
      BY <2>1, <3>1, <3>3
  <2>5. CASE ~barrier.on
    BY <2>1, <2>3, <2>5 DEF Emit, Enqueue
  <2>6. QED
    BY <2>4, <2>5
<1>2. UNCHANGED <<agent, run, call, mutator, target>>
  BY DEF Emit
<1>3. TypeOK'
  BY <1>1, <1>2 DEF Inv, TypeOK
<1>4. OwnerWaits'
  BY <1>2, QuietRun
<1>5. Shape(run') /\ Tracked(agent', run') /\ Busy(agent', run') /\ TargetLives'
  BY <1>2 DEF Inv, TargetLives
<1>6. QED
  BY <1>3, <1>4, <1>5 DEF Inv

\* The provider reports something: nothing but the events on their way changes.
LEMMA ProviderInv ==
  ASSUME Inv, ProviderStep
  PROVE  Inv'
<1>0. turn \in [Turns -> {"unborn", "live", "over"}] /\ announced \in SUBSET Turns
      /\ anonymous \in BOOLEAN
  BY DEF Inv, TypeOK
<1>1. ASSUME NEW t \in Turns, EmitStarted(t) PROVE Inv'
  <2>1. [type |-> "started", turn |-> t] \in Event
    BY DEF Event
  <2>2. QED
    BY <1>0, <1>1, <2>1, EmitInv DEF EmitStarted
<1>2. ASSUME NEW t \in Turns, NEW type \in {"ended", "failed"}, EmitTerminal(t, type)
      PROVE  Inv'
  <2>1. [type |-> type, turn |-> t] \in Event
    BY DEF Event
  <2>2. QED
    BY <1>0, <1>2, <2>1, EmitInv DEF EmitTerminal
<1>3. ASSUME NEW t \in Turns, EmitAutonomous(t) PROVE Inv'
  <2>1. [type |-> "started", turn |-> t] \in Event
    BY DEF Event
  <2>2. QED
    BY <1>0, <1>3, <2>1, EmitInv DEF EmitAutonomous
<1>4. ASSUME NEW type \in {"started", "ended", "failed"}, EmitAnonymous(type) PROVE Inv'
  <2>1. [type |-> type, turn |-> NoTurn] \in Event
    BY DEF Event
  <2>2. anonymous' \in BOOLEAN /\ turn' = turn /\ announced' = announced
    BY <1>0, <1>4 DEF EmitAnonymous
  <2>3. Emit([type |-> type, turn |-> NoTurn])
    BY <1>4 DEF EmitAnonymous
  <2>4. QED
    BY <1>0, <2>1, <2>2, <2>3, EmitInv
<1>5. QED
  BY <1>1, <1>2, <1>3, <1>4 DEF ProviderStep

\* dispatchSessionEvent: the run goes with the foreground turn, and the owner
\* of a run that stays is not told that it ended.
LEMMA DispatchInv ==
  ASSUME Inv, NEW e \in ManagedEvent, NEW calls \in [Callers -> CallFields],
         DispatchSessionEvent(e, calls),
         \A c \in Callers : calls[c] = call[c] \/
            (call[c].pc \notin Prompting /\ calls[c].pc \notin Prompting)
  PROVE  /\ agent' \in AgentFields /\ run' \in RunFields
         /\ call' \in [Callers -> CallFields]
         /\ target' \in {"none", "live", "settled"}
         /\ Shape(run') /\ Tracked(agent', run') /\ Busy(agent', run')
         /\ OwnerWaits' /\ TargetLives'
<1> DEFINE h == HandleStreamEvent(agent, run, e)
<1>1. agent \in AgentFields /\ run \in RunFields /\ target \in {"none", "live", "settled"}
  BY DEF Inv, TypeOK
<1>2. /\ h.agent \in AgentFields /\ h.run \in RunFields /\ h.notify \in BOOLEAN
      /\ Shape(h.run) /\ Tracked(h.agent, h.run) /\ Busy(h.agent, h.run)
      /\ \/ h.run = run \/ h.run = NoRun
         \/ run = NoRun /\ h.run.kind = "autonomous"
      /\ h.notify => h.run = IF Settles(run, Identity(agent, e)) THEN NoRun ELSE run
  BY <1>1, HandlerCorrect DEF Inv
<1> HIDE DEF h
<1>3. agent' = h.agent /\ run' = h.run /\ target' = SettledBy(h.run)
  BY DEF DispatchSessionEvent, h
<1>4. call' = [c \in Callers |->
          IF h.notify /\ e.turn # NoTurn /\ calls[c].pc = "streaming" /\ calls[c].turn = e.turn
          THEN [calls[c] EXCEPT !.heard = TRUE] ELSE calls[c]]
  BY DEF DispatchSessionEvent, h
<1>5. \A c \in Callers : /\ call'[c] \in CallFields
                         /\ call'[c].pc = calls[c].pc /\ call'[c].turn = calls[c].turn
                         /\ \/ call'[c] = calls[c]
                            \/ calls[c].pc = "streaming" /\ h.notify /\ e.turn # NoTurn /\ calls[c].turn = e.turn
  BY <1>4 DEF CallFields
<1>6. call' \in [Callers -> CallFields]
  <2>1. DOMAIN call' = Callers /\ call' = [c \in Callers |-> call'[c]]
    BY <1>4
  <2>2. QED
    BY <1>5, <2>1
<1>7. target' \in {"none", "live", "settled"} /\ TargetLives'
  BY <1>1, <1>3 DEF SettledBy, TargetLives
<1>8. OwnerWaits'
  <2>1. \A c \in Callers : PromptOK(call'[c])
    BY <1>5 DEF Inv, OwnerWaits, Prompting, PromptOK
  <2>2. SUFFICES ASSUME run'.kind = "foreground" PROVE OwnerWaits'
    BY <2>1 DEF OwnerWaits
  <2>3. run' = run /\ h.run = run
    BY <1>2, <1>3, <2>2 DEF NoRun
  <2>4. run.token \in Callers /\ call[run.token].pc \in Prompting
    BY <2>2, <2>3 DEF Inv, Shape, NoRun, OwnerWaits, Prompting
  <2>5. calls[run.token] = call[run.token]
    BY <2>4
  <2>6. CASE run.start = "pending"
    BY <1>5, <2>1, <2>3, <2>4, <2>5, <2>6 DEF Inv, OwnerWaits
  <2>7. CASE run.start # "pending"
    <3>1. run.start = "started" /\ run # NoRun
      BY <2>2, <2>3, <2>7 DEF Inv, Shape, NoRun
    <3>2. call[run.token].turn = run.turn
      BY <2>2, <2>3, <3>1 DEF Inv, OwnerWaits
    <3>3. h.notify => ~Settles(run, Identity(agent, e))
      BY <1>2, <2>3, <3>1
    <3>4. ~(h.notify /\ e.turn # NoTurn /\ run.turn = e.turn)
      BY <2>2, <2>3, <3>1, <3>3 DEF Settles, Identity
    <3>5. call'[run.token] = call[run.token]
      BY <1>5, <2>4, <2>5, <3>2, <3>4
    <3>6. QED
      BY <2>1, <2>3, <3>1, <3>5 DEF Inv, OwnerWaits
  <2>8. QED
    BY <2>6, <2>7
<1>9. QED
  BY <1>2, <1>3, <1>6, <1>7, <1>8

\* The queue hands its head to the handler, or drops it once the agent is closed.
LEMMA DispatchStepInv ==
  ASSUME Inv, Dispatch
  PROVE  Inv'
<1>1. queue' \in Seq(Event) /\ Head(queue) \in Event
  BY SequenceTypes DEF Inv, TypeOK, Dispatch
<1>2. UNCHANGED <<staged, barrier, mutator, turn, announced, anonymous>>
  BY DEF Dispatch, provider
<1>3. CASE Open
  <2>1. call \in [Callers -> CallFields]
    BY DEF Inv, TypeOK
  <2>2. DispatchSessionEvent(Head(queue), call)
    BY <1>3 DEF Dispatch
  <2>3. /\ agent' \in AgentFields /\ run' \in RunFields
        /\ call' \in [Callers -> CallFields]
        /\ target' \in {"none", "live", "settled"}
        /\ Shape(run') /\ Tracked(agent', run') /\ Busy(agent', run')
        /\ OwnerWaits' /\ TargetLives'
    BY <1>1, <2>1, <2>2, DispatchInv, EventsManaged
  <2>4. TypeOK'
    BY <1>1, <1>2, <2>3 DEF Inv, TypeOK
  <2>5. QED
    BY <2>3, <2>4 DEF Inv
<1>4. CASE ~Open
  <2>1. UNCHANGED <<agent, run, target, call>>
    BY <1>4 DEF Dispatch
  <2>2. OwnerWaits'
    BY <2>1, QuietRun
  <2>3. QED
    BY <1>1, <1>2, <2>1, <2>2 DEF Inv, TypeOK, TargetLives
<1>5. QED
  BY <1>3, <1>4

-----------------------------------------------------------------------------
(* Prompts.                                                                 *)

\* streamAgent tracks a pending run that its call owns.
LEMMA StreamAgentInv ==
  ASSUME Inv, NEW c \in Callers, NEW t \in Turns, call[c].pc \notin Prompting,
         StreamAgent(c, t)
  PROVE  Inv'
<1> DEFINE rec == [IdleCall EXCEPT !.pc = "starting", !.turn = t,
                                    !.replacing = agent.pendingReplacement]
<1>0. agent.pendingReplacement \in BOOLEAN
  BY DEF Inv, TypeOK, AgentFields
<1>1. rec \in CallFields /\ rec.pc = "starting" /\ rec.turn = t /\ rec.heard = FALSE
  BY <1>0, StartRecord
<1> HIDE DEF rec
<1>2. /\ call' = [call EXCEPT ![c] = rec] /\ run' = ForegroundRun(c) /\ staged' = <<>>
      /\ run = NoRun /\ agent.foreground = NoTurn
      /\ agent' = [agent EXCEPT !.lastError = FALSE]
      /\ turn' = [turn EXCEPT ![t] = "live"]
      /\ UNCHANGED <<barrier, queue, mutator, target, announced, anonymous>>
  BY DEF StreamAgent, CanStream, rec
<1>3. call' \in [Callers -> CallFields] /\ call'[c] = rec
      /\ \A d \in Callers : d # c => call'[d] = call[d]
  BY <1>1, <1>2, OneCall DEF Inv
<1>4. agent' \in AgentFields /\ agent'.foreground = NoTurn
  BY <1>2 DEF Inv, TypeOK, AgentFields
<1>5. run' \in RunFields /\ Shape(run') /\ run' # NoRun
  BY <1>2 DEF ForegroundRun, RunFields, Shape, NoRun, TurnIds
<1>6. staged' \in Seq(Event)
  BY <1>2, SequenceTypes
<1>7. TypeOK'
  BY <1>2, <1>3, <1>4, <1>5, <1>6 DEF Inv, TypeOK
<1>8. Tracked(agent', run') /\ Busy(agent', run') /\ TargetLives'
  BY <1>2, <1>4, <1>5 DEF Tracked, Busy, TargetLives, ForegroundRun
<1>9. OwnerWaits'
  <2>1. PromptOK(call'[c])
    BY <1>1, <1>3 DEF PromptOK
  <2>2. QED
    BY <1>1, <1>2, <1>3, <2>1 DEF Inv, OwnerWaits, ForegroundRun
<1>10. QED
  BY <1>5, <1>7, <1>8, <1>9 DEF Inv

\* startTurn resolves: run and foreground turn are set together.
LEMMA StartTurnResolvedInv ==
  ASSUME Inv, NEW c \in Callers, StartTurnResolved(c)
  PROVE  Inv'
<1> DEFINE t == call[c].turn
           flushed == WithoutStart(staged, t)
<1>1. t \in Turns /\ t \in TurnIds
  BY DEF StartTurnResolved, Inv, OwnerWaits, PromptOK, Prompting, TurnIds
<1>2. flushed \in Seq(Event)
  BY WithoutStartType DEF Inv, TypeOK
<1>3. /\ agent' = [agent EXCEPT
             !.pendingReplacement = IF call[c].replacing THEN FALSE ELSE @,
             !.foreground = t, !.active = t, !.lifecycle = "running"]
      /\ run = ForegroundRun(c)
      /\ run' = [run EXCEPT !.start = "started", !.turn = t]
      /\ staged' = <<>>
      /\ call[c].pc = "starting"
      /\ call' = [call EXCEPT ![c].pc = "streaming"]
      /\ UNCHANGED <<mutator, target, turn, announced, anonymous>>
  BY DEF StartTurnResolved, Owns, provider
<1>4. queue' \in Seq(Event) /\ barrier' \in [on : BOOLEAN, events : Seq(Event)]
  <2>1. queue \in Seq(Event) /\ barrier \in [on : BOOLEAN, events : Seq(Event)]
    BY DEF Inv, TypeOK
  <2>2. \A s \in Seq(Event) : s \o flushed \in Seq(Event)
    BY <1>2, SequenceTypes
  <2>3. CASE barrier.on
    <3>1. barrier' = [barrier EXCEPT !.events = barrier.events \o flushed] /\ queue' = queue
      BY <2>3 DEF StartTurnResolved
    <3> HIDE DEF flushed
    <3>2. barrier.events \o flushed \in Seq(Event)
      BY <2>1, <2>2
    <3>3. QED
      BY <2>1, <3>1, <3>2, BarrierType
  <2>4. CASE ~barrier.on
    <3>1. queue' = queue \o flushed /\ barrier' = barrier
      BY <2>4 DEF StartTurnResolved
    <3> HIDE DEF flushed
    <3>2. QED
      BY <2>1, <2>2, <3>1
  <2>5. QED
    BY <2>3, <2>4
<1> HIDE DEF t, flushed
<1>5. /\ call' \in [Callers -> CallFields]
      /\ call'[c].pc = "streaming" /\ call'[c].turn = call[c].turn
      /\ call'[c].heard = call[c].heard
      /\ \A d \in Callers : d # c => call'[d] = call[d]
  BY <1>3 DEF Inv, TypeOK, CallFields
<1>6. agent' \in AgentFields /\ agent'.foreground = t /\ agent'.active = t
  BY <1>1, <1>3 DEF Inv, TypeOK, AgentFields
<1>7. /\ run' \in RunFields /\ run'.kind = "foreground" /\ run'.token = c
      /\ run'.start = "started" /\ run'.turn = t
  BY <1>1, <1>3 DEF ForegroundRun, RunFields
<1>8. staged' \in Seq(Event)
  BY <1>3, SequenceTypes
<1>9. TypeOK'
  BY <1>3, <1>4, <1>5, <1>6, <1>7, <1>8 DEF Inv, TypeOK
<1>10. Shape(run') /\ run' # NoRun
  BY <1>1, <1>7 DEF Shape, NoRun
<1>11. Tracked(agent', run') /\ Busy(agent', run') /\ TargetLives'
  BY <1>6, <1>7, <1>10 DEF Tracked, Busy, TargetLives
<1>12. ~call[c].heard
  BY <1>3 DEF Inv, OwnerWaits, PromptOK
<1>13. OwnerWaits'
  <2>1. PromptOK(call'[c])
    BY <1>1, <1>5 DEF PromptOK, t
  <2>2. QED
    BY <1>5, <1>7, <1>12, <2>1 DEF Inv, OwnerWaits, t
<1>14. QED
  BY <1>9, <1>10, <1>11, <1>13 DEF Inv

\* startTurn fails: run and foreground turn are gone together.
LEMMA StartTurnFailedInv ==
  ASSUME Inv, NEW c \in Callers, StartTurnFailed(c)
  PROVE  Inv'
<1> DEFINE a == [agent EXCEPT !.pendingReplacement = FALSE]
           e == [type |-> "failed", turn |-> NoTurn]
           h == HandleTerminal(a, run, e)
<1>1. run = ForegroundRun(c) /\ call[c].pc = "starting" /\ call[c].turn \in Turns
  BY DEF StartTurnFailed, Owns, Inv, OwnerWaits, PromptOK, Prompting
<1>2. a \in AgentFields /\ a.foreground = agent.foreground
  BY DEF Inv, TypeOK, AgentFields
<1>3. e \in ManagedEvent /\ run \in RunFields
  BY DEF ManagedEvent, TurnIds, Inv, TypeOK
<1>4. Tracked(a, run) /\ Busy(a, run) /\ Shape(run)
  BY <1>1, <1>2 DEF Inv, Tracked, Busy, ForegroundRun, NoRun
<1> HIDE DEF a, e
<1>5. h.agent \in AgentFields
  BY <1>2, <1>3, <1>4, HandleTerminalCorrect
<1> HIDE DEF h
<1>6. agent' = Finalize(h.agent, NoTurn)
  BY DEF StartTurnFailed, a, e, h
<1>7. h.agent.pendingReplacement = FALSE
  <2>1. h.agent.pendingReplacement = a.pendingReplacement
    <3> DEFINE t == Identity(a, e)
    <3>1. t \in TurnIds
      BY <1>2, <1>3, IdentityType
    <3> HIDE DEF t
    <3>2. Terminate(a, e, t) \in AgentFields
          /\ Terminate(a, e, t).pendingReplacement = a.pendingReplacement
      BY <1>2, <1>3, <3>1, TerminateType
    <3>3. Finalize(Terminate(a, e, t), t).pendingReplacement = a.pendingReplacement
      BY <3>1, <3>2, FinalizeType
    <3>4. \/ h.agent = a \/ h.agent = Terminate(a, e, t)
          \/ h.agent = Finalize(Terminate(a, e, t), t)
      BY DEF h, HandleTerminal, t
    <3>5. QED
      BY <3>2, <3>3, <3>4
  <2>2. QED
    BY <2>1 DEF a, Inv, TypeOK, AgentFields
<1>8. NoTurn \in TurnIds
  BY DEF TurnIds
<1>9. agent' \in AgentFields /\ agent'.foreground = NoTurn /\ agent'.lifecycle # "running"
  BY <1>5, <1>6, <1>7, <1>8, FinalizeType
<1>10. /\ run' = NoRun /\ staged' = <<>> /\ target' = SettledBy(NoRun)
       /\ turn' = [turn EXCEPT ![call[c].turn] = "over"]
       /\ call' = [call EXCEPT ![c] = IdleCall]
       /\ UNCHANGED <<barrier, queue, mutator, announced, anonymous>>
  BY DEF StartTurnFailed, Return
<1>11. /\ call' \in [Callers -> CallFields] /\ call'[c] = IdleCall
       /\ \A d \in Callers : d # c => call'[d] = call[d]
  BY <1>10, CallTypes, OneCall DEF Inv
<1>12. run' \in RunFields /\ Shape(run') /\ run'.kind = "none"
  BY <1>10 DEF NoRun, RunFields, TurnIds, Shape
<1>13. staged' \in Seq(Event)
  BY <1>10, SequenceTypes
<1>14. target' \in {"none", "live", "settled"} /\ TargetLives'
  BY <1>10 DEF Inv, TypeOK, SettledBy, TargetLives
<1>15. turn' \in [Turns -> {"unborn", "live", "over"}]
  BY <1>1, <1>10 DEF Inv, TypeOK
<1>16. TypeOK'
  BY <1>9, <1>10, <1>11, <1>12, <1>13, <1>14, <1>15 DEF Inv, TypeOK
<1>17. Tracked(agent', run') /\ Busy(agent', run')
  BY <1>9, <1>12 DEF Tracked, Busy
<1>18. OwnerWaits'
  <2>1. PromptOK(call'[c])
    BY <1>11, CallTypes DEF PromptOK, Prompting
  <2>2. QED
    BY <1>11, <1>12, <2>1 DEF Inv, OwnerWaits
<1>19. QED
  BY <1>12, <1>14, <1>16, <1>17, <1>18 DEF Inv

\* startTurn comes back to a run that is not its own any more.
LEMMA StartTurnAbandonedInv ==
  ASSUME Inv, NEW c \in Callers, StartTurnAbandoned(c)
  PROVE  Inv'
<1>1. /\ call[c].pc = "starting" /\ run # ForegroundRun(c)
      /\ call' = [call EXCEPT ![c] = IdleCall]
      /\ UNCHANGED <<agent, run, staged, barrier, queue, mutator, target, turn, announced, anonymous>>
  BY DEF StartTurnAbandoned, Owns, Return, provider
<1>2. /\ call' \in [Callers -> CallFields] /\ call'[c] = IdleCall
      /\ \A d \in Callers : d # c => call'[d] = call[d]
  BY <1>1, CallTypes, OneCall DEF Inv
<1>3. run.kind = "foreground" => run.token \in Callers /\ run.token # c
  BY <1>1 DEF Inv, OwnerWaits, Shape, NoRun
<1>4. OwnerWaits'
  <2>1. PromptOK(call'[c])
    BY <1>2, CallTypes DEF PromptOK, Prompting
  <2>2. QED
    BY <1>1, <1>2, <1>3, <2>1 DEF Inv, OwnerWaits
<1>5. QED
  BY <1>1, <1>2, <1>4 DEF Inv, TypeOK, TargetLives

\* The owner of a run has not heard its end, so a stream that ends owns none.
LEMMA StreamEndsInv ==
  ASSUME Inv, NEW c \in Callers, StreamEnds(c)
  PROVE  Inv' /\ run' = run
<1>1. /\ call[c].pc = "streaming" /\ call[c].heard
      /\ run' = (IF run.kind = "foreground" /\ run.token = c THEN NoRun ELSE run)
      /\ target' = SettledBy(run')
      /\ call' = [call EXCEPT ![c] = IdleCall]
      /\ UNCHANGED <<agent, staged, barrier, queue, mutator, turn, announced, anonymous>>
  BY DEF StreamEnds, Return, provider
<1>2. /\ call' \in [Callers -> CallFields] /\ call'[c] = IdleCall
      /\ \A d \in Callers : d # c => call'[d] = call[d]
  BY <1>1, CallTypes, OneCall DEF Inv
<1>3. run.kind = "foreground" => run.token \in Callers /\ run.token # c
  BY <1>1 DEF Inv, OwnerWaits, Shape, NoRun
<1>4. run' = run
  BY <1>1, <1>3
<1>5. target' = target
  BY <1>1, <1>4 DEF SettledBy, Inv, TargetLives
<1>6. OwnerWaits'
  <2>1. PromptOK(call'[c])
    BY <1>2, CallTypes DEF PromptOK, Prompting
  <2>2. QED
    BY <1>2, <1>3, <1>4, <2>1 DEF Inv, OwnerWaits
<1>7. QED
  BY <1>1, <1>2, <1>4, <1>5, <1>6 DEF Inv, TypeOK, TargetLives

-----------------------------------------------------------------------------
(* Cancellations, replacements and steers: the calls that do not prompt.    *)

\* A step of such a call that leaves run and agent alone, or nearly so.
LEMMA QuietStep ==
  ASSUME Inv, NEW c \in Callers, NEW rec \in CallFields,
         call[c].pc \notin Prompting, rec.pc \notin Prompting,
         call' = [call EXCEPT ![c] = rec],
         run' = run, agent' \in AgentFields,
         agent'.foreground = agent.foreground, Busy(agent', run'),
         staged' \in Seq(Event), queue' \in Seq(Event),
         barrier' \in [on : BOOLEAN, events : Seq(Event)],
         mutator' \in Callers \cup {NoCaller},
         target' \in {"none", "live", "settled"}, TargetLives',
         UNCHANGED <<turn, anonymous>>, announced' \in SUBSET Turns
  PROVE  Inv'
<1>1. /\ call' \in [Callers -> CallFields] /\ call'[c] = rec
      /\ \A d \in Callers : d # c => call'[d] = call[d]
  BY OneCall DEF Inv
<1>2. OwnerWaits'
  BY <1>1, QuietCall
<1>3. TypeOK'
  BY <1>1 DEF Inv, TypeOK
<1>4. QED
  BY <1>2, <1>3 DEF Inv, Tracked

\* The same when only the call changes.
LEMMA CallOnlyStep ==
  ASSUME Inv, NEW c \in Callers, NEW rec \in CallFields,
         call[c].pc \notin Prompting, rec.pc \notin Prompting,
         call' = [call EXCEPT ![c] = rec],
         UNCHANGED <<agent, run, staged, queue, barrier, turn, announced, anonymous>>,
         mutator' \in Callers \cup {NoCaller},
         target' = target \/ target' = "none" \/ (target' = "live" /\ run # NoRun)
  PROVE  Inv'
<1>1. target' \in {"none", "live", "settled"} /\ TargetLives'
  BY DEF Inv, TypeOK, TargetLives
<1>2. agent' \in AgentFields /\ Busy(agent', run') /\ agent'.foreground = agent.foreground
  BY DEF Inv, TypeOK
<1>3. staged' \in Seq(Event) /\ queue' \in Seq(Event) /\ announced' \in SUBSET Turns
      /\ barrier' \in [on : BOOLEAN, events : Seq(Event)]
  BY DEF Inv, TypeOK
<1>4. QED
  BY <1>1, <1>2, <1>3, QuietStep

\* A call's record after it moved on, or took a note.
LEMMA MoveTypes ==
  ASSUME NEW rec \in CallFields,
         NEW pc \in {"waiting", "interrupting", "settling", "awaiting", "resuming",
                     "admitting", "draining", "steering", "flushing"}
  PROVE  /\ [rec EXCEPT !.pc = pc] \in CallFields
         /\ [rec EXCEPT !.pc = pc].pc \notin Prompting
         /\ \A acked \in BOOLEAN :
              /\ [rec EXCEPT !.pc = pc, !.acked = acked] \in CallFields
              /\ [rec EXCEPT !.pc = pc, !.acked = acked].pc \notin Prompting
         /\ \A job \in {"none", "cancel", "replace", "accepted", "unavailable"} :
              /\ [rec EXCEPT !.pc = pc, !.job = job] \in CallFields
              /\ [rec EXCEPT !.pc = pc, !.job = job].pc \notin Prompting
         /\ \A t \in TurnIds :
              /\ [rec EXCEPT !.pc = pc, !.turn = t] \in CallFields
              /\ [rec EXCEPT !.pc = pc, !.turn = t].pc \notin Prompting
  BY DEF CallFields, Prompting

\* An agent that is held for a replacement is busy.
LEMMA HoldTypes ==
  ASSUME Inv, HoldForReplacement
  PROVE  /\ agent' \in AgentFields /\ agent'.foreground = agent.foreground
         /\ \A r : Busy(agent', r)
<1>1. agent' = [agent EXCEPT !.pendingReplacement = TRUE, !.lifecycle = "running"]
  BY DEF HoldForReplacement
<1>2. QED
  BY <1>1 DEF Inv, TypeOK, AgentFields, Busy

\* cancelAgentRun, replaceAgentRun and steerOrReplaceActiveTurn, as called.
LEMMA RequestInv ==
  ASSUME Inv, NEW c \in Callers, Request(c)
  PROVE  Inv'
<1>1. call[c].pc = "idle" /\ call[c].pc \notin Prompting
  BY DEF Request, Prompt, CancelAgentRun, ReplaceAgentRun, Steer, Prompting
<1>2. ASSUME NEW t \in Turns, Prompt(c, t) PROVE Inv'
  BY <1>1, <1>2, StreamAgentInv DEF Prompt
<1>3. CASE CancelAgentRun(c)
  <2> DEFINE rec == [IdleCall EXCEPT !.pc = "waiting", !.job = "cancel"]
  <2>1. rec \in CallFields /\ rec.pc \notin Prompting
    BY CallTypes, MoveTypes
  <2>2. call' = [call EXCEPT ![c] = rec]
        /\ UNCHANGED <<agent, run, staged, barrier, queue, mutator, target, turn, announced, anonymous>>
    BY <1>3 DEF CancelAgentRun, provider
  <2>3. mutator' \in Callers \cup {NoCaller}
    BY <2>2 DEF Inv, TypeOK
  <2> HIDE DEF rec
  <2>4. QED
    BY <1>1, <2>1, <2>2, <2>3, CallOnlyStep
<1>4. CASE ReplaceAgentRun(c)
  <2> DEFINE rec == [IdleCall EXCEPT !.pc = "waiting", !.job = "replace"]
  <2>1. rec \in CallFields /\ rec.pc \notin Prompting
    BY CallTypes, MoveTypes
  <2>2. HoldForReplacement /\ call' = [call EXCEPT ![c] = rec]
        /\ UNCHANGED <<run, staged, barrier, queue, mutator, target, turn, announced, anonymous>>
    BY <1>4 DEF ReplaceAgentRun, provider
  <2> HIDE DEF rec
  <2>3. agent' \in AgentFields /\ agent'.foreground = agent.foreground /\ Busy(agent', run')
    BY <2>2, HoldTypes
  <2>4. /\ staged' \in Seq(Event) /\ queue' \in Seq(Event) /\ announced' \in SUBSET Turns
        /\ barrier' \in [on : BOOLEAN, events : Seq(Event)]
        /\ mutator' \in Callers \cup {NoCaller}
        /\ target' \in {"none", "live", "settled"} /\ TargetLives'
    BY <2>2 DEF Inv, TypeOK, TargetLives
  <2>5. QED
    BY <1>1, <2>1, <2>2, <2>3, <2>4, QuietStep
<1>5. CASE Steer(c)
  <2> DEFINE rec == [IdleCall EXCEPT !.pc = "admitting", !.turn = Expected]
  <2>1. Expected \in TurnIds
    BY DEF Expected, Inv, TypeOK, AgentFields
  <2>2. rec \in CallFields /\ rec.pc \notin Prompting
    BY <2>1, CallTypes, MoveTypes
  <2>3. call' = [call EXCEPT ![c] = rec]
        /\ UNCHANGED <<agent, run, staged, barrier, queue, mutator, target, turn, announced, anonymous>>
    BY <1>5 DEF Steer, provider
  <2>4. mutator' \in Callers \cup {NoCaller}
    BY <2>3 DEF Inv, TypeOK
  <2> HIDE DEF rec
  <2>5. QED
    BY <1>1, <2>2, <2>3, <2>4, CallOnlyStep
<1>6. QED
  BY <1>2, <1>3, <1>4, <1>5 DEF Request

\* The record of a call that got its answer.
LEMMA AnswerTypes ==
  ASSUME Inv, NEW c \in Callers
  PROVE  \E rec \in CallFields :
           rec.pc \notin Prompting /\ Answer(call, c) = [call EXCEPT ![c] = rec]
<1> DEFINE rec == IF call[c].job = "replace" THEN [IdleCall EXCEPT !.pc = "resuming"]
                  ELSE IdleCall
<1>1. rec \in CallFields /\ rec.pc \notin Prompting
  BY CallTypes, MoveTypes DEF Prompting
<1>2. Answer(call, c) = [call EXCEPT ![c] = rec]
  BY DEF Answer
<1> HIDE DEF rec
<1>3. QED
  BY <1>1, <1>2

\* A cancellation captures the run, or makes one up.
LEMMA CancelBeginsInv ==
  ASSUME Inv, NEW c \in Callers, CancelBegins(c)
  PROVE  Inv'
<1> DEFINE rec == [call[c] EXCEPT !.pc = "interrupting"]
<1>1. call[c] \in CallFields /\ call[c].pc \notin Prompting
  BY DEF Inv, TypeOK, CancelBegins, Prompting
<1>2. rec \in CallFields /\ rec.pc \notin Prompting
  BY <1>1, MoveTypes
<1>3. /\ call' = [call EXCEPT ![c] = rec] /\ run' = Track(run, NoTurn)
      /\ mutator' = c /\ target' = "live"
      /\ UNCHANGED <<agent, staged, barrier, queue, turn, announced, anonymous>>
  BY DEF CancelBegins, provider
<1> HIDE DEF rec
<1>4. CASE run = NoRun
  <2>1. run' = AutonomousRun(NoTurn)
    BY <1>3, <1>4 DEF Track
  <2>2. run' \in RunFields /\ Shape(run') /\ run'.kind = "autonomous" /\ run' # NoRun
    BY <2>1 DEF AutonomousRun, RunFields, Shape, NoRun, TurnIds
  <2>3. agent.foreground = NoTurn
    BY <1>4 DEF Inv, Tracked, NoRun
  <2>4. Tracked(agent', run') /\ Busy(agent', run') /\ TargetLives'
    BY <1>3, <2>2, <2>3 DEF Tracked, Busy, TargetLives
  <2>5. /\ call' \in [Callers -> CallFields] /\ call'[c] = rec
        /\ \A d \in Callers : d # c => call'[d] = call[d]
    BY <1>2, <1>3, OneCall DEF Inv
  <2>6. OwnerWaits'
    BY <1>1, <1>2, <2>2, <2>5, QuietCall
  <2>7. TypeOK'
    BY <1>3, <2>2, <2>5 DEF Inv, TypeOK
  <2>8. QED
    BY <2>2, <2>4, <2>6, <2>7 DEF Inv
<1>5. CASE run # NoRun
  <2>1. run' = run
    BY <1>3, <1>5 DEF Track
  <2>2. QED
    BY <1>1, <1>2, <1>3, <1>5, <2>1, CallOnlyStep
<1>6. QED
  BY <1>4, <1>5

\* Cancellation steps that change no run.
LEMMA CancelQuietInv ==
  ASSUME Inv, NEW c \in Callers,
         CancelNotRunning(c) \/ CancelSettled(c) \/ CancelRefused(c)
         \/ \E acked \in BOOLEAN : Interrupted(c, acked)
  PROVE  Inv'
<1>1. call[c] \in CallFields /\ call[c].pc \notin Prompting
  BY DEF Inv, TypeOK, CancelNotRunning, CancelSettled, CancelRefused, Interrupted, Prompting
<1>2. PICK rec \in CallFields : rec.pc \notin Prompting /\ Answer(call, c) = [call EXCEPT ![c] = rec]
  BY AnswerTypes
<1>3. CASE CancelNotRunning(c)
  <2>1. call' = [call EXCEPT ![c] = rec]
        /\ UNCHANGED <<agent, run, staged, barrier, queue, mutator, target, turn, announced, anonymous>>
    BY <1>2, <1>3 DEF CancelNotRunning, provider
  <2>2. mutator' \in Callers \cup {NoCaller}
    BY <2>1 DEF Inv, TypeOK
  <2>3. QED
    BY <1>1, <1>2, <2>1, <2>2, CallOnlyStep
<1>4. CASE CancelSettled(c)
  <2>1. call' = [call EXCEPT ![c] = rec] /\ mutator' = NoCaller /\ target' = "none"
        /\ UNCHANGED <<agent, run, staged, barrier, queue, turn, announced, anonymous>>
    BY <1>2, <1>4 DEF CancelSettled, Release, provider
  <2>2. QED
    BY <1>1, <1>2, <2>1, CallOnlyStep
<1>5. CASE CancelRefused(c)
  <2>1. /\ call' = [call EXCEPT ![c] = IdleCall] /\ mutator' = NoCaller /\ target' = "none"
        /\ agent' = [agent EXCEPT !.pendingReplacement =
                        IF call[c].job = "replace" THEN FALSE ELSE @]
        /\ run # NoRun
        /\ UNCHANGED <<run, staged, barrier, queue, turn, announced, anonymous>>
    BY <1>5 DEF CancelRefused, Release, Return, provider, Inv, TargetLives
  <2>2. agent' \in AgentFields /\ agent'.foreground = agent.foreground /\ Busy(agent', run')
    BY <2>1 DEF Inv, TypeOK, AgentFields, Busy
  <2>3. /\ staged' \in Seq(Event) /\ queue' \in Seq(Event) /\ announced' \in SUBSET Turns
        /\ barrier' \in [on : BOOLEAN, events : Seq(Event)]
        /\ mutator' \in Callers \cup {NoCaller}
        /\ target' \in {"none", "live", "settled"} /\ TargetLives'
    BY <2>1 DEF Inv, TypeOK, TargetLives
  <2>4. IdleCall \in CallFields /\ IdleCall.pc \notin Prompting
    BY CallTypes DEF Prompting
  <2>5. QED
    BY <1>1, <2>1, <2>2, <2>3, <2>4, QuietStep
<1>6. ASSUME NEW acked \in BOOLEAN, Interrupted(c, acked) PROVE Inv'
  <2> DEFINE new == [call[c] EXCEPT !.pc = "settling", !.acked = acked]
  <2>1. new \in CallFields /\ new.pc \notin Prompting
    BY <1>1, MoveTypes
  <2>2. call' = [call EXCEPT ![c] = new]
        /\ UNCHANGED <<agent, run, staged, barrier, queue, mutator, target, turn, anonymous>>
    BY <1>1, <1>6 DEF Interrupted, Inv, TypeOK
  <2>3. announced' \in SUBSET Turns
    BY <1>6 DEF Interrupted, Inv, TypeOK
  <2> HIDE DEF new
  <2>4. /\ agent' \in AgentFields /\ agent'.foreground = agent.foreground /\ Busy(agent', run')
        /\ staged' \in Seq(Event) /\ queue' \in Seq(Event)
        /\ barrier' \in [on : BOOLEAN, events : Seq(Event)]
        /\ mutator' \in Callers \cup {NoCaller}
        /\ target' \in {"none", "live", "settled"} /\ TargetLives'
    BY <2>2 DEF Inv, TypeOK, TargetLives
  <2>5. QED
    BY <1>1, <2>1, <2>2, <2>3, <2>4, QuietStep
<1>7. QED
  BY <1>3, <1>4, <1>5, <1>6

\* The terminal that a forced cancellation dispatches names a turn the agent
\* knows; the tracked run of a live target is the captured one.
LEMMA ForceCancelTurnInv ==
  ASSUME Inv, NEW c \in Callers, ForceCancelTurn(c)
  PROVE  Inv'
<1> DEFINE e == [type |-> "ended", turn |-> run.turn]
           calls == [call EXCEPT ![c].pc = "awaiting"]
<1>1. call[c] \in CallFields /\ call[c].pc \notin Prompting
  BY DEF Inv, TypeOK, ForceCancelTurn, Prompting
<1>2. calls \in [Callers -> CallFields]
      /\ \A d \in Callers : calls[d] = call[d] \/
           (call[d].pc \notin Prompting /\ calls[d].pc \notin Prompting)
  BY <1>1 DEF Inv, TypeOK, CallFields, Prompting
<1>3. DispatchSessionEvent(e, calls)
      /\ UNCHANGED <<staged, barrier, queue, mutator, turn, announced, anonymous>>
  BY DEF ForceCancelTurn, provider
<1> HIDE DEF calls
<1>4. e \in ManagedEvent
  BY DEF ManagedEvent, Inv, TypeOK, RunFields
<1> HIDE DEF e
<1>5. /\ agent' \in AgentFields /\ run' \in RunFields
      /\ call' \in [Callers -> CallFields]
      /\ target' \in {"none", "live", "settled"}
      /\ Shape(run') /\ Tracked(agent', run') /\ Busy(agent', run')
      /\ OwnerWaits' /\ TargetLives'
  BY <1>2, <1>3, <1>4, DispatchInv
<1>6. TypeOK'
  BY <1>3, <1>5 DEF Inv, TypeOK
<1>7. QED
  BY <1>5, <1>6 DEF Inv

\* A run that has no turn yet is dropped: the agent has no foreground turn.
LEMMA ForceClearPendingInv ==
  ASSUME Inv, NEW c \in Callers, ForceClearPending(c)
  PROVE  Inv'
<1>1. call[c] \in CallFields /\ call[c].pc \notin Prompting
  BY DEF Inv, TypeOK, ForceClearPending, Prompting
<1>2. PICK rec \in CallFields : rec.pc \notin Prompting /\ Answer(call, c) = [call EXCEPT ![c] = rec]
  BY AnswerTypes
<1>3. /\ run.kind = "foreground" /\ run.turn = NoTurn
      /\ run' = NoRun /\ staged' = <<>>
      /\ agent' = [agent EXCEPT !.lifecycle = IF agent.pendingReplacement THEN @ ELSE "idle"]
      /\ mutator' = NoCaller /\ target' = "none"
      /\ call' = [call EXCEPT ![c] = rec]
      /\ UNCHANGED <<barrier, queue, turn, announced, anonymous>>
  BY <1>2 DEF ForceClearPending, Release, provider
<1>4. agent.foreground = NoTurn
  BY <1>3 DEF Inv, Tracked
<1>5. /\ agent' \in AgentFields /\ agent'.foreground = NoTurn
      /\ agent'.lifecycle = "running" => agent'.pendingReplacement
  BY <1>3, <1>4 DEF Inv, TypeOK, AgentFields
<1>6. run' \in RunFields /\ Shape(run') /\ run'.kind = "none"
  BY <1>3 DEF NoRun, RunFields, TurnIds, Shape
<1>7. Tracked(agent', run') /\ Busy(agent', run') /\ TargetLives'
  BY <1>3, <1>5, <1>6 DEF Tracked, Busy, TargetLives
<1>8. /\ call' \in [Callers -> CallFields] /\ call'[c] = rec
      /\ \A d \in Callers : d # c => call'[d] = call[d]
  BY <1>2, <1>3, OneCall DEF Inv
<1>9. OwnerWaits'
  BY <1>1, <1>2, <1>6, <1>8, QuietCall
<1>10. staged' \in Seq(Event)
  BY <1>3, SequenceTypes
<1>11. TypeOK'
  BY <1>3, <1>5, <1>6, <1>8, <1>10 DEF Inv, TypeOK
<1>12. QED
  BY <1>6, <1>7, <1>9, <1>11 DEF Inv

\* A made-up autonomous run is settled by the terminal that is made up for it.
LEMMA ForceCancelAutonomousInv ==
  ASSUME Inv, NEW c \in Callers, ForceCancelAutonomous(c)
  PROVE  Inv' /\ agent.foreground = NoTurn
<1> DEFINE e == [type |-> "ended", turn |-> NoTurn]
           h == HandleTerminal(agent, run, e)
<1>1. call[c] \in CallFields /\ call[c].pc \notin Prompting
  BY DEF Inv, TypeOK, ForceCancelAutonomous, Prompting
<1>2. PICK rec \in CallFields : rec.pc \notin Prompting /\ Answer(call, c) = [call EXCEPT ![c] = rec]
  BY AnswerTypes
<1>3. e \in ManagedEvent /\ agent \in AgentFields /\ run \in RunFields
  BY DEF ManagedEvent, TurnIds, Inv, TypeOK
<1>4. /\ h.agent \in AgentFields
      /\ Tracked(h.agent, h.run) /\ Busy(h.agent, h.run)
      /\ h.run = run \/ h.run = NoRun
  BY <1>3, HandleTerminalCorrect DEF Inv
<1> HIDE DEF h
<1>5. /\ agent' = h.agent /\ run' = h.run /\ mutator' = NoCaller /\ target' = "none"
      /\ run.kind = "autonomous"
      /\ call' = [call EXCEPT ![c] = rec]
      /\ UNCHANGED <<staged, barrier, queue, turn, announced, anonymous>>
  BY <1>2 DEF ForceCancelAutonomous, Release, provider, h
<1>6. run' \in RunFields /\ Shape(run') /\ run'.kind # "foreground"
  BY <1>3, <1>4, <1>5 DEF NoRun, RunFields, TurnIds, Shape, Inv
<1>7. /\ call' \in [Callers -> CallFields] /\ call'[c] = rec
      /\ \A d \in Callers : d # c => call'[d] = call[d]
  BY <1>2, <1>5, OneCall DEF Inv
<1>8. OwnerWaits'
  BY <1>1, <1>2, <1>6, <1>7, QuietCall
<1>9. TypeOK' /\ TargetLives'
  BY <1>4, <1>5, <1>6, <1>7 DEF Inv, TypeOK, TargetLives
<1>10. agent.foreground = NoTurn
  BY <1>5 DEF Inv, Tracked
<1>11. QED
  BY <1>4, <1>5, <1>6, <1>8, <1>9, <1>10 DEF Inv

\* Every step of a cancellation.
LEMMA CancelStepInv ==
  ASSUME Inv, NEW c \in Callers, CancelStep(c)
  PROVE  Inv'
  BY CancelBeginsInv, CancelQuietInv, ForceCancelTurnInv, ForceClearPendingInv,
     ForceCancelAutonomousInv DEF CancelStep

\* The second half of a replacement.
LEMMA ReplaceStepInv ==
  ASSUME Inv, NEW c \in Callers, ReplaceStep(c)
  PROVE  Inv'
<1>1. call[c].pc = "resuming" /\ call[c].pc \notin Prompting
  BY DEF ReplaceStep, ReplacementStreams, ReplacementRejected, Prompting
<1>2. ASSUME NEW t \in Turns, ReplacementStreams(c, t) PROVE Inv'
  BY <1>1, <1>2, StreamAgentInv DEF ReplacementStreams
<1>3. CASE ReplacementRejected(c)
  <2>1. /\ agent' = [agent EXCEPT !.pendingReplacement = FALSE]
        /\ call' = [call EXCEPT ![c] = IdleCall]
        /\ UNCHANGED <<run, staged, barrier, queue, mutator, target, turn, announced, anonymous>>
    BY <1>3 DEF ReplacementRejected, Return, provider
  <2>2. agent.lifecycle = "closed" \/ run # NoRun
    BY <1>3 DEF ReplacementRejected, CanStream, Open, Inv, Tracked, NoRun
  <2>3. agent' \in AgentFields /\ agent'.foreground = agent.foreground /\ Busy(agent', run')
    BY <2>1, <2>2 DEF Inv, TypeOK, AgentFields, Busy
  <2>4. /\ staged' \in Seq(Event) /\ queue' \in Seq(Event) /\ announced' \in SUBSET Turns
        /\ barrier' \in [on : BOOLEAN, events : Seq(Event)]
        /\ mutator' \in Callers \cup {NoCaller}
        /\ target' \in {"none", "live", "settled"} /\ TargetLives'
    BY <2>1 DEF Inv, TypeOK, TargetLives
  <2>5. IdleCall \in CallFields /\ IdleCall.pc \notin Prompting
    BY CallTypes DEF Prompting
  <2>6. QED
    BY <1>1, <2>1, <2>3, <2>4, <2>5, QuietStep
<1>4. QED
  BY <1>2, <1>3 DEF ReplaceStep

\* Every step of a steer: held events return, runs and turns stay.
LEMMA SteerStepInv ==
  ASSUME Inv, NEW c \in Callers, SteerStep(c)
  PROVE  Inv'
<1>0. /\ staged \in Seq(Event) /\ queue \in Seq(Event)
      /\ barrier \in [on : BOOLEAN, events : Seq(Event)]
      /\ mutator \in Callers \cup {NoCaller} /\ announced \in SUBSET Turns
      /\ target \in {"none", "live", "settled"} /\ TargetLives
      /\ agent \in AgentFields /\ Busy(agent, run)
  BY DEF Inv, TypeOK
<1>1. call[c] \in CallFields /\ call[c].pc \notin Prompting
  BY DEF Inv, TypeOK, SteerStep, SteerBegins, SteerAdmitted, SteerTooLate, SteerAnswered,
         SteerReturns, SteerFallsBack, Prompting
<1>2. IdleCall \in CallFields /\ IdleCall.pc \notin Prompting
  BY CallTypes DEF Prompting
<1>3. CASE SteerBegins(c)
  <2> DEFINE rec == [call[c] EXCEPT !.pc = "draining"]
  <2>1. rec \in CallFields /\ rec.pc \notin Prompting
    BY <1>1, MoveTypes
  <2>2. call' = [call EXCEPT ![c] = rec] /\ mutator' = c
        /\ UNCHANGED <<agent, run, staged, barrier, queue, target, turn, announced, anonymous>>
    BY <1>3 DEF SteerBegins, provider
  <2> HIDE DEF rec
  <2>3. QED
    BY <1>1, <2>1, <2>2, CallOnlyStep
<1>4. CASE SteerAdmitted(c)
  <2> DEFINE rec == [call[c] EXCEPT !.pc = "steering"]
  <2>1. rec \in CallFields /\ rec.pc \notin Prompting
    BY <1>1, MoveTypes
  <2>2. call' = [call EXCEPT ![c] = rec] /\ barrier' = [on |-> TRUE, events |-> <<>>]
        /\ UNCHANGED <<agent, run, staged, queue, mutator, target, turn, announced, anonymous>>
    BY <1>4 DEF SteerAdmitted, provider
  <2>3. barrier' \in [on : BOOLEAN, events : Seq(Event)]
    BY <2>2, SequenceTypes
  <2> HIDE DEF rec
  <2>4. agent' \in AgentFields /\ Busy(agent', run') /\ TargetLives'
    BY <1>0, <2>2 DEF TargetLives
  <2>5. QED
    BY <1>0, <1>1, <2>1, <2>2, <2>3, <2>4, QuietStep
<1>5. CASE SteerTooLate(c) \/ SteerReturns(c)
  <2>1. call' = [call EXCEPT ![c] = IdleCall] /\ mutator' = NoCaller
        /\ UNCHANGED <<agent, run, staged, barrier, queue, target, turn, announced, anonymous>>
    BY <1>5 DEF SteerTooLate, SteerReturns, Return, provider
  <2>2. QED
    BY <1>1, <1>2, <2>1, CallOnlyStep
<1>6. ASSUME NEW answer \in {"accepted", "unavailable"}, SteerAnswered(c, answer)
      PROVE  Inv'
  <2> DEFINE rec == [call[c] EXCEPT !.pc = "flushing", !.job = answer]
  <2>1. rec \in CallFields /\ rec.pc \notin Prompting
    BY <1>1, MoveTypes
  <2>2. call' = [call EXCEPT ![c] = rec] /\ barrier' = NoBarrier
        /\ UNCHANGED <<agent, run, mutator, target, turn, announced, anonymous>>
    BY <1>1, <1>6 DEF SteerAnswered, provider, Inv, TypeOK
  <2>3. barrier' \in [on : BOOLEAN, events : Seq(Event)]
    BY <2>2, SequenceTypes DEF NoBarrier
  <2>4. \A s \in Seq(Event) : s \o barrier.events \in Seq(Event)
    BY <1>0, SequenceTypes
  <2>5. staged' \in Seq(Event) /\ queue' \in Seq(Event)
    BY <1>0, <1>6, <2>4 DEF SteerAnswered
  <2> HIDE DEF rec
  <2>6. agent' \in AgentFields /\ Busy(agent', run') /\ TargetLives'
    BY <1>0, <2>2 DEF TargetLives
  <2>7. QED
    BY <1>0, <1>1, <2>1, <2>2, <2>3, <2>5, <2>6, QuietStep
<1>7. CASE SteerFallsBack(c)
  <2> DEFINE rec == [IdleCall EXCEPT !.pc = "waiting", !.job = "replace"]
  <2>1. rec \in CallFields /\ rec.pc \notin Prompting
    BY <1>2, MoveTypes
  <2>2. HoldForReplacement /\ call' = [call EXCEPT ![c] = rec] /\ mutator' = NoCaller
        /\ UNCHANGED <<run, staged, barrier, queue, target, turn, announced, anonymous>>
    BY <1>7 DEF SteerFallsBack, provider
  <2> HIDE DEF rec
  <2>3. agent' \in AgentFields /\ agent'.foreground = agent.foreground /\ Busy(agent', run')
    BY <2>2, HoldTypes
  <2>4. TargetLives'
    BY <1>0, <2>2 DEF TargetLives
  <2>5. QED
    BY <1>0, <1>1, <2>1, <2>2, <2>3, <2>4, QuietStep
<1>8. QED
  BY <1>3, <1>4, <1>5, <1>6, <1>7 DEF SteerStep

\* Closing the agent drops run, turns and staged events.
LEMMA CloseAgentInv ==
  ASSUME Inv, CloseAgent
  PROVE  Inv'
<1>1. /\ agent' = [lifecycle |-> "closed", foreground |-> NoTurn, active |-> NoTurn,
                   pendingReplacement |-> FALSE, lastError |-> agent.lastError,
                   finalized |-> {}]
      /\ run' = NoRun /\ target' = SettledBy(NoRun) /\ staged' = <<>>
      /\ call' = [c \in Callers |-> IF call[c].pc = "streaming"
                                    THEN [call[c] EXCEPT !.heard = TRUE] ELSE call[c]]
      /\ turn' = [t \in Turns |-> IF turn[t] = "live" THEN "over" ELSE turn[t]]
      /\ UNCHANGED <<barrier, queue, mutator, announced, anonymous>>
  BY DEF CloseAgent, ClosedAgent, CancelWaiters
<1>2. agent' \in AgentFields /\ agent'.foreground = NoTurn /\ agent'.lifecycle # "running"
  BY <1>1 DEF Inv, TypeOK, AgentFields, TurnIds
<1>3. run' \in RunFields /\ Shape(run') /\ run'.kind = "none"
  BY <1>1 DEF NoRun, RunFields, TurnIds, Shape
<1>4. \A c \in Callers : /\ call'[c] \in CallFields
                         /\ call'[c].pc = call[c].pc /\ call'[c].turn = call[c].turn
                         /\ call[c].pc = "starting" => call'[c] = call[c]
  BY <1>1 DEF Inv, TypeOK, CallFields
<1>5. call' \in [Callers -> CallFields]
  <2>1. DOMAIN call' = Callers /\ call' = [c \in Callers |-> call'[c]]
    BY <1>1
  <2>2. QED
    BY <1>4, <2>1
<1>6. \A c \in Callers : PromptOK(call'[c])
  BY <1>4 DEF Inv, OwnerWaits, PromptOK
<1>7. OwnerWaits'
  BY <1>3, <1>6 DEF OwnerWaits
<1>8. target' \in {"none", "live", "settled"} /\ TargetLives'
  BY <1>1 DEF Inv, TypeOK, SettledBy, TargetLives
<1>9. turn' \in [Turns -> {"unborn", "live", "over"}]
  BY <1>1 DEF Inv, TypeOK
<1>10. staged' \in Seq(Event)
  BY <1>1, SequenceTypes
<1>11. TypeOK'
  BY <1>1, <1>2, <1>3, <1>5, <1>8, <1>9, <1>10 DEF Inv, TypeOK
<1>12. Tracked(agent', run') /\ Busy(agent', run')
  BY <1>2, <1>3 DEF Tracked, Busy
<1>13. QED
  BY <1>3, <1>7, <1>8, <1>11, <1>12 DEF Inv

-----------------------------------------------------------------------------
(* The invariant holds.                                                     *)

\* Every step preserves the invariant.
LEMMA NextInv ==
  ASSUME Inv, Next
  PROVE  Inv'
<1>1. CASE ProviderStep
  BY <1>1, ProviderInv
<1>2. CASE Dispatch
  BY <1>2, DispatchStepInv
<1>3. CASE CloseAgent
  BY <1>3, CloseAgentInv
<1>4. ASSUME NEW c \in Callers,
             Request(c) \/ StartReturns(c) \/ StreamEnds(c) \/ CancelStep(c)
             \/ ReplaceStep(c) \/ SteerStep(c)
      PROVE  Inv'
  BY <1>4, RequestInv, StartTurnResolvedInv, StartTurnFailedInv, StartTurnAbandonedInv,
     StreamEndsInv, CancelStepInv, ReplaceStepInv, SteerStepInv DEF StartReturns
<1>5. QED
  BY <1>1, <1>2, <1>3, <1>4 DEF Next

\* So does no step.
LEMMA StutterInv ==
  ASSUME Inv, UNCHANGED vars
  PROVE  Inv'
<1>1. OwnerWaits'
  BY QuietRun DEF vars
<1>2. QED
  BY <1>1 DEF vars, Inv, TypeOK, TargetLives

\* The inductive invariant holds in every behaviour.
LEMMA SpecInv == Spec => []Inv
<1>1. Inv /\ [Next]_vars => Inv'
  BY NextInv, StutterInv
<1>2. QED
  BY <1>1, InitInv, PTL DEF Spec

\* Every variable of the run state keeps its type, for any number of callers,
\* turns and waiting events.
THEOREM TypeCorrect == Spec => []TypeOK
<1>1. Inv => TypeOK
  BY DEF Inv
<1>2. QED
  BY <1>1, SpecInv, PTL

\* activeForegroundTurnId and the run that AgentRunState tracks never disagree,
\* whatever the order of prompts, cancellations, steers and provider events.
THEOREM ForegroundTracked == Spec => []ForegroundIsTracked
<1>1. Inv => ForegroundIsTracked
  BY DEF Inv, Tracked, ForegroundIsTracked
<1>2. QED
  BY <1>1, SpecInv, PTL

\* An agent reported as running is tracked, active or held for a replacement.
THEOREM RunningTracked == Spec => []RunningIsTracked
<1>1. Inv => RunningIsTracked
  BY DEF Inv, Busy, RunningIsTracked
<1>2. QED
  BY <1>1, SpecInv, PTL

-----------------------------------------------------------------------------
(* A provider that names the turn of every event it reports                 *)
(* (Untagged = FALSE): streams are not left behind, and a foreground turn   *)
(* ends for a cause.  The strengthening is that the terminals on their way  *)
(* are true: each names a turn that the provider has ended.                 *)


Truthful == {e \in Event : e.turn \in Turns /\ (e.type # "started" => turn[e.turn] = "over")}

EventsTrue ==
  /\ queue \in Seq(Truthful)
  /\ staged \in Seq(Truthful)
  /\ barrier.events \in Seq(Truthful)

Unheard(cl) == cl.pc = "streaming" /\ ~cl.heard

\* The causes of TurnEndsForCause.
Cause ==
  \A t \in Turns :
    agent.foreground = t /\ agent'.foreground # t =>
      \/ turn[t] = "over"
      \/ \E c \in Callers : call[c].pc = "settling" /\ call'[c].pc = "awaiting"
      \/ agent'.lifecycle = "closed"

TagInv == Inv /\ EventsTrue /\ NoStreamLeftBehind

-----------------------------------------------------------------------------
(* Turns that are over stay over, so a true event stays true.               *)

\* The provider does not revive a turn.
LEMMA OverStays ==
  ASSUME Inv, Next
  PROVE  \A t \in Turns : turn[t] = "over" => turn'[t] = "over"
<1>0. turn \in [Turns -> {"unborn", "live", "over"}]
  BY DEF Inv, TypeOK
<1>1. CASE ProviderStep
  BY <1>0, <1>1 DEF ProviderStep, EmitStarted, EmitTerminal, EmitAutonomous, EmitAnonymous
<1>2. CASE Dispatch
  BY <1>2 DEF Dispatch, provider
<1>3. CASE CloseAgent
  BY <1>3 DEF CloseAgent, ClosedAgent, CancelWaiters
<1>4. ASSUME NEW c \in Callers, Request(c) PROVE \A t \in Turns : turn[t] = "over" => turn'[t] = "over"
  BY <1>0, <1>4 DEF Request, Prompt, StreamAgent, CancelAgentRun, ReplaceAgentRun, Steer, provider
<1>5. ASSUME NEW c \in Callers, StartReturns(c)
      PROVE  \A t \in Turns : turn[t] = "over" => turn'[t] = "over"
  BY <1>0, <1>5 DEF StartReturns, StartTurnResolved, StartTurnFailed, StartTurnAbandoned, provider
<1>6. ASSUME NEW c \in Callers, StreamEnds(c) \/ CancelStep(c) \/ SteerStep(c) PROVE UNCHANGED turn
  BY <1>6 DEF StreamEnds, CancelStep, CancelBegins, CancelNotRunning, Interrupted, CancelSettled,
     CancelRefused, ForceCancelTurn, ForceClearPending, ForceCancelAutonomous, SteerStep,
     SteerBegins, SteerAdmitted, SteerTooLate, SteerAnswered, SteerReturns, SteerFallsBack, provider
<1>7. ASSUME NEW c \in Callers, ReplaceStep(c)
      PROVE  \A t \in Turns : turn[t] = "over" => turn'[t] = "over"
  BY <1>0, <1>7 DEF ReplaceStep, ReplacementStreams, StreamAgent, ReplacementRejected, provider
<1>8. QED
  BY <1>1, <1>2, <1>3, <1>4, <1>5, <1>6, <1>7 DEF Next

\* A sequence over a set is one over a larger set.
LEMMA SeqGrows ==
  ASSUME NEW S, NEW T, S \subseteq T
  PROVE  Seq(S) \subseteq Seq(T)
  OBVIOUS

\* What is true of the events on their way stays true.
LEMMA TruthStays ==
  ASSUME Inv, Next
  PROVE  Truthful \subseteq Truthful' /\ Seq(Truthful) \subseteq Seq(Truthful')
<1>1. Truthful \subseteq Truthful'
  BY OverStays DEF Truthful
<1>2. QED
  BY <1>1, SeqGrows

-----------------------------------------------------------------------------
(* Events.                                                                  *)

\* An event of a live provider is true when it is emitted.
LEMMA EmitTrue ==
  ASSUME TagInv, Next, NEW e \in Truthful', Emit(e)
  PROVE  EventsTrue'
<1>1. /\ queue \in Seq(Truthful') /\ staged \in Seq(Truthful')
      /\ barrier.events \in Seq(Truthful')
  BY TruthStays DEF TagInv, EventsTrue
<1>2. <<e>> \in Seq(Truthful')
  BY SequenceTypes
<1>3. \A s \in Seq(Truthful') : s \o <<e>> \in Seq(Truthful')
  BY <1>2, SequenceTypes
<1>4. barrier \in [on : BOOLEAN, events : Seq(Event)]
  BY DEF TagInv, Inv, TypeOK
<1>5. CASE barrier.on
  <2>1. barrier' = [barrier EXCEPT !.events = barrier.events \o <<e>>]
        /\ UNCHANGED <<staged, queue>>
    BY <1>5 DEF Emit, Enqueue
  <2>2. barrier'.events = barrier.events \o <<e>>
    BY <1>4, <2>1
  <2>3. QED
    BY <1>1, <1>3, <2>1, <2>2 DEF EventsTrue
<1>6. CASE ~barrier.on
  <2>1. UNCHANGED barrier
        /\ (queue' = queue \o <<e>> \/ queue' = queue)
        /\ (staged' = staged \o <<e>> \/ staged' = staged)
    BY <1>6 DEF Emit, Enqueue
  <2>2. QED
    BY <1>1, <1>3, <2>1 DEF EventsTrue
<1>7. QED
  BY <1>5, <1>6

\* Whatever a provider that names its turns emits is true.
LEMMA ProviderTrue ==
  ASSUME TagInv, Next, ProviderStep, ~Untagged
  PROVE  EventsTrue'
<1>0. turn \in [Turns -> {"unborn", "live", "over"}]
  BY DEF TagInv, Inv, TypeOK
<1>1. ASSUME NEW t \in Turns PROVE [type |-> "started", turn |-> t] \in Truthful'
  BY DEF Truthful, Event
<1>2. ASSUME NEW t \in Turns, EmitStarted(t) PROVE EventsTrue'
  BY <1>1, <1>2, EmitTrue DEF EmitStarted
<1>3. ASSUME NEW t \in Turns, NEW type \in {"ended", "failed"}, EmitTerminal(t, type)
      PROVE  EventsTrue'
  <2>1. turn' = [turn EXCEPT ![t] = "over"]
    BY <1>3 DEF EmitTerminal
  <2>2. turn'[t] = "over"
    BY <1>0, <2>1
  <2>3. [type |-> type, turn |-> t] \in Truthful'
    BY <2>2 DEF Truthful, Event
  <2>4. QED
    BY <1>3, <2>3, EmitTrue DEF EmitTerminal
<1>4. ASSUME NEW t \in Turns, EmitAutonomous(t) PROVE EventsTrue'
  BY <1>1, <1>4, EmitTrue DEF EmitAutonomous
<1>5. QED
  BY <1>2, <1>3, <1>4 DEF ProviderStep, EmitAnonymous

\* Steps that keep, drop or reset what is on its way.
LEMMA EventsKept ==
  ASSUME TagInv, Next,
         queue' = queue \/ (queue # <<>> /\ queue' = Tail(queue)),
         staged' = staged \/ staged' = <<>>,
         barrier' = barrier \/ barrier' = [on |-> TRUE, events |-> <<>>]
  PROVE  EventsTrue'
<1>1. /\ queue \in Seq(Truthful') /\ staged \in Seq(Truthful')
      /\ barrier.events \in Seq(Truthful')
  BY TruthStays DEF TagInv, EventsTrue
<1>2. <<>> \in Seq(Truthful')
  BY SequenceTypes
<1>3. queue # <<>> => Tail(queue) \in Seq(Truthful')
  BY <1>1, SequenceTypes
<1>4. barrier'.events = barrier.events \/ barrier'.events = <<>>
  OBVIOUS
<1>5. QED
  BY <1>1, <1>2, <1>3, <1>4 DEF EventsTrue

\* The staged events are flushed when the start resolves.
LEMMA ResolvedTrue ==
  ASSUME TagInv, Next, NEW c \in Callers, StartTurnResolved(c)
  PROVE  EventsTrue'
<1> DEFINE flushed == WithoutStart(staged, call[c].turn)
<1>1. /\ queue \in Seq(Truthful') /\ staged \in Seq(Truthful')
      /\ barrier.events \in Seq(Truthful')
  BY TruthStays DEF TagInv, EventsTrue
<1>2. flushed \in Seq(Truthful')
  BY <1>1, WithoutStartType
<1>3. \A s \in Seq(Truthful') : s \o flushed \in Seq(Truthful')
  BY <1>2, SequenceTypes
<1>4. barrier \in [on : BOOLEAN, events : Seq(Event)]
  BY DEF TagInv, Inv, TypeOK
<1>5. staged' \in Seq(Truthful')
  BY SequenceTypes DEF StartTurnResolved
<1>6. CASE barrier.on
  <2>1. barrier' = [barrier EXCEPT !.events = barrier.events \o flushed] /\ queue' = queue
    BY <1>6 DEF StartTurnResolved
  <2> HIDE DEF flushed
  <2>2. barrier'.events = barrier.events \o flushed
    BY <1>4, <2>1
  <2>3. QED
    BY <1>1, <1>3, <1>5, <2>1, <2>2 DEF EventsTrue
<1>7. CASE ~barrier.on
  <2>1. queue' = queue \o flushed /\ barrier' = barrier
    BY <1>7 DEF StartTurnResolved
  <2> HIDE DEF flushed
  <2>2. QED
    BY <1>1, <1>3, <1>5, <2>1 DEF EventsTrue
<1>8. QED
  BY <1>6, <1>7

\* The held events are flushed when the provider answers the steer.
LEMMA AnsweredTrue ==
  ASSUME TagInv, Next, NEW c \in Callers, NEW answer, SteerAnswered(c, answer)
  PROVE  EventsTrue'
<1>1. /\ queue \in Seq(Truthful') /\ staged \in Seq(Truthful')
      /\ barrier.events \in Seq(Truthful')
  BY TruthStays DEF TagInv, EventsTrue
<1>2. \A s \in Seq(Truthful') : s \o barrier.events \in Seq(Truthful')
  BY <1>1, SequenceTypes
<1>3. barrier'.events \in Seq(Truthful')
  BY SequenceTypes DEF SteerAnswered, NoBarrier
<1>4. /\ queue' = queue \o barrier.events \/ queue' = queue
      /\ staged' = staged \o barrier.events \/ staged' = staged
  BY DEF SteerAnswered
<1>5. QED
  BY <1>1, <1>2, <1>3, <1>4 DEF EventsTrue

-----------------------------------------------------------------------------
(* Streams and causes.                                                      *)

\* NoStreamLeftBehind with the predicate Unheard.
LEMMA StreamsUnfold ==
  NoStreamLeftBehind <=>
    \A c \in Callers : Unheard(call[c]) =>
      /\ run.kind = "foreground" /\ run.token = c /\ run.turn = call[c].turn
      /\ agent.foreground = call[c].turn
  BY DEF NoStreamLeftBehind, Unheard

\* Without a started foreground run nobody is waiting for a turn.
LEMMA NobodyWaits ==
  ASSUME TagInv, ~(run.kind = "foreground" /\ run.start = "started")
  PROVE  \A c \in Callers : ~Unheard(call[c])
<1> SUFFICES ASSUME NEW c \in Callers, Unheard(call[c]) PROVE FALSE
  OBVIOUS
<1>1. call[c].turn \in Turns
  BY DEF TagInv, Inv, OwnerWaits, PromptOK, Prompting, Unheard
<1>2. agent.foreground = call[c].turn
  BY StreamsUnfold DEF TagInv
<1>3. QED
  BY <1>1, <1>2, NamesAssumption DEF TagInv, Inv, Tracked

\* Steps that change no run and no foreground turn.
LEMMA StreamsKept ==
  ASSUME TagInv, UNCHANGED run, agent'.foreground = agent.foreground,
         \A c \in Callers : Unheard(call'[c]) => call'[c] = call[c]
  PROVE  NoStreamLeftBehind' /\ Cause
<1>1. NoStreamLeftBehind'
  BY DEF TagInv, NoStreamLeftBehind, Unheard
<1>2. QED
  BY <1>1 DEF Cause

\* Steps after which nobody waits who did not wait before, while there was no
\* started foreground run.
LEMMA StreamsNone ==
  ASSUME TagInv, ~(run.kind = "foreground" /\ run.start = "started"),
         \A c \in Callers : Unheard(call'[c]) => call'[c] = call[c]
  PROVE  NoStreamLeftBehind' /\ Cause
<1>1. \A c \in Callers : ~Unheard(call'[c])
  BY NobodyWaits
<1>2. NoStreamLeftBehind'
  BY <1>1 DEF NoStreamLeftBehind, Unheard
<1>3. agent.foreground = NoTurn
  BY DEF TagInv, Inv, Tracked
<1>4. QED
  BY <1>2, <1>3, NamesAssumption DEF Cause

\* A dispatched event takes the foreground turn away only when it names it,
\* and then the stream of that turn hears it.
LEMMA DispatchStreams ==
  ASSUME TagInv, NEW e \in ManagedEvent, e.turn # NoTurn,
         NEW calls \in [Callers -> CallFields], DispatchSessionEvent(e, calls),
         \A c \in Callers : calls[c] = call[c] \/
            (call[c].pc \notin Prompting /\ calls[c].pc \notin Prompting)
  PROVE  /\ NoStreamLeftBehind'
         /\ agent.foreground # NoTurn /\ agent'.foreground # agent.foreground =>
              e.type # "started" /\ e.turn = agent.foreground
<1> DEFINE h == HandleStreamEvent(agent, run, e)
<1>1. agent \in AgentFields /\ run \in RunFields
  BY DEF TagInv, Inv, TypeOK
<1>2. /\ Tracked(h.agent, h.run)
      /\ \/ h.run = run \/ h.run = NoRun
         \/ run = NoRun /\ h.run.kind = "autonomous"
      /\ (agent.foreground # NoTurn /\ h.agent.foreground # agent.foreground) =>
           h.notify /\ e.type # "started" /\ Identity(agent, e) = agent.foreground
  BY <1>1, HandlerCorrect DEF TagInv, Inv
<1>3. Identity(agent, e) = e.turn
  BY DEF Identity
<1> HIDE DEF h
<1>4. agent' = h.agent /\ run' = h.run
  BY DEF DispatchSessionEvent, h
<1>5. call' = [c \in Callers |->
          IF h.notify /\ e.turn # NoTurn /\ calls[c].pc = "streaming" /\ calls[c].turn = e.turn
          THEN [calls[c] EXCEPT !.heard = TRUE] ELSE calls[c]]
  BY DEF DispatchSessionEvent, h
<1>6. ASSUME NEW c \in Callers, Unheard(call'[c])
      PROVE  /\ run'.kind = "foreground" /\ run'.token = c /\ run'.turn = call'[c].turn
             /\ agent'.foreground = call'[c].turn
  <2>1. /\ call'[c] = calls[c]
        /\ ~(h.notify /\ calls[c].pc = "streaming" /\ calls[c].turn = e.turn)
    BY <1>5, <1>6 DEF Unheard, CallFields
  <2>2. calls[c].pc = "streaming" /\ calls[c].pc \in Prompting
    BY <1>6, <2>1 DEF Unheard, Prompting
  <2>3. calls[c] = call[c] /\ Unheard(call[c])
    BY <1>6, <2>1, <2>2
  <2>4. /\ run.kind = "foreground" /\ run.token = c /\ run.turn = call[c].turn
        /\ agent.foreground = call[c].turn
    BY <2>3, StreamsUnfold DEF TagInv
  <2>5. call[c].turn \in Turns
    BY <2>2, <2>3 DEF TagInv, Inv, OwnerWaits, PromptOK
  <2>6. h.agent.foreground = agent.foreground
    BY <1>2, <1>3, <2>1, <2>2, <2>3, <2>4, <2>5, NamesAssumption
  <2>7. h.run = run
    BY <1>2, <2>4, <2>5, <2>6, NamesAssumption DEF Tracked, NoRun
  <2>8. QED
    BY <1>4, <2>1, <2>3, <2>4, <2>6, <2>7
<1>7. NoStreamLeftBehind'
  BY <1>6 DEF NoStreamLeftBehind, Unheard
<1>8. QED
  BY <1>2, <1>3, <1>4, <1>7

-----------------------------------------------------------------------------
(* Every step.                                                              *)

\* Calls of one caller that moved without starting to stream.
LEMMA OthersKeep ==
  ASSUME TagInv, NEW c \in Callers, NEW rec \in CallFields, rec.pc # "streaming",
         call' = [call EXCEPT ![c] = rec]
  PROVE  \A d \in Callers : Unheard(call'[d]) => call'[d] = call[d]
<1>1. call'[c] = rec /\ \A d \in Callers : d # c => call'[d] = call[d]
  BY OneCall DEF TagInv, Inv
<1>2. QED
  BY <1>1 DEF Unheard

\* The provider reports something.
LEMMA ProviderTag ==
  ASSUME TagInv, Next, ProviderStep, ~Untagged
  PROVE  EventsTrue' /\ NoStreamLeftBehind' /\ Cause
<1>1. UNCHANGED <<agent, run, call>>
  BY DEF ProviderStep, EmitStarted, EmitTerminal, EmitAutonomous, EmitAnonymous, Emit
<1>2. QED
  BY <1>1, ProviderTrue, StreamsKept

\* An event is handled.
LEMMA DispatchTag ==
  ASSUME TagInv, Next, Dispatch
  PROVE  EventsTrue' /\ NoStreamLeftBehind' /\ Cause
<1>1. EventsTrue'
  BY EventsKept DEF Dispatch
<1>2. CASE Open
  <2>1. Head(queue) \in Truthful
    BY SequenceTypes DEF TagInv, EventsTrue, Dispatch
  <2>2. Head(queue) \in ManagedEvent /\ Head(queue).turn # NoTurn
    BY <2>1, EventsManaged, NamesAssumption DEF Truthful
  <2>3. call \in [Callers -> CallFields] /\ DispatchSessionEvent(Head(queue), call)
    BY <1>2 DEF TagInv, Inv, TypeOK, Dispatch
  <2>4. /\ NoStreamLeftBehind'
        /\ agent.foreground # NoTurn /\ agent'.foreground # agent.foreground =>
              Head(queue).type # "started" /\ Head(queue).turn = agent.foreground
    BY <2>2, <2>3, DispatchStreams
  <2>5. Cause
    BY <2>1, <2>4, NamesAssumption DEF Cause, Truthful
  <2>6. QED
    BY <1>1, <2>4, <2>5
<1>3. CASE ~Open
  <2>1. UNCHANGED <<agent, run, call>>
    BY <1>3 DEF Dispatch
  <2>2. QED
    BY <1>1, <2>1, StreamsKept
<1>4. QED
  BY <1>2, <1>3

\* The agent is closed: every stream hears of it.
LEMMA CloseTag ==
  ASSUME TagInv, Next, CloseAgent
  PROVE  EventsTrue' /\ NoStreamLeftBehind' /\ Cause
<1>1. EventsTrue'
  BY EventsKept DEF CloseAgent, ClosedAgent, CancelWaiters
<1>2. call' = [c \in Callers |-> IF call[c].pc = "streaming"
                                THEN [call[c] EXCEPT !.heard = TRUE] ELSE call[c]]
  BY DEF CloseAgent, ClosedAgent, CancelWaiters
<1>3. \A c \in Callers : ~Unheard(call'[c])
  BY <1>2 DEF TagInv, Inv, TypeOK, CallFields, Unheard
<1>4. NoStreamLeftBehind'
  BY <1>3 DEF NoStreamLeftBehind, Unheard
<1>5. Cause
  BY DEF Cause, CloseAgent, ClosedAgent, CancelWaiters
<1>6. QED
  BY <1>1, <1>4, <1>5

\* A prompt starts while there is no run, so nobody waits.
LEMMA StreamAgentTag ==
  ASSUME TagInv, Next, NEW c \in Callers, NEW t \in Turns, StreamAgent(c, t)
  PROVE  EventsTrue' /\ NoStreamLeftBehind' /\ Cause
<1> DEFINE rec == [IdleCall EXCEPT !.pc = "starting", !.turn = t,
                                    !.replacing = agent.pendingReplacement]
<1>1. EventsTrue'
  BY EventsKept DEF StreamAgent
<1>0. agent.pendingReplacement \in BOOLEAN
  BY DEF TagInv, Inv, TypeOK, AgentFields
<1>2. rec \in CallFields /\ rec.pc = "starting"
  BY <1>0, StartRecord
<1>3. call' = [call EXCEPT ![c] = rec]
  BY DEF StreamAgent
<1>4. run.kind # "foreground"
  BY DEF StreamAgent, CanStream, NoRun
<1> HIDE DEF rec
<1>5. QED
  BY <1>1, <1>2, <1>3, <1>4, OthersKeep, StreamsNone

\* A caller asks for something.
LEMMA RequestTag ==
  ASSUME TagInv, Next, NEW c \in Callers, Request(c)
  PROVE  EventsTrue' /\ NoStreamLeftBehind' /\ Cause
<1>1. ASSUME NEW t \in Turns, Prompt(c, t)
      PROVE  EventsTrue' /\ NoStreamLeftBehind' /\ Cause
  BY <1>1, StreamAgentTag DEF Prompt
<1>2. CASE CancelAgentRun(c) \/ ReplaceAgentRun(c) \/ Steer(c)
  <2>1. EventsTrue'
    BY <1>2, EventsKept DEF CancelAgentRun, ReplaceAgentRun, Steer
  <2>2. UNCHANGED run /\ agent'.foreground = agent.foreground
    BY <1>2, HoldTypes DEF CancelAgentRun, ReplaceAgentRun, Steer, TagInv
  <2>3. Expected \in TurnIds
    BY DEF Expected, TagInv, Inv, TypeOK, AgentFields
  <2>4. \E rec \in CallFields : rec.pc # "streaming" /\ call' = [call EXCEPT ![c] = rec]
    <3> DEFINE cancel == [IdleCall EXCEPT !.pc = "waiting", !.job = "cancel"]
               replace == [IdleCall EXCEPT !.pc = "waiting", !.job = "replace"]
               steer == [IdleCall EXCEPT !.pc = "admitting", !.turn = Expected]
    <3>1. cancel \in CallFields /\ cancel.pc # "streaming"
      BY CallTypes DEF IdleCall
    <3>2. replace \in CallFields /\ replace.pc # "streaming"
      BY CallTypes DEF IdleCall
    <3>3. steer \in CallFields /\ steer.pc \notin Prompting
      BY <2>3, CallTypes, MoveTypes
    <3>4. steer.pc # "streaming"
      BY <3>3 DEF Prompting
    <3>5. \/ call' = [call EXCEPT ![c] = cancel]
          \/ call' = [call EXCEPT ![c] = replace]
          \/ call' = [call EXCEPT ![c] = steer]
      BY <1>2 DEF CancelAgentRun, ReplaceAgentRun, Steer
    <3> HIDE DEF cancel, replace, steer
    <3>6. QED
      BY <3>1, <3>2, <3>3, <3>4, <3>5
  <2>5. QED
    BY <2>1, <2>2, <2>4, OthersKeep, StreamsKept
<1>3. QED
  BY <1>1, <1>2 DEF Request

\* startTurn comes back.
LEMMA StartTag ==
  ASSUME TagInv, Next, NEW c \in Callers, StartReturns(c)
  PROVE  EventsTrue' /\ NoStreamLeftBehind' /\ Cause
<1>0. IdleCall \in CallFields /\ IdleCall.pc # "streaming"
  BY CallTypes
<1>1. CASE StartTurnResolved(c)
  <2>1. EventsTrue'
    BY <1>1, ResolvedTrue
  <2>2. run = ForegroundRun(c) /\ run.start = "pending"
    BY <1>1 DEF StartTurnResolved, Owns, ForegroundRun
  <2>3. /\ agent' = [agent EXCEPT
             !.pendingReplacement = IF call[c].replacing THEN FALSE ELSE @,
             !.foreground = call[c].turn, !.active = call[c].turn, !.lifecycle = "running"]
        /\ run' = [run EXCEPT !.start = "started", !.turn = call[c].turn]
        /\ call' = [call EXCEPT ![c].pc = "streaming"]
    BY <1>1 DEF StartTurnResolved
  <2>4. /\ run'.kind = "foreground" /\ run'.token = c /\ run'.turn = call[c].turn
        /\ agent'.foreground = call[c].turn
    BY <2>2, <2>3 DEF ForegroundRun, TagInv, Inv, TypeOK, AgentFields
  <2>5. call'[c].turn = call[c].turn /\ \A d \in Callers : d # c => call'[d] = call[d]
    BY <2>3 DEF TagInv, Inv, TypeOK, CallFields
  <2>6. \A d \in Callers : ~Unheard(call[d])
    BY <2>2, NobodyWaits
  <2>7. NoStreamLeftBehind'
    BY <2>4, <2>5, <2>6 DEF NoStreamLeftBehind, Unheard
  <2>8. agent.foreground = NoTurn
    BY <2>2 DEF TagInv, Inv, Tracked
  <2>9. Cause
    BY <2>8, NamesAssumption DEF Cause
  <2>10. QED
    BY <2>1, <2>7, <2>9
<1>2. CASE StartTurnFailed(c)
  <2>1. EventsTrue'
    BY <1>2, EventsKept DEF StartTurnFailed
  <2>2. run.start = "pending" /\ call' = [call EXCEPT ![c] = IdleCall]
    BY <1>2 DEF StartTurnFailed, Owns, ForegroundRun, Return
  <2>3. QED
    BY <1>0, <2>1, <2>2, OthersKeep, StreamsNone
<1>3. CASE StartTurnAbandoned(c)
  <2>1. EventsTrue'
    BY <1>3, EventsKept DEF StartTurnAbandoned
  <2>2. UNCHANGED <<agent, run>> /\ call' = [call EXCEPT ![c] = IdleCall]
    BY <1>3 DEF StartTurnAbandoned, Return
  <2>3. QED
    BY <1>0, <2>1, <2>2, OthersKeep, StreamsKept
<1>4. QED
  BY <1>1, <1>2, <1>3 DEF StartReturns

\* A stream that heard its terminal returns.
LEMMA StreamEndsTag ==
  ASSUME TagInv, Next, NEW c \in Callers, StreamEnds(c)
  PROVE  EventsTrue' /\ NoStreamLeftBehind' /\ Cause
<1>1. EventsTrue'
  BY EventsKept DEF StreamEnds
<1>2. UNCHANGED run
  BY StreamEndsInv DEF TagInv
<1>3. UNCHANGED agent /\ call' = [call EXCEPT ![c] = IdleCall]
  BY DEF StreamEnds, Return
<1>4. IdleCall \in CallFields /\ IdleCall.pc # "streaming"
  BY CallTypes
<1>5. QED
  BY <1>1, <1>2, <1>3, <1>4, OthersKeep, StreamsKept

\* Cancellations: only a forced one touches a foreground turn, and it is the
\* cause that TurnEndsForCause names.
LEMMA CancelTag ==
  ASSUME TagInv, Next, NEW c \in Callers, CancelStep(c)
  PROVE  EventsTrue' /\ NoStreamLeftBehind' /\ Cause
<1>0. call[c] \in CallFields
  BY DEF TagInv, Inv, TypeOK
<1>1. PICK rec \in CallFields : rec.pc \notin Prompting /\ Answer(call, c) = [call EXCEPT ![c] = rec]
  BY AnswerTypes DEF TagInv
<1>2. rec.pc # "streaming"
  BY <1>1 DEF Prompting
<1>3. EventsTrue'
  BY EventsKept DEF CancelStep, CancelBegins, CancelNotRunning, Interrupted, CancelSettled,
     CancelRefused, ForceCancelTurn, ForceClearPending, ForceCancelAutonomous
<1>4. CASE CancelNotRunning(c) \/ CancelSettled(c)
  <2>1. UNCHANGED <<agent, run>> /\ call' = [call EXCEPT ![c] = rec]
    BY <1>1, <1>4 DEF CancelNotRunning, CancelSettled
  <2>2. QED
    BY <1>2, <1>3, <2>1, OthersKeep, StreamsKept
<1>5. CASE CancelBegins(c)
  <2> DEFINE new == [call[c] EXCEPT !.pc = "interrupting"]
  <2>1. new \in CallFields /\ new.pc \notin Prompting
    BY <1>0, MoveTypes
  <2>2. call' = [call EXCEPT ![c] = new] /\ UNCHANGED agent /\ run' = Track(run, NoTurn)
    BY <1>5 DEF CancelBegins
  <2> HIDE DEF new
  <2>3. new.pc # "streaming"
    BY <2>1 DEF Prompting
  <2>4. CASE run = NoRun
    <3>1. run.kind # "foreground"
      BY <2>4 DEF NoRun
    <3>2. QED
      BY <1>3, <2>1, <2>2, <2>3, <3>1, OthersKeep, StreamsNone
  <2>5. CASE run # NoRun
    <3>1. UNCHANGED run
      BY <2>2, <2>5 DEF Track
    <3>2. QED
      BY <1>3, <2>1, <2>2, <2>3, <3>1, OthersKeep, StreamsKept
  <2>6. QED
    BY <2>4, <2>5
<1>6. ASSUME NEW acked \in BOOLEAN, Interrupted(c, acked)
      PROVE  EventsTrue' /\ NoStreamLeftBehind' /\ Cause
  <2> DEFINE new == [call[c] EXCEPT !.pc = "settling", !.acked = acked]
  <2>1. new \in CallFields /\ new.pc \notin Prompting
    BY <1>0, MoveTypes
  <2>2. call' = [call EXCEPT ![c] = new] /\ UNCHANGED <<agent, run>>
    BY <1>0, <1>6 DEF Interrupted, TagInv, Inv, TypeOK
  <2> HIDE DEF new
  <2>3. new.pc # "streaming"
    BY <2>1 DEF Prompting
  <2>4. QED
    BY <1>3, <2>1, <2>2, <2>3, OthersKeep, StreamsKept
<1>7. CASE CancelRefused(c)
  <2>1. /\ call' = [call EXCEPT ![c] = IdleCall] /\ UNCHANGED run
        /\ agent' = [agent EXCEPT !.pendingReplacement =
                        IF call[c].job = "replace" THEN FALSE ELSE @]
    BY <1>7 DEF CancelRefused, Return
  <2>2. agent'.foreground = agent.foreground
    BY <2>1 DEF TagInv, Inv, TypeOK, AgentFields
  <2>3. IdleCall \in CallFields /\ IdleCall.pc # "streaming"
    BY CallTypes
  <2>4. QED
    BY <1>3, <2>1, <2>2, <2>3, OthersKeep, StreamsKept
<1>8. CASE ForceCancelTurn(c)
  <2> DEFINE e == [type |-> "ended", turn |-> run.turn]
             calls == [call EXCEPT ![c].pc = "awaiting"]
  <2>1. call[c].pc = "settling" /\ call[c].pc \notin Prompting
    BY <1>8 DEF ForceCancelTurn, Prompting
  <2>2. calls \in [Callers -> CallFields] /\ calls[c].pc = "awaiting"
        /\ \A d \in Callers : calls[d] = call[d] \/
             (call[d].pc \notin Prompting /\ calls[d].pc \notin Prompting)
    BY <2>1 DEF TagInv, Inv, TypeOK, CallFields, Prompting
  <2>3. e \in ManagedEvent /\ e.turn # NoTurn
    BY <1>8 DEF ManagedEvent, TagInv, Inv, TypeOK, RunFields, ForceCancelTurn
  <2>4. DispatchSessionEvent(e, calls)
    BY <1>8 DEF ForceCancelTurn
  <2> HIDE DEF e, calls
  <2>5. NoStreamLeftBehind'
    BY <2>2, <2>3, <2>4, DispatchStreams
  <2>6. call'[c] = calls[c]
    BY <2>2, <2>4 DEF DispatchSessionEvent
  <2>7. QED
    BY <1>3, <2>1, <2>2, <2>5, <2>6 DEF Cause
<1>9. CASE ForceClearPending(c)
  <2>1. call' = [call EXCEPT ![c] = rec] /\ run.turn = NoTurn
    BY <1>1, <1>9 DEF ForceClearPending
  <2>2. ~(run.kind = "foreground" /\ run.start = "started")
    BY <2>1, NamesAssumption DEF TagInv, Inv, Shape, NoRun, ForegroundRun
  <2>3. QED
    BY <1>2, <1>3, <2>1, <2>2, OthersKeep, StreamsNone
<1>10. CASE ForceCancelAutonomous(c)
  <2>1. call' = [call EXCEPT ![c] = rec] /\ run.kind = "autonomous"
    BY <1>1, <1>10 DEF ForceCancelAutonomous
  <2>2. QED
    BY <1>2, <1>3, <2>1, OthersKeep, StreamsNone
<1>11. QED
  BY <1>4, <1>5, <1>6, <1>7, <1>8, <1>9, <1>10 DEF CancelStep

\* The second half of a replacement.
LEMMA ReplaceTag ==
  ASSUME TagInv, Next, NEW c \in Callers, ReplaceStep(c)
  PROVE  EventsTrue' /\ NoStreamLeftBehind' /\ Cause
<1>1. ASSUME NEW t \in Turns, ReplacementStreams(c, t)
      PROVE  EventsTrue' /\ NoStreamLeftBehind' /\ Cause
  BY <1>1, StreamAgentTag DEF ReplacementStreams
<1>2. CASE ReplacementRejected(c)
  <2>1. EventsTrue'
    BY <1>2, EventsKept DEF ReplacementRejected
  <2>2. call' = [call EXCEPT ![c] = IdleCall] /\ UNCHANGED run
        /\ agent' = [agent EXCEPT !.pendingReplacement = FALSE]
    BY <1>2 DEF ReplacementRejected, Return
  <2>3. agent'.foreground = agent.foreground
    BY <2>2 DEF TagInv, Inv, TypeOK, AgentFields
  <2>4. IdleCall \in CallFields /\ IdleCall.pc # "streaming"
    BY CallTypes
  <2>5. QED
    BY <2>1, <2>2, <2>3, <2>4, OthersKeep, StreamsKept
<1>3. QED
  BY <1>1, <1>2 DEF ReplaceStep

\* A steer touches no run and no foreground turn.
LEMMA SteerTag ==
  ASSUME TagInv, Next, NEW c \in Callers, SteerStep(c)
  PROVE  EventsTrue' /\ NoStreamLeftBehind' /\ Cause
<1>0. call[c] \in CallFields /\ IdleCall \in CallFields /\ IdleCall.pc # "streaming"
  BY CallTypes DEF TagInv, Inv, TypeOK
<1>1. EventsTrue'
  BY EventsKept, AnsweredTrue DEF SteerStep, SteerBegins, SteerAdmitted, SteerTooLate,
     SteerReturns, SteerFallsBack
<1>2. UNCHANGED run /\ agent'.foreground = agent.foreground
  BY HoldTypes DEF TagInv, SteerStep, SteerBegins, SteerAdmitted, SteerTooLate, SteerAnswered,
     SteerReturns, SteerFallsBack
<1>3. ASSUME NEW rec \in CallFields, rec.pc # "streaming", call' = [call EXCEPT ![c] = rec]
      PROVE  EventsTrue' /\ NoStreamLeftBehind' /\ Cause
  BY <1>1, <1>2, <1>3, OthersKeep, StreamsKept
<1>4. CASE SteerBegins(c) \/ SteerAdmitted(c)
  <2>1. PICK pc \in {"draining", "steering"} : call' = [call EXCEPT ![c] = [call[c] EXCEPT !.pc = pc]]
    BY <1>4 DEF SteerBegins, SteerAdmitted
  <2>2. [call[c] EXCEPT !.pc = pc] \in CallFields /\ [call[c] EXCEPT !.pc = pc].pc # "streaming"
    BY <1>0, MoveTypes DEF Prompting
  <2>3. QED
    BY <1>3, <2>1, <2>2
<1>5. CASE SteerTooLate(c) \/ SteerReturns(c)
  BY <1>0, <1>3, <1>5 DEF SteerTooLate, SteerReturns, Return
<1>6. ASSUME NEW answer \in {"accepted", "unavailable"}, SteerAnswered(c, answer)
      PROVE  EventsTrue' /\ NoStreamLeftBehind' /\ Cause
  <2> DEFINE rec == [call[c] EXCEPT !.pc = "flushing", !.job = answer]
  <2>1. rec \in CallFields /\ rec.pc \notin Prompting
    BY <1>0, MoveTypes
  <2>2. call' = [call EXCEPT ![c] = rec]
    BY <1>0, <1>6 DEF SteerAnswered, TagInv, Inv, TypeOK
  <2> HIDE DEF rec
  <2>3. QED
    BY <1>3, <2>1, <2>2 DEF Prompting
<1>7. CASE SteerFallsBack(c)
  <2> DEFINE rec == [IdleCall EXCEPT !.pc = "waiting", !.job = "replace"]
  <2>1. rec \in CallFields /\ rec.pc # "streaming"
    BY CallTypes DEF IdleCall
  <2>2. call' = [call EXCEPT ![c] = rec]
    BY <1>7 DEF SteerFallsBack
  <2> HIDE DEF rec
  <2>3. QED
    BY <1>3, <2>1, <2>2
<1>8. QED
  BY <1>4, <1>5, <1>6, <1>7 DEF SteerStep

-----------------------------------------------------------------------------
(* The theorems.                                                            *)

\* A fresh agent satisfies the strengthened invariant.
LEMMA InitTag == Init => TagInv
<1> SUFFICES ASSUME Init PROVE TagInv
  OBVIOUS
<1>1. EventsTrue
  BY SequenceTypes DEF Init, EventsTrue, NoBarrier
<1>2. NoStreamLeftBehind
  BY DEF Init, NoStreamLeftBehind, IdleCall
<1>3. QED
  BY <1>1, <1>2, InitInv DEF TagInv

\* Every step preserves it, and ends the foreground turn for a cause.
LEMMA NextTag ==
  ASSUME TagInv, Next, ~Untagged
  PROVE  TagInv' /\ Cause
<1>1. Inv'
  BY NextInv DEF TagInv
<1>2. EventsTrue' /\ NoStreamLeftBehind' /\ Cause
  BY ProviderTag, DispatchTag, CloseTag, RequestTag, StartTag, StreamEndsTag, CancelTag,
     ReplaceTag, SteerTag DEF Next
<1>3. QED
  BY <1>1, <1>2 DEF TagInv

\* So does no step.
LEMMA StutterTag ==
  ASSUME TagInv, UNCHANGED vars
  PROVE  TagInv' /\ Cause
<1>1. Inv'
  BY StutterInv DEF TagInv
<1>2. EventsTrue'
  BY DEF TagInv, EventsTrue, Truthful, vars
<1>3. NoStreamLeftBehind' /\ Cause
  BY StreamsKept DEF vars
<1>4. QED
  BY <1>1, <1>2, <1>3 DEF TagInv

\* With a provider that names its turns, no stream consumer is left waiting for
\* a turn that the manager gave up, for any callers and turns.
THEOREM StreamsNotLeftBehind ==
  ASSUME ~Untagged
  PROVE  Spec => []NoStreamLeftBehind
<1>1. TagInv /\ [Next]_vars => TagInv'
  BY NextTag, StutterTag
<1>2. TagInv => NoStreamLeftBehind
  BY DEF TagInv
<1>3. QED
  BY <1>1, <1>2, InitTag, PTL DEF Spec

\* With such a provider the foreground turn ends only when the provider ended
\* it, a cancellation forced it, or the agent was closed.
THEOREM TurnsEndForCause ==
  ASSUME ~Untagged
  PROVE  Spec => TurnEndsForCause
<1>1. TagInv /\ [Next]_vars => TagInv'
  BY NextTag, StutterTag
<1>2. TagInv /\ [Next]_vars => [Cause]_vars
  BY NextTag
<1>3. TurnEndsForCause <=> [][Cause]_vars
  BY DEF TurnEndsForCause, Cause
<1>4. QED
  BY <1>1, <1>2, <1>3, InitTag, PTL DEF Spec
=============================================================================
