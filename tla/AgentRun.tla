------------------------------ MODULE AgentRun ------------------------------
(***************************************************************************)
(* The run of one agent in the daemon: AgentRunState (agent-run-state.ts)  *)
(* and the part of AgentManager that starts, replaces, steers, cancels and *)
(* finishes runs.                                                          *)
(*                                                                         *)
(* Callers (RPC handlers of several clients) prompt, cancel and steer the  *)
(* same agent.  The provider session reports turns through events.  An     *)
(* event reaches its handler through a per-agent queue, unless it is first *)
(* staged behind a start that is still pending or held by the barrier of a *)
(* steer.  Cancellations and steers of an agent run one after the other;   *)
(* prompts do not take part in that order.                                 *)
(*                                                                         *)
(* One action is what the code does between two awaits that can really be  *)
(* delayed (a provider call, a timer, an event).  handleStreamEvent is one *)
(* step: the only thing it awaits is the timeline store, and the daemon    *)
(* configures no durable one.  For the same reason the queue is a chain of *)
(* microtasks, which Node runs to its end before the next timer or I/O     *)
(* callback: timers and requests find it empty.                            *)
(***************************************************************************)
EXTENDS Naturals, Sequences

CONSTANTS
  Callers,     \* requests that can be under way at once
  Turns,       \* turn ids of the provider
  NoTurn,      \* null / undefined turn id
  NoCaller,    \* no caller
  Anonymous,   \* the id the manager makes up for an autonomous turn without one
  Untagged,    \* whether the provider reports autonomous turns without turn ids
  MaxEvents    \* bound on the events waiting in the queue, staged and held

ASSUME NamesAssumption ==
  /\ NoTurn \notin Turns /\ Anonymous \notin Turns /\ Anonymous # NoTurn
  /\ NoCaller \notin Callers
  /\ Untagged \in BOOLEAN /\ MaxEvents \in Nat

VARIABLES
  agent,      \* fields of ActiveManagedAgent that a run changes
  run,        \* runs.get(agentId), or NoRun
  staged,     \* stagedEvents of the pending run
  barrier,    \* events of the steerEventBarrier, or NoBarrier
  queue,      \* sessionEventTails: events to be dispatched, in order
  call,       \* per caller: where it is in its operation
  mutator,    \* the caller whose foreground mutation is running
  target,     \* the run that the running cancellation captured: its settled flag
  turn,       \* provider: state of each turn
  announced,  \* provider: turns whose turn_started was emitted
  anonymous   \* provider: an autonomous turn without id is running

vars == <<agent, run, staged, barrier, queue, call, mutator, target,
          turn, announced, anonymous>>
provider == <<turn, announced, anonymous>>

TurnIds == Turns \cup {Anonymous, NoTurn}
Event == [type : {"started", "ended", "failed"}, turn : Turns \cup {NoTurn}]
NoRun == [kind |-> "none", token |-> NoCaller, start |-> "none", turn |-> NoTurn]
NoBarrier == [on |-> FALSE, events |-> <<>>]
IdleCall == [pc |-> "idle", job |-> "none", turn |-> NoTurn,
             replacing |-> FALSE, acked |-> FALSE, heard |-> FALSE]

AgentFields ==
  [lifecycle : {"idle", "running", "error", "closed"},
   foreground : TurnIds, active : TurnIds,
   pendingReplacement : BOOLEAN, lastError : BOOLEAN,
   finalized : SUBSET (Turns \cup {Anonymous})]
RunFields ==
  [kind : {"none", "foreground", "autonomous"}, token : Callers \cup {NoCaller},
   start : {"none", "pending", "started"}, turn : TurnIds]
CallFields ==
  [pc : {"idle", "starting", "streaming", "waiting", "interrupting", "settling",
         "awaiting", "resuming", "admitting", "draining", "steering", "flushing"},
   job : {"none", "cancel", "replace", "accepted", "unavailable"},
   turn : TurnIds, replacing : BOOLEAN, acked : BOOLEAN, heard : BOOLEAN]

TypeOK ==
  /\ agent \in AgentFields
  /\ run \in RunFields
  /\ staged \in Seq(Event)
  /\ barrier \in [on : BOOLEAN, events : Seq(Event)]
  /\ queue \in Seq(Event)
  /\ call \in [Callers -> CallFields]
  /\ mutator \in Callers \cup {NoCaller}
  /\ target \in {"none", "live", "settled"}
  /\ turn \in [Turns -> {"unborn", "live", "over"}]
  /\ announced \in SUBSET Turns
  /\ anonymous \in BOOLEAN

Init ==
  /\ agent = [lifecycle |-> "idle", foreground |-> NoTurn, active |-> NoTurn,
              pendingReplacement |-> FALSE, lastError |-> FALSE, finalized |-> {}]
  /\ run = NoRun
  /\ staged = <<>>
  /\ barrier = NoBarrier
  /\ queue = <<>>
  /\ call = [c \in Callers |-> IdleCall]
  /\ mutator = NoCaller
  /\ target = "none"
  /\ turn = [t \in Turns |-> "unborn"]
  /\ announced = {}
  /\ anonymous = FALSE

-----------------------------------------------------------------------------
(* AgentRunState.                                                           *)

Open == agent.lifecycle # "closed"

ForegroundRun(c) ==
  [kind |-> "foreground", token |-> c, start |-> "pending", turn |-> NoTurn]
AutonomousRun(t) ==
  [kind |-> "autonomous", token |-> NoCaller, start |-> "started", turn |-> t]

\* trackAutonomousRun: whatever is tracked stays tracked.
Track(r, t) == IF r = NoRun THEN AutonomousRun(t) ELSE r

\* Mutants: a terminal settles a foreground run whatever its turn; a terminal
\* settles no autonomous run.
SettlesAnyForeground(r, t) ==
  \/ r.kind = "foreground" /\ r.start = "started"
  \/ r.kind = "autonomous" /\ (r.turn = NoTurn \/ t = NoTurn \/ r.turn = t)

SettlesForegroundOnly(r, t) ==
  r.kind = "foreground" /\ r.start = "started" /\ r.turn = t

\* settleTerminalRun: which run a terminal of turn t settles.
Settles(r, t) ==
  \/ r.kind = "foreground" /\ r.start = "started" /\ r.turn = t
  \/ r.kind = "autonomous" /\ (r.turn = NoTurn \/ t = NoTurn \/ r.turn = t)

\* The captured run of a cancellation is settled once it stops being the
\* tracked one.
SettledBy(r) == IF target = "live" /\ r = NoRun THEN "settled" ELSE target

-----------------------------------------------------------------------------
(* handleStreamEvent, as a function of the agent and its tracked run.       *)

\* attachManagedTurnIdentity
Identity(a, e) ==
  IF e.turn # NoTurn THEN e.turn
  ELSE IF a.foreground # NoTurn THEN a.foreground
  ELSE IF a.active # NoTurn THEN a.active
  ELSE IF e.type = "started" THEN Anonymous ELSE NoTurn

\* applyActiveTurnTerminal
Stale(a, t) == a.active # NoTurn /\ t # NoTurn /\ a.active # t
CloseActive(a, t) == [a EXCEPT !.active = IF Stale(a, t) THEN @ ELSE NoTurn]

\* Mutant: the foreground turn is not reset.
FinalizeKeepsTurn(a, t) ==
  [CloseActive(a, t) EXCEPT
     !.finalized = IF t = NoTurn THEN @ ELSE @ \cup {t},
     !.lifecycle = IF a.lastError THEN "error"
                   ELSE IF a.pendingReplacement THEN "running" ELSE "idle"]

\* finalizeForegroundTurn
Finalize(a, t) ==
  [CloseActive(a, t) EXCEPT
     !.foreground = NoTurn,
     !.finalized = IF t = NoTurn THEN @ ELSE @ \cup {t},
     !.lifecycle = IF a.lastError THEN "error"
                   ELSE IF a.pendingReplacement THEN "running" ELSE "idle"]

\* Mutant: an autonomous turn's end does not lower the lifecycle.
TerminateKeepsRunning(a, e, t) ==
  IF Stale(a, t) THEN a
  ELSE [CloseActive(a, t) EXCEPT
          !.lastError = (e.type = "failed"),
          !.lifecycle =
            IF a.foreground = NoTurn /\ e.type = "failed" THEN "error" ELSE @]

\* onStreamTurnCompleted and onStreamTurnCanceled change the same fields;
\* onStreamTurnFailed records the error.  A stale terminal changes nothing.
Terminate(a, e, t) ==
  IF Stale(a, t) THEN a
  ELSE [CloseActive(a, t) EXCEPT
          !.lastError = (e.type = "failed"),
          !.lifecycle =
            IF a.foreground # NoTurn THEN @
            ELSE IF e.type = "failed" THEN "error"
            ELSE IF a.pendingReplacement THEN @ ELSE "idle"]

\* Mutant: every terminal that is not a repeated one ends the foreground turn.
HandleTerminalOfAny(a, r, e) ==
  LET t == Identity(a, e)
      after == Terminate(a, e, t)
  IN IF t \in a.finalized THEN [agent |-> a, run |-> r, notify |-> FALSE]
     ELSE [agent |-> IF a.foreground # NoTurn THEN Finalize(after, t) ELSE after,
           run |-> IF Settles(r, t) THEN NoRun ELSE r,
           notify |-> TRUE]

\* A terminal of a turn that was finalized already is dropped.
HandleTerminal(a, r, e) ==
  LET t == Identity(a, e)
      foreground == t # NoTurn /\ a.foreground = t
      after == Terminate(a, e, t)
  IN IF t \in a.finalized THEN [agent |-> a, run |-> r, notify |-> FALSE]
     ELSE [agent |-> IF foreground THEN Finalize(after, t) ELSE after,
           run |-> IF Settles(r, t) THEN NoRun ELSE r,
           notify |-> TRUE]

\* onStreamTurnStarted: only a turn that is not the foreground turn, while
\* there is none, opens an autonomous run.
HandleStarted(a, r, e) ==
  IF a.foreground # NoTurn THEN [agent |-> a, run |-> r, notify |-> FALSE]
  ELSE LET t == Identity(a, e)
       IN [agent |-> [a EXCEPT !.active = t, !.lifecycle = "running"],
           run |-> Track(r, t), notify |-> FALSE]

HandleStreamEvent(a, r, e) ==
  IF e.type = "started" THEN HandleStarted(a, r, e) ELSE HandleTerminal(a, r, e)

\* Mutant: the waiters are not told.
DispatchUnheard(e, calls) ==
  LET h == HandleStreamEvent(agent, run, e)
  IN /\ agent' = h.agent
     /\ run' = h.run
     /\ target' = SettledBy(h.run)
     /\ call' = calls

\* dispatchSessionEvent: after the handler, the waiters of the turn that the
\* event itself names are told.
DispatchSessionEvent(e, calls) ==
  LET h == HandleStreamEvent(agent, run, e)
  IN /\ agent' = h.agent
     /\ run' = h.run
     /\ target' = SettledBy(h.run)
     /\ call' = [c \in Callers |->
          IF h.notify /\ e.turn # NoTurn /\ calls[c].pc = "streaming" /\ calls[c].turn = e.turn
          THEN [calls[c] EXCEPT !.heard = TRUE] ELSE calls[c]]

-----------------------------------------------------------------------------
(* enqueueSessionEvent.                                                     *)

Drained == queue = <<>>

Waiting == Len(queue) + Len(staged) + Len(barrier.events)

Enqueue(events) ==
  IF barrier.on
  THEN /\ barrier' = [barrier EXCEPT !.events = @ \o events]
       /\ UNCHANGED <<staged, queue>>
  ELSE IF run.kind = "foreground" /\ run.start = "pending"
  THEN staged' = staged \o events /\ UNCHANGED <<barrier, queue>>
  ELSE queue' = queue \o events /\ UNCHANGED <<barrier, staged>>

\* The provider session emits an event.
Emit(e) ==
  /\ Open
  /\ Waiting < MaxEvents
  /\ Enqueue(<<e>>)
  /\ UNCHANGED <<agent, run, call, mutator, target>>

EmitStarted(t) ==
  /\ turn[t] = "live" /\ t \notin announced
  /\ announced' = announced \cup {t}
  /\ Emit([type |-> "started", turn |-> t])
  /\ UNCHANGED <<turn, anonymous>>

\* Also a late or repeated terminal of a turn that is over.
EmitTerminal(t, type) ==
  /\ turn[t] # "unborn"
  /\ turn' = [turn EXCEPT ![t] = "over"]
  /\ Emit([type |-> type, turn |-> t])
  /\ UNCHANGED <<announced, anonymous>>

\* The provider starts a turn nobody prompted, with or without an id.
EmitAutonomous(t) ==
  /\ turn[t] = "unborn"
  /\ turn' = [turn EXCEPT ![t] = "live"]
  /\ announced' = announced \cup {t}
  /\ Emit([type |-> "started", turn |-> t])
  /\ UNCHANGED anonymous

EmitAnonymous(type) ==
  /\ Untagged
  /\ anonymous = (type # "started")
  /\ anonymous' = ~anonymous
  /\ Emit([type |-> type, turn |-> NoTurn])
  /\ UNCHANGED <<turn, announced>>

\* The head of the queue is dispatched.
Dispatch ==
  /\ queue # <<>>
  /\ queue' = Tail(queue)
  /\ IF Open THEN DispatchSessionEvent(Head(queue), call)
     ELSE UNCHANGED <<agent, run, target, call>>
  /\ UNCHANGED <<staged, barrier, mutator, provider>>

-----------------------------------------------------------------------------
(* streamAgent.                                                             *)

CanStream == Open /\ agent.foreground = NoTurn /\ run = NoRun

\* A pending run is tracked and startTurn is called; t is the id that the
\* provider gives the turn, which it may report on before startTurn returns.
StreamAgent(c, t) ==
  /\ CanStream
  /\ turn[t] = "unborn"
  /\ turn' = [turn EXCEPT ![t] = "live"]
  /\ agent' = [agent EXCEPT !.lastError = FALSE]
  /\ run' = ForegroundRun(c)
  /\ staged' = <<>>
  /\ call' = [call EXCEPT ![c] = [IdleCall EXCEPT !.pc = "starting", !.turn = t,
                                    !.replacing = agent.pendingReplacement]]
  /\ UNCHANGED <<barrier, queue, mutator, target, announced, anonymous>>

Prompt(c, t) == Drained /\ call[c].pc = "idle" /\ StreamAgent(c, t)

Owns(c) == run = ForegroundRun(c)
Return(c) == call' = [call EXCEPT ![c] = IdleCall]

\* The staged events without the turn_started of turn t, which the provider
\* announces once.
WithoutStart(events, t) ==
  LET at == {i \in 1 .. Len(events) : events[i] = [type |-> "started", turn |-> t]}
      i == CHOOSE n \in at : TRUE
  IN IF at = {} THEN events
     ELSE SubSeq(events, 1, i - 1) \o SubSeq(events, i + 1, Len(events))

\* startTurn returned: the turn becomes the agent's foreground turn.
StartTurnResolved(c) ==
  /\ call[c].pc = "starting" /\ Owns(c)
  /\ LET t == call[c].turn
         flushed == WithoutStart(staged, t)
     IN /\ agent' = [agent EXCEPT
             !.pendingReplacement = IF call[c].replacing THEN FALSE ELSE @,
             !.foreground = t, !.active = t, !.lifecycle = "running"]
        /\ run' = [run EXCEPT !.start = "started", !.turn = t]
        /\ IF barrier.on
           THEN /\ barrier' = [barrier EXCEPT !.events = @ \o flushed]
                /\ UNCHANGED queue
           ELSE queue' = queue \o flushed /\ UNCHANGED barrier
        /\ staged' = <<>>
  /\ call' = [call EXCEPT ![c].pc = "streaming"]
  /\ UNCHANGED <<mutator, target, provider>>

\* Mutant: the failed run stays tracked.
StartTurnFailedTracked(c) ==
  /\ call[c].pc = "starting" /\ Owns(c)
  /\ LET h == HandleTerminal([agent EXCEPT !.pendingReplacement = FALSE], run,
                             [type |-> "failed", turn |-> NoTurn])
     IN agent' = Finalize(h.agent, NoTurn)
  /\ run' = [run EXCEPT !.start = "failed"]
  /\ target' = SettledBy(NoRun)
  /\ staged' = <<>>
  /\ turn' = [turn EXCEPT ![call[c].turn] = "over"]
  /\ Return(c)
  /\ UNCHANGED <<barrier, queue, mutator, announced, anonymous>>

\* startTurn failed: the run fails with it.  What was staged is lost.
StartTurnFailed(c) ==
  /\ call[c].pc = "starting" /\ Owns(c)
  /\ LET h == HandleTerminal([agent EXCEPT !.pendingReplacement = FALSE], run,
                             [type |-> "failed", turn |-> NoTurn])
     IN agent' = Finalize(h.agent, NoTurn)
  /\ run' = NoRun
  /\ target' = SettledBy(NoRun)
  /\ staged' = <<>>
  /\ turn' = [turn EXCEPT ![call[c].turn] = "over"]
  /\ Return(c)
  /\ UNCHANGED <<barrier, queue, mutator, announced, anonymous>>

\* startTurn came back, with or without a turn, after the run was settled:
\* the prompt fails and the turn, if there is one, is left to the provider.
StartTurnAbandoned(c) ==
  /\ call[c].pc = "starting" /\ ~Owns(c)
  /\ Return(c)
  /\ UNCHANGED <<agent, run, staged, barrier, queue, mutator, target, provider>>

\* The stream saw its terminal event: waiter and run are dropped.
StreamEnds(c) ==
  /\ call[c].pc = "streaming" /\ call[c].heard
  /\ run' = IF run.kind = "foreground" /\ run.token = c THEN NoRun ELSE run
  /\ target' = SettledBy(run')
  /\ Return(c)
  /\ UNCHANGED <<agent, staged, barrier, queue, mutator, provider>>

-----------------------------------------------------------------------------
(* cancelAgentRun and replaceAgentRun.                                      *)

HasInFlightRun == agent.lifecycle = "running" \/ agent.foreground # NoTurn \/ run # NoRun

CancelAgentRun(c) ==
  /\ Drained /\ call[c].pc = "idle" /\ Open /\ HasInFlightRun
  /\ call' = [call EXCEPT ![c] = [IdleCall EXCEPT !.pc = "waiting", !.job = "cancel"]]
  /\ UNCHANGED <<agent, run, staged, barrier, queue, mutator, target, provider>>

\* The agent is held "running" until the replacement's turn starts.
HoldForReplacement ==
  agent' = [agent EXCEPT !.pendingReplacement = TRUE, !.lifecycle = "running"]

ReplaceAgentRun(c) ==
  /\ Drained /\ call[c].pc = "idle" /\ Open /\ HasInFlightRun
  /\ HoldForReplacement
  /\ call' = [call EXCEPT ![c] = [IdleCall EXCEPT !.pc = "waiting", !.job = "replace"]]
  /\ UNCHANGED <<run, staged, barrier, queue, mutator, target, provider>>

\* cancelAgentRunNow, first part: capture the run (an autonomous one is made
\* up when the agent only says that it runs) and ask the session to stop.
CancelBegins(c) ==
  /\ call[c].pc = "waiting" /\ mutator = NoCaller
  /\ Open /\ (run # NoRun \/ agent.lifecycle = "running")
  /\ mutator' = c
  /\ run' = Track(run, NoTurn)
  /\ target' = "live"
  /\ call' = [call EXCEPT ![c].pc = "interrupting"]
  /\ UNCHANGED <<agent, staged, barrier, queue, provider>>

\* The caller got its answer; a replacement goes on to prompt.
Answer(calls, c) ==
  [calls EXCEPT ![c] = IF @.job = "replace" THEN [IdleCall EXCEPT !.pc = "resuming"]
                       ELSE IdleCall]

\* Nothing runs, or the agent is closed.
CancelNotRunning(c) ==
  /\ call[c].pc = "waiting" /\ mutator = NoCaller
  /\ ~Open \/ (run = NoRun /\ agent.lifecycle # "running")
  /\ call' = Answer(call, c)
  /\ UNCHANGED <<agent, run, staged, barrier, queue, mutator, target, provider>>

\* interruptSession: acknowledged, or refused, or too late to matter.  A
\* session that acknowledges has announced the turn it stops.
Interrupted(c, acked) ==
  /\ call[c].pc = "interrupting"
  /\ announced' = IF acked THEN announced \cup {t \in Turns : turn[t] = "live"} ELSE announced
  /\ call' = [call EXCEPT ![c].pc = "settling", ![c].acked = acked]
  /\ UNCHANGED <<agent, run, staged, barrier, queue, mutator, target, turn, anonymous>>

Release == mutator' = NoCaller /\ target' = "none"

\* The captured run settled in time.
CancelSettled(c) ==
  /\ call[c].pc \in {"settling", "awaiting"} /\ target = "settled"
  /\ Release
  /\ call' = Answer(call, c)
  /\ UNCHANGED <<agent, run, staged, barrier, queue, provider>>

\* Neither acknowledged nor settled: refused.  A replacement gives up.
CancelRefused(c) ==
  /\ Drained /\ call[c].pc = "settling" /\ target = "live" /\ ~call[c].acked
  /\ Release
  /\ agent' = [agent EXCEPT !.pendingReplacement = IF call[c].job = "replace" THEN FALSE ELSE @]
  /\ Return(c)
  /\ UNCHANGED <<run, staged, barrier, queue, provider>>

\* Acknowledged, not settled in time, and the run has a turn: cancel the turn
\* on the provider's behalf, then wait for the run to settle.
ForceCancelTurn(c) ==
  /\ Drained /\ call[c].pc = "settling" /\ target = "live" /\ call[c].acked
  /\ run.turn # NoTurn
  /\ DispatchSessionEvent([type |-> "ended", turn |-> run.turn],
                          [call EXCEPT ![c].pc = "awaiting"])
  /\ UNCHANGED <<staged, barrier, queue, mutator, provider>>

\* The run has not got its turn yet: drop it, and what was staged with it.
ForceClearPending(c) ==
  /\ Drained /\ call[c].pc = "settling" /\ target = "live" /\ call[c].acked
  /\ run.kind = "foreground" /\ run.turn = NoTurn
  /\ run' = NoRun
  /\ staged' = <<>>
  /\ agent' = [agent EXCEPT !.lifecycle = IF agent.pendingReplacement THEN @ ELSE "idle"]
  /\ Release
  /\ call' = Answer(call, c)
  /\ UNCHANGED <<barrier, queue, provider>>

\* An autonomous run whose turn nobody knows.
ForceCancelAutonomous(c) ==
  /\ Drained /\ call[c].pc = "settling" /\ target = "live" /\ call[c].acked
  /\ run.kind = "autonomous" /\ run.turn = NoTurn
  /\ LET h == HandleTerminal(agent, run, [type |-> "ended", turn |-> NoTurn])
     IN agent' = h.agent /\ run' = h.run
  /\ Release
  /\ call' = Answer(call, c)
  /\ UNCHANGED <<staged, barrier, queue, provider>>

\* The second half of a replacement is an ordinary prompt.
ReplacementStreams(c, t) == call[c].pc = "resuming" /\ StreamAgent(c, t)

\* Somebody else got there first, or the agent is gone: the prompt fails.
ReplacementRejected(c) ==
  /\ call[c].pc = "resuming" /\ ~CanStream
  /\ agent' = [agent EXCEPT !.pendingReplacement = FALSE]
  /\ Return(c)
  /\ UNCHANGED <<run, staged, barrier, queue, mutator, target, provider>>

-----------------------------------------------------------------------------
(* steerOrReplaceActiveTurn.                                                *)

Expected == IF agent.foreground # NoTurn THEN agent.foreground ELSE agent.active

Steer(c) ==
  /\ Drained /\ call[c].pc = "idle" /\ Open /\ Expected # NoTurn
  /\ call' = [call EXCEPT ![c] = [IdleCall EXCEPT !.pc = "admitting", !.turn = Expected]]
  /\ UNCHANGED <<agent, run, staged, barrier, queue, mutator, target, provider>>

\* runSteerAdmission takes its turn, then waits for the queue to drain.
SteerBegins(c) ==
  /\ call[c].pc = "admitting" /\ mutator = NoCaller
  /\ mutator' = c
  /\ call' = [call EXCEPT ![c].pc = "draining"]
  /\ UNCHANGED <<agent, run, staged, barrier, queue, target, provider>>

\* assertSteerAdmissionOwnsTurn, then events are held while the provider decides.
SteerAdmitted(c) ==
  /\ call[c].pc = "draining" /\ Drained
  /\ agent.active = call[c].turn
  /\ barrier' = [on |-> TRUE, events |-> <<>>]
  /\ call' = [call EXCEPT ![c].pc = "steering"]
  /\ UNCHANGED <<agent, run, staged, queue, mutator, target, provider>>

SteerTooLate(c) ==
  /\ call[c].pc = "draining" /\ Drained
  /\ agent.active # call[c].turn
  /\ mutator' = NoCaller
  /\ Return(c)
  /\ UNCHANGED <<agent, run, staged, barrier, queue, target, provider>>

\* The provider took the steer ("accepted" stands for a steer that failed, too:
\* the caller is done) or declined it; the held events go on their way.
SteerAnswered(c, answer) ==
  /\ call[c].pc = "steering"
  /\ barrier' = NoBarrier
  /\ IF run.kind = "foreground" /\ run.start = "pending"
     THEN staged' = staged \o barrier.events /\ UNCHANGED queue
     ELSE queue' = queue \o barrier.events /\ UNCHANGED staged
  /\ call' = [call EXCEPT ![c].pc = "flushing", ![c].job = answer]
  /\ UNCHANGED <<agent, run, mutator, target, provider>>

\* Delivered; or declined for an autonomous turn that still runs (the prompt
\* then takes the ordinary path); or declined and the turn is not the active
\* one any more.
SteerReturns(c) ==
  /\ call[c].pc = "flushing" /\ Drained
  /\ \/ call[c].job = "accepted"
     \/ agent.foreground = NoTurn
     \/ agent.active # call[c].turn
  /\ mutator' = NoCaller
  /\ Return(c)
  /\ UNCHANGED <<agent, run, staged, barrier, queue, target, provider>>

\* replaceAdmittedForegroundTurn: declined, and the turn is still the
\* foreground turn.
SteerFallsBack(c) ==
  /\ call[c].pc = "flushing" /\ Drained
  /\ call[c].job = "unavailable"
  /\ agent.foreground # NoTurn /\ agent.active = call[c].turn
  /\ HoldForReplacement
  /\ mutator' = NoCaller
  /\ call' = [call EXCEPT ![c] = [IdleCall EXCEPT !.pc = "waiting", !.job = "replace"]]
  /\ UNCHANGED <<run, staged, barrier, queue, target, provider>>

-----------------------------------------------------------------------------
(* closeAgent: the queue is drained, then streams are told and the run is   *)
(* dropped.  A session that is closed reports nothing more.                 *)

\* prepareAgentForClosure: what is left of the agent.
ClosedAgent(a) ==
  [lifecycle |-> "closed", foreground |-> NoTurn, active |-> NoTurn,
   pendingReplacement |-> FALSE, lastError |-> a.lastError, finalized |-> {}]

\* cancelWaiters
CancelWaiters(calls) ==
  [c \in Callers |-> IF calls[c].pc = "streaming"
                     THEN [calls[c] EXCEPT !.heard = TRUE] ELSE calls[c]]

CloseAgent ==
  /\ Open /\ Drained
  /\ agent' = ClosedAgent(agent)
  /\ run' = NoRun
  /\ target' = SettledBy(NoRun)
  /\ staged' = <<>>
  /\ call' = CancelWaiters(call)
  /\ turn' = [t \in Turns |-> IF turn[t] = "live" THEN "over" ELSE turn[t]]
  /\ UNCHANGED <<barrier, queue, mutator, announced, anonymous>>

-----------------------------------------------------------------------------
ProviderStep ==
  \/ \E t \in Turns : EmitStarted(t)
  \/ \E t \in Turns, type \in {"ended", "failed"} : EmitTerminal(t, type)
  \/ \E t \in Turns : EmitAutonomous(t)
  \/ \E type \in {"started", "ended", "failed"} : EmitAnonymous(type)

StartReturns(c) == StartTurnResolved(c) \/ StartTurnFailed(c) \/ StartTurnAbandoned(c)

CancelStep(c) ==
  \/ CancelBegins(c) \/ CancelNotRunning(c)
  \/ \E acked \in BOOLEAN : Interrupted(c, acked)
  \/ CancelSettled(c) \/ CancelRefused(c)
  \/ ForceCancelTurn(c) \/ ForceClearPending(c) \/ ForceCancelAutonomous(c)

ReplaceStep(c) == (\E t \in Turns : ReplacementStreams(c, t)) \/ ReplacementRejected(c)

SteerStep(c) ==
  \/ SteerBegins(c) \/ SteerAdmitted(c) \/ SteerTooLate(c)
  \/ \E answer \in {"accepted", "unavailable"} : SteerAnswered(c, answer)
  \/ SteerReturns(c) \/ SteerFallsBack(c)

Request(c) ==
  \/ \E t \in Turns : Prompt(c, t)
  \/ CancelAgentRun(c) \/ ReplaceAgentRun(c) \/ Steer(c)

Next ==
  \/ ProviderStep
  \/ Dispatch
  \/ \E c \in Callers :
       Request(c) \/ StartReturns(c) \/ StreamEnds(c) \/ CancelStep(c)
       \/ ReplaceStep(c) \/ SteerStep(c)
  \/ CloseAgent

Spec == Init /\ [][Next]_vars

\* The daemon's own steps are taken: the queue is served, timers fire, the
\* promise chain of mutations is first come first served (hence SF), and the
\* provider answers a steer.  Nothing is assumed of when a provider ends a
\* turn, returns from startTurn, or of what callers ask for.
Fairness ==
  /\ WF_vars(Dispatch)
  /\ \A c \in Callers :
       /\ WF_vars(StreamEnds(c))
       /\ SF_vars(CancelStep(c) \/ SteerStep(c))

FairSpec == Spec /\ Fairness

-----------------------------------------------------------------------------
(* Properties.                                                              *)

\* The foreground turn and the tracked run never disagree: there is a
\* foreground turn exactly when the tracked run is a started foreground run,
\* and then it is that run's turn.
ForegroundIsTracked ==
  /\ agent.foreground # NoTurn =>
       run.kind = "foreground" /\ run.start = "started" /\ run.turn = agent.foreground
  /\ run.kind = "foreground" /\ run.start = "started" =>
       agent.foreground = run.turn

\* A stream that has not seen its terminal event still owns the tracked run:
\* no consumer is left waiting for a turn the manager has given up.
NoStreamLeftBehind ==
  \A c \in Callers :
    call[c].pc = "streaming" /\ ~call[c].heard =>
      /\ run.kind = "foreground" /\ run.token = c /\ run.turn = call[c].turn
      /\ agent.foreground = call[c].turn

\* An agent that says it is running has a tracked run or an active turn, or is
\* held for a replacement.
RunningIsTracked ==
  agent.lifecycle = "running" =>
    run # NoRun \/ agent.active # NoTurn \/ agent.pendingReplacement

\* The foreground turn only goes away when the provider ended it, when a
\* cancellation forced it, or when the agent is closed.
TurnEndsForCause ==
  [][\A t \in Turns :
       agent.foreground = t /\ agent'.foreground # t =>
         \/ turn[t] = "over"
         \/ \E c \in Callers : call[c].pc = "settling" /\ call'[c].pc = "awaiting"
         \/ agent'.lifecycle = "closed"]_vars

\* hasInFlightRun is false once nothing is tracked and no replacement is on
\* its way.
Replacing(c) ==
  \/ call[c].pc = "resuming"
  \/ call[c].job = "replace"
  \/ call[c].pc = "starting" /\ Owns(c)
NothingInFlightMeansIdle ==
  run = NoRun /\ agent.active = NoTurn /\ (\A c \in Callers : ~Replacing(c)) => ~HasInFlightRun

\* Every cancellation, that of a replacement included, gets an answer.
CancelAnswered ==
  \A c \in Callers :
    call[c].pc \in {"waiting", "interrupting", "settling", "awaiting"} ~>
      call[c].pc \notin {"waiting", "interrupting", "settling", "awaiting"}

\* A stream whose turn the provider has ended comes to its end.
StreamFinishes ==
  \A c \in Callers :
    (call[c].pc = "streaming" /\ turn[call[c].turn] = "over") ~> call[c].pc # "streaming"
=============================================================================
