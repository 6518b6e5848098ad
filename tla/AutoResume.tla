------------------------------ MODULE AutoResume ------------------------------
(***************************************************************************)
(* The queued resume of one agent whose turn was refused for a usage limit *)
(* (usage-limit-auto-resume.ts), with the clean cut that may precede it    *)
(* (auto-clean-cut.ts, clean-cut.ts), the prompt that ends it, and what    *)
(* takes the agent out of the manager's map and back into it: a close, a   *)
(* load, and the replacements of its session (reload, account transfer,    *)
(* clean cut), all of which bring in an agent that shows nothing queued.   *)
(*                                                                         *)
(* The service listens to the agent manager.  What a turn's end says is    *)
(* examined over a few awaits that touch no I/O: only events the provider  *)
(* has already reported can come in between, timers and requests cannot.   *)
(* Once the timer has fired, the resume is on its own: it may have the     *)
(* conversation summarised, which takes as long as a model takes to write  *)
(* it, restarts the session and then sends its prompt.                     *)
(***************************************************************************)
EXTENDS Naturals, Sequences, FiniteSets

CONSTANTS
  MaxAttempts,  \* AUTO_RESUME_MAX_ATTEMPTS
  MaxEnds,      \* bound on the terminal events under examination
  Resumes,      \* resumes that can be on their way at once
  MaxSilent,    \* bound on the ends of background work that reported no start
  MaxStreak     \* bound on the resumes in a row

ASSUME ResumeAssumption ==
  /\ MaxAttempts \in Nat \ {0} /\ {MaxEnds, MaxSilent, MaxStreak} \subseteq Nat
  /\ IsFiniteSet(Resumes)

VARIABLES
  agent,      \* in the map: "inserted", "announced" by a state, "ready"; or out of it
  turn,       \* "starting" until its turn_started, "replacing" when another has to end
  running,    \* the agent's lifecycle is "running"
  origin,     \* who started the turn
  published,  \* agent.autoResume: its resetsAt is "known" to be ahead, or "vague"
  timer,      \* the entry of pending; "far" when it must be re-armed first
  attempts,   \* attempts.get(agentId)
  enabled,    \* autoResumeOnUsageLimit
  ending,     \* terminal events whose detect() has not returned, in their order
  resume,     \* where each resume that was fired is
  ahead,      \* history: a reset that was queued for is still ahead
  owed,       \* history: a resume was queued, and nothing has taken its place
  streak,     \* history: refusals in a row since the user or the provider began a turn
  silent      \* history: ends of background work that reported no start

run == <<turn, running, origin>>
queue == <<published, timer>>
history == <<ahead, owed, streak, silent>>
vars == <<agent, run, queue, attempts, enabled, ending, resume, history>>

End == [type : {"completed", "failed"}, limit : {"none", "bare", "past", "future"}]
Served == [type |-> "completed", limit |-> "none"]
Loaded == agent \in {"inserted", "announced", "ready"}

\* Timers and requests find no examination under way.
Examined == ending = <<>>

TypeOK ==
  /\ agent \in {"inserted", "announced", "ready", "reloading", "closing", "closed", "archived"}
  /\ turn \in {"none", "starting", "replacing", "running"}
  /\ origin \in {"none", "user", "provider", "resume"}
  /\ origin = "none" <=> turn = "none"
  /\ published \in {"none", "vague", "known"} /\ timer \in {"none", "armed", "far"}
  /\ (turn # "none" \/ published # "none") => Loaded
  /\ attempts \in 0 .. MaxAttempts
  /\ {running, enabled, ahead, owed} \subseteq BOOLEAN
  /\ running => turn # "none"
  /\ ending \in Seq(End)
  /\ resume \in [Resumes -> {"none", "summarising", "restarting", "sending"}]
  /\ streak \in Nat /\ silent \in Nat

Init ==
  /\ agent = "ready" /\ turn = "none" /\ running = FALSE /\ origin = "none"
  /\ published = "none" /\ timer = "none" /\ attempts = 0 /\ enabled = TRUE
  /\ ending = <<>> /\ resume = [r \in Resumes |-> "none"]
  /\ ahead = FALSE /\ owed = FALSE /\ streak = 0 /\ silent = 0

-----------------------------------------------------------------------------
(* What the service does when it hears of something.                       *)

\* cancel: the timer and what the snapshot shows go together.
cancel == timer' = "none" /\ published' = "none"

\* Mutant: the service does not listen to states.
StateHeardNot == UNCHANGED timer

\* agent_state of an agent that is closed or shows no queued resume.
StateHeard == timer' = IF published' = "none" THEN "none" ELSE timer

\* turn_started supersedes the queued resume.
TurnStartedHeard == IF timer # "none" THEN cancel ELSE UNCHANGED queue

\* The wait for a far reset is longer than a timer can be.
arm(limit) == timer' \in IF limit = "future" THEN {"armed", "far"} ELSE {"armed"}

\* Refused again without a reset time: the queued resume knows better.
Kept(limit) == limit = "bare" /\ timer # "none" /\ published = "known"

\* Mutant: one attempt too many is counted before giving up.
scheduleLate(limit) ==
  IF ~Loaded \/ Kept(limit) \/ attempts > MaxAttempts
  THEN UNCHANGED <<queue, attempts, ahead, owed>>
  ELSE /\ attempts' = attempts + 1 /\ arm(limit) /\ published' = "vague"
       /\ UNCHANGED <<ahead, owed>>

\* Mutant: the attempts are not counted.
scheduleUncounted(limit) ==
  IF ~Loaded \/ Kept(limit)
  THEN UNCHANGED <<queue, attempts, ahead, owed>>
  ELSE arm(limit) /\ published' = "vague" /\ UNCHANGED <<attempts, ahead, owed>>

\* schedule: nothing for an agent that is not loaded, the last attempt gives up.
schedule(limit) ==
  IF ~Loaded \/ Kept(limit)
  THEN UNCHANGED <<queue, attempts, ahead, owed>>
  ELSE IF attempts = MaxAttempts
       THEN attempts' = 0 /\ UNCHANGED <<queue, ahead, owed>>
       ELSE /\ attempts' = attempts + 1
            /\ arm(limit)
            /\ published' = IF limit = "future" THEN "known" ELSE "vague"
            /\ ahead' = (ahead \/ limit = "future")
            /\ owed' = TRUE

-----------------------------------------------------------------------------
(* Turns.                                                                  *)

\* A turn under way must end first: replaceAgentRun makes the agent "running" and
\* emits its state.
StartRun(who) ==
  /\ IF turn = "none"
     THEN turn' = "starting" /\ UNCHANGED <<running, queue>>
     ELSE turn' = "replacing" /\ running' = TRUE /\ UNCHANGED published /\ StateHeard
  /\ origin' = who /\ owed' = FALSE
  /\ streak' = IF who = "resume" THEN streak ELSE 0
  /\ UNCHANGED agent

\* The user prompts the agent, which was loaded before if need be.
Prompt ==
  /\ Examined /\ Loaded
  /\ StartRun("user")
  /\ UNCHANGED <<attempts, enabled, ending, resume, ahead, silent>>

\* The turn the prompt asked for has started.
TurnStarted ==
  /\ turn \in {"starting", "replacing"} /\ turn' = "running" /\ running' = TRUE
  /\ TurnStartedHeard /\ owed' = FALSE
  /\ UNCHANGED <<agent, origin, attempts, enabled, ending, resume, ahead, streak, silent>>

\* Background work of the provider wakes the agent up.
AutonomousTurn ==
  /\ agent = "ready" /\ turn = "none"
  /\ turn' = "running" /\ running' = TRUE /\ origin' = "provider"
  /\ TurnStartedHeard
  /\ owed' = FALSE /\ streak' = 0
  /\ UNCHANGED <<agent, attempts, enabled, ending, resume, ahead, silent>>

\* turn_completed or turn_failed: its examination begins.
Examine(event) ==
  /\ Len(ending) < MaxEnds /\ ending' = Append(ending, event)
  /\ streak' = IF origin = "resume" /\ event.limit # "none" THEN streak + 1 ELSE 0
  /\ UNCHANGED <<agent, attempts, enabled, resume, ahead, owed>>

NoTurn == turn' = "none" /\ running' = FALSE /\ origin' = "none"

\* The turn fails to start, or ends once the manager listens to the session.
TurnEnds ==
  /\ turn # "none" /\ NoTurn
  /\ \E event \in End :
       /\ turn = "running" => agent = "ready"
       /\ turn # "running" => event.type = "failed"
       /\ Examine(event)
  /\ UNCHANGED <<published, silent>> /\ StateHeard

\* The turn that has to make way ends by itself; the agent stays "running" unless
\* that turn was starting, and failed to.
ReplacedEnds ==
  /\ turn = "replacing" /\ turn' = "starting" /\ running' \in {running, FALSE}
  /\ \E event \in End :
       /\ (agent = "ready" /\ running' = running) \/ event.type = "failed"
       /\ Examine(event)
  /\ UNCHANGED <<origin, published, silent>> /\ StateHeard

\* The end of background work whose start was not reported.
BackgroundEnds ==
  /\ agent = "ready" /\ turn = "none" /\ silent < MaxSilent /\ silent' = silent + 1
  /\ \E event \in [type : {"completed"}, limit : {"none", "bare", "future"}] : Examine(event)
  /\ UNCHANGED <<run, queue>>

TurnCanceled ==
  /\ turn # "none" /\ NoTurn /\ streak' = 0
  /\ UNCHANGED published /\ StateHeard
  /\ UNCHANGED <<agent, attempts, enabled, ending, resume, ahead, owed, silent>>

\* onTurnEnded after detect: whether the turn was refused is known.
Detected ==
  /\ ~Examined /\ ending' = Tail(ending)
  /\ IF Head(ending).limit # "none" /\ enabled
     THEN schedule(Head(ending).limit)
     ELSE /\ attempts' = IF Head(ending) = Served THEN 0 ELSE attempts
          /\ UNCHANGED <<queue, ahead, owed>>
  /\ UNCHANGED <<agent, run, enabled, resume, streak, silent>>

-----------------------------------------------------------------------------
(* The agent leaves the manager's map and enters it.                       *)

\* The old agent and its run are gone, and with it what it showed; a session
\* replacement that had not registered its agent yet has failed.
TakenOut ==
  /\ NoTurn /\ published' = "none"
  /\ resume' = [r \in Resumes |-> IF resume[r] = "restarting" THEN "sending" ELSE resume[r]]

\* The service's part of a queue that was lost with its agent.
Dropped == owed' = (owed /\ \E r \in Resumes : resume'[r] # "none")

\* closeAgent: the agent is taken out before its session is closed.
CloseBegins ==
  /\ Examined /\ Loaded /\ agent' = "closing" /\ owed' = FALSE
  /\ TakenOut
  /\ UNCHANGED <<timer, attempts, enabled, ending, ahead, streak, silent>>

CloseEnds ==
  /\ Examined /\ agent = "closing" /\ agent' \in {"closed", "archived"}
  /\ UNCHANGED published /\ StateHeard
  /\ UNCHANGED <<run, attempts, enabled, ending, resume, history>>

\* reloadAgentSession: the user reloads the agent, moves it to another
\* account or makes a clean cut.  A run in flight is canceled.
Reload ==
  /\ Examined /\ Loaded /\ agent' = "reloading"
  /\ TakenOut
  /\ UNCHANGED <<timer, attempts, enabled, ending, history>>

\* agents.set of a new agent: a load, unarchiving where necessary ...
Load ==
  /\ Examined /\ agent \in {"closed", "archived"} /\ agent' = "inserted"
  /\ UNCHANGED <<run, queue, attempts, enabled, ending, resume, history>>

\* ... or the end of a replacement; when the old session cannot be brought
\* back either, the agent stays out, and no state is emitted.
ReloadEnds ==
  /\ Examined /\ agent = "reloading"
  /\ \/ agent' = "inserted" /\ UNCHANGED resume
     \/ agent' = "closed" /\ TakenOut
  /\ UNCHANGED <<run, queue, attempts, enabled, ending, history>>

\* registerSession emits the first state of the agent.
Announce ==
  /\ Examined /\ agent = "inserted" /\ agent' = "announced"
  /\ UNCHANGED <<published, resume>> /\ StateHeard
  /\ IF timer' = timer THEN UNCHANGED owed ELSE Dropped
  /\ UNCHANGED <<run, attempts, enabled, ending, ahead, streak, silent>>

\* It sets the lifecycle to "idle" and subscribes to the session.
Ready ==
  /\ Examined /\ agent = "announced" /\ agent' = "ready" /\ running' = FALSE
  /\ UNCHANGED published /\ StateHeard
  /\ UNCHANGED <<turn, origin, attempts, enabled, ending, resume, history>>

-----------------------------------------------------------------------------
(* The queued resume.                                                      *)

\* The reset the provider told has come.
ResetPasses ==
  /\ Examined /\ ahead /\ ahead' = FALSE
  /\ published' = IF published = "known" THEN "vague" ELSE published
  /\ UNCHANGED <<agent, run, timer, attempts, enabled, ending, resume, owed, streak, silent>>

\* Mutant: the rest of a long wait is dropped.
RearmLost ==
  /\ Examined /\ timer = "far" /\ timer' = "none" /\ published' = "none"
  /\ UNCHANGED <<agent, run, attempts, enabled, ending, resume, history>>

\* The longest timer has run out: arm the rest of the wait.
Rearm ==
  /\ Examined /\ timer = "far" /\ timer' = "armed"
  /\ UNCHANGED <<agent, run, published, attempts, enabled, ending, resume, history>>

\* The timer is gone whatever the agent does; one that is not running gets a
\* resume.  Without a published resume the age of the cache is not known.
fire ==
  /\ Examined /\ timer = "armed" /\ published # "known" /\ cancel
  /\ IF Loaded /\ ~running /\ enabled
     THEN \E r \in Resumes, cold \in BOOLEAN :
            /\ resume[r] = "none"
            /\ cold => published # "none"
            /\ resume' = [resume EXCEPT ![r] = IF cold THEN "summarising" ELSE "sending"]
     ELSE UNCHANGED resume
  /\ Dropped
  /\ UNCHANGED <<agent, run, attempts, enabled, ending, ahead, streak, silent>>

\* The summary could not be written, or the agent is not loaded any more.
CutFails(r) ==
  /\ Examined /\ resume[r] = "summarising"
  /\ resume' = [resume EXCEPT ![r] = "sending"]
  /\ UNCHANGED <<agent, run, queue, attempts, enabled, ending, history>>

\* startFreshAgentSession: a run in flight is canceled, the session closed.
CutRestarts(r) ==
  /\ Examined /\ resume[r] = "summarising" /\ Loaded /\ agent' = "reloading"
  /\ NoTurn /\ published' = "none"
  /\ resume' = [q \in Resumes |-> IF q = r THEN "restarting"
                                  ELSE IF resume[q] = "restarting" THEN "sending" ELSE resume[q]]
  /\ UNCHANGED <<timer, attempts, enabled, ending, history>>

CutEnds(r) ==
  /\ Examined /\ resume[r] = "restarting" /\ agent = "ready"
  /\ resume' = [resume EXCEPT ![r] = "sending"]
  /\ UNCHANGED <<agent, run, queue, attempts, enabled, ending, history>>

\* sendPromptToAgent with replaceRunning; an archived agent is left alone.
ResumeSends(r) ==
  /\ Examined /\ resume[r] = "sending" /\ (Loaded \/ agent = "archived")
  /\ resume' = [resume EXCEPT ![r] = "none"]
  /\ IF Loaded
     THEN streak < MaxStreak /\ StartRun("resume")
     ELSE UNCHANGED <<agent, run, queue, owed, streak>>
  /\ UNCHANGED <<attempts, enabled, ending, ahead, silent>>

\* The prompt fails with an error, which is only logged.
ResumeFails(r) ==
  /\ Examined /\ resume[r] = "sending"
  /\ resume' = [resume EXCEPT ![r] = "none"] /\ owed' = FALSE
  /\ UNCHANGED <<agent, run, queue, attempts, enabled, ending, ahead, streak, silent>>

-----------------------------------------------------------------------------
(* The user.                                                               *)

\* The cancel RPC clears the snapshot; hearing of it drops the timer.
cancelAutoResume ==
  /\ Examined /\ published # "none"
  /\ published' = "none" /\ StateHeard /\ owed' = FALSE
  /\ UNCHANGED <<agent, run, attempts, enabled, ending, resume, ahead, streak, silent>>

\* Mutant: switching the setting off leaves the timers.
SetEnabledOnly ==
  /\ Examined /\ enabled' = ~enabled
  /\ UNCHANGED <<agent, run, queue, attempts, ending, resume, history>>

\* autoResumeOnUsageLimit is switched; cancelAll when it goes off.
SetEnabled ==
  /\ Examined /\ enabled' = ~enabled /\ owed' = (owed /\ ~enabled)
  /\ IF enabled /\ timer # "none" THEN cancel ELSE UNCHANGED queue
  /\ UNCHANGED <<agent, run, attempts, ending, resume, ahead, streak, silent>>

Next ==
  \/ Prompt \/ TurnStarted \/ AutonomousTurn \/ TurnEnds \/ ReplacedEnds \/ BackgroundEnds
  \/ TurnCanceled \/ Detected
  \/ CloseBegins \/ CloseEnds \/ Reload \/ Load \/ ReloadEnds \/ Announce \/ Ready
  \/ ResetPasses \/ Rearm \/ fire
  \/ \E r \in Resumes :
       CutFails(r) \/ CutRestarts(r) \/ CutEnds(r) \/ ResumeSends(r) \/ ResumeFails(r)
  \/ cancelAutoResume \/ SetEnabled

Spec == Init /\ [][Next]_vars

\* Timers run out and awaited calls return; no turn has to start or to end.
Fairness ==
  /\ WF_vars(Detected)
  /\ WF_vars(ResetPasses) /\ WF_vars(Rearm) /\ WF_vars(fire)
  /\ \A r \in Resumes :
       /\ WF_vars(CutFails(r) \/ CutRestarts(r)) /\ WF_vars(CutEnds(r))
       /\ WF_vars(ResumeSends(r) \/ ResumeFails(r))
  /\ WF_vars(CloseEnds) /\ WF_vars(ReloadEnds) /\ WF_vars(Announce) /\ WF_vars(Ready)
FairSpec == Spec /\ Fairness

-----------------------------------------------------------------------------
(* A snapshot that shows a queued resume has its timer, and an agent with  *)
(* a timer shows it, whatever cancels, restarts, loads or refuses it: the  *)
(* one exception is an agent that was just put in the map and has emitted  *)
(* no state yet.                                                           *)
PublishedIffQueued ==
  /\ published # "none" => timer # "none"
  /\ timer # "none" /\ agent \in {"announced", "ready"} => published # "none"

(* A resume is queued only while the setting is on: switching it off stops *)
(* every timer, and a refusal examined later queues none.                  *)
QueuedOnlyIfEnabled == timer # "none" => enabled

(* The service gives up: refusals in a row come to an end.  MaxAttempts    *)
(* are the rule, but giving up forgets the count and leaves the queued     *)
(* resume, those on their way, the turn that runs and the one that has to  *)
(* make way for it, and each of them may start the count over.             *)
GivesUp == streak <= (Cardinality(Resumes) + 2) * (MaxAttempts + 1) + 1

(* A queued resume is not forgotten: it is sent, fails, is canceled by the *)
(* user, superseded by another turn, or dropped with the agent's session.  *)
NotForgotten == owed ~> ~owed
=============================================================================
