---------------------------- MODULE ControlPlane ----------------------------
(***************************************************************************)
(* The control plane: the durable latches and command queue of             *)
(* trader/storage/db.py, the runtime loop of trader/runtime.py that        *)
(* consumes them, the guardian process, and operators who write commands   *)
(* from other processes (cli.py, dashboard.py) at any moment.              *)
(*                                                                         *)
(* One step of a process is the code between two awaits, or one committed  *)
(* SQLite statement or transaction where another process can observe the   *)
(* difference.  Orders are abstracted to one entry order and one held      *)
(* position; module Execution models them in full.                         *)
(***************************************************************************)
EXTENDS Naturals, Sequences

CONSTANTS
  OperatorActions, \* the commands that operators may issue
  MaxCommands,     \* bound: rows of the commands table
  MaxGeneration,   \* bound: no failure or risk kill is injected beyond it
  MaxErrors,       \* config.risk.maximum_api_errors
  MaxStarts,       \* bound: starts of the runtime process
  MaxCrashes       \* bound: deaths of the runtime process

StopActions == {"pause", "cancel-all", "flatten", "kill"}
RecoveryActions == {"resume", "reset-kill"}

ASSUME ActionsAssumption == OperatorActions \subseteq StopActions \cup RecoveryActions
ASSUME BoundsAssumption ==
  /\ MaxCommands \in Nat
  /\ MaxGeneration \in Nat
  /\ MaxErrors \in Nat \ {0}
  /\ MaxStarts \in Nat
  /\ MaxCrashes \in Nat

VARIABLES
  \* The store, which survives a crash
  killed, paused, flattenRequested, controlGeneration,
  commands,           \* sequence of [action, status]; the row id is the index
  runtimeWasRunning,
  \* The runtime process
  pc,
  batch,              \* ids read by pending_commands() and not yet begun
  current,            \* the id being handled, 0 for none
  generation,         \* the control generation captured for it
  outcome,            \* what finish_command will record
  book,               \* "invalid", "fresh" or "stale"
  shutdown,
  errors,
  \* Orders and inventory
  entry,              \* "none", "intent" (journaled, unknown to the venue), "sent", or
                      \* "acknowledged" (its exchange id is journaled, its state is not)
  position,           \* the ledger holds inventory
  \* Processes
  lock,               \* who holds .execution.lockfile
  guardian,           \* "watching", "alarmed" or "holding"
  \* History variables: read by the properties, by no guard of the program
  stopMark,           \* commands issued when the last stop was committed
  bootCommands,       \* commands issued when the runtime was last started
  unclean,            \* a running runtime died and no reset has followed
  lateEntries,        \* entries sent since the latest stop
  starts, crashes

latches  == <<killed, paused, flattenRequested, controlGeneration>>
store    == <<latches, commands, runtimeWasRunning>>
handling == <<batch, current, generation, outcome>>
service  == <<book, shutdown, errors>>
account  == <<entry, position>>
peers    == <<lock, guardian>>
history  == <<stopMark, bootCommands, unclean, lateEntries, starts, crashes>>
vars     == <<store, pc, handling, service, account, peers, history>>

Loop  == {"top", "locked", "checks", "ending", "raised"}
Batch == {"commands", "cmdKill", "cmdKillFlatten", "cmdCancel", "cmdFlatten",
          "cmdRecover", "cmdCommit", "cmdFinish"}
Tick  == {"event", "evtDisconnect", "evtCancel", "evtHeld", "evtFlat", "evtEnter",
          "stopCancel", "evtFlatten", "sending", "submitting", "tick", "killCheck",
          "killCancel", "killFlatten"}
ProgramPoints ==
  {"down", "starting", "booted", "closing", "closeCancel"} \cup Loop \cup Batch \cup Tick

\* Where the main coroutine is suspended and the receive task may run.
AwaitPoints ==
  {"top", "locked", "cmdCancel", "cmdFlatten", "cmdRecover", "evtDisconnect",
   "evtCancel", "evtHeld", "evtFlat", "evtEnter", "stopCancel", "evtFlatten", "sending",
   "submitting", "killCancel", "killFlatten", "raised", "closeCancel"}

Init ==
  /\ killed = FALSE /\ paused = FALSE /\ flattenRequested = FALSE
  /\ controlGeneration = 0
  /\ commands = <<>>
  /\ runtimeWasRunning = FALSE
  /\ pc = "down"
  /\ batch = {} /\ current = 0 /\ generation = 0 /\ outcome = "none"
  /\ book = "invalid" /\ shutdown = FALSE /\ errors = 0
  /\ entry = "none" /\ position = FALSE
  /\ lock = "free" /\ guardian = "watching"
  /\ stopMark = 0 /\ bootCommands = 0 /\ unclean = FALSE
  /\ lateEntries = 0 /\ starts = 0 /\ crashes = 0

-----------------------------------------------------------------------------
(* Store operations (each one SQLite transaction or autocommitted statement) *)

StoreQuiet == UNCHANGED <<store, history>>

\* Store.kill: generation, latch and pause in one transaction. (The mutant leaves
\* the strategy unpaused.)
KillWithoutPause ==
  /\ killed' = TRUE
  /\ controlGeneration' = controlGeneration + 1
  /\ UNCHANGED <<paused, commands, runtimeWasRunning>>
Kill ==
  /\ killed' = TRUE
  /\ paused' = TRUE
  /\ controlGeneration' = controlGeneration + 1
  /\ UNCHANGED <<commands, runtimeWasRunning>>

\* A kill raised by a check or a failure, not by an operator's command.
RiskKill ==
  /\ Kill
  /\ UNCHANGED flattenRequested
  /\ stopMark' = Len(commands)
  /\ UNCHANGED <<bootCommands, unclean, lateEntries, starts, crashes>>

\* Controller.flatten's except branch: kill, then flatten_requested.
EmergencyExitFailed ==
  /\ Kill
  /\ flattenRequested' = TRUE
  /\ stopMark' = Len(commands)
  /\ UNCHANGED <<bootCommands, unclean, lateEntries, starts, crashes>>

\* The bound on injected failures and risk kills.
MayFail == controlGeneration < MaxGeneration

\* UNPROTECTABLE_DUST_POSITION and DUST_REQUIRES_OPERATOR: protect and flatten return,
\* and may have killed because what is held is too small to protect or to sell.
DustKill == MayFail /\ position' /\ RiskKill
QuietOrDust == StoreQuiet \/ DustKill

NewerStop(id) ==
  \E j \in DOMAIN commands : j > id /\ commands[j].action \in StopActions

ControlUnchanged(id) == ~NewerStop(id) /\ controlGeneration = generation

\* Store.command, from any process.
Command(action) ==
  /\ Len(commands) < MaxCommands
  /\ commands' = Append(commands, [action |-> action, status |-> "pending"])
  /\ IF action \in StopActions
     THEN /\ controlGeneration' = controlGeneration + 1
          /\ paused' = TRUE
          /\ stopMark' = Len(commands) + 1
     ELSE UNCHANGED <<controlGeneration, paused, stopMark>>
  /\ flattenRequested' = (flattenRequested \/ action \in {"flatten", "kill"})
  /\ killed' = (killed \/ action = "kill")
  /\ UNCHANGED <<runtimeWasRunning, pc, handling, service, account, peers,
                 bootCommands, unclean, lateEntries, starts, crashes>>

-----------------------------------------------------------------------------
(* What the venue may answer (external)                                    *)

Working == entry \in {"sent", "acknowledged"}

\* A reconciliation that succeeds. An intent the venue has never seen makes
\* every status query fail, so there is no such answer for it.
Reconciled ==
  /\ entry # "intent"
  /\ entry' \in IF Working THEN {"sent", "none"} ELSE {"none"}
  /\ position' \in IF Working \/ position THEN BOOLEAN ELSE {FALSE}

\* cancel_all(): an entry is confirmed done, and a fill may have come first. One whose
\* id is known and whose state is not is only looked up by LiveBroker.cancel.
Cancelled ==
  /\ entry # "intent"
  /\ entry' \in IF entry = "acknowledged" THEN {"sent", "none"} ELSE {"none"}
  /\ position' \in IF Working THEN {position, TRUE} ELSE {position}

\* Controller.flatten returned: nothing within the retry interval, or entries
\* cancelled and the inventory sold, partly sold or only protected.
Flattened ==
  \/ UNCHANGED account
  \/ /\ entry # "intent"
     /\ entry' \in IF entry = "acknowledged" THEN {"sent", "none"} ELSE {"none"}
     /\ position' \in IF Working \/ position THEN BOOLEAN ELSE {FALSE}

\* The part of one of them that was done before an exception ended it.
Interrupted == UNCHANGED account \/ Reconciled

\* Controller.protect returned: nothing was to be done, or the position got its stop
\* and the account was reconciled.
Protected == UNCHANGED account \/ (position /\ Reconciled)

-----------------------------------------------------------------------------
(* Start, crash and stop of the runtime process                            *)

\* A step that writes nothing to the store and stays in its process.
Goto(p) == pc' = p /\ StoreQuiet /\ UNCHANGED <<handling, peers>>

\* A step that moves the program point and nothing else.
Pass(from, to) == pc = from /\ Goto(to) /\ UNCHANGED <<service, account>>

Start ==
  /\ pc = "down" /\ starts < MaxStarts
  /\ starts' = starts + 1
  /\ pc' = "starting"
  /\ book' = "invalid" /\ shutdown' = FALSE /\ errors' = 0
  /\ bootCommands' = Len(commands)
  /\ UNCHANGED <<store, handling, account, peers, stopMark, unclean, lateEntries, crashes>>

\* A prior process death latches a kill: no implicit restart into trading.
\* (The mutant starts over as if nothing had happened.)
DeathForgotten == StoreQuiet
LatchPriorDeath == IF runtimeWasRunning THEN RiskKill ELSE StoreQuiet

StartReconciled ==
  /\ pc = "starting"
  /\ Reconciled
  /\ LatchPriorDeath
  /\ pc' = "booted"
  /\ UNCHANGED <<handling, service, peers>>

\* Reconciliation fails, or the guardian has given no recent heartbeat.
StartRefused == Pass("starting", "down") \/ Pass("booted", "down")

Started ==
  /\ pc = "booted"
  /\ runtimeWasRunning' = TRUE
  /\ pc' = "top"
  /\ UNCHANGED <<latches, commands, handling, service, account, peers, history>>

\* SIGINT, SIGTERM, the time limit, or a background task that failed.
Signal ==
  /\ pc \notin {"down", "starting", "booted"}
  /\ ~shutdown
  /\ shutdown' = TRUE
  /\ Goto(pc) /\ UNCHANGED <<book, errors, account>>

\* The receive task finds the bounded queue full.
QueueOverflow ==
  /\ pc \in AwaitPoints
  /\ ~shutdown /\ MayFail
  /\ RiskKill
  /\ shutdown' = TRUE
  /\ UNCHANGED <<pc, handling, book, errors, account, peers>>

BookAges ==
  /\ pc # "down" /\ book = "fresh"
  /\ book' = "stale"
  /\ Goto(pc) /\ UNCHANGED <<shutdown, errors, account>>

\* The process dies anywhere; flock is released, the store and the venue stay.
Crash ==
  /\ pc # "down" /\ crashes < MaxCrashes
  /\ crashes' = crashes + 1
  /\ pc' = "down"
  /\ unclean' = (unclean \/ runtimeWasRunning)
  /\ lock' = IF lock = "runtime" THEN "free" ELSE lock
  /\ batch' = {} /\ current' = 0 /\ generation' = 0 /\ outcome' = "none"
  /\ book' = "invalid" /\ shutdown' = FALSE /\ errors' = 0
  /\ UNCHANGED <<store, account, guardian, stopMark, bootCommands, lateEntries, starts>>

-----------------------------------------------------------------------------
(* The runtime loop                                                        *)

\* process_lock on the execution lock; while the guardian holds it the loop
\* sleeps and tries again, which changes nothing.
AcquireLock ==
  /\ pc = "top" /\ ~shutdown /\ lock = "free"
  /\ lock' = "runtime"
  /\ pc' = "locked"
  /\ StoreQuiet
  /\ UNCHANGED <<handling, service, account, guardian>>

\* Heartbeat, and when due a reconciliation and a renewal of protection.
LoopReconcile ==
  /\ pc = "locked"
  /\ Interrupted
  /\ QuietOrDust
  /\ pc' = "checks"
  /\ UNCHANGED <<handling, peers, service>>

\* ABNORMAL_REST_LATENCY and GUARDIAN_UNAVAILABLE before the commands are read,
\* PROCESSING_BACKLOG before an event is processed.
CheckKills ==
  /\ pc \in {"checks", "event"} /\ MayFail
  /\ RiskKill
  /\ UNCHANGED <<pc, handling, service, account, peers>>

\* An exception that reaches the loop from an await.
Raise ==
  /\ pc \in {"locked", "evtDisconnect", "evtCancel", "evtHeld", "evtFlat", "evtEnter",
            "stopCancel", "killCancel"}
  /\ MayFail \/ entry = "intent"
  /\ Interrupted
  /\ Goto("raised") /\ UNCHANGED service

\* The same out of Controller.flatten, which latches before it re-raises.
FlattenRaises ==
  /\ pc \in {"evtFlatten", "killFlatten"}
  /\ MayFail \/ entry = "intent"
  /\ EmergencyExitFailed
  /\ Interrupted
  /\ pc' = "raised"
  /\ UNCHANGED <<handling, service, peers>>

\* The loop's except clauses: kill, count, and stop after maximum_api_errors.
HandleError ==
  /\ pc = "raised"
  /\ RiskKill
  /\ errors' = errors + 1
  /\ shutdown' = (shutdown \/ errors + 1 >= MaxErrors)
  /\ lock' = "free"
  /\ pc' = "top"
  /\ UNCHANGED <<handling, book, account, guardian>>

EndIteration ==
  /\ pc = "ending"
  /\ errors' = 0
  /\ lock' = "free"
  /\ pc' = "top"
  /\ StoreQuiet
  /\ UNCHANGED <<handling, book, shutdown, account, guardian>>

-----------------------------------------------------------------------------
(* process_commands: one batch, in id order                                *)

\* Store.pending_commands. (The mutant forgets its WHERE clause.)
AllCommands == DOMAIN commands
PendingCommands == {i \in DOMAIN commands : commands[i].status = "pending"}

ReadCommands ==
  /\ pc = "checks"
  /\ batch' = PendingCommands
  /\ pc' = "commands"
  /\ StoreQuiet
  /\ UNCHANGED <<current, generation, outcome, service, account, peers>>

\* The next row of the batch becomes current and its generation is captured.
Take(i) ==
  /\ pc = "commands"
  /\ i \in batch
  /\ \A j \in batch : i <= j
  /\ batch' = batch \ {i}
  /\ current' = i
  /\ generation' = controlGeneration
  /\ UNCHANGED <<service, account, peers>>

\* pause, cancel-all, kill: the pause latch first.
BeginStop(i) ==
  /\ Take(i)
  /\ commands[i].action \in {"pause", "cancel-all", "kill"}
  /\ paused' = TRUE
  /\ pc' = IF commands[i].action = "kill" THEN "cmdKill" ELSE "cmdCancel"
  /\ UNCHANGED <<killed, flattenRequested, controlGeneration, commands,
                 runtimeWasRunning, outcome, history>>

OperatorKill ==
  /\ pc = "cmdKill"
  /\ Kill
  /\ pc' = "cmdKillFlatten"
  /\ UNCHANGED <<flattenRequested, history, handling, service, account, peers>>

RequestFlatten ==
  /\ pc = "cmdKillFlatten"
  /\ flattenRequested' = TRUE
  /\ pc' = "cmdCancel"
  /\ UNCHANGED <<killed, paused, controlGeneration, commands, runtimeWasRunning,
                 history, handling, service, account, peers>>

BeginFlatten(i) ==
  /\ Take(i)
  /\ commands[i].action = "flatten"
  /\ paused' = TRUE
  /\ flattenRequested' = TRUE
  /\ pc' = "cmdFlatten"
  /\ UNCHANGED <<killed, controlGeneration, commands, runtimeWasRunning, outcome, history>>

\* resume is refused at once while killed; reset-kill always reconciles first.
BeginRecovery(i) ==
  /\ Take(i)
  /\ commands[i].action \in RecoveryActions
  /\ IF commands[i].action = "resume" /\ killed
     THEN pc' = "cmdFinish" /\ outcome' = "failed"
     ELSE pc' = "cmdRecover" /\ UNCHANGED outcome
  /\ StoreQuiet

Conclude(result) ==
  outcome' = result /\ pc' = "cmdFinish" /\ UNCHANGED <<batch, current, generation, service, peers>>

CommandCancels == pc = "cmdCancel" /\ Cancelled /\ Conclude("done") /\ StoreQuiet

CommandFlattens == pc = "cmdFlatten" /\ Flattened /\ Conclude("done") /\ QuietOrDust

RecoveryReconciles ==
  pc = "cmdRecover" /\ Reconciled /\ Goto("cmdCommit") /\ UNCHANGED service

\* A command that raises is recorded as failed; the batch goes on.
CommandRaises ==
  /\ pc \in {"cmdCancel", "cmdFlatten", "cmdRecover"}
  /\ MayFail \/ entry = "intent"
  /\ IF pc = "cmdFlatten" THEN EmergencyExitFailed ELSE StoreQuiet
  /\ Conclude("failed")
  /\ Interrupted

MayResume ==
  /\ ControlUnchanged(current)
  /\ ~killed /\ ~flattenRequested
  /\ book = "fresh"

\* (The mutants: without the generation check, and without the fresh book.)
MayResetUnchecked == ~position /\ entry = "none" /\ book = "fresh"
MayResetOnAnyBook == ControlUnchanged(current) /\ ~position /\ entry = "none"
MayReset ==
  /\ ControlUnchanged(current)
  /\ ~position /\ entry = "none"
  /\ book = "fresh"

CommitResume ==
  /\ pc = "cmdCommit" /\ commands[current].action = "resume"
  /\ MayResume
  /\ paused' = FALSE
  /\ lateEntries' = 0
  /\ Conclude("done")
  /\ UNCHANGED <<killed, flattenRequested, controlGeneration, commands, runtimeWasRunning,
                 account, stopMark, bootCommands, unclean, starts, crashes>>

CommitReset ==
  /\ pc = "cmdCommit" /\ commands[current].action = "reset-kill"
  /\ MayReset
  /\ killed' = FALSE
  /\ paused' = TRUE
  /\ flattenRequested' = FALSE
  /\ unclean' = FALSE
  /\ Conclude("done")
  /\ UNCHANGED <<controlGeneration, commands, runtimeWasRunning, account,
                 stopMark, bootCommands, lateEntries, starts, crashes>>

RefuseRecovery ==
  /\ pc = "cmdCommit"
  /\ ~ IF commands[current].action = "resume" THEN MayResume ELSE MayReset
  /\ Conclude("failed")
  /\ StoreQuiet
  /\ UNCHANGED account

\* Store.finish_command. (The mutant answers only the commands that succeed.)
AnsweredIfDone ==
  IF outcome = "done" THEN [commands EXCEPT ![current].status = outcome] ELSE commands
Answered == [commands EXCEPT ![current].status = outcome]

FinishCommand ==
  /\ pc = "cmdFinish"
  /\ commands' = Answered
  /\ current' = 0 /\ generation' = 0 /\ outcome' = "none"
  /\ pc' = "commands"
  /\ UNCHANGED <<latches, runtimeWasRunning, history, batch, service, account, peers>>

BatchDone == batch = {} /\ Pass("commands", "event")

-----------------------------------------------------------------------------
(* engine.event: one market event per iteration                            *)

\* No event queued, or one that needs no decision.
NoDecision ==
  /\ pc = "event"
  /\ book' \in {book, "fresh"}
  /\ Goto("killCheck") /\ UNCHANGED <<shutdown, errors, account>>

\* Nothing arrives and the book is stale; a frame that OrderBook.apply refuses,
\* which resets the book; a disconnect, which resets it only after the
\* cancellations have returned.
EventKills ==
  /\ pc = "event" /\ MayFail
  /\ RiskKill
  /\ \/ book = "stale" /\ UNCHANGED book /\ pc' = "evtCancel"
     \/ book' = "invalid" /\ pc' = "evtCancel"
     \/ UNCHANGED book /\ pc' = "evtDisconnect"
  /\ UNCHANGED <<handling, shutdown, errors, account, peers>>

\* The portfolio is read here, before the working makers are managed.
FreshBook ==
  /\ pc = "event"
  /\ book' = "fresh"
  /\ Goto(IF position THEN "evtHeld" ELSE "evtFlat") /\ UNCHANGED <<shutdown, errors, account>>

\* manage_makers: a working entry may be cancelled.
ManageMakers ==
  /\ pc \in {"evtHeld", "evtFlat", "evtEnter"} /\ Working
  /\ Cancelled
  /\ Goto(pc) /\ UNCHANGED service

\* The latches that keep entries out, as the engine and then the gate read them. (The
\* mutant reads the kill latch only.)
EntriesStoppedByKill == killed
EntriesStopped == killed \/ paused

\* The branch after them, on the position read before them: exit; cancel while
\* stopped; or go on to Controller.decide, which manages the makers once more.
Decide ==
  /\ \/ pc = "evtHeld" /\ Goto("evtFlatten")
     \/ pc = "evtFlat" /\ EntriesStopped /\ Goto("stopCancel")
     \/ pc = "evtFlat" /\ ~EntriesStopped /\ Goto("evtEnter")
  /\ UNCHANGED <<service, account>>

\* Hold and protect; or Controller.decide finds no edge or a position to protect.
HoldOrPass ==
  /\ pc = "evtEnter" \/ (pc = "evtHeld" /\ ~killed /\ ~flattenRequested)
  /\ Protected
  /\ QuietOrDust
  /\ pc' = "tick"
  /\ UNCHANGED <<handling, peers, service>>

\* RiskEngine.authorize for an entry, as far as the latches, the book and the
\* inventory decide it.
EntryAuthorized ==
  /\ ~EntriesStopped
  /\ book = "fresh"
  /\ ~position /\ entry = "none"

\* Controller.place: authorized, then journaled as an intent.
DecideEntry ==
  /\ pc = "evtEnter"
  /\ EntryAuthorized
  /\ entry' = "intent"
  /\ Goto("sending") /\ UNCHANGED <<position, service>>

\* CONSECUTIVE_LOSSES kills while an entry is being authorized;
\* STRATEGY_DEGRADATION pauses without advancing the generation.
DecideStop ==
  /\ pc = "evtEnter" /\ EntryAuthorized
  /\ \/ MayFail /\ RiskKill
     \/ /\ paused' = TRUE
        /\ stopMark' = Len(commands)
        /\ UNCHANGED <<killed, flattenRequested, controlGeneration, commands,
                       runtimeWasRunning, bootCommands, unclean, lateEntries, starts, crashes>>
  /\ pc' = "tick"
  /\ UNCHANGED <<handling, service, account, peers>>

\* The request leaves the host after the rate limiter's sleep. Nothing rereads
\* the latches between the authorization and this step.
Send ==
  /\ pc = "sending"
  /\ entry' = "sent"
  /\ pc' = "submitting"
  /\ lateEntries' = IF paused THEN lateEntries + 1 ELSE lateEntries
  /\ UNCHANGED <<store, position, handling, service, peers,
                 stopMark, bootCommands, unclean, starts, crashes>>

\* The answer to the creation: its exchange id is journaled before the status query.
Acknowledge ==
  /\ pc = "submitting" /\ entry = "sent"
  /\ entry' = "acknowledged"
  /\ Goto(pc) /\ UNCHANGED <<position, service>>

SubmitAccepted ==
  /\ pc = "submitting" /\ entry = "acknowledged"
  /\ Reconciled
  /\ Goto("tick") /\ UNCHANGED service

\* A definite rejection ends the order, and the last one allowed also kills; an
\* answer that is lost leaves the order journaled as unknown and kills, whether the
\* venue has it or not.
SubmitFails ==
  /\ pc = "submitting" /\ MayFail
  /\ \/ entry = "sent" /\ entry' = "none" /\ (RiskKill \/ StoreQuiet)
     \/ entry = "sent" /\ entry' = "intent" /\ RiskKill
     \/ UNCHANGED entry /\ RiskKill
  /\ pc' = "raised"
  /\ UNCHANGED <<position, handling, service, peers>>

\* A flatten request is complete once flat with no order outstanding.
EndTick ==
  /\ pc = "tick"
  /\ flattenRequested' = (flattenRequested /\ (position \/ entry # "none"))
  /\ pc' = "killCheck"
  /\ UNCHANGED <<killed, paused, controlGeneration, commands, runtimeWasRunning,
                 history, handling, service, account, peers>>

\* The end of the loop body acts on the kill latch. (The mutant does not.)
LatchIgnored == "ending"
AfterBody == IF killed THEN "killCancel" ELSE "ending"
KillCheck == Pass("killCheck", AfterBody)

\* cancel_all returns to the event handler or to the end of the loop body.
CancelReturns ==
  /\ pc \in {"evtDisconnect", "evtCancel", "stopCancel", "killCancel"}
  /\ Cancelled
  /\ book' = IF pc = "evtDisconnect" THEN "invalid" ELSE book
  /\ Goto(CASE pc = "stopCancel" -> "tick"
            [] pc = "killCancel" -> IF position' THEN "killFlatten" ELSE "ending"
            [] OTHER -> "killCheck")
  /\ UNCHANGED <<shutdown, errors>>

FlattenReturns ==
  /\ pc \in {"evtFlatten", "killFlatten"}
  /\ Flattened
  /\ QuietOrDust
  /\ pc' = IF pc = "evtFlatten" THEN "tick" ELSE "ending"
  /\ UNCHANGED <<handling, peers, service>>

-----------------------------------------------------------------------------
(* run()'s finally clause                                                  *)

Closing == shutdown /\ Pass("top", "closing")

CloseLocks ==
  /\ pc = "closing" /\ lock = "free"
  /\ lock' = "runtime"
  /\ pc' = "closeCancel"
  /\ StoreQuiet
  /\ UNCHANGED <<handling, service, account, guardian>>

EndsUnclean == unclean' = TRUE /\ UNCHANGED <<bootCommands, lateEntries, starts, crashes>>

\* The guardian holds the lock, or a cancellation fails: both are suppressed, and
\* the running mark stays.
CloseFails ==
  /\ \/ pc = "closing" /\ lock = "guardian" /\ UNCHANGED lock
     \/ pc = "closeCancel" /\ (MayFail \/ entry = "intent") /\ lock' = "free"
  /\ IF pc = "closing" THEN UNCHANGED account ELSE Interrupted
  /\ pc' = "down"
  /\ EndsUnclean
  /\ UNCHANGED <<store, stopMark, handling, service, guardian>>

\* SHUTDOWN_WITH_POSITION, or the running mark is cleared. (The mutant clears it
\* without looking at the inventory.)
MarkAlwaysCleared == runtimeWasRunning' = FALSE /\ UNCHANGED <<latches, commands, history>>
CloseVerdict ==
  IF position'
  THEN Kill /\ UNCHANGED flattenRequested /\ stopMark' = Len(commands) /\ EndsUnclean
  ELSE runtimeWasRunning' = FALSE /\ UNCHANGED <<latches, commands, history>>

CloseCompletes ==
  /\ pc = "closeCancel"
  /\ Cancelled
  /\ lock' = "free"
  /\ pc' = "down"
  /\ CloseVerdict
  /\ UNCHANGED <<handling, service, guardian>>

-----------------------------------------------------------------------------
(* The guardian process                                                    *)

\* needs_help is computed outside the lock, and forgotten when the lock is taken.
GuardianLooks ==
  /\ \/ /\ guardian = "watching"
        /\ killed \/ runtimeWasRunning
        /\ entry # "none" \/ position
        /\ guardian' = "alarmed"
     \/ guardian = "alarmed" /\ lock # "free" /\ guardian' = "watching"
  /\ StoreQuiet
  /\ UNCHANGED <<pc, handling, service, account, lock>>

\* WATCHDOG_OR_LATCHED_STOP under the lock, whatever has happened since.
GuardianLocks ==
  /\ guardian = "alarmed" /\ lock = "free" /\ MayFail
  /\ lock' = "guardian"
  /\ guardian' = "holding"
  /\ RiskKill
  /\ UNCHANGED <<pc, handling, service, account>>

\* cancel_all, reconcile, flatten, protect: done, or cut short by an exception
\* that is only reported.
GuardianHelps ==
  /\ guardian = "holding"
  /\ \/ Flattened /\ QuietOrDust
     \/ (MayFail \/ entry = "intent") /\ EmergencyExitFailed /\ Interrupted
  /\ lock' = "free"
  /\ guardian' = "watching"
  /\ UNCHANGED <<pc, handling, service>>

-----------------------------------------------------------------------------
(* The specification                                                       *)

RuntimeStep ==
  \/ StartReconciled \/ StartRefused \/ Started
  \/ LoopReconcile \/ CheckKills \/ Raise \/ FlattenRaises \/ HandleError \/ EndIteration
  \/ ReadCommands
  \/ \E i \in batch : BeginStop(i) \/ BeginFlatten(i) \/ BeginRecovery(i)
  \/ OperatorKill \/ RequestFlatten
  \/ CommandCancels \/ CommandFlattens \/ RecoveryReconciles \/ CommandRaises
  \/ CommitResume \/ CommitReset \/ RefuseRecovery \/ FinishCommand \/ BatchDone
  \/ NoDecision \/ EventKills \/ FreshBook \/ ManageMakers \/ Decide \/ HoldOrPass
  \/ DecideEntry \/ DecideStop \/ Send \/ Acknowledge \/ SubmitAccepted \/ SubmitFails
  \/ EndTick \/ KillCheck \/ CancelReturns \/ FlattenReturns
  \/ Closing \/ CloseLocks \/ CloseFails \/ CloseCompletes

GuardianStep == GuardianLooks \/ GuardianLocks \/ GuardianHelps

Environment ==
  \/ \E a \in OperatorActions : Command(a)
  \/ Start \/ Crash \/ Signal \/ QueueOverflow \/ BookAges

Next == RuntimeStep \/ AcquireLock \/ GuardianStep \/ Environment

Spec == Init /\ [][Next]_vars

\* asyncio runs every ready task and each process is scheduled; the runtime
\* retries the lock every 0.1 s while the guardian pauses 1 s between attempts,
\* so it finds the lock free again and again until it gets it.
Fairness ==
  /\ WF_vars(RuntimeStep)
  /\ WF_vars(GuardianHelps)
  /\ SF_vars(AcquireLock)

FairSpec == Spec /\ Fairness

-----------------------------------------------------------------------------
(* Properties                                                              *)

\* The rows of the commands table.
Row == [action : OperatorActions, status : {"pending", "done", "failed"}]

StoreTypeOK ==
  /\ killed \in BOOLEAN /\ paused \in BOOLEAN /\ flattenRequested \in BOOLEAN
  /\ controlGeneration \in Nat
  /\ commands \in Seq(Row)
  /\ runtimeWasRunning \in BOOLEAN

HandlingTypeOK ==
  /\ pc \in ProgramPoints
  /\ batch \subseteq {i \in DOMAIN commands : commands[i].status = "pending"}
  /\ current \in {0} \cup DOMAIN commands
  /\ generation \in Nat
  /\ outcome \in {"none", "done", "failed"}

ServiceTypeOK ==
  /\ book \in {"invalid", "fresh", "stale"}
  /\ shutdown \in BOOLEAN /\ errors \in Nat
  /\ entry \in {"none", "intent", "sent", "acknowledged"} /\ position \in BOOLEAN
  /\ lock \in {"free", "runtime", "guardian"}
  /\ guardian \in {"watching", "alarmed", "holding"}

HistoryTypeOK ==
  /\ stopMark \in Nat /\ bootCommands \in Nat /\ unclean \in BOOLEAN
  /\ lateEntries \in Nat /\ starts \in Nat /\ crashes \in Nat

\* Besides the types: the batch read by process_commands holds rows that are still
\* pending, so no command is handled twice in a batch.
TypeOK == StoreTypeOK /\ HandlingTypeOK /\ ServiceTypeOK /\ HistoryTypeOK

\* No latch is ever set without the pause that keeps entries out: a kill or a
\* flatten request that some interleaving of processes or crash left with the
\* strategy unpaused would trade on (Store.kill, Store.command, process_commands).
LatchesPause == (killed \/ flattenRequested) => paused

\* The recovery under way, as the abstract latch sees it: one that a stop has
\* already voided counts as none.
Attempt ==
  IF pc \in {"cmdRecover", "cmdCommit"} /\ ControlUnchanged(current)
  THEN commands[current].action
  ELSE "none"

Latch == INSTANCE ControlLatch WITH flattening <- flattenRequested, attempt <- Attempt

\* The processes, the queue and the generation together behave as the abstract
\* latch: between the moment a resume or reset-kill begins and the moment it
\* clears anything, no stop of any process has been committed.
ImplementsLatch == Latch!LatchSpec

\* An inherited recovery command never clears a latch: a resume or reset-kill that
\* was queued before the runtime started (its process died before or after the
\* commit, or was down) fails, because the batch that reads it runs before any
\* event has made the new book valid.
InheritedNeverRecovers ==
  [][(killed /\ ~killed') \/ (paused /\ ~paused') => current > bootCommands]_vars

\* After any stop, at most one entry still reaches the venue until the next
\* resume: the one that was being submitted when the stop was committed.
AtMostOneLateEntry == lateEntries <= 1

\* After the runtime died or was stopped with risk outstanding, nothing is entered
\* until an operator has reset the kill that its next start latches.
NoEntryAfterUncleanEnd == unclean => pc \notin {"sending", "submitting"}

\* Whenever the runtime is down with an order working or inventory held, the kill is
\* already latched or the running mark makes the next start latch it: a close that
\* looked clean never hides risk (run's finally clause, UNCLEAN_PROCESS_RESTART).
DownWithRiskIsLatched ==
  pc = "down" /\ ~runtimeWasRunning => killed \/ (entry = "none" /\ ~position)

\* Whatever an end of the runtime has left, by a crash or a close, is found by the next
\* start, which latches before it can enter (run, UNCLEAN_PROCESS_RESTART).
EndsAreRemembered == NoEntryAfterUncleanEnd /\ DownWithRiskIsLatched

\* A command that was queued is answered, or the process that should answer it ends.
CommandsAnswered ==
  \A i \in 1..MaxCommands : i \in PendingCommands ~> (i \notin PendingCommands \/ pc = "down")

\* A kill ends with no entry outstanding, or with the process stopped (by repeated
\* failures to cancel, for one), when the guardian takes over.
KillEndsEntries == killed ~> (entry = "none" \/ pc = "down")

\* docs/ARCHITECTURE.md says of the generation check that it "prevents network waits
\* or a second operator connection from allowing an older command to erase a newer
\* stop". A reset-kill that is still queued when a risk kill latches is older than
\* that stop; its generation is captured only when the runtime begins it.
OlderNeverErasesNewer == [][killed /\ ~killed' => current > stopMark]_vars
=============================================================================
