------------------------- MODULE ControlPlaneProofs -------------------------
(***************************************************************************)
(* Proofs about ControlPlane, for every value of its constants: the type   *)
(* invariant, that no latch is set without the pause, that the control     *)
(* plane implements the abstract latch of ControlLatch, what the next      *)
(* start remembers of an end, and that no inherited command clears a latch.*)
(***************************************************************************)
EXTENDS ControlPlane, TLAPS

-----------------------------------------------------------------------------
(* The inductive invariant                                                 *)

\* The captured generation never runs ahead: any later stop makes them differ.
GenerationBound == generation <= controlGeneration

\* What each program point of process_commands knows of the command it handles.
HandlingInv ==
  /\ current \notin batch
  /\ current # 0 => pc \in Batch \ {"commands"}
  /\ pc \in Batch \ {"commands"} => current \in DOMAIN commands
  /\ pc \in {"cmdRecover", "cmdCommit"} => commands[current].action \in RecoveryActions
  /\ pc = "cmdFinish" => outcome \in {"done", "failed"}
  /\ pc = "cmdKillFlatten" => paused

ControlInv == TypeOK /\ LatchesPause /\ GenerationBound /\ HandlingInv

-----------------------------------------------------------------------------
(* Preservation                                                            *)

\* What Command appends, and that the rows before it stay.
LEMMA CommandRow ==
  ASSUME commands \in Seq(Row), NEW a \in OperatorActions, Command(a)
  PROVE  /\ commands' \in Seq(Row)
         /\ DOMAIN commands' = DOMAIN commands \cup {Len(commands) + 1}
         /\ \A i \in DOMAIN commands : commands'[i] = commands[i]
         /\ commands'[Len(commands) + 1].action = a
<1>1. commands' = Append(commands, [action |-> a, status |-> "pending"])
  BY DEF Command
<1>2. [action |-> a, status |-> "pending"] \in Row
  BY DEF Row
<1> QED
  BY <1>1, <1>2

LEMMA CommandInv ==
  ASSUME ControlInv, NEW a \in OperatorActions, Command(a)
  PROVE  ControlInv'
<1> USE DEF ControlInv
<1>1. /\ commands' \in Seq(Row)
      /\ DOMAIN commands' = DOMAIN commands \cup {Len(commands) + 1}
      /\ \A i \in DOMAIN commands : commands'[i] = commands[i]
  BY CommandRow DEF TypeOK, StoreTypeOK
<1>2. StoreTypeOK'
  <2>1. killed' \in BOOLEAN /\ flattenRequested' \in BOOLEAN
    BY DEF Command
  <2>2. paused' \in BOOLEAN
    <3>1. paused' = TRUE \/ paused' = paused
      BY DEF Command
    <3> QED
      BY <3>1 DEF TypeOK, StoreTypeOK
  <2>4. controlGeneration' \in Nat
    BY DEF Command, TypeOK, StoreTypeOK
  <2>3. runtimeWasRunning' \in BOOLEAN
    BY DEF Command, TypeOK, StoreTypeOK
  <2> QED
    BY <1>1, <2>1, <2>2, <2>3, <2>4 DEF StoreTypeOK
<1>3. HandlingTypeOK'
  BY <1>1 DEF Command, TypeOK, HandlingTypeOK, handling
<1>4. ServiceTypeOK'
  BY DEF Command, TypeOK, ServiceTypeOK, service, account, peers
<1>5. HistoryTypeOK'
  <2>1. stopMark' \in Nat
    BY DEF Command, TypeOK, StoreTypeOK, HistoryTypeOK
  <2> QED
    BY <2>1 DEF Command, TypeOK, HistoryTypeOK
<1>6. LatchesPause'
  BY DEF LatchesPause, Command, StopActions, TypeOK, StoreTypeOK
<1>7. GenerationBound'
  BY DEF GenerationBound, Command, TypeOK, StoreTypeOK, HandlingTypeOK, handling
<1>8. HandlingInv'
  <2>1. UNCHANGED <<pc, batch, current, generation, outcome>>
    BY DEF Command, handling
  <2>2. paused => paused'
    BY DEF Command
  <2>3. pc \in {"cmdRecover", "cmdCommit"} => current \in DOMAIN commands
    BY DEF HandlingInv, Batch
  <2> QED
    BY <1>1, <2>1, <2>2, <2>3 DEF HandlingInv
<1> QED
  BY <1>2, <1>3, <1>4, <1>5, <1>6, <1>7, <1>8 DEF TypeOK

\* The venue's answers leave the account well typed.
LEMMA AccountType ==
  ASSUME ServiceTypeOK, Reconciled \/ Cancelled \/ Flattened \/ Protected \/ Interrupted
  PROVE  entry' \in {"none", "intent", "sent", "acknowledged"} /\ position' \in BOOLEAN
<1>1. CASE Reconciled
  BY <1>1 DEF Reconciled, ServiceTypeOK
<1>2. CASE Cancelled
  BY <1>2 DEF Cancelled, ServiceTypeOK
<1>3. CASE UNCHANGED account
  BY <1>3 DEF ServiceTypeOK, account
<1>4. CASE Flattened
  BY <1>3, <1>4 DEF Flattened
<1> QED
  BY <1>1, <1>2, <1>3, <1>4 DEF Interrupted, Protected

\* The steps of the loop around the command batch and the event.
LEMMA LoopInv ==
  ASSUME ControlInv,
         \/ LoopReconcile \/ CheckKills \/ Raise \/ FlattenRaises \/ HandleError
         \/ EndIteration \/ AcquireLock
  PROVE  ControlInv'
<1> USE DEF ControlInv, TypeOK, StoreTypeOK, HandlingTypeOK, ServiceTypeOK, HistoryTypeOK,
            LatchesPause, GenerationBound, HandlingInv,
            store, latches, handling, service, account, peers, history,
            StoreQuiet, Goto, Pass, Kill, RiskKill, EmergencyExitFailed, Conclude,
            ProgramPoints, Loop, Batch, Tick
<1>1. ASSUME LoopReconcile PROVE ControlInv'
  <2>1. CASE StoreQuiet
    BY <1>1, <2>1, AccountType DEF LoopReconcile
  <2>2. CASE RiskKill
    BY <1>1, <2>2, AccountType DEF LoopReconcile
  <2> QED
    BY <1>1, <2>1, <2>2 DEF LoopReconcile, QuietOrDust, DustKill
<1>2. ASSUME CheckKills PROVE ControlInv'
  BY <1>2 DEF CheckKills
<1>3. ASSUME Raise PROVE ControlInv'
  BY <1>3, AccountType DEF Raise
<1>4. ASSUME FlattenRaises PROVE ControlInv'
  BY <1>4, AccountType DEF FlattenRaises
<1>5. ASSUME HandleError PROVE ControlInv'
  BY <1>5 DEF HandleError
<1>6. ASSUME EndIteration PROVE ControlInv'
  BY <1>6 DEF EndIteration
<1>7. ASSUME AcquireLock PROVE ControlInv'
  BY <1>7 DEF AcquireLock
<1> QED
  BY <1>1, <1>2, <1>3, <1>4, <1>5, <1>6, <1>7

\* The steps of process_commands.
LEMMA BatchInv ==
  ASSUME ControlInv,
         \/ ReadCommands
         \/ \E i \in batch : BeginStop(i)
         \/ \E i \in batch : BeginFlatten(i)
         \/ \E i \in batch : BeginRecovery(i)
         \/ OperatorKill \/ RequestFlatten \/ CommandCancels \/ CommandFlattens
         \/ RecoveryReconciles \/ CommandRaises \/ CommitResume \/ CommitReset
         \/ RefuseRecovery \/ FinishCommand \/ BatchDone
  PROVE  ControlInv'
<1> USE DEF ControlInv, TypeOK, StoreTypeOK, HandlingTypeOK, ServiceTypeOK, HistoryTypeOK,
            LatchesPause, GenerationBound, HandlingInv,
            store, latches, handling, service, account, peers, history,
            StoreQuiet, Goto, Pass, Kill, RiskKill, EmergencyExitFailed, Conclude,
            ProgramPoints, Loop, Batch, Tick
<1>1. ASSUME ReadCommands PROVE ControlInv'
  <2>1. batch' = {j \in DOMAIN commands : commands[j].status = "pending"} /\ commands' = commands
    BY <1>1 DEF ReadCommands, PendingCommands
  <2>2. current \notin PendingCommands
    <3>1. current = 0
      BY <1>1 DEF ReadCommands
    <3>2. 0 \notin DOMAIN commands
      OBVIOUS
    <3> QED
      BY <3>1, <3>2 DEF PendingCommands
  <2>3. StoreTypeOK'
    BY <1>1, <2>1, <2>2 DEF ReadCommands, PendingCommands
  <2>4. HandlingTypeOK'
    BY <1>1, <2>1, <2>2 DEF ReadCommands, PendingCommands
  <2>5. ServiceTypeOK'
    BY <1>1, <2>1, <2>2 DEF ReadCommands, PendingCommands
  <2>6. HistoryTypeOK'
    BY <1>1, <2>1, <2>2 DEF ReadCommands, PendingCommands
  <2>7. LatchesPause'
    BY <1>1, <2>1, <2>2 DEF ReadCommands, PendingCommands
  <2>8. GenerationBound'
    BY <1>1, <2>1, <2>2 DEF ReadCommands, PendingCommands
  <2>9. HandlingInv'
    BY <1>1, <2>1, <2>2 DEF ReadCommands, PendingCommands
  <2> QED
    BY <2>3, <2>4, <2>5, <2>6, <2>7, <2>8, <2>9
<1>2. ASSUME NEW i \in batch, BeginStop(i) PROVE ControlInv'
  BY <1>2 DEF BeginStop, Take
<1>3. ASSUME NEW i \in batch, BeginFlatten(i) PROVE ControlInv'
  BY <1>3 DEF BeginFlatten, Take
<1>4. ASSUME NEW i \in batch, BeginRecovery(i) PROVE ControlInv'
  BY <1>4 DEF BeginRecovery, Take
<1>5. ASSUME OperatorKill PROVE ControlInv'
  BY <1>5 DEF OperatorKill
<1>6. ASSUME RequestFlatten PROVE ControlInv'
  BY <1>6 DEF RequestFlatten
<1>7. ASSUME CommandCancels PROVE ControlInv'
  BY <1>7, AccountType DEF CommandCancels
<1>8. ASSUME CommandFlattens PROVE ControlInv'
  <2>1. CASE StoreQuiet
    BY <1>8, <2>1, AccountType DEF CommandFlattens
  <2>2. CASE RiskKill
    BY <1>8, <2>2, AccountType DEF CommandFlattens
  <2> QED
    BY <1>8, <2>1, <2>2 DEF CommandFlattens, QuietOrDust, DustKill
<1>9. ASSUME RecoveryReconciles PROVE ControlInv'
  BY <1>9, AccountType DEF RecoveryReconciles
<1>10. ASSUME CommandRaises PROVE ControlInv'
  <2>1. entry' \in {"none", "intent", "sent", "acknowledged"} /\ position' \in BOOLEAN
    BY <1>10, AccountType DEF CommandRaises
  <2>2. CASE pc = "cmdFlatten"
    BY <1>10, <2>1, <2>2 DEF CommandRaises
  <2>3. CASE pc # "cmdFlatten"
    BY <1>10, <2>1, <2>3 DEF CommandRaises
  <2> QED
    BY <2>2, <2>3
<1>11. ASSUME CommitResume PROVE ControlInv'
  <2>1. pc' = "cmdFinish" /\ outcome' = "done" /\ paused' = FALSE /\ lateEntries' = 0
    BY <1>11 DEF CommitResume
  <2>2. ~killed' /\ ~flattenRequested'
    BY <1>11 DEF CommitResume, MayResume
  <2>3. current \in DOMAIN commands
    BY <1>11 DEF CommitResume
  <2>4. StoreTypeOK'
    BY <1>11, <2>1, <2>2, <2>3 DEF CommitResume
  <2>5. HandlingTypeOK'
    BY <1>11, <2>1, <2>2, <2>3 DEF CommitResume
  <2>6. ServiceTypeOK'
    BY <1>11, <2>1, <2>2, <2>3 DEF CommitResume
  <2>7. HistoryTypeOK'
    BY <1>11, <2>1, <2>2, <2>3 DEF CommitResume
  <2>8. LatchesPause'
    BY <1>11, <2>1, <2>2, <2>3 DEF CommitResume
  <2>9. GenerationBound'
    BY <1>11, <2>1, <2>2, <2>3 DEF CommitResume
  <2>10. HandlingInv'
    BY <1>11, <2>1, <2>2, <2>3 DEF CommitResume
  <2> QED
    BY <2>4, <2>5, <2>6, <2>7, <2>8, <2>9, <2>10
<1>12. ASSUME CommitReset PROVE ControlInv'
  BY <1>12 DEF CommitReset
<1>13. ASSUME RefuseRecovery PROVE ControlInv'
  BY <1>13 DEF RefuseRecovery
<1>14. ASSUME FinishCommand PROVE ControlInv'
  <2>1. current \in DOMAIN commands /\ outcome \in {"done", "failed"}
    BY <1>14 DEF FinishCommand
  <2>2. commands' = [commands EXCEPT ![current].status = outcome]
    BY <1>14 DEF FinishCommand, Answered
  <2>3. commands[current] \in Row
    BY <2>1
  <2>4. commands' \in Seq(Row) /\ DOMAIN commands' = DOMAIN commands
    BY <2>1, <2>2, <2>3 DEF Row
  <2>5. batch \subseteq {j \in DOMAIN commands' : commands'[j].status = "pending"}
    BY <1>14, <2>1, <2>2, <2>4 DEF FinishCommand
  <2> QED
    BY <1>14, <2>4, <2>5 DEF FinishCommand
<1>15. ASSUME BatchDone PROVE ControlInv'
  BY <1>15 DEF BatchDone
<1> QED
  BY <1>1, <1>2, <1>3, <1>4, <1>5, <1>6, <1>7, <1>8, <1>9, <1>10, <1>11, <1>12, <1>13,
     <1>14, <1>15

\* The steps of engine.event and of what follows it in the loop body.
LEMMA EventInv ==
  ASSUME ControlInv,
         \/ NoDecision \/ EventKills \/ FreshBook \/ ManageMakers \/ Decide
         \/ HoldOrPass \/ DecideEntry \/ DecideStop \/ Send \/ Acknowledge \/ SubmitAccepted
         \/ SubmitFails \/ EndTick \/ KillCheck \/ CancelReturns \/ FlattenReturns
  PROVE  ControlInv'
<1> USE DEF ControlInv, TypeOK, StoreTypeOK, HandlingTypeOK, ServiceTypeOK, HistoryTypeOK,
            LatchesPause, GenerationBound, HandlingInv,
            store, latches, handling, service, account, peers, history,
            StoreQuiet, Goto, Pass, Kill, RiskKill, EmergencyExitFailed, Conclude,
            ProgramPoints, Loop, Batch, Tick
<1>1. ASSUME NoDecision PROVE ControlInv'
  BY <1>1 DEF NoDecision
<1>2. ASSUME EventKills PROVE ControlInv'
  BY <1>2 DEF EventKills
<1>3. ASSUME FreshBook PROVE ControlInv'
  BY <1>3 DEF FreshBook
<1>4. ASSUME ManageMakers PROVE ControlInv'
  BY <1>4, AccountType DEF ManageMakers
<1>5. ASSUME Decide PROVE ControlInv'
  BY <1>5 DEF Decide
<1>6. ASSUME DecideEntry PROVE ControlInv'
  BY <1>6 DEF DecideEntry
<1>7. ASSUME DecideStop PROVE ControlInv'
  <2>1. CASE RiskKill
    BY <1>7, <2>1 DEF DecideStop
  <2>2. CASE ~RiskKill
    <3>1. paused' = TRUE /\ stopMark' = Len(commands)
      BY <1>7, <2>2 DEF DecideStop
    <3>2. Len(commands) \in Nat
      <4>1. commands \in Seq(Row)
        OBVIOUS
      <4> HIDE DEF ControlInv
      <4> QED
        BY <4>1
    <3> QED
      BY <1>7, <2>2, <3>1, <3>2 DEF DecideStop
  <2> QED
    BY <2>1, <2>2
<1>8. ASSUME Send PROVE ControlInv'
  BY <1>8 DEF Send
<1>9. ASSUME Acknowledge PROVE ControlInv'
  BY <1>9 DEF Acknowledge
<1>10. ASSUME SubmitAccepted PROVE ControlInv'
  BY <1>10, AccountType DEF SubmitAccepted
<1>11. ASSUME SubmitFails PROVE ControlInv'
  <2>1. CASE RiskKill
    BY <1>11, <2>1 DEF SubmitFails
  <2>2. CASE StoreQuiet
    BY <1>11, <2>2 DEF SubmitFails
  <2> QED
    BY <1>11, <2>1, <2>2 DEF SubmitFails
<1>12. ASSUME EndTick PROVE ControlInv'
  <2>1. flattenRequested' \in BOOLEAN /\ (flattenRequested' => flattenRequested)
    BY <1>12 DEF EndTick
  <2> QED
    BY <1>12, <2>1 DEF EndTick
<1>13. ASSUME KillCheck PROVE ControlInv'
  BY <1>13 DEF KillCheck, AfterBody
<1>14. ASSUME CancelReturns PROVE ControlInv'
  <2>1. entry' \in {"none", "intent", "sent", "acknowledged"} /\ position' \in BOOLEAN
    BY <1>14, AccountType DEF CancelReturns
  <2>2. pc' \in {"tick", "killFlatten", "ending", "killCheck"}
    BY <1>14 DEF CancelReturns
  <2>3. book' \in {"invalid", "fresh", "stale"}
    BY <1>14 DEF CancelReturns
  <2> QED
    BY <1>14, <2>1, <2>2, <2>3 DEF CancelReturns
<1>15. ASSUME FlattenReturns PROVE ControlInv'
  <2>1. CASE StoreQuiet
    BY <1>15, <2>1, AccountType DEF FlattenReturns
  <2>2. CASE RiskKill
    BY <1>15, <2>2, AccountType DEF FlattenReturns
  <2> QED
    BY <1>15, <2>1, <2>2 DEF FlattenReturns, QuietOrDust, DustKill
<1>16. ASSUME HoldOrPass PROVE ControlInv'
  <2>1. CASE StoreQuiet
    BY <1>16, <2>1, AccountType DEF HoldOrPass
  <2>2. CASE RiskKill
    BY <1>16, <2>2, AccountType DEF HoldOrPass
  <2> QED
    BY <1>16, <2>1, <2>2 DEF HoldOrPass, QuietOrDust, DustKill
<1> QED
  BY <1>1, <1>2, <1>3, <1>4, <1>5, <1>6, <1>7, <1>8, <1>9, <1>10, <1>11, <1>12, <1>13,
     <1>14, <1>15, <1>16

\* Start, stop, crash and the tasks beside the main one.
LEMMA LifeInv ==
  ASSUME ControlInv,
         \/ StartReconciled \/ StartRefused \/ Started \/ Closing \/ CloseLocks
         \/ CloseFails \/ CloseCompletes \/ Start \/ Crash \/ Signal \/ QueueOverflow
         \/ BookAges
  PROVE  ControlInv'
<1> USE DEF ControlInv, TypeOK, StoreTypeOK, HandlingTypeOK, ServiceTypeOK, HistoryTypeOK,
            LatchesPause, GenerationBound, HandlingInv,
            store, latches, handling, service, account, peers, history,
            StoreQuiet, Goto, Pass, Kill, RiskKill, EmergencyExitFailed, Conclude,
            ProgramPoints, Loop, Batch, Tick
<1>1. ASSUME StartReconciled PROVE ControlInv'
  <2>1. entry' \in {"none", "intent", "sent", "acknowledged"} /\ position' \in BOOLEAN
    BY <1>1, AccountType DEF StartReconciled
  <2>2. CASE runtimeWasRunning
    BY <1>1, <2>1, <2>2 DEF StartReconciled, LatchPriorDeath
  <2>3. CASE ~runtimeWasRunning
    BY <1>1, <2>1, <2>3 DEF StartReconciled, LatchPriorDeath
  <2> QED
    BY <2>2, <2>3
<1>2. ASSUME StartRefused PROVE ControlInv'
  BY <1>2 DEF StartRefused
<1>3. ASSUME Started PROVE ControlInv'
  BY <1>3 DEF Started
<1>4. ASSUME Closing PROVE ControlInv'
  BY <1>4 DEF Closing
<1>5. ASSUME CloseLocks PROVE ControlInv'
  BY <1>5 DEF CloseLocks
<1>6. ASSUME CloseFails PROVE ControlInv'
  <2>1. entry' \in {"none", "intent", "sent", "acknowledged"} /\ position' \in BOOLEAN
    BY <1>6, AccountType DEF CloseFails
  <2> QED
    BY <1>6, <2>1 DEF CloseFails, EndsUnclean
<1>7. ASSUME CloseCompletes PROVE ControlInv'
  <2>1. entry' \in {"none", "intent", "sent", "acknowledged"} /\ position' \in BOOLEAN
    BY <1>7, AccountType DEF CloseCompletes
  <2>2. CASE position'
    BY <1>7, <2>1, <2>2 DEF CloseCompletes, CloseVerdict, EndsUnclean
  <2>3. CASE ~position'
    BY <1>7, <2>1, <2>3 DEF CloseCompletes, CloseVerdict
  <2> QED
    BY <2>2, <2>3
<1>8. ASSUME Start PROVE ControlInv'
  <2>1. Len(commands) \in Nat
    <3>1. commands \in Seq(Row)
      OBVIOUS
    <3> HIDE DEF ControlInv
    <3> QED
      BY <3>1
  <2>2. StoreTypeOK'
    BY <1>8, <2>1 DEF Start
  <2>3. HandlingTypeOK'
    BY <1>8, <2>1 DEF Start
  <2>4. ServiceTypeOK'
    BY <1>8, <2>1 DEF Start
  <2>5. HistoryTypeOK'
    BY <1>8, <2>1 DEF Start
  <2>6. LatchesPause'
    BY <1>8, <2>1 DEF Start
  <2>7. GenerationBound'
    BY <1>8, <2>1 DEF Start
  <2>8. HandlingInv'
    BY <1>8, <2>1 DEF Start
  <2> QED
    BY <2>2, <2>3, <2>4, <2>5, <2>6, <2>7, <2>8
<1>9. ASSUME Crash PROVE ControlInv'
  <2>1. unclean' \in BOOLEAN
    BY <1>9 DEF Crash
  <2>2. lock' \in {"free", "runtime", "guardian"}
    BY <1>9 DEF Crash
  <2>3. StoreTypeOK'
    BY <1>9, <2>1, <2>2 DEF Crash
  <2>4. HandlingTypeOK'
    BY <1>9, <2>1, <2>2 DEF Crash
  <2>5. ServiceTypeOK'
    BY <1>9, <2>1, <2>2 DEF Crash
  <2>6. HistoryTypeOK'
    BY <1>9, <2>1, <2>2 DEF Crash
  <2>7. LatchesPause'
    BY <1>9, <2>1, <2>2 DEF Crash
  <2>8. GenerationBound'
    BY <1>9, <2>1, <2>2 DEF Crash
  <2>9. HandlingInv'
    BY <1>9, <2>1, <2>2 DEF Crash
  <2> QED
    BY <2>3, <2>4, <2>5, <2>6, <2>7, <2>8, <2>9
<1>10. ASSUME Signal PROVE ControlInv'
  BY <1>10 DEF Signal
<1>11. ASSUME QueueOverflow PROVE ControlInv'
  BY <1>11 DEF QueueOverflow
<1>12. ASSUME BookAges PROVE ControlInv'
  BY <1>12 DEF BookAges
<1> QED
  BY <1>1, <1>2, <1>3, <1>4, <1>5, <1>6, <1>7, <1>8, <1>9, <1>10, <1>11, <1>12

\* The steps of the guardian process.
LEMMA GuardianInv ==
  ASSUME ControlInv,
         \/ GuardianLooks \/ GuardianLocks \/ GuardianHelps
  PROVE  ControlInv'
<1> USE DEF ControlInv, TypeOK, StoreTypeOK, HandlingTypeOK, ServiceTypeOK, HistoryTypeOK,
            LatchesPause, GenerationBound, HandlingInv,
            store, latches, handling, service, account, peers, history,
            StoreQuiet, Goto, Pass, Kill, RiskKill, EmergencyExitFailed, Conclude,
            ProgramPoints, Loop, Batch, Tick
<1>1. ASSUME GuardianLooks PROVE ControlInv'
  BY <1>1 DEF GuardianLooks
<1>2. ASSUME GuardianLocks PROVE ControlInv'
  BY <1>2 DEF GuardianLocks
<1>3. ASSUME GuardianHelps PROVE ControlInv'
  <2>1. entry' \in {"none", "intent", "sent", "acknowledged"} /\ position' \in BOOLEAN
    BY <1>3, AccountType DEF GuardianHelps
  <2>2. CASE StoreQuiet
    BY <1>3, <2>1, <2>2 DEF GuardianHelps
  <2>3. CASE EmergencyExitFailed
    BY <1>3, <2>1, <2>3 DEF GuardianHelps
  <2>4. CASE RiskKill
    BY <1>3, <2>1, <2>4 DEF GuardianHelps
  <2> QED
    BY <1>3, <2>2, <2>3, <2>4 DEF GuardianHelps, QuietOrDust, DustKill
<1> QED
  BY <1>1, <1>2, <1>3

LEMMA InitInv == Init => ControlInv
<1> SUFFICES ASSUME Init PROVE ControlInv
  OBVIOUS
<1>1. commands = <<>> /\ DOMAIN commands = {} /\ commands \in Seq(Row)
  BY DEF Init
<1>2. TypeOK
  BY <1>1 DEF Init, TypeOK, StoreTypeOK, HandlingTypeOK, ServiceTypeOK, HistoryTypeOK,
              ProgramPoints
<1>3. LatchesPause /\ GenerationBound
  BY DEF Init, LatchesPause, GenerationBound
<1>4. HandlingInv
  BY DEF Init, HandlingInv, Batch
<1> QED
  BY <1>2, <1>3, <1>4 DEF ControlInv

LEMMA StepInv == ControlInv /\ [Next]_vars => ControlInv'
<1> SUFFICES ASSUME ControlInv, [Next]_vars PROVE ControlInv'
  OBVIOUS
<1>1. CASE RuntimeStep
  BY <1>1, LoopInv, BatchInv, EventInv, LifeInv DEF RuntimeStep
<1>2. CASE AcquireLock
  BY <1>2, LoopInv
<1>3. CASE GuardianStep
  BY <1>3, GuardianInv DEF GuardianStep
<1>4. CASE Environment
  BY <1>4, CommandInv, LifeInv DEF Environment
<1>5. CASE UNCHANGED vars
  BY <1>5 DEF vars, store, latches, handling, service, account, peers, history,
              ControlInv, TypeOK, StoreTypeOK, HandlingTypeOK, ServiceTypeOK, HistoryTypeOK,
              LatchesPause, GenerationBound, HandlingInv
<1> QED
  BY <1>1, <1>2, <1>3, <1>4, <1>5 DEF Next

\* What the theorems about the control plane rest on: the locals of process_commands and
\* of run hold, at each await, what the statements before it have left in them.
THEOREM Invariance == Spec => []ControlInv
<1> QED
  BY InitInv, StepInv, PTL DEF Spec

\* Every reachable state of the control plane is well typed, and the batch that
\* process_commands works through holds only rows that are still pending.
THEOREM TypeCorrect == Spec => []TypeOK
<1>1. ControlInv => TypeOK
  BY DEF ControlInv
<1> QED
  BY <1>1, Invariance, PTL

\* Neither the kill latch nor a flatten request is ever set while the strategy is
\* unpaused, whatever operators, guardian, runtime and crashes do in between
\* (Store.kill, Store.command, process_commands, Controller.flatten).
THEOREM LatchesAlwaysPause == Spec => []LatchesPause
<1>1. ControlInv => LatchesPause
  BY DEF ControlInv
<1> QED
  BY <1>1, Invariance, PTL

-----------------------------------------------------------------------------
(* The control plane implements the abstract latch                         *)

Recovering == pc \in {"cmdRecover", "cmdCommit"}

LatchStep == [Latch!LatchNext]_(Latch!latchVars)

LEMMA AttemptNone == (~Recovering => Attempt = "none") /\ (~Recovering' => Attempt' = "none")
  BY DEF Recovering, Attempt

\* A stop that advances the generation voids the recovery under way.
LEMMA KillRefines ==
  ASSUME ControlInv, Kill, flattenRequested' \in {flattenRequested, TRUE},
         generation' = generation
  PROVE  LatchStep
<1>1. Attempt' = "none"
  <2>1. generation' # controlGeneration'
    BY DEF ControlInv, GenerationBound, TypeOK, StoreTypeOK, HandlingTypeOK, Kill
  <2> QED
    BY <2>1 DEF Attempt, ControlUnchanged
<1> QED
  BY <1>1 DEF Kill, LatchStep, Latch!LatchNext, Latch!Stop

\* A step outside the two awaiting points that leaves the latches alone abandons
\* whatever was attempted.
LEMMA QuietRefines ==
  ASSUME UNCHANGED latches, ~Recovering'
  PROVE  LatchStep
BY AttemptNone DEF latches, LatchStep, Latch!LatchNext, Latch!Abandon

\* A step beside the recovery leaves it as it is.
LEMMA KeepRefines ==
  ASSUME UNCHANGED <<latches, commands, current, generation>>, Recovering' <=> Recovering
  PROVE  LatchStep
<1>1. Attempt' = Attempt
  BY DEF latches, Attempt, ControlUnchanged, NewerStop, Recovering
<1> QED
  BY <1>1 DEF latches, LatchStep, Latch!latchVars

\* The steps that latch a kill.
LEMMA KillsRefine ==
  ASSUME ControlInv,
         \/ CheckKills \/ FlattenRaises \/ HandleError \/ EventKills \/ QueueOverflow
         \/ GuardianLocks
  PROVE  LatchStep
<1> USE DEF RiskKill, EmergencyExitFailed, handling
<1>1. ASSUME CheckKills PROVE LatchStep
  BY <1>1, KillRefines DEF CheckKills
<1>2. ASSUME FlattenRaises PROVE LatchStep
  BY <1>2, KillRefines DEF FlattenRaises
<1>3. ASSUME HandleError PROVE LatchStep
  BY <1>3, KillRefines DEF HandleError
<1>4. ASSUME EventKills PROVE LatchStep
  BY <1>4, KillRefines DEF EventKills
<1>5. ASSUME QueueOverflow PROVE LatchStep
  BY <1>5, KillRefines DEF QueueOverflow
<1>6. ASSUME GuardianLocks PROVE LatchStep
  BY <1>6, KillRefines DEF GuardianLocks
<1> QED
  BY <1>1, <1>2, <1>3, <1>4, <1>5, <1>6

\* The steps that touch no latch and await no recovery afterwards.
LEMMA QuietRefine ==
  ASSUME ControlInv,
         \/ Raise \/ EndIteration \/ AcquireLock \/ ReadCommands
         \/ CommandCancels \/ RefuseRecovery \/ FinishCommand
         \/ BatchDone \/ NoDecision \/ FreshBook \/ ManageMakers \/ Decide
         \/ DecideEntry \/ Send \/ Acknowledge \/ SubmitAccepted \/ KillCheck
         \/ CancelReturns \/ StartRefused \/ Started \/ Closing
         \/ CloseLocks \/ CloseFails \/ Start \/ Crash
  PROVE  LatchStep
<1> USE DEF Recovering, StoreQuiet, Goto, Pass, store, latches, Conclude, AfterBody
<1>1. ASSUME Raise PROVE LatchStep
  BY <1>1, QuietRefines DEF Raise
<1>2. ASSUME EndIteration PROVE LatchStep
  BY <1>2, QuietRefines DEF EndIteration
<1>3. ASSUME AcquireLock PROVE LatchStep
  BY <1>3, QuietRefines DEF AcquireLock
<1>4. ASSUME ReadCommands PROVE LatchStep
  BY <1>4, QuietRefines DEF ReadCommands
<1>5. ASSUME CommandCancels PROVE LatchStep
  BY <1>5, QuietRefines DEF CommandCancels
<1>6. ASSUME RefuseRecovery PROVE LatchStep
  BY <1>6, QuietRefines DEF RefuseRecovery
<1>7. ASSUME FinishCommand PROVE LatchStep
  BY <1>7, QuietRefines DEF FinishCommand
<1>8. ASSUME BatchDone PROVE LatchStep
  BY <1>8, QuietRefines DEF BatchDone
<1>9. ASSUME NoDecision PROVE LatchStep
  BY <1>9, QuietRefines DEF NoDecision
<1>10. ASSUME FreshBook PROVE LatchStep
  BY <1>10, QuietRefines DEF FreshBook
<1>11. ASSUME ManageMakers PROVE LatchStep
  BY <1>11, QuietRefines DEF ManageMakers
<1>12. ASSUME Decide PROVE LatchStep
  BY <1>12, QuietRefines DEF Decide
<1>13. ASSUME DecideEntry PROVE LatchStep
  BY <1>13, QuietRefines DEF DecideEntry
<1>14. ASSUME Send PROVE LatchStep
  BY <1>14, QuietRefines DEF Send
<1>15. ASSUME Acknowledge PROVE LatchStep
  BY <1>15, QuietRefines DEF Acknowledge
<1>16. ASSUME SubmitAccepted PROVE LatchStep
  BY <1>16, QuietRefines DEF SubmitAccepted
<1>17. ASSUME KillCheck PROVE LatchStep
  BY <1>17, QuietRefines DEF KillCheck
<1>18. ASSUME CancelReturns PROVE LatchStep
  BY <1>18, QuietRefines DEF CancelReturns
<1>19. ASSUME StartRefused PROVE LatchStep
  BY <1>19, QuietRefines DEF StartRefused
<1>20. ASSUME Started PROVE LatchStep
  BY <1>20, QuietRefines DEF Started
<1>21. ASSUME Closing PROVE LatchStep
  BY <1>21, QuietRefines DEF Closing
<1>22. ASSUME CloseLocks PROVE LatchStep
  BY <1>22, QuietRefines DEF CloseLocks
<1>23. ASSUME CloseFails PROVE LatchStep
  BY <1>23, QuietRefines DEF CloseFails
<1>24. ASSUME Start PROVE LatchStep
  BY <1>24, QuietRefines DEF Start
<1>25. ASSUME Crash PROVE LatchStep
  BY <1>25, QuietRefines DEF Crash
<1> QED
  BY <1>1, <1>2, <1>3, <1>4, <1>5, <1>6, <1>7, <1>8, <1>9, <1>10, <1>11, <1>12, <1>13, <1>14, <1>15, <1>16, <1>17, <1>18, <1>19, <1>20, <1>21, <1>22, <1>23, <1>24, <1>25

\* The steps beside a recovery, and its reconciliation.
LEMMA KeepRefine ==
  ASSUME ControlInv,
         \/ RecoveryReconciles \/ Signal \/ BookAges \/ GuardianLooks
  PROVE  LatchStep
<1> USE DEF Recovering, StoreQuiet, Goto, Pass, store, handling
<1>1. ASSUME RecoveryReconciles PROVE LatchStep
  BY <1>1, KeepRefines DEF RecoveryReconciles
<1>2. ASSUME Signal PROVE LatchStep
  BY <1>2, KeepRefines DEF Signal
<1>3. ASSUME BookAges PROVE LatchStep
  BY <1>3, KeepRefines DEF BookAges
<1>4. ASSUME GuardianLooks PROVE LatchStep
  BY <1>4, KeepRefines DEF GuardianLooks
<1> QED
  BY <1>1, <1>2, <1>3, <1>4

\* Store.command: a stop is a Stop, a recovery command only waits in the queue.
LEMMA CommandRefines ==
  ASSUME ControlInv, NEW a \in OperatorActions, Command(a)
  PROVE  LatchStep
<1>1. /\ DOMAIN commands' = DOMAIN commands \cup {Len(commands) + 1}
      /\ \A i \in DOMAIN commands : commands'[i] = commands[i]
      /\ commands'[Len(commands) + 1].action = a
  BY CommandRow DEF ControlInv, TypeOK, StoreTypeOK
<1>2. UNCHANGED <<pc, current, generation>>
  BY DEF Command, handling
<1>3. CASE a \in StopActions
  <2>1. paused' = TRUE /\ controlGeneration' = controlGeneration + 1
    BY <1>3 DEF Command
  <2>2. killed' \in {killed, TRUE} /\ flattenRequested' \in {flattenRequested, TRUE}
    BY DEF Command, ControlInv, TypeOK, StoreTypeOK
  <2>3. Attempt' = "none"
    <3>1. generation' # controlGeneration'
      BY <1>2, <2>1 DEF ControlInv, GenerationBound, TypeOK, StoreTypeOK, HandlingTypeOK
    <3> QED
      BY <3>1 DEF Attempt, ControlUnchanged
  <2> QED
    BY <2>1, <2>2, <2>3 DEF LatchStep, Latch!LatchNext, Latch!Stop
<1>4. CASE a \notin StopActions
  <2>1. UNCHANGED <<paused, controlGeneration>>
    BY <1>4 DEF Command
  <2>2. killed' = killed /\ flattenRequested' = flattenRequested
    BY <1>4 DEF Command, StopActions, ControlInv, TypeOK, StoreTypeOK
  <2>3. Attempt' = Attempt
    <3>1. CASE ~Recovering
      BY <3>1, <1>2, AttemptNone DEF Recovering
    <3>2. CASE Recovering
      <4>1. current \in DOMAIN commands
        BY <3>2 DEF Recovering, ControlInv, HandlingInv, Batch
      <4>2. NewerStop(current)' = NewerStop(current)
        BY <1>1, <1>2, <1>4 DEF NewerStop
      <4>3. commands'[current'].action = commands[current].action
        BY <1>1, <1>2, <4>1
      <4> QED
        BY <1>2, <2>1, <4>2, <4>3 DEF Attempt, ControlUnchanged
    <3> QED
      BY <3>1, <3>2
  <2> QED
    BY <2>1, <2>2, <2>3 DEF LatchStep, Latch!latchVars
<1> QED
  BY <1>3, <1>4

\* The steps of process_commands that set or clear a latch.
LEMMA HandlingRefines ==
  ASSUME ControlInv,
         \/ \E i \in batch : BeginStop(i) \/ BeginFlatten(i) \/ BeginRecovery(i)
         \/ OperatorKill \/ RequestFlatten \/ CommandRaises
         \/ CommitResume \/ CommitReset
  PROVE  LatchStep
<1>1. ASSUME NEW i \in batch, BeginStop(i) PROVE LatchStep
  <2>1. Attempt' = "none"
    BY <1>1, AttemptNone DEF BeginStop, Recovering
  <2> QED
    BY <1>1, <2>1 DEF BeginStop, LatchStep, Latch!LatchNext, Latch!Stop
<1>2. ASSUME NEW i \in batch, BeginFlatten(i) PROVE LatchStep
  <2>1. Attempt' = "none"
    BY <1>2, AttemptNone DEF BeginFlatten, Recovering
  <2> QED
    BY <1>2, <2>1 DEF BeginFlatten, LatchStep, Latch!LatchNext, Latch!Stop
<1>3. ASSUME NEW i \in batch, BeginRecovery(i) PROVE LatchStep
  <2>1. Attempt = "none"
    BY <1>3, AttemptNone DEF BeginRecovery, Take, Recovering
  <2>2. commands' = commands /\ current' = i /\ UNCHANGED latches
    BY <1>3 DEF BeginRecovery, Take, StoreQuiet, store
  <2>3. Attempt' \in {"none", "resume", "reset-kill"}
    BY <1>3, <2>2 DEF BeginRecovery, Attempt, RecoveryActions
  <2> QED
    BY <2>1, <2>2, <2>3 DEF latches, LatchStep, Latch!LatchNext, Latch!Begin, Latch!Abandon
<1>4. ASSUME OperatorKill PROVE LatchStep
  BY <1>4, KillRefines DEF OperatorKill, handling
<1>5. ASSUME RequestFlatten PROVE LatchStep
  <2>1. Attempt' = "none"
    BY <1>5, AttemptNone DEF RequestFlatten, Recovering
  <2>2. paused
    BY <1>5 DEF RequestFlatten, ControlInv, HandlingInv
  <2>3. paused' = TRUE
    BY <1>5, <2>2 DEF RequestFlatten, ControlInv, TypeOK, StoreTypeOK
  <2> QED
    BY <1>5, <2>1, <2>3 DEF RequestFlatten, LatchStep, Latch!LatchNext, Latch!Stop
<1>6. ASSUME CommandRaises PROVE LatchStep
  <2>1. CASE pc = "cmdFlatten"
    BY <1>6, <2>1, KillRefines DEF CommandRaises, EmergencyExitFailed, Conclude
  <2>2. CASE pc # "cmdFlatten"
    BY <1>6, <2>2, QuietRefines DEF CommandRaises, Conclude, Recovering, StoreQuiet, store
  <2> QED
    BY <2>1, <2>2
<1>7. ASSUME CommitResume PROVE LatchStep
  <2>1. Attempt = "resume"
    BY <1>7 DEF CommitResume, MayResume, Attempt
  <2>2. Attempt' = "none"
    BY <1>7, AttemptNone DEF CommitResume, Conclude, Recovering
  <2> QED
    BY <1>7, <2>1, <2>2 DEF CommitResume, MayResume, LatchStep, Latch!LatchNext, Latch!Resume
<1>8. ASSUME CommitReset PROVE LatchStep
  <2>1. Attempt = "reset-kill"
    BY <1>8 DEF CommitReset, MayReset, Attempt
  <2>2. Attempt' = "none"
    BY <1>8, AttemptNone DEF CommitReset, Conclude, Recovering
  <2> QED
    BY <1>8, <2>1, <2>2 DEF CommitReset, Conclude, LatchStep, Latch!LatchNext, Latch!Reset
<1> QED
  BY <1>1, <1>2, <1>3, <1>4, <1>5, <1>6, <1>7, <1>8

\* The remaining steps, which may latch a kill, pause, or end a reduction.
LEMMA OthersRefine ==
  ASSUME ControlInv,
         \/ DecideStop \/ SubmitFails \/ EndTick \/ StartReconciled \/ CloseCompletes
         \/ GuardianHelps \/ LoopReconcile \/ CommandFlattens \/ FlattenReturns \/ HoldOrPass
  PROVE  LatchStep
<1>1. ASSUME DecideStop PROVE LatchStep
  <2>1. CASE RiskKill
    BY <1>1, <2>1, KillRefines DEF DecideStop, RiskKill, handling
  <2>2. CASE ~RiskKill
    <3>1. Attempt' = "none"
      BY <1>1, AttemptNone DEF DecideStop, Recovering
    <3> QED
      BY <1>1, <2>2, <3>1 DEF DecideStop, LatchStep, Latch!LatchNext, Latch!Stop
  <2> QED
    BY <2>1, <2>2
<1>2. ASSUME SubmitFails PROVE LatchStep
  <2>1. CASE RiskKill
    BY <1>2, <2>1, KillRefines DEF SubmitFails, RiskKill, handling
  <2>2. CASE StoreQuiet
    BY <1>2, <2>2, QuietRefines DEF SubmitFails, StoreQuiet, store, Recovering
  <2> QED
    BY <1>2, <2>1, <2>2 DEF SubmitFails
<1>3. ASSUME EndTick PROVE LatchStep
  <2>1. Attempt = "none" /\ Attempt' = "none"
    BY <1>3, AttemptNone DEF EndTick, Recovering
  <2>2. flattenRequested' \in {flattenRequested, FALSE}
    BY <1>3 DEF EndTick, ControlInv, TypeOK, StoreTypeOK
  <2>3. UNCHANGED <<killed, paused>>
    BY <1>3 DEF EndTick
  <2> QED
    BY <2>1, <2>2, <2>3 DEF LatchStep, Latch!LatchNext, Latch!Flat, Latch!Abandon
<1>4. ASSUME StartReconciled PROVE LatchStep
  <2>1. CASE RiskKill
    BY <1>4, <2>1, KillRefines DEF StartReconciled, RiskKill, LatchPriorDeath, handling
  <2>2. CASE StoreQuiet
    BY <1>4, <2>2, QuietRefines DEF StartReconciled, LatchPriorDeath, StoreQuiet, store, Recovering
  <2> QED
    BY <1>4, <2>1, <2>2 DEF StartReconciled, LatchPriorDeath
<1>5. ASSUME CloseCompletes PROVE LatchStep
  <2>1. CASE position'
    BY <1>5, <2>1, KillRefines DEF CloseCompletes, CloseVerdict, handling
  <2>2. CASE ~position'
    BY <1>5, <2>2, QuietRefines DEF CloseCompletes, CloseVerdict, latches, Recovering
  <2> QED
    BY <2>1, <2>2
<1>6. ASSUME GuardianHelps PROVE LatchStep
  <2>1. CASE StoreQuiet
    BY <1>6, <2>1, KeepRefines DEF GuardianHelps, StoreQuiet, store, handling, Recovering
  <2>2. CASE EmergencyExitFailed
    BY <1>6, <2>2, KillRefines DEF GuardianHelps, EmergencyExitFailed, handling
  <2>3. CASE RiskKill
    BY <1>6, <2>3, KillRefines DEF GuardianHelps, RiskKill, handling
  <2> QED
    BY <1>6, <2>1, <2>2, <2>3 DEF GuardianHelps, QuietOrDust, DustKill
<1>7. ASSUME LoopReconcile PROVE LatchStep
  <2>1. CASE StoreQuiet
    BY <1>7, <2>1, QuietRefines DEF LoopReconcile, StoreQuiet, store, Recovering
  <2>2. CASE RiskKill
    BY <1>7, <2>2, KillRefines DEF LoopReconcile, RiskKill, handling
  <2> QED
    BY <1>7, <2>1, <2>2 DEF LoopReconcile, QuietOrDust, DustKill
<1>8. ASSUME CommandFlattens PROVE LatchStep
  <2>1. CASE StoreQuiet
    BY <1>8, <2>1, QuietRefines DEF CommandFlattens, StoreQuiet, store, Recovering, Conclude
  <2>2. CASE RiskKill
    BY <1>8, <2>2, KillRefines DEF CommandFlattens, RiskKill, Conclude
  <2> QED
    BY <1>8, <2>1, <2>2 DEF CommandFlattens, QuietOrDust, DustKill
<1>9. ASSUME FlattenReturns PROVE LatchStep
  <2>1. CASE StoreQuiet
    BY <1>9, <2>1, QuietRefines DEF FlattenReturns, StoreQuiet, store, Recovering
  <2>2. CASE RiskKill
    BY <1>9, <2>2, KillRefines DEF FlattenReturns, RiskKill, handling
  <2> QED
    BY <1>9, <2>1, <2>2 DEF FlattenReturns, QuietOrDust, DustKill
<1>10. ASSUME HoldOrPass PROVE LatchStep
  <2>1. CASE StoreQuiet
    BY <1>10, <2>1, QuietRefines DEF HoldOrPass, StoreQuiet, store, Recovering
  <2>2. CASE RiskKill
    BY <1>10, <2>2, KillRefines DEF HoldOrPass, RiskKill, handling
  <2> QED
    BY <1>10, <2>1, <2>2 DEF HoldOrPass, QuietOrDust, DustKill
<1> QED
  BY <1>1, <1>2, <1>3, <1>4, <1>5, <1>6, <1>7, <1>8, <1>9, <1>10

LEMMA InitRefines == Init => Latch!LatchInit
  BY DEF Init, Latch!LatchInit, Attempt

LEMMA StepRefines == ControlInv /\ [Next]_vars => LatchStep
<1> SUFFICES ASSUME ControlInv, [Next]_vars PROVE LatchStep
  OBVIOUS
<1>1. CASE RuntimeStep
  BY <1>1, KillsRefine, QuietRefine, KeepRefine, HandlingRefines, OthersRefine
     DEF RuntimeStep
<1>2. CASE AcquireLock
  BY <1>2, QuietRefine
<1>3. CASE GuardianStep
  BY <1>3, KillsRefine, KeepRefine, OthersRefine DEF GuardianStep
<1>4. CASE Environment
  BY <1>4, CommandRefines, QuietRefine, KillsRefine, KeepRefine DEF Environment
<1>5. CASE UNCHANGED vars
  BY <1>5, KeepRefines DEF vars, store, handling, Recovering
<1> QED
  BY <1>1, <1>2, <1>3, <1>4, <1>5 DEF Next

\* The durable latches, the command queue and its generation, with any number of
\* operators, the guardian, crashes and restarts, behave as one abstract latch on
\* which a stop voids the recovery under way (Store.assert_control_unchanged and
\* the transactions of process_commands).
THEOREM ControlPlaneImplementsLatch == Spec => ImplementsLatch
<1>1. ControlInv /\ [Next]_vars => [Latch!LatchNext]_(Latch!latchVars)
  BY StepRefines DEF LatchStep
<1> QED
  BY <1>1, InitRefines, Invariance, PTL DEF Spec, ImplementsLatch, Latch!LatchSpec

-----------------------------------------------------------------------------
(* At most one late entry                                                  *)

\* While entries are allowed none has been late, and one that is about to leave the
\* host was decided when they were.
LateInv ==
  /\ lateEntries \in {0, 1}
  /\ ~paused => lateEntries = 0
  /\ pc = "sending" => lateEntries = 0

\* No step of the loop unpauses, sends or decides an entry.
LEMMA LateLoop ==
  ASSUME StoreTypeOK, LateInv,
         \/ LoopReconcile \/ CheckKills \/ Raise \/ FlattenRaises \/ HandleError
         \/ EndIteration \/ AcquireLock
  PROVE  LateInv'
<1> USE DEF LateInv, StoreTypeOK, StoreQuiet, Goto, Pass, Kill, RiskKill, EmergencyExitFailed,
            Conclude, store, latches, history
<1>1. ASSUME LoopReconcile PROVE LateInv'
  <2>1. CASE StoreQuiet
    BY <1>1, <2>1 DEF LoopReconcile
  <2>2. CASE RiskKill
    BY <1>1, <2>2 DEF LoopReconcile
  <2> QED
    BY <1>1, <2>1, <2>2 DEF LoopReconcile, QuietOrDust, DustKill
<1>2. ASSUME CheckKills PROVE LateInv'
  BY <1>2 DEF CheckKills
<1>3. ASSUME Raise PROVE LateInv'
  BY <1>3 DEF Raise
<1>4. ASSUME FlattenRaises PROVE LateInv'
  BY <1>4 DEF FlattenRaises
<1>5. ASSUME HandleError PROVE LateInv'
  BY <1>5 DEF HandleError
<1>6. ASSUME EndIteration PROVE LateInv'
  BY <1>6 DEF EndIteration
<1>7. ASSUME AcquireLock PROVE LateInv'
  BY <1>7 DEF AcquireLock
<1> QED
  BY <1>1, <1>2, <1>3, <1>4, <1>5, <1>6, <1>7

\* Of the commands only a resume unpauses, and it begins the count again.
LEMMA LateBatch ==
  ASSUME StoreTypeOK, LateInv,
         \/ ReadCommands
         \/ \E i \in batch : BeginStop(i)
         \/ \E i \in batch : BeginFlatten(i)
         \/ \E i \in batch : BeginRecovery(i)
         \/ OperatorKill \/ RequestFlatten \/ CommandCancels \/ CommandFlattens
         \/ RecoveryReconciles \/ CommandRaises \/ CommitResume \/ CommitReset
         \/ RefuseRecovery \/ FinishCommand \/ BatchDone
  PROVE  LateInv'
<1> USE DEF LateInv, StoreTypeOK, StoreQuiet, Goto, Pass, Kill, RiskKill, EmergencyExitFailed,
            Conclude, store, latches, history
<1>1. ASSUME ReadCommands PROVE LateInv'
  BY <1>1 DEF ReadCommands
<1>2. ASSUME NEW i \in batch, BeginStop(i) PROVE LateInv'
  BY <1>2 DEF BeginStop, Take, RecoveryActions
<1>3. ASSUME NEW i \in batch, BeginFlatten(i) PROVE LateInv'
  BY <1>3 DEF BeginFlatten, Take, RecoveryActions
<1>4. ASSUME NEW i \in batch, BeginRecovery(i) PROVE LateInv'
  BY <1>4 DEF BeginRecovery, Take, RecoveryActions
<1>5. ASSUME OperatorKill PROVE LateInv'
  BY <1>5 DEF OperatorKill
<1>6. ASSUME RequestFlatten PROVE LateInv'
  BY <1>6 DEF RequestFlatten
<1>7. ASSUME CommandCancels PROVE LateInv'
  BY <1>7 DEF CommandCancels
<1>8. ASSUME CommandFlattens PROVE LateInv'
  <2>1. CASE StoreQuiet
    BY <1>8, <2>1 DEF CommandFlattens
  <2>2. CASE RiskKill
    BY <1>8, <2>2 DEF CommandFlattens
  <2> QED
    BY <1>8, <2>1, <2>2 DEF CommandFlattens, QuietOrDust, DustKill
<1>9. ASSUME RecoveryReconciles PROVE LateInv'
  BY <1>9 DEF RecoveryReconciles
<1>10. ASSUME CommandRaises PROVE LateInv'
  <2>1. CASE pc = "cmdFlatten"
    BY <1>10, <2>1 DEF CommandRaises
  <2>2. CASE pc # "cmdFlatten"
    BY <1>10, <2>2 DEF CommandRaises
  <2> QED
    BY <2>1, <2>2
<1>11. ASSUME CommitResume PROVE LateInv'
  BY <1>11 DEF CommitResume
<1>12. ASSUME CommitReset PROVE LateInv'
  BY <1>12 DEF CommitReset
<1>13. ASSUME RefuseRecovery PROVE LateInv'
  BY <1>13 DEF RefuseRecovery
<1>14. ASSUME FinishCommand PROVE LateInv'
  BY <1>14 DEF FinishCommand
<1>15. ASSUME BatchDone PROVE LateInv'
  BY <1>15 DEF BatchDone
<1> QED
  BY <1>1, <1>2, <1>3, <1>4, <1>5, <1>6, <1>7, <1>8, <1>9, <1>10, <1>11, <1>12, <1>13,
     <1>14, <1>15

\* An entry is decided only while unpaused; the one under way is sent once.
LEMMA LateEvent ==
  ASSUME StoreTypeOK, LateInv,
         \/ NoDecision \/ EventKills \/ FreshBook \/ ManageMakers \/ Decide
         \/ HoldOrPass \/ DecideEntry \/ DecideStop \/ Send \/ Acknowledge \/ SubmitAccepted
         \/ SubmitFails \/ EndTick \/ KillCheck \/ CancelReturns \/ FlattenReturns
  PROVE  LateInv'
<1> USE DEF LateInv, StoreTypeOK, StoreQuiet, Goto, Pass, Kill, RiskKill, EmergencyExitFailed,
            Conclude, store, latches, history
<1>1. ASSUME NoDecision PROVE LateInv'
  BY <1>1 DEF NoDecision
<1>2. ASSUME EventKills PROVE LateInv'
  BY <1>2 DEF EventKills
<1>3. ASSUME FreshBook PROVE LateInv'
  BY <1>3 DEF FreshBook
<1>4. ASSUME ManageMakers PROVE LateInv'
  BY <1>4 DEF ManageMakers
<1>5. ASSUME Decide PROVE LateInv'
  BY <1>5 DEF Decide
<1>6. ASSUME DecideEntry PROVE LateInv'
  BY <1>6 DEF DecideEntry, EntryAuthorized, EntriesStopped
<1>7. ASSUME DecideStop PROVE LateInv'
  <2>1. CASE RiskKill
    BY <1>7, <2>1 DEF DecideStop
  <2>2. CASE ~RiskKill
    BY <1>7, <2>2 DEF DecideStop
  <2> QED
    BY <1>7, <2>1, <2>2 DEF DecideStop
<1>8. ASSUME Send PROVE LateInv'
  BY <1>8 DEF Send
<1>9. ASSUME Acknowledge PROVE LateInv'
  BY <1>9 DEF Acknowledge
<1>10. ASSUME SubmitAccepted PROVE LateInv'
  BY <1>10 DEF SubmitAccepted
<1>11. ASSUME SubmitFails PROVE LateInv'
  <2>1. CASE RiskKill
    BY <1>11, <2>1 DEF SubmitFails
  <2>2. CASE StoreQuiet
    BY <1>11, <2>2 DEF SubmitFails
  <2> QED
    BY <1>11, <2>1, <2>2 DEF SubmitFails
<1>12. ASSUME EndTick PROVE LateInv'
  BY <1>12 DEF EndTick
<1>13. ASSUME KillCheck PROVE LateInv'
  BY <1>13 DEF KillCheck, AfterBody
<1>14. ASSUME CancelReturns PROVE LateInv'
  BY <1>14 DEF CancelReturns
<1>15. ASSUME FlattenReturns PROVE LateInv'
  <2>1. CASE StoreQuiet
    BY <1>15, <2>1 DEF FlattenReturns
  <2>2. CASE RiskKill
    BY <1>15, <2>2 DEF FlattenReturns
  <2> QED
    BY <1>15, <2>1, <2>2 DEF FlattenReturns, QuietOrDust, DustKill
<1>16. ASSUME HoldOrPass PROVE LateInv'
  <2>1. CASE StoreQuiet
    BY <1>16, <2>1 DEF HoldOrPass
  <2>2. CASE RiskKill
    BY <1>16, <2>2 DEF HoldOrPass
  <2> QED
    BY <1>16, <2>1, <2>2 DEF HoldOrPass, QuietOrDust, DustKill
<1> QED
  BY <1>1, <1>2, <1>3, <1>4, <1>5, <1>6, <1>7, <1>8, <1>9, <1>10, <1>11, <1>12, <1>13,
     <1>14, <1>15, <1>16

\* Nothing is sent by starting or stopping.
LEMMA LateLife ==
  ASSUME StoreTypeOK, LateInv,
         \/ StartReconciled \/ StartRefused \/ Started \/ Closing \/ CloseLocks
         \/ CloseFails \/ CloseCompletes \/ Start \/ Crash \/ Signal \/ QueueOverflow
         \/ BookAges
  PROVE  LateInv'
<1> USE DEF LateInv, StoreTypeOK, StoreQuiet, Goto, Pass, Kill, RiskKill, EmergencyExitFailed,
            Conclude, store, latches, history
<1>1. ASSUME StartReconciled PROVE LateInv'
  <2>1. CASE RiskKill
    BY <1>1, <2>1 DEF StartReconciled, LatchPriorDeath
  <2>2. CASE StoreQuiet
    BY <1>1, <2>2 DEF StartReconciled, LatchPriorDeath
  <2> QED
    BY <1>1, <2>1, <2>2 DEF StartReconciled, LatchPriorDeath
<1>2. ASSUME StartRefused PROVE LateInv'
  BY <1>2 DEF StartRefused
<1>3. ASSUME Started PROVE LateInv'
  BY <1>3 DEF Started
<1>4. ASSUME Closing PROVE LateInv'
  BY <1>4 DEF Closing
<1>5. ASSUME CloseLocks PROVE LateInv'
  BY <1>5 DEF CloseLocks
<1>6. ASSUME CloseFails PROVE LateInv'
  BY <1>6 DEF CloseFails, EndsUnclean
<1>7. ASSUME CloseCompletes PROVE LateInv'
  <2>1. CASE position'
    BY <1>7, <2>1 DEF CloseCompletes, CloseVerdict, EndsUnclean
  <2>2. CASE ~position'
    BY <1>7, <2>2 DEF CloseCompletes, CloseVerdict
  <2> QED
    BY <2>1, <2>2
<1>8. ASSUME Start PROVE LateInv'
  BY <1>8 DEF Start
<1>9. ASSUME Crash PROVE LateInv'
  BY <1>9 DEF Crash
<1>10. ASSUME Signal PROVE LateInv'
  BY <1>10 DEF Signal
<1>11. ASSUME QueueOverflow PROVE LateInv'
  BY <1>11 DEF QueueOverflow
<1>12. ASSUME BookAges PROVE LateInv'
  BY <1>12 DEF BookAges
<1> QED
  BY <1>1, <1>2, <1>3, <1>4, <1>5, <1>6, <1>7, <1>8, <1>9, <1>10, <1>11, <1>12

\* The guardian sends no entry.
LEMMA LateGuardian ==
  ASSUME StoreTypeOK, LateInv,
         \/ GuardianLooks \/ GuardianLocks \/ GuardianHelps
  PROVE  LateInv'
<1> USE DEF LateInv, StoreTypeOK, StoreQuiet, Goto, Pass, Kill, RiskKill, EmergencyExitFailed,
            Conclude, store, latches, history
<1>1. ASSUME GuardianLooks PROVE LateInv'
  BY <1>1 DEF GuardianLooks
<1>2. ASSUME GuardianLocks PROVE LateInv'
  BY <1>2 DEF GuardianLocks
<1>3. ASSUME GuardianHelps PROVE LateInv'
  <2>1. CASE StoreQuiet
    BY <1>3, <2>1 DEF GuardianHelps
  <2>2. CASE EmergencyExitFailed
    BY <1>3, <2>2 DEF GuardianHelps
  <2>3. CASE RiskKill
    BY <1>3, <2>3 DEF GuardianHelps
  <2> QED
    BY <1>3, <2>1, <2>2, <2>3 DEF GuardianHelps, QuietOrDust, DustKill
<1> QED
  BY <1>1, <1>2, <1>3

LEMMA LateStep == StoreTypeOK /\ LateInv /\ [Next]_vars => LateInv'
<1> SUFFICES ASSUME StoreTypeOK, LateInv, [Next]_vars PROVE LateInv'
  OBVIOUS
<1>1. CASE RuntimeStep
  BY <1>1, LateLoop, LateBatch, LateEvent, LateLife DEF RuntimeStep
<1>2. CASE AcquireLock
  BY <1>2, LateLoop
<1>3. CASE GuardianStep
  BY <1>3, LateGuardian DEF GuardianStep
<1>4. CASE Environment
  <2>1. ASSUME NEW a \in OperatorActions, Command(a) PROVE LateInv'
    BY <2>1 DEF Command, LateInv, StoreTypeOK
  <2> QED
    BY <1>4, <2>1, LateLife DEF Environment
<1>5. CASE UNCHANGED vars
  BY <1>5 DEF vars, store, latches, history, LateInv
<1> QED
  BY <1>1, <1>2, <1>3, <1>4, <1>5 DEF Next

\* After a stop of any kind at most one entry still reaches the venue before the next
\* resume: Controller.place journals and sends one authorized order at a time, and
\* RiskEngine.authorize lets no other pass while paused.
THEOREM StopLetsOneEntryThrough == Spec => []AtMostOneLateEntry
<1>1. Init => LateInv
  BY DEF Init, LateInv
<1>2. ControlInv => StoreTypeOK
  BY DEF ControlInv, TypeOK
<1>3. LateInv => AtMostOneLateEntry
  BY DEF LateInv, AtMostOneLateEntry
<1> QED
  BY <1>1, <1>2, <1>3, LateStep, Invariance, PTL DEF Spec

-----------------------------------------------------------------------------
(* Ends and starts                                                         *)

\* Before the loop the running mark is that of the last life.
Outside == {"down", "starting", "booted"}

\* What an end leaves: without the mark there is no risk or it is latched, an order whose
\* state is open is latched or will be by the mark, and so is an unclean end.
MarkRemembers == pc \in {"down", "starting"} /\ runtimeWasRunning
EndInv ==
  /\ pc \notin Outside => runtimeWasRunning
  /\ ~runtimeWasRunning => killed \/ (entry = "none" /\ ~position)
  /\ entry = "acknowledged" => killed \/ pc = "submitting" \/ MarkRemembers
  /\ unclean => killed \/ MarkRemembers
  /\ unclean => pc \notin {"sending", "submitting"}

\* What the venue answers brings no risk where there was none, and no order whose state is
\* open but the one that was there.
LEMMA AnswerBringsNoRisk ==
  ASSUME ServiceTypeOK, Reconciled \/ Cancelled \/ Flattened \/ Protected \/ Interrupted
  PROVE  /\ entry = "none" /\ ~position => entry' = "none" /\ ~position'
         /\ entry' = "acknowledged" => entry = "acknowledged"
<1>1. CASE UNCHANGED account
  BY <1>1 DEF account
<1> QED
  BY <1>1 DEF Reconciled, Cancelled, Flattened, Protected, Interrupted, Working, ServiceTypeOK

\* A step within a life that sets no history keeps what its end will leave.
LEMMA EndQuiet ==
  ASSUME EndInv, UNCHANGED unclean, UNCHANGED runtimeWasRunning, killed => killed',
         entry = "none" /\ ~position => entry' = "none" /\ ~position',
         entry' = "acknowledged" => entry = "acknowledged",
         pc' = pc \/ (pc \notin Outside /\ pc # "submitting"
                        /\ pc' \notin Outside \cup {"sending", "submitting"})
  PROVE  EndInv'
BY DEF EndInv, MarkRemembers, Outside

LEMMA EndLoop ==
  ASSUME ControlInv, EndInv,
         \/ LoopReconcile \/ CheckKills \/ Raise \/ FlattenRaises \/ HandleError
         \/ EndIteration \/ AcquireLock
  PROVE  EndInv'
<1> USE AnswerBringsNoRisk, EndQuiet
        DEF StoreQuiet, Goto, Pass, Kill, RiskKill, EmergencyExitFailed,
            store, latches, history, account, service, ControlInv, TypeOK, Outside
<1>1. ASSUME LoopReconcile PROVE EndInv'
  <2>1. CASE StoreQuiet
    BY <1>1, <2>1 DEF LoopReconcile
  <2>2. CASE RiskKill
    BY <1>1, <2>2 DEF LoopReconcile
  <2> QED
    BY <1>1, <2>1, <2>2 DEF LoopReconcile, QuietOrDust, DustKill
<1>2. ASSUME CheckKills PROVE EndInv'
  BY <1>2 DEF CheckKills
<1>3. ASSUME Raise PROVE EndInv'
  BY <1>3 DEF Raise
<1>4. ASSUME FlattenRaises PROVE EndInv'
  BY <1>4 DEF FlattenRaises
<1>5. ASSUME HandleError PROVE EndInv'
  BY <1>5 DEF HandleError
<1>6. ASSUME EndIteration PROVE EndInv'
  BY <1>6 DEF EndIteration
<1>7. ASSUME AcquireLock PROVE EndInv'
  BY <1>7 DEF AcquireLock
<1> QED
  BY <1>1, <1>2, <1>3, <1>4, <1>5, <1>6, <1>7

LEMMA EndBatch ==
  ASSUME ControlInv, EndInv,
         \/ ReadCommands
         \/ \E i \in batch : BeginStop(i)
         \/ \E i \in batch : BeginFlatten(i)
         \/ \E i \in batch : BeginRecovery(i)
         \/ OperatorKill \/ RequestFlatten \/ CommandCancels \/ CommandFlattens
         \/ RecoveryReconciles \/ CommandRaises \/ CommitResume \/ CommitReset
         \/ RefuseRecovery \/ FinishCommand \/ BatchDone
  PROVE  EndInv'
<1> USE AnswerBringsNoRisk, EndQuiet
        DEF StoreQuiet, Goto, Pass, Kill, RiskKill, EmergencyExitFailed, Conclude,
            store, latches, history, account, service, ControlInv, TypeOK, Outside
<1>1. ASSUME ReadCommands PROVE EndInv'
  BY <1>1 DEF ReadCommands
<1>2. ASSUME NEW i \in batch, BeginStop(i) PROVE EndInv'
  BY <1>2 DEF BeginStop, Take
<1>3. ASSUME NEW i \in batch, BeginFlatten(i) PROVE EndInv'
  BY <1>3 DEF BeginFlatten, Take
<1>4. ASSUME NEW i \in batch, BeginRecovery(i) PROVE EndInv'
  BY <1>4 DEF BeginRecovery, Take
<1>5. ASSUME OperatorKill PROVE EndInv'
  BY <1>5 DEF OperatorKill
<1>6. ASSUME RequestFlatten PROVE EndInv'
  BY <1>6 DEF RequestFlatten
<1>7. ASSUME CommandCancels PROVE EndInv'
  BY <1>7 DEF CommandCancels
<1>8. ASSUME CommandFlattens PROVE EndInv'
  <2>1. CASE StoreQuiet
    BY <1>8, <2>1 DEF CommandFlattens
  <2>2. CASE RiskKill
    BY <1>8, <2>2 DEF CommandFlattens
  <2> QED
    BY <1>8, <2>1, <2>2 DEF CommandFlattens, QuietOrDust, DustKill
<1>9. ASSUME RecoveryReconciles PROVE EndInv'
  BY <1>9 DEF RecoveryReconciles
<1>10. ASSUME CommandRaises PROVE EndInv'
  <2>1. CASE pc = "cmdFlatten"
    BY <1>10, <2>1 DEF CommandRaises
  <2>2. CASE pc # "cmdFlatten"
    BY <1>10, <2>2 DEF CommandRaises
  <2> QED
    BY <2>1, <2>2
<1>11. ASSUME CommitResume PROVE EndInv'
  BY <1>11 DEF CommitResume
<1>12. ASSUME CommitReset PROVE EndInv'
  BY <1>12 DEF CommitReset, MayReset, EndInv, MarkRemembers
<1>13. ASSUME RefuseRecovery PROVE EndInv'
  BY <1>13 DEF RefuseRecovery
<1>14. ASSUME FinishCommand PROVE EndInv'
  BY <1>14 DEF FinishCommand
<1>15. ASSUME BatchDone PROVE EndInv'
  BY <1>15 DEF BatchDone
<1> QED
  BY <1>1, <1>2, <1>3, <1>4, <1>5, <1>6, <1>7, <1>8, <1>9, <1>10, <1>11, <1>12, <1>13,
     <1>14, <1>15

LEMMA EndEvent ==
  ASSUME ControlInv, EndInv,
         \/ NoDecision \/ EventKills \/ FreshBook \/ ManageMakers \/ Decide
         \/ HoldOrPass \/ DecideEntry \/ DecideStop \/ Send \/ Acknowledge \/ SubmitAccepted
         \/ SubmitFails \/ EndTick \/ KillCheck \/ CancelReturns \/ FlattenReturns
  PROVE  EndInv'
<1> USE AnswerBringsNoRisk, EndQuiet
        DEF StoreQuiet, Goto, Pass, Kill, RiskKill, EmergencyExitFailed, Conclude,
            store, latches, history, account, service, ControlInv, TypeOK, Outside
<1>1. ASSUME NoDecision PROVE EndInv'
  BY <1>1 DEF NoDecision
<1>2. ASSUME EventKills PROVE EndInv'
  BY <1>2 DEF EventKills
<1>3. ASSUME FreshBook PROVE EndInv'
  BY <1>3 DEF FreshBook
<1>4. ASSUME ManageMakers PROVE EndInv'
  BY <1>4 DEF ManageMakers
<1>5. ASSUME Decide PROVE EndInv'
  BY <1>5 DEF Decide
<1>6. ASSUME DecideEntry PROVE EndInv'
  BY <1>6 DEF DecideEntry, EntryAuthorized, EntriesStopped, EndInv, MarkRemembers
<1>7. ASSUME DecideStop PROVE EndInv'
  <2>1. CASE RiskKill
    BY <1>7, <2>1 DEF DecideStop
  <2>2. CASE ~RiskKill
    BY <1>7, <2>2 DEF DecideStop
  <2> QED
    BY <1>7, <2>1, <2>2 DEF DecideStop
<1>8. ASSUME Send PROVE EndInv'
  BY <1>8 DEF Send, EndInv, MarkRemembers
<1>9. ASSUME Acknowledge PROVE EndInv'
  BY <1>9 DEF Acknowledge, EndInv, MarkRemembers
<1>10. ASSUME SubmitAccepted PROVE EndInv'
  BY <1>10 DEF SubmitAccepted, Reconciled, EndInv, MarkRemembers
<1>11. ASSUME SubmitFails PROVE EndInv'
  <2>1. CASE RiskKill
    BY <1>11, <2>1 DEF SubmitFails, EndInv, MarkRemembers
  <2>2. CASE StoreQuiet
    BY <1>11, <2>2 DEF SubmitFails, EndInv, MarkRemembers
  <2> QED
    BY <1>11, <2>1, <2>2 DEF SubmitFails
<1>12. ASSUME EndTick PROVE EndInv'
  BY <1>12 DEF EndTick
<1>13. ASSUME KillCheck PROVE EndInv'
  BY <1>13 DEF KillCheck, AfterBody
<1>14. ASSUME CancelReturns PROVE EndInv'
  BY <1>14 DEF CancelReturns
<1>15. ASSUME FlattenReturns PROVE EndInv'
  <2>1. CASE StoreQuiet
    BY <1>15, <2>1 DEF FlattenReturns
  <2>2. CASE RiskKill
    BY <1>15, <2>2 DEF FlattenReturns
  <2> QED
    BY <1>15, <2>1, <2>2 DEF FlattenReturns, QuietOrDust, DustKill
<1>16. ASSUME HoldOrPass PROVE EndInv'
  <2>1. CASE StoreQuiet
    BY <1>16, <2>1 DEF HoldOrPass
  <2>2. CASE RiskKill
    BY <1>16, <2>2 DEF HoldOrPass
  <2> QED
    BY <1>16, <2>1, <2>2 DEF HoldOrPass, QuietOrDust, DustKill
<1> QED
  BY <1>1, <1>2, <1>3, <1>4, <1>5, <1>6, <1>7, <1>8, <1>9, <1>10, <1>11, <1>12, <1>13,
     <1>14, <1>15, <1>16

LEMMA EndLife ==
  ASSUME ControlInv, EndInv,
         \/ StartReconciled \/ StartRefused \/ Started \/ Closing \/ CloseLocks
         \/ CloseFails \/ CloseCompletes \/ Start \/ Crash \/ Signal \/ QueueOverflow
         \/ BookAges
  PROVE  EndInv'
<1> USE DEF StoreQuiet, Goto, Pass, Kill, RiskKill, EndInv, MarkRemembers,
            store, latches, history, account, service, ControlInv, TypeOK, Outside
<1>1. ASSUME StartReconciled PROVE EndInv'
  <2>1. CASE runtimeWasRunning
    BY <1>1, <2>1 DEF StartReconciled, LatchPriorDeath, Reconciled
  <2>2. CASE ~runtimeWasRunning
    BY <1>1, <2>2, AnswerBringsNoRisk DEF StartReconciled, LatchPriorDeath
  <2> QED
    BY <2>1, <2>2
<1>2. ASSUME StartRefused PROVE EndInv'
  BY <1>2 DEF StartRefused
<1>3. ASSUME Started PROVE EndInv'
  BY <1>3 DEF Started
<1>4. ASSUME Closing PROVE EndInv'
  BY <1>4 DEF Closing
<1>5. ASSUME CloseLocks PROVE EndInv'
  BY <1>5 DEF CloseLocks
<1>6. ASSUME CloseFails PROVE EndInv'
  BY <1>6, AnswerBringsNoRisk DEF CloseFails, EndsUnclean
<1>7. ASSUME CloseCompletes PROVE EndInv'
  <2>1. CASE position'
    BY <1>7, <2>1 DEF CloseCompletes, CloseVerdict, EndsUnclean
  <2>2. CASE ~position'
    BY <1>7, <2>2 DEF CloseCompletes, CloseVerdict, Cancelled
  <2> QED
    BY <2>1, <2>2
<1>8. ASSUME Start PROVE EndInv'
  BY <1>8 DEF Start
<1>9. ASSUME Crash PROVE EndInv'
  BY <1>9 DEF Crash
<1>10. ASSUME Signal PROVE EndInv'
  BY <1>10 DEF Signal
<1>11. ASSUME QueueOverflow PROVE EndInv'
  BY <1>11 DEF QueueOverflow
<1>12. ASSUME BookAges PROVE EndInv'
  BY <1>12 DEF BookAges
<1> QED
  BY <1>1, <1>2, <1>3, <1>4, <1>5, <1>6, <1>7, <1>8, <1>9, <1>10, <1>11, <1>12

LEMMA EndGuardian ==
  ASSUME ControlInv, EndInv,
         \/ GuardianLooks \/ GuardianLocks \/ GuardianHelps
  PROVE  EndInv'
<1> USE AnswerBringsNoRisk, EndQuiet
        DEF StoreQuiet, Kill, RiskKill, EmergencyExitFailed,
            store, latches, history, account, service, ControlInv, TypeOK
<1>1. ASSUME GuardianLooks PROVE EndInv'
  BY <1>1 DEF GuardianLooks
<1>2. ASSUME GuardianLocks PROVE EndInv'
  BY <1>2 DEF GuardianLocks
<1>3. ASSUME GuardianHelps PROVE EndInv'
  <2>1. CASE StoreQuiet
    BY <1>3, <2>1 DEF GuardianHelps
  <2>2. CASE EmergencyExitFailed
    BY <1>3, <2>2 DEF GuardianHelps
  <2>3. CASE RiskKill
    BY <1>3, <2>3 DEF GuardianHelps
  <2> QED
    BY <1>3, <2>1, <2>2, <2>3 DEF GuardianHelps, QuietOrDust, DustKill
<1> QED
  BY <1>1, <1>2, <1>3

LEMMA EndStep == ControlInv /\ EndInv /\ [Next]_vars => EndInv'
<1> SUFFICES ASSUME ControlInv, EndInv, [Next]_vars PROVE EndInv'
  OBVIOUS
<1>1. CASE RuntimeStep
  BY <1>1, EndLoop, EndBatch, EndEvent, EndLife DEF RuntimeStep
<1>2. CASE AcquireLock
  BY <1>2, EndLoop
<1>3. CASE GuardianStep
  BY <1>3, EndGuardian DEF GuardianStep
<1>4. CASE Environment
  <2>1. ASSUME NEW a \in OperatorActions, Command(a) PROVE EndInv'
    BY <2>1, EndQuiet DEF Command, account
  <2> QED
    BY <1>4, <2>1, EndLife DEF Environment
<1>5. CASE UNCHANGED vars
  BY <1>5, EndQuiet DEF vars, store, latches, history, account
<1> QED
  BY <1>1, <1>2, <1>3, <1>4, <1>5 DEF Next

\* Whatever a crash or a close of the runtime has left at the venue is latched, or will be by
\* the next start, and nothing is entered after an unclean end until an operator has reset
\* the kill: EndsAreRemembered (run, UNCLEAN_PROCESS_RESTART).
THEOREM EndsStayRemembered == Spec => []EndsAreRemembered
<1>1. Init => EndInv
  BY DEF Init, EndInv, Outside
<1>2. EndInv => EndsAreRemembered
  BY DEF EndInv, MarkRemembers, EndsAreRemembered, NoEntryAfterUncleanEnd, DownWithRiskIsLatched
<1> QED
  BY <1>1, <1>2, EndStep, Invariance, PTL DEF Spec

-----------------------------------------------------------------------------
(* Inherited commands                                                      *)

\* No command from before the start waits any more.
InheritedAnswered ==
  \A i \in DOMAIN commands : i <= bootCommands => commands[i].status # "pending"

\* A book is valid only once the inherited commands are answered: the first batch holds all of
\* them, and no event is handled before it is done.
InheritInv ==
  /\ bootCommands <= Len(commands)
  /\ book # "invalid" \/ pc = "event" => InheritedAnswered
  /\ pc \in Batch => \A i \in DOMAIN commands :
       i <= bootCommands /\ commands[i].status = "pending" => i \in batch \cup {current}
  /\ pc \in Batch \ {"commands"} => commands[current].status = "pending"

\* What every step keeps: the invariant, and the latches unless a recovery that was not
\* inherited clears one.
LatchesStay == (killed => killed') /\ (paused => paused')
InheritKept ==
  InheritInv' /\ ((killed /\ ~killed') \/ (paused /\ ~paused') => current > bootCommands)

\* A step that handles no row and has no new book.
LEMMA InheritQuiet ==
  ASSUME InheritInv, LatchesStay,
         UNCHANGED <<commands, bootCommands, batch, current>>,
         book' # "invalid" => book # "invalid" \/ pc = "event",
         pc' = pc \/ pc' \notin Batch \cup {"event"}
           \/ (pc \in Batch \ {"commands"} /\ pc' \in Batch \ {"commands"})
  PROVE  InheritKept
<1>1. (killed /\ ~killed') \/ (paused /\ ~paused') => current > bootCommands
  BY DEF LatchesStay
<1>2. InheritedAnswered => InheritedAnswered'
  BY DEF InheritedAnswered
<1>3. pc' \in Batch => pc \in Batch
  BY DEF Batch
<1>4. pc' \in Batch \ {"commands"} => pc \in Batch \ {"commands"}
  BY DEF Batch
<1>5. book' # "invalid" \/ pc' = "event" => book # "invalid" \/ pc = "event"
  BY DEF Batch
<1> QED
  BY <1>1, <1>2, <1>3, <1>4, <1>5 DEF InheritInv, InheritKept

\* The loop around the batch handles no row.
LEMMA InheritLoop ==
  ASSUME ControlInv, InheritInv,
         \/ LoopReconcile \/ CheckKills \/ Raise \/ FlattenRaises \/ HandleError
         \/ EndIteration \/ AcquireLock
  PROVE  InheritKept
<1> USE InheritQuiet
        DEF StoreQuiet, Goto, Pass, Kill, RiskKill, EmergencyExitFailed, Conclude, LatchesStay,
            store, latches, history, handling, service, Batch
<1>1. ASSUME LoopReconcile PROVE InheritKept
  <2>1. CASE StoreQuiet
    BY <1>1, <2>1 DEF LoopReconcile
  <2>2. CASE RiskKill
    BY <1>1, <2>2 DEF LoopReconcile
  <2> QED
    BY <1>1, <2>1, <2>2 DEF LoopReconcile, QuietOrDust, DustKill
<1>2. ASSUME CheckKills PROVE InheritKept
  BY <1>2 DEF CheckKills
<1>3. ASSUME Raise PROVE InheritKept
  BY <1>3 DEF Raise
<1>4. ASSUME FlattenRaises PROVE InheritKept
  BY <1>4 DEF FlattenRaises
<1>5. ASSUME HandleError PROVE InheritKept
  BY <1>5 DEF HandleError
<1>6. ASSUME EndIteration PROVE InheritKept
  BY <1>6 DEF EndIteration
<1>7. ASSUME AcquireLock PROVE InheritKept
  BY <1>7 DEF AcquireLock
<1> QED
  BY <1>1, <1>2, <1>3, <1>4, <1>5, <1>6, <1>7

\* An event is the only source of a valid book, and comes after the batch.
LEMMA InheritEvent ==
  ASSUME ControlInv, InheritInv,
         \/ NoDecision \/ EventKills \/ FreshBook \/ ManageMakers \/ Decide
         \/ HoldOrPass \/ DecideEntry \/ DecideStop \/ Send \/ Acknowledge \/ SubmitAccepted
         \/ SubmitFails \/ EndTick \/ KillCheck \/ CancelReturns \/ FlattenReturns
  PROVE  InheritKept
<1> USE InheritQuiet
        DEF StoreQuiet, Goto, Pass, Kill, RiskKill, EmergencyExitFailed, Conclude, LatchesStay,
            store, latches, history, handling, service, Batch
<1>1. ASSUME NoDecision PROVE InheritKept
  BY <1>1 DEF NoDecision
<1>2. ASSUME EventKills PROVE InheritKept
  BY <1>2 DEF EventKills
<1>3. ASSUME FreshBook PROVE InheritKept
  BY <1>3 DEF FreshBook, InheritInv, InheritedAnswered, InheritKept
<1>4. ASSUME ManageMakers PROVE InheritKept
  BY <1>4 DEF ManageMakers
<1>5. ASSUME Decide PROVE InheritKept
  BY <1>5 DEF Decide
<1>6. ASSUME DecideEntry PROVE InheritKept
  BY <1>6 DEF DecideEntry
<1>7. ASSUME DecideStop PROVE InheritKept
  <2>1. CASE RiskKill
    BY <1>7, <2>1 DEF DecideStop
  <2>2. CASE ~RiskKill
    BY <1>7, <2>2 DEF DecideStop
  <2> QED
    BY <1>7, <2>1, <2>2 DEF DecideStop
<1>8. ASSUME Send PROVE InheritKept
  BY <1>8 DEF Send
<1>9. ASSUME Acknowledge PROVE InheritKept
  BY <1>9 DEF Acknowledge
<1>10. ASSUME SubmitAccepted PROVE InheritKept
  BY <1>10 DEF SubmitAccepted
<1>11. ASSUME SubmitFails PROVE InheritKept
  <2>1. CASE RiskKill
    BY <1>11, <2>1 DEF SubmitFails
  <2>2. CASE StoreQuiet
    BY <1>11, <2>2 DEF SubmitFails
  <2> QED
    BY <1>11, <2>1, <2>2 DEF SubmitFails
<1>12. ASSUME EndTick PROVE InheritKept
  BY <1>12 DEF EndTick
<1>13. ASSUME KillCheck PROVE InheritKept
  BY <1>13 DEF KillCheck, AfterBody
<1>14. ASSUME CancelReturns PROVE InheritKept
  <2>1. pc = "stopCancel" => pc' = "tick"
    BY <1>14, Zenon DEF CancelReturns
  <2>2. pc = "killCancel" => pc' \in {"killFlatten", "ending"}
    BY <1>14, Zenon DEF CancelReturns
  <2>3. pc \notin {"stopCancel", "killCancel"} => pc' = "killCheck"
    BY <1>14, Zenon DEF CancelReturns
  <2> QED
    BY <1>14, <2>1, <2>2, <2>3 DEF CancelReturns
<1>15. ASSUME FlattenReturns PROVE InheritKept
  <2>1. CASE StoreQuiet
    BY <1>15, <2>1 DEF FlattenReturns
  <2>2. CASE RiskKill
    BY <1>15, <2>2 DEF FlattenReturns
  <2> QED
    BY <1>15, <2>1, <2>2 DEF FlattenReturns, QuietOrDust, DustKill
<1>16. ASSUME HoldOrPass PROVE InheritKept
  <2>1. CASE StoreQuiet
    BY <1>16, <2>1 DEF HoldOrPass
  <2>2. CASE RiskKill
    BY <1>16, <2>2 DEF HoldOrPass
  <2> QED
    BY <1>16, <2>1, <2>2 DEF HoldOrPass, QuietOrDust, DustKill
<1> QED
  BY <1>1, <1>2, <1>3, <1>4, <1>5, <1>6, <1>7, <1>8, <1>9, <1>10, <1>11, <1>12, <1>13, <1>14, <1>15, <1>16

\* Ends handle no row.
LEMMA InheritLife ==
  ASSUME ControlInv, InheritInv,
         \/ StartReconciled \/ StartRefused \/ Started \/ Closing \/ CloseLocks
         \/ CloseFails \/ CloseCompletes \/ Crash \/ Signal \/ QueueOverflow
         \/ BookAges
  PROVE  InheritKept
<1> USE InheritQuiet
        DEF StoreQuiet, Goto, Pass, Kill, RiskKill, EmergencyExitFailed, Conclude, LatchesStay,
            store, latches, history, handling, service, Batch
<1>1. ASSUME StartReconciled PROVE InheritKept
  <2>1. CASE RiskKill
    BY <1>1, <2>1 DEF StartReconciled, LatchPriorDeath
  <2>2. CASE StoreQuiet
    BY <1>1, <2>2 DEF StartReconciled, LatchPriorDeath
  <2> QED
    BY <1>1, <2>1, <2>2 DEF StartReconciled, LatchPriorDeath
<1>2. ASSUME StartRefused PROVE InheritKept
  BY <1>2 DEF StartRefused
<1>3. ASSUME Started PROVE InheritKept
  BY <1>3 DEF Started
<1>4. ASSUME Closing PROVE InheritKept
  BY <1>4 DEF Closing
<1>5. ASSUME CloseLocks PROVE InheritKept
  BY <1>5 DEF CloseLocks
<1>6. ASSUME CloseFails PROVE InheritKept
  BY <1>6 DEF CloseFails, EndsUnclean
<1>7. ASSUME CloseCompletes PROVE InheritKept
  <2>1. CASE position'
    BY <1>7, <2>1 DEF CloseCompletes, CloseVerdict, EndsUnclean
  <2>2. CASE ~position'
    BY <1>7, <2>2 DEF CloseCompletes, CloseVerdict
  <2> QED
    BY <2>1, <2>2
<1>8. ASSUME Crash PROVE InheritKept
  BY <1>8 DEF Crash, InheritInv, InheritKept
<1>9. ASSUME Signal PROVE InheritKept
  BY <1>9 DEF Signal
<1>10. ASSUME QueueOverflow PROVE InheritKept
  BY <1>10 DEF QueueOverflow
<1>11. ASSUME BookAges PROVE InheritKept
  BY <1>11 DEF BookAges
<1> QED
  BY <1>1, <1>2, <1>3, <1>4, <1>5, <1>6, <1>7, <1>8, <1>9, <1>10, <1>11

\* The guardian handles no row.
LEMMA InheritGuardian ==
  ASSUME ControlInv, InheritInv,
         \/ GuardianLooks \/ GuardianLocks \/ GuardianHelps
  PROVE  InheritKept
<1> USE InheritQuiet
        DEF StoreQuiet, Goto, Pass, Kill, RiskKill, EmergencyExitFailed, Conclude, LatchesStay,
            store, latches, history, handling, service, Batch
<1>1. ASSUME GuardianLooks PROVE InheritKept
  BY <1>1 DEF GuardianLooks
<1>2. ASSUME GuardianLocks PROVE InheritKept
  BY <1>2 DEF GuardianLocks
<1>3. ASSUME GuardianHelps PROVE InheritKept
  <2>1. CASE StoreQuiet
    BY <1>3, <2>1 DEF GuardianHelps
  <2>2. CASE EmergencyExitFailed
    BY <1>3, <2>2 DEF GuardianHelps
  <2>3. CASE RiskKill
    BY <1>3, <2>3 DEF GuardianHelps
  <2> QED
    BY <1>3, <2>1, <2>2, <2>3 DEF GuardianHelps, QuietOrDust, DustKill
<1> QED
  BY <1>1, <1>2, <1>3

\* A command in the making stays pending.
LEMMA InheritHandling ==
  ASSUME ControlInv, InheritInv,
         \/ OperatorKill \/ RequestFlatten \/ CommandCancels \/ CommandFlattens
         \/ RecoveryReconciles \/ CommandRaises \/ RefuseRecovery
  PROVE  InheritKept
<1> USE InheritQuiet
        DEF StoreQuiet, Goto, Pass, Kill, RiskKill, EmergencyExitFailed, Conclude, LatchesStay,
            store, latches, history, handling, service, Batch
<1>1. ASSUME OperatorKill PROVE InheritKept
  BY <1>1 DEF OperatorKill
<1>2. ASSUME RequestFlatten PROVE InheritKept
  BY <1>2 DEF RequestFlatten
<1>3. ASSUME CommandCancels PROVE InheritKept
  BY <1>3 DEF CommandCancels
<1>4. ASSUME CommandFlattens PROVE InheritKept
  <2>1. CASE StoreQuiet
    BY <1>4, <2>1 DEF CommandFlattens
  <2>2. CASE RiskKill
    BY <1>4, <2>2 DEF CommandFlattens
  <2> QED
    BY <1>4, <2>1, <2>2 DEF CommandFlattens, QuietOrDust, DustKill
<1>5. ASSUME RecoveryReconciles PROVE InheritKept
  BY <1>5 DEF RecoveryReconciles
<1>6. ASSUME CommandRaises PROVE InheritKept
  <2>1. CASE pc = "cmdFlatten"
    BY <1>6, <2>1 DEF CommandRaises
  <2>2. CASE pc # "cmdFlatten"
    BY <1>6, <2>2 DEF CommandRaises
  <2> QED
    BY <2>1, <2>2
<1>7. ASSUME RefuseRecovery PROVE InheritKept
  BY <1>7 DEF RefuseRecovery
<1> QED
  BY <1>1, <1>2, <1>3, <1>4, <1>5, <1>6, <1>7

\* A batch begins with all that is pending, is handled row by row, and ends empty.
LEMMA InheritBatch ==
  ASSUME ControlInv, InheritInv,
         \/ ReadCommands
         \/ \E i \in batch : BeginStop(i) \/ BeginFlatten(i) \/ BeginRecovery(i)
         \/ CommitResume \/ CommitReset \/ FinishCommand \/ BatchDone
  PROVE  InheritKept
<1> USE DEF StoreQuiet, Pass, Goto, Conclude, store, latches, history, service, InheritInv,
            InheritedAnswered, InheritKept, ControlInv, TypeOK, HandlingTypeOK, HandlingInv,
            StoreTypeOK, HistoryTypeOK, ServiceTypeOK, Batch
<1>1. ASSUME ReadCommands PROVE InheritKept
  BY <1>1 DEF ReadCommands, PendingCommands
<1>2. ASSUME NEW i \in batch, BeginStop(i) PROVE InheritKept
  BY <1>2 DEF BeginStop, Take
<1>3. ASSUME NEW i \in batch, BeginFlatten(i) PROVE InheritKept
  BY <1>3 DEF BeginFlatten, Take
<1>4. ASSUME NEW i \in batch, BeginRecovery(i) PROVE InheritKept
  BY <1>4 DEF BeginRecovery, Take
<1>5. ASSUME CommitResume PROVE InheritKept
  BY <1>5 DEF CommitResume, MayResume
<1>6. ASSUME CommitReset PROVE InheritKept
  BY <1>6 DEF CommitReset, MayReset
<1>7. ASSUME FinishCommand PROVE InheritKept
  BY <1>7 DEF FinishCommand, Answered, Row
<1>8. ASSUME BatchDone PROVE InheritKept
  BY <1>8 DEF BatchDone, handling
<1> QED
  BY <1>1, <1>2, <1>3, <1>4, <1>5, <1>6, <1>7, <1>8

\* A command of the present life is no inherited one; a start inherits what is there.
LEMMA InheritOperators ==
  ASSUME ControlInv, InheritInv, Start \/ \E a \in OperatorActions : Command(a)
  PROVE  InheritKept
<1> USE DEF InheritInv, InheritedAnswered, InheritKept, ControlInv, TypeOK, StoreTypeOK,
            HandlingTypeOK, HandlingInv, HistoryTypeOK, store, latches, handling, service, history, Batch
<1>1. ASSUME Start PROVE InheritKept
  BY <1>1 DEF Start
<1>2. ASSUME NEW a \in OperatorActions, Command(a) PROVE InheritKept
  <2>1. /\ commands' \in Seq(Row)
        /\ DOMAIN commands' = DOMAIN commands \cup {Len(commands) + 1}
        /\ \A i \in DOMAIN commands : commands'[i] = commands[i]
    BY <1>2, CommandRow
  <2>2. Len(commands') = Len(commands) + 1
    BY <1>2 DEF Command
  <2>3. UNCHANGED <<bootCommands, batch, current, book, pc>> /\ LatchesStay
    BY <1>2 DEF Command, LatchesStay
  <2> QED
    BY <2>1, <2>2, <2>3 DEF LatchesStay
<1> QED
  BY <1>1, <1>2

LEMMA InheritStep == ControlInv /\ InheritInv /\ [Next]_vars => InheritKept
<1> SUFFICES ASSUME ControlInv, InheritInv, [Next]_vars PROVE InheritKept
  OBVIOUS
<1>1. CASE RuntimeStep
  BY <1>1, InheritLoop, InheritBatch, InheritHandling, InheritEvent, InheritLife DEF RuntimeStep
<1>2. CASE AcquireLock
  BY <1>2, InheritLoop
<1>3. CASE GuardianStep
  BY <1>3, InheritGuardian DEF GuardianStep
<1>4. CASE Environment
  BY <1>4, InheritOperators, InheritLife DEF Environment
<1>5. CASE UNCHANGED vars
  BY <1>5, InheritQuiet
  DEF vars, store, latches, handling, service, history, LatchesStay
<1> QED
  BY <1>1, <1>2, <1>3, <1>4, <1>5 DEF Next

\* A resume or reset-kill that was queued before the start of the runtime clears no latch, be
\* it executed again after a crash or for the first time: InheritedNeverRecovers.
THEOREM InheritedStayRefused == Spec => InheritedNeverRecovers
<1>1. Init => InheritInv
  BY DEF Init, InheritInv, Batch
<1>2. ControlInv /\ InheritInv /\ [Next]_vars => InheritInv'
  BY InheritStep DEF InheritKept
<1>3. ControlInv /\ InheritInv /\ [Next]_vars =>
        [(killed /\ ~killed') \/ (paused /\ ~paused') => current > bootCommands]_vars
  BY InheritStep DEF InheritKept
<1> QED
  BY <1>1, <1>2, <1>3, Invariance, PTL DEF Spec, InheritedNeverRecovers
=============================================================================
