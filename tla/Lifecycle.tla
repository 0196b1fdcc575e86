----------------------------- MODULE Lifecycle -----------------------------
(***************************************************************************)
(* How the two processes of trader/runtime.py watch each other: heartbeats *)
(* in the store and their ages, the start that asks for a guardian, the    *)
(* background tasks whose end ends a process, the help of the guardian for *)
(* a runtime that is silent, and the close.  Both processes may die, and   *)
(* be started again, at any point.                                         *)
(*                                                                         *)
(* Ages are counted in ticks up to one more than watchdog_timeout_seconds. *)
(* The latches are one flag (a kill pauses), and reset-kill and resume are *)
(* one command.  Orders and inventory are one flag, exposed.  What the     *)
(* calls of a helping guardian and of the execution do is in Execution,    *)
(* the latches and commands one by one in ControlPlane.                    *)
(***************************************************************************)
EXTENDS Integers

CONSTANTS
  Timeout,   \* risk.watchdog_timeout_seconds
  MaxErrors  \* risk.maximum_api_errors

ASSUME TimeoutAssumption == Timeout \in Nat /\ MaxErrors \in Nat \ {0}

VARIABLES
  rt,         \* the runtime: "down", "booting", "top", "held", "ending"
  gd,         \* the guardian: "down", "waiting", "helping"
  holder,     \* who has the execution lock
  rtAge, gdAge, \* ages of runtime_heartbeat_ns and guardian_heartbeat_ns
  beaten,     \* runtime_heartbeat_ns has ever been set
  mark,       \* runtime_was_running
  halted,     \* killed and paused
  exposed,    \* an order is active or inventory is held
  feed,       \* the guardian's receive task runs
  broken,     \* a background task of the runtime has raised
  warm,       \* the runtime has finished an iteration since its start
  errors,     \* errors of run
  begun       \* history: how the guardian was found when the iteration began

lifeVars == <<rt, gd, holder, rtAge, gdAge, beaten, mark, halted, exposed, feed, broken, warm,
              errors, begun>>
runtimeLocals == <<broken, warm, errors, begun>>
guardianVars == <<gd, gdAge, feed>>

Late(age) == age > Timeout

\* Orders end, or inventory is sold.
RiskMayEnd == exposed' \in BOOLEAN /\ (exposed' => exposed)

LifeInit ==
  /\ rt = "down" /\ gd = "down" /\ holder = "nobody"
  /\ rtAge = Timeout + 1 /\ gdAge = Timeout + 1 /\ beaten = FALSE
  /\ mark = FALSE /\ halted = FALSE /\ exposed = FALSE
  /\ feed = FALSE /\ broken = FALSE /\ warm = FALSE /\ errors = 0 /\ begun = "watched"

-----------------------------------------------------------------------------
\* The runtime. runtime.lockfile lets one run at a time.

StartRuntime ==
  /\ rt = "down" /\ rt' = "booting"
  /\ broken' = FALSE /\ warm' = FALSE /\ errors' = 0 /\ begun' = "watched"
  /\ UNCHANGED <<guardianVars, holder, rtAge, beaten, mark, halted, exposed>>

\* The reconciliation has succeeded: an unclean end is latched, and without a guardian
\* there is no start. A failed reconciliation ends the start, too.
Boot ==
  /\ rt = "booting"
  /\ \/ /\ halted' = (halted \/ mark)
        /\ rt' = IF Late(gdAge) THEN "down" ELSE "top"
        /\ mark' = (mark \/ ~Late(gdAge))
     \/ rt' = "down" /\ UNCHANGED <<halted, mark>>
  /\ UNCHANGED <<guardianVars, holder, rtAge, beaten, exposed, runtimeLocals>>

\* A background task raises: receive, order_notifications or the alerts.
TaskFails ==
  /\ rt \in {"top", "held"} /\ broken' = TRUE
  /\ UNCHANGED <<rt, guardianVars, holder, rtAge, beaten, mark, halted, exposed, warm, errors,
                 begun>>

\* Top of the loop: BACKGROUND_SERVICE_FAILED or shutdown ends it; with the lock an
\* iteration begins with the look at the guardian. (The mutant looks at the start only.)
BeginUnwatched ==
  /\ rt = "top" /\ ~broken /\ holder = "nobody"
  /\ rt' = "held" /\ holder' = "runtime"
  /\ begun' = (IF Late(gdAge) THEN "unwatched" ELSE "watched")
  /\ UNCHANGED <<guardianVars, rtAge, beaten, mark, halted, exposed, broken, warm, errors>>
BeginIteration ==
  /\ rt = "top" /\ ~broken /\ holder = "nobody"
  /\ rt' = "held" /\ holder' = "runtime"
  /\ begun' = (IF Late(gdAge) THEN "unwatched" ELSE "watched")
  /\ halted' = (halted \/ Late(gdAge))
  /\ UNCHANGED <<guardianVars, rtAge, beaten, mark, exposed, broken, warm, errors>>

EndLoop ==
  /\ rt = "top" /\ broken
  /\ rt' = "ending"
  /\ UNCHANGED <<guardianVars, holder, rtAge, beaten, mark, halted, exposed, runtimeLocals>>

\* A reset-kill with a resume behind it, in the batch of this iteration.
Recover ==
  /\ rt = "held" /\ ~exposed
  /\ halted' = FALSE /\ begun' = "recovered"
  /\ UNCHANGED <<rt, guardianVars, holder, rtAge, beaten, mark, exposed, broken, warm, errors>>

\* An entry; the features are ready after warmup_seconds of iterations.
Expose ==
  /\ rt = "held" /\ ~halted /\ warm
  /\ exposed' = TRUE
  /\ UNCHANGED <<rt, guardianVars, holder, rtAge, beaten, mark, halted, runtimeLocals>>

\* The end of a good iteration; orders may have ended, under a kill or not.
EndIteration ==
  /\ rt = "held" /\ rt' = "top" /\ holder' = "nobody"
  /\ RiskMayEnd
  /\ rtAge' = 0 /\ beaten' = TRUE /\ warm' = TRUE /\ errors' = 0
  /\ UNCHANGED <<guardianVars, mark, halted, broken, begun>>

\* An exception in the iteration: a kill and no heartbeat.
FailIteration ==
  /\ rt = "held" /\ holder' = "nobody"
  /\ halted' = TRUE /\ errors' = errors + 1
  /\ rt' = IF errors' >= MaxErrors THEN "ending" ELSE "top"
  /\ UNCHANGED <<guardianVars, rtAge, beaten, mark, exposed, broken, warm, begun>>

\* SIGTERM, the overflow of the queue, or --seconds.
Shutdown ==
  /\ rt = "top" /\ rt' = "ending"
  /\ UNCHANGED <<guardianVars, holder, rtAge, beaten, mark, halted, exposed, runtimeLocals>>

\* The finally of run: with the lock cancel_all, then the mark is cleared if flat;
\* every failure, and a lock that is taken, is suppressed. (The mutant clears the mark
\* whatever has become of cancel_all.)
CloseAlways ==
  /\ rt = "ending" /\ rt' = "down"
  /\ mark' = FALSE /\ RiskMayEnd
  /\ UNCHANGED <<guardianVars, holder, rtAge, beaten, halted, runtimeLocals>>
Close ==
  /\ rt = "ending" /\ rt' = "down"
  /\ \/ /\ holder = "nobody" /\ RiskMayEnd
        /\ mark' = exposed'
        /\ halted' = (halted \/ exposed')
     \/ UNCHANGED <<mark, halted, exposed>>
  /\ UNCHANGED <<guardianVars, holder, rtAge, beaten, runtimeLocals>>

RuntimeDies ==
  /\ rt # "down" /\ rt' = "down"
  /\ holder' = IF holder = "runtime" THEN "nobody" ELSE holder
  /\ UNCHANGED <<guardianVars, rtAge, beaten, mark, halted, exposed, runtimeLocals>>

-----------------------------------------------------------------------------
\* The guardian. guardian.lockfile lets one run at a time.

StartGuardian ==
  /\ gd = "down" /\ gd' = "waiting" /\ feed' = TRUE
  /\ UNCHANGED <<rt, holder, rtAge, gdAge, beaten, mark, halted, exposed, runtimeLocals>>

Stale == beaten /\ mark /\ Late(rtAge)
NeedsHelp == (Stale \/ halted) /\ exposed

\* A round: the heartbeat, then the end of the process if its receive task is done, then
\* help if it is needed and the lock is free. (The mutants go on without the feed, or
\* look at the latch only.)
RoundWithoutFeed ==
  /\ gd = "waiting" /\ gdAge' = 0
  /\ IF NeedsHelp /\ holder = "nobody"
     THEN gd' = "helping" /\ holder' = "guardian" /\ halted' = TRUE
     ELSE UNCHANGED <<gd, holder, halted>>
  /\ UNCHANGED <<rt, feed, rtAge, beaten, mark, exposed, runtimeLocals>>
RoundForLatchOnly ==
  /\ gd = "waiting" /\ gdAge' = 0
  /\ IF ~feed THEN gd' = "down" /\ UNCHANGED <<holder, halted>>
     ELSE IF halted /\ exposed /\ holder = "nobody"
     THEN gd' = "helping" /\ holder' = "guardian" /\ halted' = TRUE
     ELSE UNCHANGED <<gd, holder, halted>>
  /\ UNCHANGED <<rt, feed, rtAge, beaten, mark, exposed, runtimeLocals>>
Round ==
  /\ gd = "waiting" /\ gdAge' = 0
  /\ IF ~feed THEN gd' = "down" /\ UNCHANGED <<holder, halted>>
     ELSE IF NeedsHelp /\ holder = "nobody"
     THEN gd' = "helping" /\ holder' = "guardian" /\ halted' = TRUE
     ELSE UNCHANGED <<gd, holder, halted>>
  /\ UNCHANGED <<rt, feed, rtAge, beaten, mark, exposed, runtimeLocals>>

\* The help is over; a failure is only reported.
EndHelp ==
  /\ gd = "helping" /\ gd' = "waiting" /\ holder' = "nobody"
  /\ RiskMayEnd
  /\ UNCHANGED <<rt, gdAge, feed, rtAge, beaten, mark, halted, runtimeLocals>>

\* The receive task ends: a BookError of the guardian's book, or any other exception.
FeedStops ==
  /\ gd # "down" /\ feed /\ feed' = FALSE
  /\ UNCHANGED <<rt, gd, gdAge, holder, rtAge, beaten, mark, halted, exposed, runtimeLocals>>

GuardianDies ==
  /\ gd # "down" /\ gd' = "down"
  /\ holder' = IF holder = "guardian" THEN "nobody" ELSE holder
  /\ UNCHANGED <<rt, gdAge, feed, rtAge, beaten, mark, halted, exposed, runtimeLocals>>

\* Time passes.
Older(age) == IF age > Timeout THEN age ELSE age + 1
Elapse ==
  /\ rtAge' = Older(rtAge) /\ gdAge' = Older(gdAge)
  /\ UNCHANGED <<rt, gd, holder, beaten, mark, halted, exposed, feed, runtimeLocals>>

-----------------------------------------------------------------------------
RuntimeStep == Boot \/ BeginIteration \/ EndLoop \/ EndIteration \/ FailIteration \/ Close
GuardianStep == Round \/ EndHelp

LifeNext ==
  \/ RuntimeStep \/ StartRuntime \/ TaskFails \/ Recover \/ Expose \/ Shutdown \/ RuntimeDies
  \/ GuardianStep \/ StartGuardian \/ FeedStops \/ GuardianDies
  \/ Elapse

LifeSpec == LifeInit /\ [][LifeNext]_lifeVars

\* The loop comes to its next point and the guardian to its next round: every call has a
\* timeout and every sleep an end. The lock is free again and again for the runtime,
\* which tries it ten times as often as the guardian.
LifeFairness ==
  /\ WF_lifeVars(Boot \/ EndLoop \/ EndIteration \/ FailIteration \/ Close)
  /\ SF_lifeVars(BeginIteration)
  /\ WF_lifeVars(GuardianStep)
  /\ WF_lifeVars(Elapse)

-----------------------------------------------------------------------------
LifeTypeOK ==
  /\ rt \in {"down", "booting", "top", "held", "ending"} /\ gd \in {"down", "waiting", "helping"}
  /\ (holder = "runtime" <=> rt = "held") /\ (holder = "guardian" <=> gd = "helping")
  /\ holder \in {"nobody", "runtime", "guardian"}
  /\ rtAge \in 0 .. Timeout + 1 /\ gdAge \in 0 .. Timeout + 1
  /\ beaten \in BOOLEAN /\ mark \in BOOLEAN /\ halted \in BOOLEAN /\ exposed \in BOOLEAN
  /\ feed \in BOOLEAN /\ broken \in BOOLEAN /\ warm \in BOOLEAN
  /\ errors \in 0 .. MaxErrors
  /\ begun \in {"watched", "unwatched", "recovered"}

\* Risk that nobody works on has somebody who must: while it is there and no runtime is in
\* its loop, the mark or the latch is set, so that the guardian will find it (runtime.py:264).
RiskHasAWatcher == exposed /\ rt \in {"down", "booting"} => halted \/ (mark /\ beaten)

\* An entry is made only in an iteration that has seen the guardian's heartbeat in time, or
\* in which an operator has reset the kill that followed from not seeing it (runtime.py:184).
NoUnwatchedEntry == [][~exposed /\ exposed' => begun # "unwatched"]_lifeVars

\* docs/VALIDATION.md:53: a runtime that is gone while there is risk is found by the
\* guardian, which latches and takes the lock to help, unless one of them is there again or
\* gone, too.
SilentRuntimeIsHelped ==
  (rt = "down" /\ exposed /\ gd = "waiting" /\ feed)
    ~> (gd = "helping" \/ ~exposed \/ rt # "down" \/ gd = "down" \/ ~feed)

\* A guardian that has ended, or has lost its market feed, is noticed by a runtime in its
\* loop, which latches (runtime.py:184 and :303), unless it ends or the guardian is back.
LostGuardianIsLatched ==
  (rt \in {"top", "held"} /\ (gd = "down" \/ ~feed))
    ~> (halted \/ rt \in {"down", "ending"} \/ (gd # "down" /\ feed))

\* Either process is missed by the other one, from its heartbeat (runtime.py:184 and :303).
EachIsMissed == SilentRuntimeIsHelped /\ LostGuardianIsLatched
=============================================================================
