---------------------------- MODULE EquityLimits ----------------------------
(***************************************************************************)
(* The loss limits of RiskEngine.observe_equity in trader/risk.py, over    *)
(* days, operator resets and a clock that is set back, and what they mean  *)
(* for the entries of Engine.event, which marks the equity before it       *)
(* decides.                                                                *)
(*                                                                         *)
(* Everything is in the store, so a restart changes nothing here.  Equity  *)
(* is a whole number.  The drawdown statistics, which no decision reads,   *)
(* are left out.  marks is the history the properties refer to.            *)
(***************************************************************************)
EXTENDS Integers, Sequences, FiniteSetsExt

CONSTANTS
  Equities,     \* what an equity may be marked at; also 0 or less
  Days,         \* UTC days of the events
  DailyLoss, SessionLoss, Drawdown, \* limits in percent
  MaxMarks      \* bound: marks

ASSUME EquityAssumption == Equities \subseteq Int /\ Days \subseteq Nat
ASSUME LimitAssumption ==
  /\ DailyLoss \in 1 .. 100 /\ SessionLoss \in 1 .. 100 /\ Drawdown \in 1 .. 100
  /\ SessionLoss <= Drawdown
  /\ MaxMarks \in Nat

VARIABLES
  baseline,  \* the risk_equity row of the store, or NoBaseline
  latched,   \* store.killed
  stopped,   \* store.paused
  marks,     \* history: <<day, equity>> of every event
  owed,      \* history: a loss beyond a limit has not been reset by an operator
  entered    \* history: the last event made an entry

limitVars == <<baseline, latched, stopped, marks, owed, entered>>

NoBaseline == [session |-> 0, peak |-> 0, opening |-> 0, day |-> 0, last |-> 0]

LimitInit ==
  /\ baseline = NoBaseline /\ latched = FALSE /\ stopped = FALSE
  /\ marks = <<>> /\ owed = FALSE /\ entered = FALSE

-----------------------------------------------------------------------------
\* observe_equity.

Loses(start, equity, limit) == (start - equity) * 100 >= limit * start

First(day, equity) ==
  [session |-> equity, peak |-> equity, opening |-> equity, day |-> day, last |-> equity]

\* A new day starts from the last equity of the old one. (The mutant from the first mark of
\* the new day, which a loss over night has already lowered.)
NewDayFromNow(b, day, equity) ==
  IF b.day = day THEN b ELSE [b EXCEPT !.day = day, !.opening = equity]
NewDay(b, day, equity) ==
  IF b.day = day THEN b ELSE [b EXCEPT !.day = day, !.opening = b.last]

\* The row after a mark. (The mutant lets the peak follow the equity down.)
ObservedWithoutPeak(day, equity) ==
  LET b == IF baseline = NoBaseline THEN First(day, equity) ELSE NewDay(baseline, day, equity) IN
  [b EXCEPT !.peak = equity, !.last = equity]
Observed(day, equity) ==
  LET b == IF baseline = NoBaseline THEN First(day, equity) ELSE NewDay(baseline, day, equity) IN
  [b EXCEPT !.peak = IF equity > @ THEN equity ELSE @, !.last = equity]

Breached(b) ==
  \/ Loses(b.opening, b.last, DailyLoss)
  \/ Loses(b.session, b.last, SessionLoss)
  \/ Loses(b.peak, b.last, Drawdown)

\* Equity of nothing or less latches and leaves the baselines alone. (The mutant takes
\* the latch back when the equity has recovered.)
ObserveForgiving(day, equity) ==
  IF equity <= 0
  THEN latched' = TRUE /\ stopped' = TRUE /\ UNCHANGED baseline
  ELSE /\ baseline' = Observed(day, equity)
       /\ latched' = Breached(baseline')
       /\ stopped' = (stopped \/ Breached(baseline'))
ObserveEquity(day, equity) ==
  IF equity <= 0
  THEN latched' = TRUE /\ stopped' = TRUE /\ UNCHANGED baseline
  ELSE /\ baseline' = Observed(day, equity)
       /\ latched' = (latched \/ Breached(baseline'))
       /\ stopped' = (stopped \/ Breached(baseline'))

-----------------------------------------------------------------------------
\* The history of marks, as the documentation speaks of it.

\* The marks that a loss is measured from.
Positive(seq) == {i \in DOMAIN seq : seq[i][2] > 0}

\* The equity the day of the last of them began with: the last mark of another day, or else
\* the first one.
OpeningOf(seq) ==
  LET others == {i \in Positive(seq) : seq[i][1] # seq[Max(Positive(seq))][1]} IN
  seq[IF others = {} THEN Min(Positive(seq)) ELSE Max(others)][2]

BeyondLimit(seq) ==
  LET equity == seq[Len(seq)][2] IN
  \/ equity <= 0
  \/ Loses(OpeningOf(seq), equity, DailyLoss)
  \/ Loses(seq[Min(Positive(seq))][2], equity, SessionLoss)
  \/ \E i \in Positive(seq) : Loses(seq[i][2], equity, Drawdown)

-----------------------------------------------------------------------------
\* One event of Engine.event with a fresh book: the mark, then the decision of the
\* controller, which enters only while neither latch is set.
MarketEvent ==
  /\ Len(marks) < MaxMarks
  /\ \E day \in Days, equity \in Equities :
       /\ ObserveEquity(day, equity)
       /\ marks' = Append(marks, <<day, equity>>)
       /\ owed' = (owed \/ BeyondLimit(marks'))
  /\ entered' \in BOOLEAN
  /\ entered' => ~latched' /\ ~stopped'

\* reset-kill and resume of process_commands; the account is flat. (The mutant also
\* forgets the baselines.)
ResetWithBaselines ==
  /\ latched' = FALSE /\ stopped' = TRUE /\ owed' = FALSE /\ baseline' = NoBaseline
  /\ UNCHANGED <<marks, entered>>
ResetKill ==
  /\ latched' = FALSE /\ stopped' = TRUE /\ owed' = FALSE
  /\ UNCHANGED <<baseline, marks, entered>>
Resume ==
  /\ ~latched /\ stopped' = FALSE
  /\ UNCHANGED <<baseline, latched, marks, owed, entered>>

\* A kill for any other reason, by any process.
OtherKill ==
  /\ latched' = TRUE /\ stopped' = TRUE
  /\ UNCHANGED <<baseline, marks, owed, entered>>

LimitNext == MarketEvent \/ ResetKill \/ Resume \/ OtherKill
LimitSpec == LimitInit /\ [][LimitNext]_limitVars

-----------------------------------------------------------------------------
\* Types, and the baselines that the drawdown of a report rests on.
LimitTypeOK ==
  /\ baseline \in [session : Nat, peak : Nat, opening : Nat, day : {0} \union Days, last : Nat]
  /\ baseline.last <= baseline.peak /\ baseline.session <= baseline.peak
  /\ latched \in BOOLEAN /\ stopped \in BOOLEAN /\ owed \in BOOLEAN /\ entered \in BOOLEAN
  /\ marks \in Seq(Days \X Equities)

\* A loss beyond a limit stays latched until an operator resets it: over midnight, when
\* its baseline is replaced, and over a recovery of the equity (risk.py:28).
LossesAreLatched == owed => latched /\ stopped

\* docs/RUNBOOK.md:241: a reset does not erase the equity baselines. Whatever operators do,
\* and on whichever day, no entry is made on a mark that is beyond a limit by the whole
\* history of marks.
NoEntryBeyondLimits == entered => ~BeyondLimit(marks)

\* Both: a loss is latched, and nothing is entered beyond a limit.
LossesStopEntries == LossesAreLatched /\ NoEntryBeyondLimits
=============================================================================
