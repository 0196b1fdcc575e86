----------------------------- MODULE EntryRate -----------------------------
(***************************************************************************)
(* How often RiskEngine.authorize and record_entry of trader/risk.py let   *)
(* an entry through: the distance between entries, the hourly and daily    *)
(* numbers and what follows lost trades, with operators who reset and      *)
(* resume and a host clock that is set back.                               *)
(*                                                                         *)
(* Times are ticks of the host clock, by which live entries are stamped.   *)
(* The conditions on the market, the decision and the account that come    *)
(* before are a choice, as is the sum of the last trades behind            *)
(* STRATEGY_DEGRADATION and DEGRADATION_REDUCED_FREQUENCY.  The entries,   *)
(* the trades and the latches are in the store: a restart changes nothing. *)
(*                                                                         *)
(* Entries are numbered as they are made: stamps has the time of each, and *)
(* the row of the store is the set of those it still has.                  *)
(***************************************************************************)
EXTENDS Integers, Sequences, FiniteSetsExt

CONSTANTS
  Hour, Day,          \* 3600 s and 86400 s
  Spacing,            \* minimum_seconds_between_entries
  HourlyLimit, DailyLimit, \* maximum_trades_per_hour, maximum_trades_per_day
  LossLimit,          \* maximum_consecutive_losses
  LossPause, LossesPause, \* cooldown_after_loss_seconds, ..._consecutive_losses_seconds
  MaxTicks            \* bound: values of the clock

ASSUME WindowAssumption == Hour \in Nat \ {0} /\ Day \in Nat /\ Hour <= Day
ASSUME RateAssumption ==
  /\ Spacing \in Nat /\ HourlyLimit \in Nat \ {0} /\ DailyLimit \in Nat \ {0}
  /\ LossLimit \in Nat \ {0} /\ LossPause \in Nat /\ LossesPause \in Nat /\ MaxTicks \in Nat

\* record_entry and authorize forget an entry after a day, and with it a longer spacing,
\* which the configuration does not exclude.
ASSUME SpacingAssumption == Spacing <= Day

VARIABLES
  ticks,    \* time.time_ns() of the host
  entries,  \* the entries row of the store: the numbers of the entries in it
  stamps,   \* the times of all entries that were made
  open,     \* a trade is open
  losses,   \* closed trades since the last one that did not lose, up to LossLimit
  lastExit, \* when the last trade was closed
  kill, pause \* the latches

rateVars == <<ticks, entries, stamps, open, losses, lastExit, kill, pause>>

RateInit ==
  /\ ticks = 0 /\ entries = {} /\ stamps = <<>>
  /\ open = FALSE /\ losses = 0 /\ lastExit = 0
  /\ kill = FALSE /\ pause = FALSE

-----------------------------------------------------------------------------
Within(numbers, window) == {i \in numbers : stamps[i] > ticks - window}

\* The entries that count.
Recent == Within(entries, Day)

\* COOLDOWN, HOURLY_LIMIT and DAILY_TRADE_LIMIT.
RateAllows ==
  /\ Recent # {} => ticks - stamps[Max(Recent)] >= Spacing
  /\ Cardinality(Within(Recent, Hour)) < HourlyLimit
  /\ Cardinality(Recent) < DailyLimit

\* LOSS_COOLDOWN.
LossesAllow ==
  losses > 0 => ticks - lastExit >= (IF losses = 1 THEN LossPause ELSE LossesPause)

\* The number of the next entry.
Number == Len(stamps) + 1

\* record_entry, before the order is sent. (The mutants record an entry that was filled
\* only, or never prune the row.)
RecordFilled(filled) == entries' = IF filled THEN Recent \union {Number} ELSE entries
RecordUnpruned(filled) == entries' = entries \union {Number}
Record(filled) == entries' = Recent \union {Number}

\* An entry is authorized and sent; it opens a trade or ends unfilled.
Enter ==
  /\ ~kill /\ ~pause /\ ~open
  /\ RateAllows /\ losses < LossLimit /\ LossesAllow
  /\ open' \in BOOLEAN
  /\ Record(open')
  /\ stamps' = Append(stamps, ticks)
  /\ UNCHANGED <<ticks, losses, lastExit, kill, pause>>

\* CONSECUTIVE_LOSSES latches where the entry would have come.
LossesKill ==
  /\ ~kill /\ ~pause /\ ~open
  /\ RateAllows /\ losses >= LossLimit
  /\ kill' = TRUE /\ pause' = TRUE
  /\ UNCHANGED <<ticks, entries, stamps, open, losses, lastExit>>

\* STRATEGY_DEGRADATION pauses.
Degrade ==
  /\ ~kill /\ ~pause /\ ~open
  /\ RateAllows /\ losses < LossLimit /\ LossesAllow
  /\ pause' = TRUE
  /\ UNCHANGED <<ticks, entries, stamps, open, losses, lastExit, kill>>

\* A trade ends flat, with a loss or not.
CloseTrade ==
  /\ open /\ open' = FALSE /\ lastExit' = ticks
  /\ losses' \in {0, IF losses < LossLimit THEN losses + 1 ELSE losses}
  /\ UNCHANGED <<ticks, entries, stamps, kill, pause>>

\* Operators, and kills for any other reason. (The mutant's reset forgives the losses.)
ResetForgiving ==
  /\ ~open /\ kill' = FALSE /\ pause' = TRUE /\ losses' = 0
  /\ UNCHANGED <<ticks, entries, stamps, open, lastExit>>
Reset ==
  /\ ~open /\ kill' = FALSE /\ pause' = TRUE
  /\ UNCHANGED <<ticks, entries, stamps, open, losses, lastExit>>
Unpause ==
  /\ ~kill /\ pause' = FALSE
  /\ UNCHANGED <<ticks, entries, stamps, open, losses, lastExit, kill>>
Stop ==
  /\ kill' = TRUE /\ pause' = TRUE
  /\ UNCHANGED <<ticks, entries, stamps, open, losses, lastExit>>

\* Time passes, or the clock is set to any other time.
Turn ==
  /\ ticks' \in (0 .. MaxTicks) \ {ticks}
  /\ UNCHANGED <<entries, stamps, open, losses, lastExit, kill, pause>>

RateNext ==
  \/ Enter \/ LossesKill \/ Degrade \/ CloseTrade
  \/ Reset \/ Unpause \/ Stop \/ Turn
RateSpec == RateInit /\ [][RateNext]_rateVars

-----------------------------------------------------------------------------
RateTypeOK ==
  /\ ticks \in 0 .. MaxTicks /\ lastExit \in 0 .. MaxTicks
  /\ stamps \in Seq(0 .. MaxTicks)
  /\ entries \subseteq DOMAIN stamps /\ Cardinality(entries) <= DailyLimit
  /\ open \in BOOLEAN /\ kill \in BOOLEAN /\ pause \in BOOLEAN
  /\ losses \in 0 .. LossLimit

InWindow(i, window) == {j \in 1 .. i : stamps[j] > stamps[i] - window}

\* The limits hold for the entries themselves, in every window that ends with one, however
\* often the row is pruned, operators reset and resume, or the clock is set back.
EntriesKeepTheirDistance ==
  \A i \in DOMAIN stamps :
    /\ i > 1 => stamps[i] - stamps[i - 1] >= Spacing
    /\ Cardinality(InWindow(i, Hour)) <= HourlyLimit
    /\ Cardinality(InWindow(i, Day)) <= DailyLimit

\* After LossLimit losses in a row no reset and no resume brings an entry back on this
\* database: there is no entry that could end the row of losses (risk.py:162).
LosingStreakIsFinal ==
  [][losses >= LossLimit => losses' = losses /\ stamps' = stamps]_rateVars
=============================================================================
