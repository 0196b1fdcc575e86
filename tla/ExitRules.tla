------------------------------ MODULE ExitRules ------------------------------
(***************************************************************************)
(* When Engine.event of trader/engine.py leaves a position: exit_reason of *)
(* trader/risk.py with the highest bid since the entry, which the process  *)
(* keeps in the position_peak row of the store only.  Between two          *)
(* decisions everything is read again: the portfolio from its fills, whose *)
(* peak is the price of the first, and the row.  So a restart is no step.  *)
(*                                                                         *)
(* A position is bought by one maker order at one price.  A position is    *)
(* known by its entry_ns.  Limits are percents.  The stop that follows     *)
(* volatility, the fees of the moment, and the time stop, the reversal and *)
(* the requests of operators are choices.                                  *)
(***************************************************************************)
EXTENDS Integers

CONSTANTS
  Bids,       \* prices
  Stops,      \* hard_stop_bps and what volatility makes of it
  CostRates,  \* fees of an entry and an exit
  Slippage,   \* execution.slippage_bps
  TakeProfit, BreakEven, Trailing, \* take_profit_bps, break_even_trigger_bps, trailing_stop_bps
  MaxEntries  \* bound: positions

ASSUME BidAssumption == Bids \subseteq Nat \ {0}
ASSUME RuleAssumption ==
  /\ Stops \subseteq Nat /\ CostRates \subseteq Nat /\ Slippage \in Nat
  /\ TakeProfit \in Nat /\ BreakEven \in Nat /\ Trailing \in Nat /\ MaxEntries \in Nat

VARIABLES
  entry,    \* entry_ns of the position, 0 when flat
  paid,     \* its entry price
  entryNo,  \* history: positions so far
  peakRow,  \* position_peak
  best,     \* history: the highest price since the entry: what was paid, and the bids
  leaves,   \* the last decision: flatten
  asked,    \* history: what the rules ask for at the highest price since the entry
  urged     \* another reason was there

exitVars == <<entry, paid, entryNo, peakRow, best, leaves, asked, urged>>

NoPeak == [entry |-> 0, price |-> 0]
Highest(a, b) == IF a >= b THEN a ELSE b

ExitInit ==
  /\ entry = 0 /\ paid = 0 /\ entryNo = 0 /\ peakRow = NoPeak /\ best = 0
  /\ leaves = FALSE /\ asked = FALSE /\ urged = FALSE

-----------------------------------------------------------------------------
Gains(from, to, percent) == (to - from) * 100 >= percent * from

\* exit_reason on the prices, at a bid and a peak.
Leaves(bid, peak, stop, costs) ==
  \/ (paid - bid) * 100 >= stop * paid
  \/ Gains(paid, bid, TakeProfit + costs)
  \/ /\ Gains(paid, peak, BreakEven + costs)
     /\ \/ (bid - paid) * 100 <= (costs + Slippage) * paid
        \/ (peak - bid) * 100 >= Trailing * peak

\* The peak the decision is made at. (The mutants do not read the row, or take the row of
\* another position.)
PeakInMemory(bid) == Highest(paid, bid)
PeakOfAnyRow(bid) == Highest(Highest(paid, bid), peakRow.price)
Peak(bid) ==
  IF peakRow.entry = entry THEN Highest(Highest(paid, bid), peakRow.price)
  ELSE Highest(paid, bid)

Buy ==
  /\ entry = 0 /\ entryNo < MaxEntries
  /\ entryNo' = entryNo + 1 /\ entry' = entryNo'
  /\ paid' \in Bids /\ best' = paid'
  /\ UNCHANGED <<peakRow, leaves, asked, urged>>

Decide ==
  /\ entry # 0
  /\ \E bid \in Bids, stop \in Stops, costs \in CostRates :
       /\ best' = Highest(best, bid)
       /\ asked' = Leaves(bid, best', stop, costs)
       /\ urged' \in BOOLEAN
       /\ leaves' = (Leaves(bid, Peak(bid), stop, costs) \/ urged')
       /\ peakRow' = [entry |-> entry, price |-> Peak(bid)]
  /\ UNCHANGED <<entry, paid, entryNo>>

\* An exit or the native stop has sold everything; a part of it changes nothing here.
Sold ==
  /\ entry # 0 /\ entry' = 0
  /\ UNCHANGED <<paid, entryNo, peakRow, best, leaves, asked, urged>>

ExitNext == Buy \/ Decide \/ Sold
ExitSpec == ExitInit /\ [][ExitNext]_exitVars

-----------------------------------------------------------------------------
ExitTypeOK ==
  /\ entryNo \in 0 .. MaxEntries /\ entry \in {0, entryNo}
  /\ paid \in {0} \union Bids /\ best \in {0} \union Bids
  /\ peakRow \in [entry : 0 .. MaxEntries, price : {0} \union Bids]
  /\ leaves \in BOOLEAN /\ asked \in BOOLEAN /\ urged \in BOOLEAN

\* Every decision is what the rules say of the highest price since this entry: no gain is
\* forgotten between decisions or over restarts, so that its trailing stop would not come,
\* and none of an earlier position is held against this one (engine.py:83).
DecidesAtTheHighest == leaves <=> asked \/ urged
=============================================================================
