----------------------------- MODULE Portfolio -----------------------------
(***************************************************************************)
(* The average-cost ledger of trader/portfolio.py over the fills of        *)
(* Store.fill: executions of the venue are reported late, in any order and *)
(* more than once, and the portfolio is folded anew from the fills in the  *)
(* order of their times.                                                   *)
(*                                                                         *)
(* An execution is known by its place in time, which is its fill id.       *)
(* Money is counted in parts of 1 / Scale, so that within the bounds the   *)
(* average cost is a whole number; the code's Decimal divides to 28        *)
(* digits.  Slippage, the split of the fees by maker and taker and the     *)
(* benchmark are left out.                                                 *)
(***************************************************************************)
EXTENDS Integers, Sequences, FiniteSetsExt

CONSTANTS
  Prices, Fees,      \* of an execution
  MaxInventory,      \* bound: largest position
  MaxExecutions,     \* bound: executions of the venue
  Scale              \* bound: the denominator of money

ASSUME AmountAssumption == Prices \subseteq Nat \ {0} /\ Fees \subseteq Nat /\ Scale \in Nat \ {0}
ASSUME ExecutionBoundsAssumption == MaxInventory \in Nat /\ MaxExecutions \in Nat

VARIABLES
  executed,  \* the venue's executions, in the order of their times
  booked,    \* the rows of fills: fill id -> execution
  portfolio  \* Portfolio.from_fills of the rows, as the last reader got it

bookVars == <<executed, booked, portfolio>>

-----------------------------------------------------------------------------
\* Portfolio. cost is entry_price * quantity; open is current, with what it has come to.

NoTrade == [gross |-> 0, fees |-> 0]
Empty == [quantity |-> 0, cost |-> 0, realized |-> 0, fees |-> 0, cash |-> 0,
          current |-> NoTrade, trades |-> <<>>, failed |-> FALSE]

Amount(f) == Scale * f.price * f.quantity

Bought(p, f) ==
  LET trade == IF p.quantity = 0 THEN NoTrade ELSE p.current IN
  [p EXCEPT !.quantity = @ + f.quantity,
            !.cost     = @ + Amount(f),
            !.cash     = @ - Amount(f) - Scale * f.fee,
            !.fees     = @ + Scale * f.fee,
            !.current  = [gross |-> trade.gross, fees |-> trade.fees + Scale * f.fee]]

\* What the quantity that is sold has cost, at the average. (The mutant at the whole cost.)
CostOfWhole(p, f) == p.cost
CostOf(p, f) == (p.cost * f.quantity) \div p.quantity

\* A sale. (The mutant forgets its fee.)
ReducedWithoutFee(p, f) ==
  LET gross == Amount(f) - CostOf(p, f) IN
  [p EXCEPT !.quantity = @ - f.quantity, !.cost = @ - CostOf(p, f), !.realized = @ + gross,
            !.cash = @ + Amount(f), !.fees = @ + Scale * f.fee,
            !.current = [gross |-> @.gross + gross, fees |-> @.fees + Scale * f.fee]]
Reduced(p, f) ==
  LET gross == Amount(f) - CostOf(p, f) IN
  [p EXCEPT !.quantity = @ - f.quantity,
            !.cost     = @ - CostOf(p, f),
            !.realized = @ + gross,
            !.cash     = @ + Amount(f) - Scale * f.fee,
            !.fees     = @ + Scale * f.fee,
            !.current  = [gross |-> @.gross + gross, fees |-> @.fees + Scale * f.fee]]

\* A flat portfolio closes its trade. (The mutants keep what the trade has come to, or
\* close it at every sale.)
ClosedAtEverySale(p) ==
  [p EXCEPT !.trades = Append(@, p.current.gross - p.current.fees), !.current = NoTrade]
ClosedWithoutReset(p) ==
  IF p.quantity = 0
  THEN [p EXCEPT !.trades = Append(@, p.current.gross - p.current.fees)]
  ELSE p
Closed(p) ==
  IF p.quantity = 0
  THEN [p EXCEPT !.trades = Append(@, p.current.gross - p.current.fees), !.current = NoTrade]
  ELSE p

\* Portfolio.apply; UNTRACKED_SELL_OR_NEGATIVE_INVENTORY ends the fold.
Apply(p, f) ==
  IF p.failed THEN p
  ELSE IF f.side = "buy" THEN Bought(p, f)
  ELSE IF f.quantity > p.quantity THEN [p EXCEPT !.failed = TRUE]
  ELSE Closed(Reduced(p, f))

\* The fills ORDER BY ts_ns: what the ledger is after those of the first n places in time.
Ledger(rows) ==
  LET Fold[n \in 0 .. MaxExecutions] ==
        IF n = 0 THEN Empty
        ELSE IF n \in DOMAIN rows THEN Apply(Fold[n - 1], rows[n]) ELSE Fold[n - 1]
  IN  Fold
FromFills(rows) == Ledger(rows)[MaxExecutions]

-----------------------------------------------------------------------------
BookInit == executed = <<>> /\ booked = <<>> /\ portfolio = Empty

\* What the first n fills leave.
InventoryAt(fills, n) ==
  LET flow == [i \in DOMAIN fills |->
                 IF fills[i].side = "buy" THEN fills[i].quantity ELSE -fills[i].quantity] IN
  MapThenSumSet(LAMBDA i : flow[i], 1 .. n)
Inventory(fills) == InventoryAt(fills, Len(fills))

\* The venue executes; it sells no more than is there.
Execute ==
  /\ Len(executed) < MaxExecutions
  /\ \E side \in {"buy", "sell"}, price \in Prices, fee \in Fees, quantity \in 1 .. MaxInventory :
       /\ IF side = "buy" THEN Inventory(executed) + quantity <= MaxInventory
                          ELSE quantity <= Inventory(executed)
       /\ executed' = Append(executed, [side |-> side, price |-> price, fee |-> fee,
                                        quantity |-> quantity])
  /\ UNCHANGED <<booked, portfolio>>

\* Store.fill of an execution in a status answer, and a reader after it. A row that is
\* there already stays as it is.
Report ==
  \E id \in DOMAIN executed :
    /\ booked' = [i \in DOMAIN booked \union {id} |->
                    IF i \in DOMAIN booked THEN booked[i] ELSE executed[i]]
    /\ portfolio' = FromFills(booked')
    /\ UNCHANGED executed

BookNext == Execute \/ Report
BookSpec == BookInit /\ [][BookNext]_bookVars

-----------------------------------------------------------------------------
Total(seq) == MapThenSumSet(LAMBDA i : seq[i], DOMAIN seq)

\* The types, and that what is held has a cost and nothing else has.
BookTypeOK ==
  /\ portfolio.quantity \in Nat /\ portfolio.cost \in Nat /\ portfolio.fees \in Nat
  /\ portfolio.realized \in Int /\ portfolio.cash \in Int
  /\ DOMAIN booked \subseteq DOMAIN executed
  /\ ~portfolio.failed => (portfolio.quantity = 0 <=> portfolio.cost = 0)

\* Cash, inventory at cost, realized result and fees agree after every report, whatever
\* has been reported yet and in which order (portfolio.py:55 and :60).
CashFollowsInventory ==
  ~portfolio.failed => portfolio.cash + portfolio.cost = portfolio.realized - portfolio.fees

\* The closed trades and the open one are the whole result: no gross result and no fee is
\* lost between two trades or counted in both (portfolio.py:65).
TradesAddUp ==
  ~portfolio.failed =>
    Total(portfolio.trades) + portfolio.current.gross - portfolio.current.fees
      = portfolio.realized - portfolio.fees

\* Once everything is reported the fold succeeds and agrees with the venue: inventory, and
\* one trade for every return to flat. (While a purchase is missing it may refuse.)
LedgerIsTheVenues ==
  booked = executed =>
    /\ ~portfolio.failed
    /\ portfolio.quantity = Inventory(executed)
    /\ Len(portfolio.trades) =
         Cardinality({n \in DOMAIN executed : InventoryAt(executed, n) = 0})

\* The three together: money adds up while reports are missing, and the ledger is the
\* venue's when none is (db.py:114).
LedgerIsTrue == CashFollowsInventory /\ TradesAddUp /\ LedgerIsTheVenues
=============================================================================
