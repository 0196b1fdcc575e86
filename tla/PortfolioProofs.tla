-------------------------- MODULE PortfolioProofs --------------------------
(***************************************************************************)
(* Theorems about Portfolio, for all prices, fees, quantities and numbers  *)
(* of executions.  What the fold has come to is shown place by place: a    *)
(* first place at which it were wrong would have a right one before it.    *)
(***************************************************************************)
EXTENDS Portfolio, SumProofs, SequenceTheorems, TLAPS

Fills == [side : {"buy", "sell"}, price : Prices, fee : Fees, quantity : 1 .. MaxInventory]

-----------------------------------------------------------------------------
(* The average cost                                                        *)

\* A part of the quantity has a part of the cost, and the whole has the whole.
LEMMA CostIsShared ==
  ASSUME NEW cost \in Nat, NEW held \in Nat \ {0}, NEW sold \in 1 .. held
  PROVE  LET part == (cost * sold) \div held IN
         /\ part \in Nat /\ part <= cost
         /\ sold = held => part = cost
         /\ sold < held /\ cost > 0 => part < cost
<1> DEFINE part == (cost * sold) \div held
<1>1. cost * sold \in Nat
  OBVIOUS
<1>2. /\ part \in Int
      /\ held * part <= cost * sold /\ cost * sold < held * part + held
  BY <1>1
<1> HIDE DEF part
<1>3. \A h, x, y \in Int : h > 0 /\ h * x < h * y => x < y
  <2> SUFFICES ASSUME NEW h \in Int, NEW x \in Int, NEW y \in Int, h > 0, x >= y
               PROVE  h * x >= h * y
    OBVIOUS
  <2>1. h * (x - y) >= 0
    OBVIOUS
  <2> QED
    BY <2>1
<1>4. part >= 0
  <2>1. held * (-1) < held * part
    BY <1>1, <1>2
  <2> QED
    BY <1>2, <1>3, <2>1
<1>5. cost * sold <= held * cost
  <2>1. cost * (held - sold) >= 0
    OBVIOUS
  <2> QED
    BY <2>1
<1>6. part <= cost
  <2>1. held * part < held * (cost + 1)
    BY <1>2, <1>5
  <2> QED
    BY <1>2, <1>3, <2>1
<1>7. sold = held => part = cost
  <2> SUFFICES ASSUME sold = held
               PROVE  part >= cost
    BY <1>2, <1>6
  <2>1. held * cost < held * (part + 1)
    BY <1>2
  <2> QED
    BY <1>2, <1>3, <2>1
<1>8. sold < held /\ cost > 0 => part < cost
  <2> SUFFICES ASSUME sold < held, cost > 0
               PROVE  part < cost
    OBVIOUS
  <2>1. cost * sold < held * cost
    <3>1. cost * (held - sold) > 0
      OBVIOUS
    <3> QED
      BY <3>1
  <2>2. held * part < held * cost
    BY <1>2, <2>1
  <2> QED
    BY <1>2, <1>3, <2>2
<1> QED
  BY <1>2, <1>4, <1>6, <1>7, <1>8 DEF part

-----------------------------------------------------------------------------
(* The fold                                                                *)

\* What Ledger is: a function of the places in time up to N.
IsLedger(f, rows, N) ==
  f = [n \in 0 .. N |->
         IF n = 0 THEN Empty
         ELSE IF n \in DOMAIN rows THEN Apply(f[n - 1], rows[n]) ELSE f[n - 1]]

Step(p, rows, n) == IF n \in DOMAIN rows THEN Apply(p, rows[n]) ELSE p

\* There is such a function: the first N without one would have one for N - 1.
LEMMA LedgerExists ==
  ASSUME NEW rows, NEW N \in Nat
  PROVE  \E f : IsLedger(f, rows, N)
<1> DEFINE Bad == {m \in Nat : ~ \E f : IsLedger(f, rows, m)}
<1>1. SUFFICES ASSUME Bad # {} PROVE FALSE
  OBVIOUS
<1>2. PICK m \in Bad : \A k \in Bad : m <= k
  BY <1>1, MinIn
<1>3. m \in Nat /\ ~ \E f : IsLedger(f, rows, m)
  OBVIOUS
<1>4. m # 0
  <2> SUFFICES ASSUME m = 0 PROVE FALSE
    OBVIOUS
  <2> DEFINE f == [n \in 0 .. 0 |-> Empty]
  <2>1. IsLedger(f, rows, 0)
    BY DEF IsLedger
  <2> QED
    BY <1>3, <2>1
<1>5. m - 1 \in Nat /\ m - 1 \notin Bad
  BY <1>2, <1>3, <1>4
<1>6. PICK g : IsLedger(g, rows, m - 1)
  BY <1>5
<1> DEFINE F == [n \in 0 .. m |-> IF n = m THEN Step(g[m - 1], rows, m) ELSE g[n]]
<1>7. IsLedger(F, rows, m)
  <2>1. ASSUME NEW n \in 0 .. m, n # m
        PROVE  /\ F[n] = g[n] /\ n \in 0 .. m - 1
               /\ g[n] = IF n = 0 THEN Empty
                         ELSE IF n \in DOMAIN rows THEN Apply(g[n - 1], rows[n]) ELSE g[n - 1]
               /\ n # 0 => F[n - 1] = g[n - 1]
    <3>1. n \in 0 .. m - 1 /\ (n # 0 => n - 1 \in 0 .. m /\ n - 1 # m)
      BY <1>3, <2>1
    <3>2. g[n] = IF n = 0 THEN Empty
                 ELSE IF n \in DOMAIN rows THEN Apply(g[n - 1], rows[n]) ELSE g[n - 1]
      BY <1>6, <3>1, Zenon DEF IsLedger
    <3> QED
      BY <2>1, <3>1, <3>2
  <2>2. F[m] = Step(g[m - 1], rows, m) /\ F[m - 1] = g[m - 1]
    BY <1>3, <1>4
  <2> HIDE DEF F
  <2>3. ASSUME NEW n \in 0 .. m
        PROVE  F[n] = IF n = 0 THEN Empty
                      ELSE IF n \in DOMAIN rows THEN Apply(F[n - 1], rows[n]) ELSE F[n - 1]
    <3>1. CASE n = m
      BY <1>4, <2>2, <3>1 DEF Step
    <3>2. CASE n # m
      BY <2>1, <3>2
    <3> QED
      BY <3>1, <3>2
  <2>4. F = [n \in 0 .. m |-> F[n]]
    BY DEF F
  <2> QED
    BY <2>3, <2>4 DEF IsLedger
<1> QED
  BY <1>3, <1>7

\* What the ledger is at the first place and at every other.
LEMMA LedgerAt ==
  ASSUME NEW rows
  PROVE  /\ Ledger(rows)[0] = Empty
         /\ \A n \in 1 .. MaxExecutions : Ledger(rows)[n] = Step(Ledger(rows)[n - 1], rows, n)
<1>1. MaxExecutions \in Nat
  BY ExecutionBoundsAssumption
<1>2. PICK f : IsLedger(f, rows, MaxExecutions)
  BY <1>1, LedgerExists
<1>3. Ledger(rows) = CHOOSE g : IsLedger(g, rows, MaxExecutions)
  BY DEF Ledger, IsLedger
<1>4. IsLedger(Ledger(rows), rows, MaxExecutions)
  BY <1>2, <1>3
<1> DEFINE L == Ledger(rows)
<1>5. L = [n \in 0 .. MaxExecutions |->
             IF n = 0 THEN Empty
             ELSE IF n \in DOMAIN rows THEN Apply(L[n - 1], rows[n]) ELSE L[n - 1]]
  BY <1>4 DEF IsLedger
<1> HIDE DEF L
<1>6. L[0] = Empty
  BY <1>1, <1>5
<1>7. \A n \in 1 .. MaxExecutions : L[n] = Step(L[n - 1], rows, n)
  <2> TAKE n \in 1 .. MaxExecutions
  <2>1. n \in 0 .. MaxExecutions /\ n # 0
    BY <1>1
  <2> QED
    BY <1>5, <2>1, Zenon DEF Step
<1> QED
  BY <1>6, <1>7 DEF L

-----------------------------------------------------------------------------
(* What holds of every ledger                                              *)

Ledgers ==
  [quantity : Nat, cost : Nat, realized : Int, fees : Nat, cash : Int,
   current : [gross : Int, fees : Int], trades : Seq(Int), failed : BOOLEAN]

\* The money adds up, what is held has a cost, and a flat ledger has no open trade.
Sound(p) ==
  /\ p \in Ledgers
  /\ p.quantity = 0 <=> p.cost = 0
  /\ p.quantity = 0 => p.current = NoTrade
  /\ p.cash + p.cost = p.realized - p.fees
  /\ Total(p.trades) + p.current.gross - p.current.fees = p.realized - p.fees

\* Total is the sum that SumProofs is about.
LEMMA TotalIsSum ==
  ASSUME NEW seq
  PROVE  Total(seq) = Sum(seq, DOMAIN seq)
BY DEF Total, Sum

\* One more trade.
LEMMA TotalOfAppend ==
  ASSUME NEW seq \in Seq(Int), NEW x \in Int
  PROVE  Total(Append(seq, x)) = Total(seq) + x /\ Total(seq) \in Int
<1> DEFINE more == Append(seq, x)
           n == Len(seq)
<1>1. /\ n \in Nat /\ DOMAIN seq = 1 .. n /\ DOMAIN more = 1 .. n + 1
      /\ more[n + 1] = x /\ \A i \in 1 .. n : more[i] = seq[i] /\ seq[i] \in Int
  BY AppendProperties, ElementOfSeq
<1> HIDE DEF more, n
<1>2. IsFiniteSet(1 .. n) /\ IsFiniteSet(1 .. n + 1)
  BY <1>1, FS_Interval
<1>3. /\ n + 1 \in 1 .. n + 1 /\ (1 .. n + 1) \ {n + 1} = 1 .. n
      /\ \A i \in 1 .. n + 1 : i \in 1 .. n \/ i = n + 1
  BY <1>1
<1>4. \A i \in 1 .. n + 1 : more[i] \in Int
  BY <1>1, <1>3
<1>5. Sum(more, 1 .. n + 1) = more[n + 1] + Sum(more, (1 .. n + 1) \ {n + 1})
  BY <1>2, <1>3, <1>4, SumAny
<1>6. Sum(more, 1 .. n) = Sum(seq, 1 .. n)
  BY <1>1, <1>2, SumSame
<1>7. Sum(seq, 1 .. n) \in Int
  BY <1>1, <1>2, SumInt
<1>8. Total(more) = Sum(more, 1 .. n + 1) /\ Total(seq) = Sum(seq, 1 .. n)
  BY <1>1, TotalIsSum
<1>9. Total(more) = Total(seq) + x
  <2>1. PICK t \in Int : t = Sum(seq, 1 .. n)
    BY <1>7
  <2>2. Total(more) = x + t /\ Total(seq) = t
    BY <1>1, <1>3, <1>5, <1>6, <1>8, <2>1
  <2> QED
    BY <2>2
<1> QED
  BY <1>7, <1>8, <1>9 DEF more

\* The ledger of no fills.
LEMMA EmptyIsSound == Sound(Empty)
<1>1. Empty \in Ledgers
  <2>1. NoTrade \in [gross : Int, fees : Int]
    BY DEF NoTrade
  <2>2. <<>> \in Seq(Int) /\ FALSE \in BOOLEAN
    OBVIOUS
  <2> QED
    BY <2>1, <2>2 DEF Empty, Ledgers
<1>2. Total(<<>>) = 0
  BY TotalIsSum, SumEmpty
<1> QED
  BY <1>1, <1>2 DEF Sound, Empty, NoTrade

\* What a fill says, and what it comes to.
LEMMA FillAmounts ==
  ASSUME NEW f \in Fills
  PROVE  /\ f.quantity \in Nat /\ f.quantity > 0
         /\ Amount(f) \in Nat /\ Amount(f) > 0 /\ Scale * f.fee \in Nat
<1>1. f.price \in Prices /\ f.fee \in Fees /\ f.quantity \in 1 .. MaxInventory
  BY DEF Fills
<1>2. /\ f.price \in Nat /\ f.price > 0 /\ f.fee \in Nat /\ f.quantity \in Nat /\ f.quantity > 0
      /\ Scale \in Nat /\ Scale > 0
  <2>1. f.price \in Nat /\ f.price # 0 /\ f.fee \in Nat /\ Scale \in Nat /\ Scale # 0
    BY <1>1, AmountAssumption
  <2> QED
    BY <1>1, <2>1, ExecutionBoundsAssumption
<1>3. \A x, y \in Nat : x * y \in Nat /\ (x > 0 /\ y > 0 => x * y > 0)
  OBVIOUS
<1>4. Scale * f.price \in Nat /\ Scale * f.price > 0
  BY <1>2, <1>3
<1>5. Scale * f.price * f.quantity \in Nat /\ Scale * f.price * f.quantity > 0
  BY <1>2, <1>3, <1>4
<1> QED
  BY <1>2, <1>3, <1>5 DEF Amount

\* The numbers of a sound ledger, by themselves.
Numbers(p, quantity, cost, fees, realized, cash, gross, spent, total) ==
  /\ quantity = p.quantity /\ cost = p.cost /\ realized = p.realized
  /\ fees = p.fees /\ cash = p.cash /\ total = Total(p.trades)
  /\ p.current = [gross |-> gross, fees |-> spent]
  /\ cash + cost = realized - fees
  /\ total + gross - spent = realized - fees
  /\ quantity = 0 <=> cost = 0
  /\ quantity = 0 => gross = 0 /\ spent = 0

\* The types of a sound ledger, one by one.
LEMMA SoundParts ==
  ASSUME NEW p, Sound(p)
  PROVE  /\ p \in Ledgers /\ p.trades \in Seq(Int)
         /\ \E quantity, cost, fees \in Nat, realized, cash, gross, spent, total \in Int :
              Numbers(p, quantity, cost, fees, realized, cash, gross, spent, total)
<1>1. p \in Ledgers
  BY DEF Sound
<1>2. /\ p.quantity \in Nat /\ p.cost \in Nat /\ p.cash \in Int /\ p.fees \in Nat
      /\ p.realized \in Int /\ p.trades \in Seq(Int) /\ p.current \in [gross : Int, fees : Int]
  BY <1>1 DEF Ledgers
<1>3. Total(p.trades) \in Int
  BY <1>2, 0 \in Int, TotalOfAppend
<1>4. /\ p.current.gross \in Int /\ p.current.fees \in Int
      /\ p.current = [gross |-> p.current.gross, fees |-> p.current.fees]
  BY <1>2
<1>5. p.quantity = 0 => p.current.gross = 0 /\ p.current.fees = 0
  BY DEF Sound, NoTrade
<1>6. /\ p.cash + p.cost = p.realized - p.fees
      /\ Total(p.trades) + p.current.gross - p.current.fees = p.realized - p.fees
      /\ p.quantity = 0 <=> p.cost = 0
  BY DEF Sound
<1>7. Numbers(p, p.quantity, p.cost, p.fees, p.realized, p.cash, p.current.gross,
              p.current.fees, Total(p.trades))
  BY <1>4, <1>5, <1>6 DEF Numbers
<1> QED
  BY <1>1, <1>2, <1>3, <1>4, <1>7

\* A purchase.
LEMMA BoughtIsSound ==
  ASSUME NEW p, Sound(p), NEW f \in Fills
  PROVE  /\ Sound(Bought(p, f)) /\ Bought(p, f).quantity = p.quantity + f.quantity
         /\ Bought(p, f).failed = p.failed /\ Bought(p, f).trades = p.trades
<1>1. PICK n, a, e \in Nat :
        n = f.quantity /\ n > 0 /\ a = Amount(f) /\ a > 0 /\ e = Scale * f.fee
  BY FillAmounts
<1>2. p \in Ledgers /\ p.trades \in Seq(Int)
  BY SoundParts
<1> PICK quantity, cost, fees \in Nat, realized, cash, gross, spent, total \in Int :
        Numbers(p, quantity, cost, fees, realized, cash, gross, spent, total)
  BY SoundParts
<1>3. /\ quantity = p.quantity /\ cost = p.cost /\ realized = p.realized
      /\ fees = p.fees /\ cash = p.cash /\ total = Total(p.trades)
      /\ p.current = [gross |-> gross, fees |-> spent]
      /\ cash + cost = realized - fees
      /\ total + gross - spent = realized - fees
      /\ quantity = 0 <=> cost = 0
      /\ quantity = 0 => gross = 0 /\ spent = 0
  BY DEF Numbers
<1> DEFINE c == [gross |-> gross, fees |-> spent + e]
           b == Bought(p, f)
<1>4. b = [p EXCEPT !.quantity = quantity + n, !.cost = cost + a, !.cash = cash - a - e,
                    !.fees = fees + e, !.current = c]
  <2>1. (IF p.quantity = 0 THEN NoTrade ELSE p.current) = [gross |-> gross, fees |-> spent]
    BY <1>3 DEF NoTrade
  <2>2. /\ (IF p.quantity = 0 THEN NoTrade ELSE p.current).gross = gross
        /\ (IF p.quantity = 0 THEN NoTrade ELSE p.current).fees = spent
    BY <2>1
  <2> QED
    BY <1>1, <1>3, <2>2, Zenon DEF Bought
<1>5. c \in [gross : Int, fees : Int] /\ c.gross = gross /\ c.fees = spent + e
  OBVIOUS
<1> HIDE DEF b, c
<1>6. /\ quantity + n \in Nat /\ cost + a \in Nat /\ cash - a - e \in Int /\ fees + e \in Nat
      /\ quantity + n # 0 /\ cost + a # 0
  BY <1>1
<1>7. /\ b \in Ledgers
      /\ b.quantity = quantity + n /\ b.cost = cost + a /\ b.cash = cash - a - e
      /\ b.fees = fees + e /\ b.current = c /\ b.realized = realized /\ b.trades = p.trades
      /\ b.failed = p.failed
  BY <1>2, <1>3, <1>4, <1>5, <1>6 DEF Ledgers
<1>8. (cash - a - e) + (cost + a) = realized - (fees + e)
  BY <1>3
<1>9. total + gross - (spent + e) = realized - (fees + e)
  BY <1>3
<1>10. Sound(b)
  BY <1>3, <1>5, <1>6, <1>7, <1>8, <1>9 DEF Sound
<1> QED
  BY <1>1, <1>3, <1>7, <1>10 DEF b

\* A sale of what is held.
LEMMA ReducedIsSound ==
  ASSUME NEW p, Sound(p), NEW f \in Fills, f.quantity <= p.quantity
  PROVE  LET d == Closed(Reduced(p, f)) IN
         /\ Sound(d) /\ d.failed = p.failed /\ d.quantity = p.quantity - f.quantity
         /\ d.trades = p.trades \/ \E x \in Int : d.trades = Append(p.trades, x)
         /\ d.trades = p.trades <=> p.quantity # f.quantity
<1>1. PICK n, a, e \in Nat : n = f.quantity /\ n > 0 /\ a = Amount(f) /\ e = Scale * f.fee
  BY FillAmounts
<1>2. p \in Ledgers /\ p.trades \in Seq(Int)
  BY SoundParts
<1> PICK quantity, cost, fees \in Nat, realized, cash, gross, spent, total \in Int :
        Numbers(p, quantity, cost, fees, realized, cash, gross, spent, total)
  BY SoundParts
<1>3. /\ quantity = p.quantity /\ cost = p.cost /\ realized = p.realized
      /\ fees = p.fees /\ cash = p.cash /\ total = Total(p.trades)
      /\ p.current = [gross |-> gross, fees |-> spent]
      /\ cash + cost = realized - fees
      /\ total + gross - spent = realized - fees
      /\ quantity = 0 <=> cost = 0
      /\ quantity = 0 => gross = 0 /\ spent = 0
  BY DEF Numbers
<1>4. n <= quantity
  BY <1>1, <1>3
<1>5. PICK k \in Nat : /\ k = CostOf(p, f) /\ k <= cost
                       /\ n = quantity => k = cost
                       /\ n < quantity => k < cost
  <2>1. quantity \in Nat \ {0} /\ n \in 1 .. quantity /\ cost > 0
    BY <1>1, <1>3, <1>4
  <2> QED
    BY <1>1, <1>3, <2>1, CostIsShared DEF CostOf
<1> DEFINE c == [gross |-> gross + (a - k), fees |-> spent + e]
           r == Reduced(p, f)
<1>6. r = [p EXCEPT !.quantity = quantity - n, !.cost = cost - k, !.realized = realized + (a - k),
                    !.cash = cash + a - e, !.fees = fees + e, !.current = c]
  BY <1>1, <1>3, <1>5 DEF Reduced
<1>7. c \in [gross : Int, fees : Int] /\ c.gross = gross + (a - k) /\ c.fees = spent + e
  OBVIOUS
<1> HIDE DEF r, c
<1>8. /\ quantity - n \in Nat /\ cost - k \in Nat /\ realized + (a - k) \in Int
      /\ cash + a - e \in Int /\ fees + e \in Nat
      /\ quantity - n = 0 <=> cost - k = 0
  BY <1>4, <1>5
<1>9. /\ r \in Ledgers
      /\ r.quantity = quantity - n /\ r.cost = cost - k /\ r.realized = realized + (a - k)
      /\ r.cash = cash + a - e /\ r.fees = fees + e /\ r.current = c
      /\ r.trades = p.trades /\ r.failed = p.failed
  BY <1>2, <1>3, <1>6, <1>7, <1>8 DEF Ledgers
<1>10. (cash + a - e) + (cost - k) = (realized + (a - k)) - (fees + e)
  BY <1>3
<1>11. total + (gross + (a - k)) - (spent + e) = (realized + (a - k)) - (fees + e)
  BY <1>3
<1>12. CASE n = quantity
  <2> DEFINE x == (gross + (a - k)) - (spent + e)
             d == Closed(r)
  <2>1. x \in Int /\ total + x = (realized + (a - k)) - (fees + e)
    BY <1>11
  <2>2. d = [r EXCEPT !.trades = Append(p.trades, x), !.current = NoTrade]
    <3>1. r.quantity = 0
      BY <1>9, <1>12
    <3>2. r.current.gross - r.current.fees = x
      BY <1>7, <1>9
    <3> QED
      BY <1>9, <3>1, <3>2 DEF Closed
  <2> HIDE DEF x, d
  <2>3. NoTrade \in [gross : Int, fees : Int] /\ NoTrade.gross = 0 /\ NoTrade.fees = 0
    BY DEF NoTrade
  <2>4. Append(p.trades, x) \in Seq(Int) /\ Total(Append(p.trades, x)) = total + x
    BY <1>2, <1>3, <2>1, TotalOfAppend, AppendProperties
  <2>5. /\ d \in Ledgers
        /\ d.quantity = quantity - n /\ d.cost = cost - k /\ d.realized = realized + (a - k)
        /\ d.cash = cash + a - e /\ d.fees = fees + e /\ d.current = NoTrade
        /\ d.trades = Append(p.trades, x) /\ d.failed = p.failed
    BY <1>9, <2>2, <2>3, <2>4 DEF Ledgers
  <2>6. Total(d.trades) + d.current.gross - d.current.fees = d.realized - d.fees
    <3>1. (total + x) + 0 - 0 = (realized + (a - k)) - (fees + e)
      BY <2>1
    <3> QED
      BY <2>3, <2>4, <2>5, <3>1
  <2>7. Sound(d)
    BY <1>8, <1>10, <2>5, <2>6 DEF Sound
  <2>8. Append(p.trades, x) # p.trades
    <3>1. Len(Append(p.trades, x)) = Len(p.trades) + 1 /\ Len(p.trades) \in Nat
      BY <1>2, <2>1, AppendProperties
    <3> QED
      BY <3>1
  <2> QED
    BY <1>1, <1>3, <1>12, <2>1, <2>5, <2>7, <2>8 DEF d, r
<1>13. CASE n # quantity
  <2>1. quantity - n # 0
    BY <1>13
  <2>2. Closed(r) = r
    BY <1>9, <2>1 DEF Closed
  <2>3. Total(r.trades) + r.current.gross - r.current.fees = r.realized - r.fees
    BY <1>3, <1>7, <1>9, <1>11
  <2>4. Sound(r)
    BY <1>8, <1>9, <1>10, <2>1, <2>3 DEF Sound
  <2> QED
    BY <1>1, <1>3, <1>9, <1>13, <2>2, <2>4 DEF r
<1> QED
  BY <1>12, <1>13

\* Portfolio.apply keeps it, when it refuses too.
LEMMA ApplyIsSound ==
  ASSUME NEW p, Sound(p), NEW f \in Fills
  PROVE  Sound(Apply(p, f))
<1>1. CASE p.failed
  BY <1>1 DEF Apply
<1>2. CASE ~p.failed /\ f.side = "buy"
  BY <1>2, BoughtIsSound DEF Apply
<1>3. CASE ~p.failed /\ f.side # "buy" /\ f.quantity > p.quantity
  <2> DEFINE d == [p EXCEPT !.failed = TRUE]
  <2>1. Apply(p, f) = d
    BY <1>3 DEF Apply
  <2>2. /\ d \in Ledgers
        /\ d.quantity = p.quantity /\ d.cost = p.cost /\ d.realized = p.realized
        /\ d.cash = p.cash /\ d.fees = p.fees /\ d.trades = p.trades /\ d.current = p.current
    BY DEF Sound, Ledgers
  <2> HIDE DEF d
  <2> QED
    BY <2>1, <2>2 DEF Sound
<1>4. CASE ~p.failed /\ f.side # "buy" /\ ~(f.quantity > p.quantity)
  <2>1. f.quantity <= p.quantity
    BY <1>4, ExecutionBoundsAssumption DEF Fills, Sound, Ledgers
  <2> QED
    BY <1>4, <2>1, ReducedIsSound DEF Apply
<1> QED
  BY <1>1, <1>2, <1>3, <1>4

\* Whatever rows are booked, the ledger is sound at every place in time.
LEMMA LedgerIsSound ==
  ASSUME NEW rows, \A n \in DOMAIN rows : rows[n] \in Fills
  PROVE  \A n \in 0 .. MaxExecutions : Sound(Ledger(rows)[n])
<1> DEFINE Bad == {n \in 0 .. MaxExecutions : ~Sound(Ledger(rows)[n])}
<1>1. SUFFICES ASSUME Bad # {} PROVE FALSE
  OBVIOUS
<1>2. PICK n \in Bad : \A k \in Bad : n <= k
  <2>1. Bad \in SUBSET Nat
    OBVIOUS
  <2> HIDE DEF Bad
  <2> QED
    BY <1>1, <2>1, MinIn
<1>3. n \in 0 .. MaxExecutions /\ ~Sound(Ledger(rows)[n]) /\ MaxExecutions \in Nat
  BY ExecutionBoundsAssumption
<1>4. n # 0
  BY <1>3, LedgerAt, EmptyIsSound
<1>5. n \in 1 .. MaxExecutions /\ n - 1 \in 0 .. MaxExecutions /\ ~(n <= n - 1)
  BY <1>3, <1>4
<1>6. Sound(Ledger(rows)[n - 1])
  BY <1>2, <1>5
<1>7. Ledger(rows)[n] = Step(Ledger(rows)[n - 1], rows, n)
  BY <1>5, LedgerAt
<1> QED
  BY <1>3, <1>6, <1>7, ApplyIsSound DEF Step

\* Where nothing more is booked the ledger stays.
LEMMA LedgerRests ==
  ASSUME NEW rows, NEW m \in 0 .. MaxExecutions,
         \A n \in 1 .. MaxExecutions : n \in DOMAIN rows => n <= m
  PROVE  FromFills(rows) = Ledger(rows)[m]
<1> DEFINE Bad == {n \in m .. MaxExecutions : Ledger(rows)[n] # Ledger(rows)[m]}
<1>1. MaxExecutions \in Nat /\ m \in Nat /\ m <= MaxExecutions
  BY ExecutionBoundsAssumption
<1>2. Bad = {}
  <2>1. SUFFICES ASSUME Bad # {} PROVE FALSE
    OBVIOUS
  <2>2. PICK n \in Bad : \A k \in Bad : n <= k
    <3>1. Bad \in SUBSET Nat
      BY <1>1
    <3> HIDE DEF Bad
    <3> QED
      BY <2>1, <3>1, MinIn
  <2>3. n \in m .. MaxExecutions /\ Ledger(rows)[n] # Ledger(rows)[m]
    OBVIOUS
  <2>4. n \in 1 .. MaxExecutions /\ n - 1 \in m .. MaxExecutions /\ ~(n <= n - 1) /\ ~(n <= m)
    BY <1>1, <2>3
  <2>5. Ledger(rows)[n - 1] = Ledger(rows)[m]
    BY <2>2, <2>4
  <2>6. Ledger(rows)[n] = Ledger(rows)[n - 1]
    BY <2>4, LedgerAt DEF Step
  <2> QED
    BY <2>3, <2>5, <2>6
<1>3. MaxExecutions \in m .. MaxExecutions
  BY <1>1
<1> QED
  BY <1>2, <1>3 DEF FromFills

-----------------------------------------------------------------------------
(* The inventory of the venue                                              *)

Flows(fills) ==
  [i \in DOMAIN fills |->
     IF fills[i].side = "buy" THEN fills[i].quantity ELSE -fills[i].quantity]

\* The inventory is a sum of what the fills have moved.
LEMMA InventoryIsSum ==
  ASSUME NEW fills, NEW n
  PROVE  InventoryAt(fills, n) = Sum(Flows(fills), 1 .. n)
BY DEF InventoryAt, Sum, Flows

\* What a fill adds or takes.
LEMMA InventorySteps ==
  ASSUME NEW fills \in Seq(Fills)
  PROVE  /\ InventoryAt(fills, 0) = 0
         /\ \A n \in 1 .. Len(fills) :
              /\ fills[n] \in Fills /\ InventoryAt(fills, n - 1) \in Int
              /\ InventoryAt(fills, n) =
                   InventoryAt(fills, n - 1) +
                     (IF fills[n].side = "buy" THEN fills[n].quantity ELSE -fills[n].quantity)
<1>1. InventoryAt(fills, 0) = 0
  <2>1. 1 .. 0 = {}
    OBVIOUS
  <2> QED
    BY <2>1, InventoryIsSum, SumEmpty
<1>2. ASSUME NEW n \in 1 .. Len(fills)
      PROVE  /\ fills[n] \in Fills /\ InventoryAt(fills, n - 1) \in Int
             /\ InventoryAt(fills, n) =
                  InventoryAt(fills, n - 1) +
                    (IF fills[n].side = "buy" THEN fills[n].quantity ELSE -fills[n].quantity)
  <2> DEFINE w == Flows(fills)
  <2>1. Len(fills) \in Nat /\ n \in Nat /\ DOMAIN fills = 1 .. Len(fills)
    BY LenProperties
  <2>2. /\ IsFiniteSet(1 .. n) /\ IsFiniteSet(1 .. n - 1) /\ n \in 1 .. n
        /\ (1 .. n) \ {n} = 1 .. n - 1
    <3>1. 1 \in Int /\ n \in Int /\ n - 1 \in Int
      BY <2>1
    <3>2. IsFiniteSet(1 .. n) /\ IsFiniteSet(1 .. n - 1)
      BY <3>1, FS_Interval
    <3>3. n \in 1 .. n
      BY <2>1
    <3>4. \A k : k \in (1 .. n) \ {n} <=> k \in 1 .. n - 1
      BY <2>1
    <3> QED
      BY <3>2, <3>3, <3>4
  <2>3. ASSUME NEW i \in 1 .. n
        PROVE  /\ fills[i] \in Fills /\ w[i] \in Int
               /\ w[i] = IF fills[i].side = "buy" THEN fills[i].quantity ELSE -fills[i].quantity
    <3>1. i \in DOMAIN fills /\ fills[i] \in Fills
      BY <2>1, ElementOfSeq
    <3>2. w[i] = IF fills[i].side = "buy" THEN fills[i].quantity ELSE -fills[i].quantity
      BY <3>1 DEF Flows
    <3>3. fills[i].quantity \in Nat
      BY <3>1, FillAmounts
    <3> QED
      BY <3>1, <3>2, <3>3
  <2> HIDE DEF w
  <2>4. Sum(w, 1 .. n) = w[n] + Sum(w, (1 .. n) \ {n})
    BY <2>2, <2>3, SumAny
  <2>5. \A i \in 1 .. n - 1 : w[i] \in Int
    BY <2>1, <2>3
  <2>6. Sum(w, 1 .. n - 1) \in Int
    BY <2>2, <2>5, SumInt
  <2>7. PICK a, b \in Int : a = w[n] /\ b = Sum(w, 1 .. n - 1)
    BY <2>2, <2>3, <2>6
  <2>8. Sum(w, 1 .. n) = b + a
    <3>1. Sum(w, 1 .. n) = a + b
      BY <2>2, <2>4, <2>7
    <3> QED
      BY <3>1
  <2> QED
    BY <2>2, <2>3, <2>7, <2>8, InventoryIsSum DEF w
<1> QED
  BY <1>1, <1>2

\* What comes later changes nothing before.
LEMMA InventoryOfPrefix ==
  ASSUME NEW fills \in Seq(Fills), NEW f \in Fills, NEW n \in 0 .. Len(fills)
  PROVE  InventoryAt(Append(fills, f), n) = InventoryAt(fills, n)
<1> DEFINE more == Append(fills, f)
<1>1. /\ Len(fills) \in Nat /\ DOMAIN fills = 1 .. Len(fills) /\ DOMAIN more = 1 .. Len(fills) + 1
      /\ \A i \in 1 .. Len(fills) : more[i] = fills[i]
  BY AppendProperties
<1> HIDE DEF more
<1>2. \A i \in 1 .. n : i \in DOMAIN fills /\ i \in DOMAIN more /\ more[i] = fills[i]
  BY <1>1
<1>3. \A i \in 1 .. n : Flows(more)[i] = Flows(fills)[i]
  BY <1>2 DEF Flows
<1>4. IsFiniteSet(1 .. n)
  BY FS_Interval
<1>5. Sum(Flows(more), 1 .. n) = Sum(Flows(fills), 1 .. n)
  BY <1>3, <1>4, SumSame
<1> QED
  BY <1>5, InventoryIsSum DEF more

\* How often the first n fills have left nothing.
Flats(fills, n) == {m \in 1 .. n : InventoryAt(fills, m) = 0}

\* A ledger that has booked them all is where the venue is.
Agrees(p, fills, n) ==
  ~p.failed /\ p.quantity = InventoryAt(fills, n) /\ Len(p.trades) = Cardinality(Flats(fills, n))

\* One more fill that the venue could execute keeps the ledger with the venue.
LEMMA AgreementSteps ==
  ASSUME NEW fills \in Seq(Fills), NEW n \in 1 .. Len(fills), NEW p, Sound(p),
         Agrees(p, fills, n - 1), InventoryAt(fills, n) \in Nat
  PROVE  Agrees(Apply(p, fills[n]), fills, n)
<1> DEFINE f == fills[n]
<1>1. /\ f \in Fills /\ f.quantity \in Nat /\ f.quantity > 0
      /\ p.quantity \in Nat /\ p.quantity = InventoryAt(fills, n - 1)
      /\ InventoryAt(fills, n) =
           p.quantity + (IF f.side = "buy" THEN f.quantity ELSE -f.quantity)
  BY InventorySteps, FillAmounts DEF Agrees, Sound, Ledgers
<1>2. Len(fills) \in Nat /\ n \in Nat /\ p.trades \in Seq(Int)
  BY LenProperties DEF Sound, Ledgers
<1>3. IsFiniteSet(Flats(fills, n - 1)) /\ n \notin Flats(fills, n - 1)
  <2>1. IsFiniteSet(1 .. n - 1) /\ Flats(fills, n - 1) \subseteq 1 .. n - 1 /\ n \notin 1 .. n - 1
    BY <1>2, FS_Interval DEF Flats
  <2> QED
    BY <2>1, FS_Subset
<1>4. \A m : m \in 1 .. n <=> m \in 1 .. n - 1 \/ m = n
  BY <1>2
<1> HIDE DEF f
<1>5. CASE f.side = "buy"
  <2>1. Apply(p, f) = Bought(p, f)
    BY <1>5 DEF Apply, Agrees
  <2>2. InventoryAt(fills, n) # 0
    BY <1>1, <1>5
  <2>3. Flats(fills, n) = Flats(fills, n - 1)
    BY <1>4, <2>2 DEF Flats
  <2> QED
    BY <1>1, <1>5, <2>1, <2>3, BoughtIsSound DEF Agrees, f
<1>6. CASE f.side # "buy"
  <2> DEFINE d == Closed(Reduced(p, f))
  <2>1. InventoryAt(fills, n) = p.quantity - f.quantity /\ f.quantity <= p.quantity
    BY <1>1, <1>6
  <2>2. Apply(p, f) = d
    BY <1>1, <1>6, <2>1 DEF Apply, Agrees
  <2>3. /\ d.failed = p.failed /\ d.quantity = p.quantity - f.quantity
        /\ d.trades = p.trades \/ \E x \in Int : d.trades = Append(p.trades, x)
        /\ d.trades = p.trades <=> p.quantity # f.quantity
    BY <1>1, <2>1, ReducedIsSound
  <2> HIDE DEF d
  <2>4. Len(d.trades) = Cardinality(Flats(fills, n))
    <3>1. CASE p.quantity = f.quantity
      <4>1. PICK x \in Int : d.trades = Append(p.trades, x)
        BY <2>3, <3>1
      <4>2. Len(d.trades) = Len(p.trades) + 1
        BY <1>2, <4>1, AppendProperties
      <4>3. InventoryAt(fills, n) = 0
        BY <1>1, <2>1, <3>1
      <4>4. Flats(fills, n) = Flats(fills, n - 1) \union {n}
        BY <1>4, <4>3 DEF Flats
      <4>5. Cardinality(Flats(fills, n)) = Cardinality(Flats(fills, n - 1)) + 1
        BY <1>3, <4>4, FS_AddElement
      <4> QED
        BY <4>2, <4>5 DEF Agrees
    <3>2. CASE p.quantity # f.quantity
      <4>1. InventoryAt(fills, n) # 0
        BY <1>1, <2>1, <3>2
      <4>2. Flats(fills, n) = Flats(fills, n - 1)
        BY <1>4, <4>1 DEF Flats
      <4> QED
        BY <2>3, <3>2, <4>2 DEF Agrees
    <3> QED
      BY <3>1, <3>2
  <2> QED
    BY <2>1, <2>2, <2>3, <2>4 DEF Agrees, f
<1> QED
  BY <1>5, <1>6

\* All fills booked: the ledger agrees with the venue after each of them.
LEMMA CompleteAgrees ==
  ASSUME NEW fills \in Seq(Fills), Len(fills) <= MaxExecutions,
         \A n \in 0 .. Len(fills) : InventoryAt(fills, n) \in Nat
  PROVE  Agrees(FromFills(fills), fills, Len(fills))
<1> DEFINE Bad == {n \in 0 .. Len(fills) : ~Agrees(Ledger(fills)[n], fills, n)}
<1>1. /\ Len(fills) \in Nat /\ MaxExecutions \in Nat /\ DOMAIN fills = 1 .. Len(fills)
      /\ \A n \in DOMAIN fills : fills[n] \in Fills
  BY LenProperties, ElementOfSeq, ExecutionBoundsAssumption
<1>2. Bad = {}
  <2>1. SUFFICES ASSUME Bad # {} PROVE FALSE
    OBVIOUS
  <2>2. PICK n \in Bad : \A k \in Bad : n <= k
    <3>1. Bad \in SUBSET Nat
      OBVIOUS
    <3> HIDE DEF Bad
    <3> QED
      BY <2>1, <3>1, MinIn
  <2>3. n \in 0 .. Len(fills) /\ ~Agrees(Ledger(fills)[n], fills, n)
    OBVIOUS
  <2>4. n # 0
    <3>1. Flats(fills, 0) = {}
      BY DEF Flats
    <3>2. Agrees(Empty, fills, 0)
      BY <3>1, InventorySteps, FS_EmptySet DEF Agrees, Empty
    <3> QED
      BY <2>3, <3>2, LedgerAt
  <2>5. /\ n \in 1 .. Len(fills) /\ n - 1 \in 0 .. Len(fills) /\ ~(n <= n - 1)
        /\ n \in 1 .. MaxExecutions /\ n - 1 \in 0 .. MaxExecutions
    BY <1>1, <2>3, <2>4
  <2>6. Agrees(Ledger(fills)[n - 1], fills, n - 1)
    BY <2>2, <2>5
  <2>7. Sound(Ledger(fills)[n - 1])
    BY <1>1, <2>5, LedgerIsSound
  <2>8. Ledger(fills)[n] = Apply(Ledger(fills)[n - 1], fills[n])
    BY <1>1, <2>5, LedgerAt DEF Step
  <2> QED
    BY <2>3, <2>5, <2>6, <2>7, <2>8, AgreementSteps
<1>3. Agrees(Ledger(fills)[Len(fills)], fills, Len(fills))
  BY <1>1, <1>2
<1>4. FromFills(fills) = Ledger(fills)[Len(fills)]
  BY <1>1, LedgerRests
<1> QED
  BY <1>3, <1>4

-----------------------------------------------------------------------------
(* The books                                                               *)

\* The venue has never sold what was not there, and the rows are its executions.
BookInv ==
  /\ executed \in Seq(Fills) /\ Len(executed) <= MaxExecutions
  /\ \A n \in 0 .. Len(executed) : InventoryAt(executed, n) \in Nat
  /\ DOMAIN booked \subseteq DOMAIN executed
  /\ \A i \in DOMAIN booked : booked[i] = executed[i]
  /\ portfolio = FromFills(booked)

\* Nothing is executed and nothing is booked.
LEMMA InitBook == BookInit => BookInv
<1> SUFFICES ASSUME BookInit PROVE BookInv
  OBVIOUS
<1>1. MaxExecutions \in Nat /\ 0 \in 0 .. MaxExecutions
  BY ExecutionBoundsAssumption
<1>2. executed \in Seq(Fills) /\ Len(executed) = 0 /\ DOMAIN booked = {}
  BY DEF BookInit
<1>3. \A n \in 0 .. 0 : InventoryAt(executed, n) \in Nat
  <2>1. InventoryAt(executed, 0) = 0
    BY <1>2, InventorySteps
  <2>2. \A n \in 0 .. 0 : n = 0
    OBVIOUS
  <2> QED
    BY <2>1, <2>2
<1>4. FromFills(booked) = Empty
  BY <1>1, <1>2, LedgerRests, LedgerAt
<1> QED
  BY <1>1, <1>2, <1>3, <1>4 DEF BookInit, BookInv

\* An execution sells no more than is there, so every inventory so far stays one.
LEMMA ExecuteKeepsBook ==
  ASSUME BookInv, Execute
  PROVE  BookInv'
<1> PICK side \in {"buy", "sell"}, price \in Prices, fee \in Fees, quantity \in 1 .. MaxInventory :
      /\ IF side = "buy" THEN Inventory(executed) + quantity <= MaxInventory
                         ELSE quantity <= Inventory(executed)
      /\ executed' = Append(executed, [side |-> side, price |-> price, fee |-> fee,
                                       quantity |-> quantity])
  BY DEF Execute
<1> DEFINE f == [side |-> side, price |-> price, fee |-> fee, quantity |-> quantity]
<1>1. f \in Fills /\ f.side = side /\ f.quantity = quantity /\ executed' = Append(executed, f)
  BY DEF Fills
<1> HIDE DEF f
<1>2. executed \in Seq(Fills)
  BY DEF BookInv
<1> PICK n : n = Len(executed)
  OBVIOUS
<1>3. /\ n \in Nat /\ executed' \in Seq(Fills) /\ Len(executed') = n + 1
      /\ DOMAIN executed = 1 .. n /\ DOMAIN executed' = 1 .. n + 1
      /\ executed'[n + 1] = f /\ \A i \in 1 .. n : executed'[i] = executed[i]
  BY <1>1, <1>2, AppendProperties
<1>4. MaxExecutions \in Nat /\ n + 1 <= MaxExecutions
  BY <1>3, ExecutionBoundsAssumption DEF Execute
<1>5. \A m \in 0 .. n : InventoryAt(executed', m) \in Nat
  BY <1>1, <1>2, InventoryOfPrefix DEF BookInv
<1>6. InventoryAt(executed', n + 1) \in Nat
  <2>1. n + 1 \in 1 .. Len(executed') /\ n + 1 - 1 = n /\ n \in 0 .. n
    BY <1>3
  <2>2. InventoryAt(executed', n + 1) =
          InventoryAt(executed', n) + (IF f.side = "buy" THEN f.quantity ELSE -f.quantity)
    <3> DEFINE Moves(fills, i) ==
          InventoryAt(fills, i) =
            InventoryAt(fills, i - 1) +
              (IF fills[i].side = "buy" THEN fills[i].quantity ELSE -fills[i].quantity)
    <3>1. \A fills \in Seq(Fills) : \A i \in 1 .. Len(fills) : Moves(fills, i)
      BY InventorySteps
    <3> HIDE DEF Moves
    <3>2. Moves(executed', n + 1)
      BY <1>3, <2>1, <3>1
    <3> QED
      BY <1>3, <2>1, <3>2 DEF Moves
  <2>3. InventoryAt(executed', n) = Inventory(executed)
    BY <1>1, <1>2, <2>1, InventoryOfPrefix DEF Inventory
  <2>4. InventoryAt(executed', n) \in Nat /\ quantity \in Nat
    BY <1>5, <2>1, ExecutionBoundsAssumption
  <2> QED
    BY <1>1, <2>2, <2>3, <2>4
<1>7. \A m \in 0 .. n + 1 : InventoryAt(executed', m) \in Nat
  <2>1. \A m \in 0 .. n + 1 : m \in 0 .. n \/ m = n + 1
    BY <1>3
  <2> QED
    BY <1>5, <1>6, <2>1
<1>8. DOMAIN booked \subseteq DOMAIN executed' /\ \A i \in DOMAIN booked : booked[i] = executed'[i]
  <2>1. 1 .. n \subseteq 1 .. n + 1
    BY <1>3
  <2> QED
    BY <1>3, <2>1 DEF BookInv
<1>9. booked' = booked /\ portfolio' = portfolio
  BY DEF Execute
<1> QED
  BY <1>3, <1>4, <1>7, <1>8, <1>9 DEF BookInv

\* A report books what was executed.
LEMMA ReportKeepsBook ==
  ASSUME BookInv, Report
  PROVE  BookInv'
<1> PICK id \in DOMAIN executed :
      /\ booked' = [i \in DOMAIN booked \union {id} |->
                      IF i \in DOMAIN booked THEN booked[i] ELSE executed[i]]
      /\ portfolio' = FromFills(booked')
      /\ UNCHANGED executed
  BY DEF Report
<1>1. DOMAIN booked' \subseteq DOMAIN executed /\ \A i \in DOMAIN booked' : booked'[i] = executed[i]
  BY DEF BookInv
<1>2. portfolio' = FromFills(booked)'
  BY DEF FromFills, Ledger
<1> QED
  BY <1>1, <1>2 DEF BookInv

\* Every step keeps the books.
LEMMA NextKeepsBook == BookInv /\ [BookNext]_bookVars => BookInv'
<1> SUFFICES ASSUME BookInv, [BookNext]_bookVars PROVE BookInv'
  OBVIOUS
<1>1. CASE BookNext
  BY <1>1, ExecuteKeepsBook, ReportKeepsBook DEF BookNext
<1>2. CASE UNCHANGED bookVars
  <2>1. /\ executed' = executed /\ booked' = booked /\ portfolio' = portfolio
    BY <1>2 DEF bookVars
  <2> QED
    BY <2>1 DEF BookInv
<1> QED
  BY <1>1, <1>2

\* The portfolio is sound, whatever has been reported yet.
LEMMA PortfolioIsSound ==
  ASSUME BookInv
  PROVE  Sound(portfolio)
<1>1. \A i \in DOMAIN booked : booked[i] \in Fills
  BY ElementOfSeq DEF BookInv
<1>2. MaxExecutions \in 0 .. MaxExecutions
  BY ExecutionBoundsAssumption
<1> QED
  BY <1>1, <1>2, LedgerIsSound DEF BookInv, FromFills

\* For all prices, fees and quantities, and whatever has been reported in whichever order:
\* the money adds up, and a complete ledger is the venue's (portfolio.py:55, db.py:114).
THEOREM LedgerStaysTrue == BookSpec => []LedgerIsTrue
<1>1. BookInv => LedgerIsTrue
  <2> SUFFICES ASSUME BookInv PROVE LedgerIsTrue
    OBVIOUS
  <2>1. CashFollowsInventory /\ TradesAddUp
    BY PortfolioIsSound DEF Sound, CashFollowsInventory, TradesAddUp
  <2>2. LedgerIsTheVenues
    <3>1. DOMAIN executed = 1 .. Len(executed)
      BY LenProperties DEF BookInv
    <3>2. {n \in DOMAIN executed : InventoryAt(executed, n) = 0} = Flats(executed, Len(executed))
      BY <3>1 DEF Flats
    <3>3. ASSUME booked = executed
          PROVE  Agrees(portfolio, executed, Len(executed))
      BY <3>3, CompleteAgrees DEF BookInv
    <3> QED
      BY <3>2, <3>3 DEF LedgerIsTheVenues, Agrees, Inventory
  <2> QED
    BY <2>1, <2>2 DEF LedgerIsTrue
<1> QED
  BY <1>1, InitBook, NextKeepsBook, PTL DEF BookSpec

\* What the books are typed by.
LEMMA BookInvTyped == BookInv => BookTypeOK
BY PortfolioIsSound DEF BookInv, BookTypeOK, Sound, Ledgers

\* What is held has a cost, nothing else has, and no row is booked that was not executed.
THEOREM BookTyped == BookSpec => []BookTypeOK
BY BookInvTyped, InitBook, NextKeepsBook, PTL DEF BookSpec
=============================================================================
