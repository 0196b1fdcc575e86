-------------------------- MODULE PaperBrokerProofs --------------------------
(***************************************************************************)
(* The inductive invariant of PaperBroker and its theorems, for all        *)
(* latencies, quantities, depths and troubles.                             *)
(***************************************************************************)
EXTENDS PaperBroker, TLAPS

-----------------------------------------------------------------------------
(* The least of two or three numbers                                       *)

\* The least of two.
LEMMA MinOfTwo ==
  ASSUME NEW a \in Int, NEW b \in Int
  PROVE  /\ Min({a, b}) \in {a, b}
         /\ Min({a, b}) <= a /\ Min({a, b}) <= b
<1>1. \E x \in {a, b} : \A y \in {a, b} : x <= y
  BY a <= b \/ b <= a
<1> QED
  BY <1>1 DEF Min

\* The least of three.
LEMMA MinOfThree ==
  ASSUME NEW a \in Int, NEW b \in Int, NEW c \in Int
  PROVE  /\ Min({a, b, c}) \in {a, b, c}
         /\ Min({a, b, c}) <= a /\ Min({a, b, c}) <= b /\ Min({a, b, c}) <= c
<1>1. \E x \in {a, b, c} : \A y \in {a, b, c} : x <= y
  <2>1. CASE a <= b /\ a <= c
    BY <2>1
  <2>2. CASE b <= a /\ b <= c
    BY <2>2
  <2>3. CASE c <= a /\ c <= b
    BY <2>3
  <2> QED
    BY <2>1, <2>2, <2>3
<1> QED
  BY <1>1 DEF Min

-----------------------------------------------------------------------------
(* What an order is                                                        *)

Order ==
  [side : {"buy", "sell"}, quantity : Nat, filled : Nat,
   status : {"intent", "open", "closed", "cancelled"}, age : -WallLead..Oldest,
   pending : BOOLEAN, cancelIn : 0..CancelLatency, queue : 0..MaxVolume, credit : Int]

\* An order waits for its activation exactly while it is an intent, only entries work in
\* the book, and nothing is filled before the activation.
Phase(o) ==
  /\ o.pending <=> o.status = "intent"
  /\ o.status = "open" => o.side = "buy"
  /\ o.status = "intent" => o.filled = 0
  /\ o.filled <= o.quantity
  /\ o.side = "buy" => o.quantity <= MaxQuantity

\* FillsAreEarned, for any order.
Earned(o) ==
  o.side = "buy" /\ o.filled > 0 => o.age >= SubmitLatency /\ o.filled <= o.credit

\* An entry in the book has what is left of the queue before it, or has earned its fills.
QueueBefore(o) ==
  o.status = "open" =>
    \/ o.queue > 0 /\ o.filled = 0 /\ o.credit = -o.queue
    \/ o.queue = 0 /\ o.filled <= o.credit

\* OneExposure, for any order and position.
Exposure(o, h) ==
  Active(o) => IF o.side = "buy" THEN h = o.filled ELSE o.quantity - o.filled <= h

OrderInv(o, h) ==
  o \in Order /\ Phase(o) /\ Earned(o) /\ QueueBefore(o) /\ Exposure(o, h) /\ h \in 0..MaxQuantity

\* What is assumed of the constants.
LEMMA Assumptions ==
  /\ MaxQuantity \in Nat /\ Minimum \in Nat /\ Minimum > 0 /\ Depths \subseteq Nat
  /\ Increment \in Nat /\ Increment > 0
  /\ SubmitLatency \in Nat /\ SubmitLatency > 0 /\ CancelLatency \in Nat /\ CancelLatency > 0
  /\ ExitRetry \in Nat /\ ExitRetry > 0
  /\ MaxStep \in Nat /\ MaxLag \in Nat /\ MaxVolume \in Nat /\ WallLead \in Nat
  /\ Oldest = SubmitLatency + MaxLag
BY QuantityAssumption, LatencyAssumption, BoundsAssumption DEF Oldest

\* Instrument.quantity never rounds up.
LEMMA RoundedDown ==
  ASSUME NEW quantity \in Nat
  PROVE  Rounded(quantity) \in Nat /\ Rounded(quantity) <= quantity
BY Assumptions DEF Rounded

-----------------------------------------------------------------------------
(* What is done to an order                                                *)

\* A new order that is placed while nothing works.
LEMMA NewKeeps ==
  ASSUME NEW side \in {"buy", "sell"}, NEW quantity \in Nat, NEW lead \in 0..WallLead,
         NEW h \in 0..MaxQuantity,
         side = "buy" => quantity <= MaxQuantity /\ h = 0,
         side = "sell" => quantity <= h
  PROVE  OrderInv(New(side, quantity, lead), h)
<1>1. -lead \in -WallLead..Oldest /\ 0 \in 0..CancelLatency /\ 0 \in 0..MaxVolume
  BY Assumptions
<1>2. New(side, quantity, lead) \in Order
  BY <1>1 DEF New, Order
<1> QED
  BY <1>2 DEF New, OrderInv, Phase, Earned, QueueBefore, Exposure, Active

\* An active order is cancelled where it stands.
LEMMA CancelledKeeps ==
  ASSUME NEW o, NEW h, OrderInv(o, h)
  PROVE  /\ OrderInv(Cancelled(o), h) /\ ~Active(Cancelled(o))
         /\ Cancelled(o).side = o.side /\ Cancelled(o).filled = o.filled
         /\ Cancelled(o).queue = o.queue
<1> DEFINE c == Cancelled(o)
<1>1. o \in Order
  BY DEF OrderInv
<1>2. /\ c \in Order /\ c.side = o.side /\ c.quantity = o.quantity /\ c.filled = o.filled
      /\ c.status = (IF Active(o) THEN "cancelled" ELSE o.status)
      /\ c.age = o.age /\ ~c.pending /\ c.queue = o.queue /\ c.credit = o.credit
  <2>1. CASE Active(o)
    <3>1. c = [o EXCEPT !.status = "cancelled", !.pending = FALSE, !.cancelIn = 0]
      BY <2>1 DEF Cancelled
    <3>2. 0 \in 0..CancelLatency
      BY Assumptions
    <3> HIDE DEF c
    <3> QED
      BY <1>1, <2>1, <3>1, <3>2 DEF Order
  <2>2. CASE ~Active(o)
    <3>1. c = [o EXCEPT !.status = @, !.pending = FALSE, !.cancelIn = 0]
      BY <2>2 DEF Cancelled
    <3>2. 0 \in 0..CancelLatency
      BY Assumptions
    <3> HIDE DEF c
    <3> QED
      BY <1>1, <2>2, <3>1, <3>2 DEF Order
  <2> QED
    BY <2>1, <2>2
<1> HIDE DEF c
<1>3. ~Active(c)
  BY <1>2 DEF Active
<1>4. OrderInv(c, h)
  BY <1>1, <1>2, <1>3, Assumptions
     DEF OrderInv, Phase, Earned, QueueBefore, Exposure, Active, Order
<1> QED
  BY <1>2, <1>3, <1>4 DEF c

\* A cancellation is requested.
LEMMA CancellingKeeps ==
  ASSUME NEW o, NEW h, OrderInv(o, h)
  PROVE  /\ OrderInv(Cancelling(o), h)
         /\ Active(Cancelling(o)) <=> Active(o)
         /\ ~Active(o) => Cancelling(o) = o
<1> DEFINE c == Cancelling(o)
<1>1. o \in Order
  BY DEF OrderInv
<1>2. /\ c \in Order /\ c.side = o.side /\ c.quantity = o.quantity /\ c.filled = o.filled
      /\ c.status = o.status /\ c.age = o.age /\ c.pending = o.pending
      /\ c.queue = o.queue /\ c.credit = o.credit
  BY <1>1, Assumptions DEF Order, Cancelling
<1> HIDE DEF c
<1>3. Active(c) <=> Active(o)
  BY <1>2 DEF Active
<1>4. OrderInv(c, h)
  BY <1>1, <1>2, <1>3 DEF OrderInv, Phase, Earned, QueueBefore, Exposure
<1> QED
  BY <1>3, <1>4 DEF c, Cancelling

\* Time passes, and what is due to be cancelled is.
LEMMA DueKeeps ==
  ASSUME NEW o, NEW h, OrderInv(o, h), NEW dt \in 0..MaxStep
  PROVE  /\ OrderInv(CancellationsDue(o, dt), h)
         /\ CancellationsDue(o, dt).side = o.side
         /\ CancellationsDue(o, dt).filled = o.filled
         /\ ~Active(o) => ~Active(CancellationsDue(o, dt))
<1> DEFINE e == Elapsed(o, dt)
           rest == IF o.cancelIn > dt THEN o.cancelIn - dt ELSE 0
<1>1. o \in Order /\ o.age \in Int /\ dt \in Int /\ Oldest \in Int
  BY Assumptions DEF OrderInv, Order
<1>2. PICK age \in -WallLead..Oldest :
        age = Min({o.age + dt, Oldest}) /\ (o.age >= SubmitLatency => age >= SubmitLatency)
  <2> DEFINE age == Min({o.age + dt, Oldest})
  <2> HIDE DEF age
  <2>1. age \in {o.age + dt, Oldest} /\ age <= Oldest
    <3>1. PICK later \in Int : later = o.age + dt
      BY <1>1
    <3>2. age = Min({later, Oldest})
      BY <3>1 DEF age
    <3> QED
      BY <1>1, <3>1, <3>2, MinOfTwo
  <2>2. o.age >= -WallLead
    BY <1>1, Assumptions DEF Order
  <2> QED
    BY <1>1, <2>1, <2>2, Assumptions DEF age
<1>3. /\ e \in Order /\ e.side = o.side /\ e.quantity = o.quantity /\ e.filled = o.filled
      /\ e.status = o.status /\ e.age = age /\ e.pending = o.pending
      /\ e.queue = o.queue /\ e.credit = o.credit
  <2>1. rest \in 0..CancelLatency
    BY <1>1, Assumptions DEF Order
  <2>2. e = [o EXCEPT !.age = age, !.cancelIn = rest]
    BY <1>2 DEF Elapsed
  <2> HIDE DEF e, rest
  <2> QED
    BY <1>1, <2>1, <2>2 DEF Order
<1> HIDE DEF e
<1>4. OrderInv(e, h)
  BY <1>1, <1>2, <1>3 DEF OrderInv, Phase, Earned, QueueBefore, Exposure, Active
<1>5. CancellationsDue(o, dt) = Cancelled(e) \/ CancellationsDue(o, dt) = e
  BY DEF CancellationsDue, e
<1>6. Active(e) <=> Active(o)
  BY <1>3 DEF Active
<1> QED
  BY <1>3, <1>4, <1>5, <1>6, CancelledKeeps

\* What an order of this side has done to the position.
After(o, p, h) == IF p.side = "buy" THEN h + p.filled - o.filled ELSE h - (p.filled - o.filled)

\* An exit crosses the book.
LEMMA CrossedKeeps ==
  ASSUME NEW o, OrderInv(o, held), o.side = "sell", o.status = "intent", NEW depth \in Depths
  PROVE  LET c == Crossed([o EXCEPT !.pending = FALSE], depth) IN
         OrderInv(c, After(o, c, held)) /\ ~Active(c) /\ c.side = o.side
<1> DEFINE t == [o EXCEPT !.pending = FALSE]
           left == o.quantity - o.filled
<1>1. o \in Order /\ o.filled = 0 /\ o.quantity \in Nat /\ o.quantity <= held /\ held \in Nat
  BY DEF OrderInv, Phase, Order, Exposure, Active
<1>2. /\ t \in Order /\ t.side = "sell" /\ t.filled = 0 /\ t.quantity = o.quantity
      /\ t.age = o.age /\ ~t.pending /\ t.queue = o.queue /\ t.credit = o.credit
  BY <1>1 DEF Order
<1> HIDE DEF t
<1>3. PICK taken \in Nat : taken = Min({Remaining(t), depth, held}) /\ taken <= o.quantity
  <2>1. Remaining(t) = o.quantity /\ depth \in Nat
    BY <1>1, <1>2, Assumptions DEF Remaining
  <2> DEFINE m == Min({Remaining(t), depth, held})
  <2>2. m \in {o.quantity, depth, held} /\ m <= o.quantity
    <3> HIDE DEF m
    <3>1. PICK quantity \in Int : quantity = o.quantity
      BY <1>1
    <3>2. m = Min({quantity, depth, held})
      BY <2>1, <3>1 DEF m
    <3>3. depth \in Int /\ held \in Int
      BY <1>1, <2>1
    <3> QED
      BY <3>1, <3>2, <3>3, MinOfThree
  <2> HIDE DEF m
  <2> QED
    BY <1>1, <2>1, <2>2 DEF m
<1>4. PICK status \in {"closed", "cancelled"} :
        Crossed(t, depth) = [t EXCEPT !.filled = t.filled + taken, !.status = status]
  BY <1>3 DEF Crossed
<1> DEFINE c == Crossed(t, depth)
<1>5. /\ c \in Order /\ c.side = "sell" /\ c.filled = taken /\ c.quantity = o.quantity
      /\ c.status = status /\ ~c.pending
  <2>1. t.filled + taken = taken
    BY <1>2, <1>3
  <2>2. c = [t EXCEPT !.filled = taken, !.status = status]
    BY <1>4, <2>1
  <2> HIDE DEF c
  <2> QED
    BY <1>2, <1>3, <2>2 DEF Order
<1> HIDE DEF c
<1>6. ~Active(c)
  BY <1>5 DEF Active
<1>7. After(o, c, held) = held - taken /\ held - taken \in 0..MaxQuantity
  <2>1. held \in Nat /\ held <= MaxQuantity
    BY Assumptions DEF OrderInv
  <2>2. o.side # "buy" /\ c.filled - o.filled = taken
    BY <1>1, <1>3, <1>5
  <2> QED
    BY <1>1, <1>3, <1>5, <2>1, <2>2, Assumptions DEF After
<1>8. OrderInv(c, After(o, c, held))
  BY <1>1, <1>3, <1>5, <1>6, <1>7 DEF OrderInv, Phase, Earned, QueueBefore, Exposure
<1> QED
  BY <1>1, <1>5, <1>6, <1>8 DEF c, t

\* An entry joins the queue, or is cancelled.
LEMMA QueuedKeeps ==
  ASSUME NEW o, OrderInv(o, held), o.side = "buy", o.status = "intent",
         NEW crosses \in BOOLEAN, NEW displayed \in 0..MaxVolume
  PROVE  LET c == Queued([o EXCEPT !.pending = FALSE], crosses, displayed) IN
         OrderInv(c, held) /\ c.side = o.side /\ c.filled = o.filled
<1> DEFINE t == [o EXCEPT !.pending = FALSE]
           c == Queued(t, crosses, displayed)
<1>1. o \in Order /\ o.filled = 0 /\ o.quantity \in Nat /\ held = 0 /\ o.quantity <= MaxQuantity
  BY DEF OrderInv, Phase, Order, Exposure, Active
<1>2. /\ t \in Order /\ t.side = "buy" /\ t.filled = 0 /\ t.quantity = o.quantity
      /\ t.age = o.age /\ ~t.pending /\ t.queue = o.queue /\ t.credit = o.credit
  BY <1>1 DEF Order
<1> HIDE DEF t
<1>3. CASE crosses
  <2>1. c = [t EXCEPT !.status = "cancelled"]
    BY <1>3 DEF Queued
  <2> HIDE DEF c
  <2>2. c \in Order /\ c.side = "buy" /\ c.filled = 0 /\ c.quantity = o.quantity
        /\ c.status = "cancelled" /\ ~c.pending
    BY <1>2, <2>1 DEF Order
  <2>3. OrderInv(c, held)
    BY <1>1, <2>2, Assumptions DEF OrderInv, Phase, Earned, QueueBefore, Exposure, Active
  <2> QED
    BY <1>1, <2>2, <2>3 DEF c, t
<1>4. CASE ~crosses
  <2>1. c = [t EXCEPT !.status = "open", !.queue = displayed, !.credit = -displayed]
    BY <1>4 DEF Queued
  <2> HIDE DEF c
  <2>2. c \in Order /\ c.side = "buy" /\ c.filled = 0 /\ c.quantity = o.quantity
        /\ c.status = "open" /\ ~c.pending /\ c.queue = displayed /\ c.credit = -displayed
    <3>1. -displayed \in Int
      OBVIOUS
    <3> QED
      BY <1>2, <2>1, <3>1 DEF Order
  <2>3. OrderInv(c, held)
    BY <1>1, <2>2, Assumptions DEF OrderInv, Phase, Earned, QueueBefore, Exposure, Active
  <2> QED
    BY <1>1, <2>2, <2>3 DEF c, t
<1> QED
  BY <1>3, <1>4

\* What is due is activated.
LEMMA ActivatedKeeps ==
  ASSUME NEW o, OrderInv(o, held), NEW crosses \in BOOLEAN, NEW displayed \in 0..MaxVolume,
         NEW depth \in Depths
  PROVE  LET c == Activated(o, crosses, displayed, depth) IN
         /\ OrderInv(c, After(o, c, held)) /\ c.side = o.side
         /\ ~Active(o) => c = o
         /\ o.side = "buy" => c.filled = o.filled
<1> DEFINE c == Activated(o, crosses, displayed, depth)
           t == [o EXCEPT !.pending = FALSE]
<1>1. o \in Order /\ (o.pending <=> o.status = "intent") /\ held \in Nat /\ o.filled \in Nat
  BY DEF OrderInv, Phase, Order
<1>2. CASE ~(o.pending /\ o.age >= SubmitLatency /\ book)
  <2>1. c = o
    BY <1>2 DEF Activated
  <2>2. After(o, o, held) = held
    BY <1>1 DEF After
  <2> QED
    BY <2>1, <2>2
<1>3. CASE o.pending /\ o.age >= SubmitLatency /\ book
  <2>1. Active(o) /\ o.status = "intent"
    BY <1>1, <1>3 DEF Active
  <2>2. CASE o.side = "sell"
    <3>1. c = Crossed(t, depth)
      BY <1>3, <2>2 DEF Activated
    <3> QED
      BY <2>1, <2>2, <3>1, CrossedKeeps
  <2>3. CASE o.side = "buy"
    <3>1. c = Queued(t, crosses, displayed)
      BY <1>3, <2>3 DEF Activated
    <3>2. OrderInv(c, held) /\ c.side = o.side /\ c.filled = o.filled
      BY <2>1, <2>3, <3>1, QueuedKeeps
    <3> HIDE DEF c
    <3>3. After(o, c, held) = held
      BY <1>1, <2>3, <3>2 DEF After
    <3> QED
      BY <2>1, <3>2, <3>3 DEF c
  <2> QED
    BY <1>1, <2>2, <2>3 DEF Order
<1> QED
  BY <1>2, <1>3

\* A trade takes from the queue first and then fills the entry.
LEMMA TradedKeeps ==
  ASSUME NEW o, NEW h, OrderInv(o, h), NEW volume \in 0..MaxVolume, NEW lag \in 0..MaxLag,
         NEW affordable \in 0..MaxVolume
  PROVE  LET c == Traded(o, volume, lag, affordable) IN
         /\ OrderInv(c, After(o, c, h)) /\ c.side = o.side
         /\ ~Active(o) => c = o
         /\ o.side = "sell" => c = o
<1> DEFINE c == Traded(o, volume, lag, affordable)
           passed == Min({o.queue, volume})
           bought == Bought(o, volume, affordable)
           credit == Credited(o, volume, lag)
<1>1. o \in Order /\ o.queue \in Int /\ o.filled \in Nat /\ o.quantity \in Nat /\ o.credit \in Int
      /\ h \in Int /\ o.queue >= 0 /\ o.queue <= MaxVolume /\ o.age \in Int
  BY Assumptions DEF OrderInv, Order
<1>2. CASE ~Counts(o, lag)
  <2>1. c = o
    BY <1>2 DEF Traded
  <2>2. After(o, o, h) = h
    BY <1>1 DEF After
  <2> QED
    BY <2>1, <2>2
<1>3. CASE Counts(o, lag)
  <2>1. /\ o.status = "open" /\ o.side = "buy" /\ h = o.filled /\ o.age >= SubmitLatency
        /\ o.filled <= o.quantity /\ o.quantity <= MaxQuantity /\ ~o.pending
        /\ \/ o.queue > 0 /\ o.filled = 0 /\ o.credit = -o.queue
           \/ o.queue = 0 /\ o.filled <= o.credit
    BY <1>1, <1>3, Assumptions DEF Counts, OrderInv, Phase, QueueBefore, Exposure, Active
  <2>2. /\ passed \in 0..MaxVolume /\ passed <= o.queue /\ passed <= volume
        /\ passed \in {o.queue, volume}
    <3>1. volume \in Int /\ volume >= 0
      OBVIOUS
    <3> HIDE DEF passed
    <3>2. passed \in {o.queue, volume} /\ passed <= o.queue /\ passed <= volume
      <4>1. PICK q \in Int : q = o.queue
        BY <1>1
      <4> QED
        BY <1>1, <3>1, <4>1, MinOfTwo DEF passed
    <3> QED
      BY <1>1, <3>1, <3>2
  <2> HIDE DEF passed
  <2>3. /\ bought \in Nat /\ bought <= volume - passed /\ bought <= o.quantity - o.filled
        /\ bought <= affordable
    <3>1. PICK v \in Int : v = volume - passed
      BY <2>2
    <3>2. PICK r \in Int : r = o.quantity - o.filled
      BY <1>1
    <3>3. affordable \in Int
      OBVIOUS
    <3>4. bought = Min({v, r, affordable})
      BY <3>1, <3>2 DEF Bought, Remaining, passed
    <3> HIDE DEF bought
    <3>5. bought \in {v, r, affordable} /\ bought <= v /\ bought <= r /\ bought <= affordable
      BY <3>1, <3>2, <3>3, <3>4, MinOfThree
    <3>6. v >= 0 /\ r >= 0 /\ affordable >= 0
      BY <1>1, <2>1, <2>2, <3>1, <3>2
    <3> QED
      BY <3>1, <3>2, <3>5, <3>6
  <2> HIDE DEF bought
  <2>4. credit \in {o.credit + volume, o.quantity} /\ credit <= o.credit + volume
        /\ credit <= o.quantity
    <3>1. PICK v \in Int : v = o.credit + volume
      BY <1>1
    <3>2. PICK r \in Int : r = o.quantity
      BY <1>1
    <3>3. credit = Min({v, r})
      BY <1>3, <3>1, <3>2 DEF Credited
    <3> HIDE DEF credit
    <3> QED
      BY <3>1, <3>2, <3>3, MinOfTwo
  <2> HIDE DEF credit
  <2>5. PICK status \in {"open", "closed"} :
          c = [o EXCEPT !.queue = o.queue - passed, !.filled = o.filled + bought,
                        !.status = status, !.credit = credit]
    <3>1. c = [o EXCEPT !.queue = o.queue - passed, !.filled = o.filled + bought,
                        !.status = IF bought = Remaining(o) THEN "closed" ELSE o.status,
                        !.credit = credit]
      BY <1>3 DEF Traded, passed, bought, credit
    <3> HIDE DEF c
    <3> QED
      BY <2>1, <3>1
  <2> HIDE DEF c
  <2>6. o.queue - passed \in 0..MaxVolume /\ o.filled + bought \in Nat /\ credit \in Int
    BY <1>1, <2>2, <2>3, <2>4, Assumptions
  <2>7. /\ c \in Order /\ c.side = "buy" /\ c.filled = o.filled + bought
        /\ c.quantity = o.quantity /\ c.status = status /\ c.age = o.age /\ ~c.pending
        /\ c.queue = o.queue - passed /\ c.credit = credit
    BY <1>1, <2>1, <2>5, <2>6 DEF Order
  <2>8. After(o, c, h) = o.filled + bought
    BY <1>1, <2>1, <2>3, <2>7 DEF After
  <2>9. o.filled + bought <= o.quantity /\ o.filled + bought \in 0..MaxQuantity
    BY <1>1, <2>1, <2>3, Assumptions
  <2>10. \/ o.queue - passed > 0 /\ o.filled + bought = 0 /\ credit = -(o.queue - passed)
         \/ o.queue - passed = 0 /\ o.filled + bought <= credit
    <3>1. volume \in Nat
      OBVIOUS
    <3>2. CASE o.queue = 0
      BY <1>1, <2>1, <2>2, <2>3, <2>4, <3>1, <3>2
    <3>3. CASE o.queue > 0 /\ volume < o.queue
      <4>1. passed = volume
        BY <1>1, <2>2, <3>1, <3>3
      <4>2. bought = 0
        BY <2>3, <3>1, <4>1
      <4>3. o.credit = -o.queue /\ o.filled = 0 /\ o.quantity >= 0
        BY <1>1, <2>1, <3>3
      <4>4. credit = volume - o.queue
        BY <1>1, <2>4, <3>1, <3>3, <4>3
      <4> QED
        BY <1>1, <3>1, <3>3, <4>1, <4>2, <4>3, <4>4
    <3>4. CASE o.queue > 0 /\ volume >= o.queue
      <4>1. passed = o.queue
        BY <1>1, <2>2, <3>1, <3>4
      <4>2. o.credit = -o.queue /\ o.filled = 0
        BY <1>1, <2>1, <3>4
      <4> QED
        BY <1>1, <2>3, <2>4, <3>1, <3>4, <4>1, <4>2
    <3> QED
      BY <1>1, <3>2, <3>3, <3>4
  <2>11. OrderInv(c, After(o, c, h))
    BY <1>1, <2>1, <2>6, <2>7, <2>8, <2>9, <2>10
       DEF OrderInv, Phase, Earned, QueueBefore, Exposure, Active
  <2>12. Active(o)
    BY <2>1 DEF Active
  <2> QED
    BY <2>1, <2>7, <2>11, <2>12 DEF c
<1> QED
  BY <1>2, <1>3

-----------------------------------------------------------------------------
(* Steps                                                                   *)

\* What a step that books nothing may do to the order.
Turned(o, h) ==
  /\ OrderInv(order', h)
  /\ ~Active(o) => \/ order' = o
                   \/ \E side \in {"buy", "sell"}, quantity \in Nat, lead \in 0..WallLead :
                        order' = New(side, quantity, lead)

\* manage_makers asks for a cancellation.
LEMMA TurnedByCancelling ==
  ASSUME NEW o, NEW h, OrderInv(o, h), order' = Cancelling(o)
  PROVE  Turned(o, h)
BY CancellingKeeps DEF Turned

\* Controller.flatten.
LEMMA FlattenTurns ==
  ASSUME NEW o, OrderInv(o, held), NEW fresh \in BOOLEAN, NEW lead \in 0..WallLead,
         Flatten(o, fresh, lead), sinceExit \in -WallLead..ExitRetry
  PROVE  Turned(o, held) /\ sinceExit' \in -WallLead..ExitRetry
<1>1. CASE order' = o /\ UNCHANGED sinceExit
  BY <1>1 DEF Turned
<1>2. CASE order' = Cancelling(o) /\ UNCHANGED sinceExit
  BY <1>2, TurnedByCancelling
<1>3. CASE Places(o, fresh, lead) /\ order' = New("sell", Rounded(held), lead) /\ sinceExit' = -lead
  <2>1. held \in 0..MaxQuantity /\ held \in Nat
    BY Assumptions DEF OrderInv
  <2>2. Rounded(held) \in Nat /\ Rounded(held) <= held
    BY <2>1, RoundedDown
  <2>3. OrderInv(order', held)
    BY <1>3, <2>1, <2>2, NewKeeps
  <2>4. sinceExit' \in -WallLead..ExitRetry
    BY <1>3, Assumptions
  <2> QED
    BY <1>3, <2>2, <2>3, <2>4 DEF Turned
<1> QED
  BY <1>1, <1>2, <1>3 DEF Flatten

\* What each action leaves true.
Kept ==
  /\ OrderInv(order', held')
  /\ ~Active(order) =>
       /\ held' = held
       /\ ~Active(order') \/ \E side \in {"buy", "sell"}, quantity \in Nat, lead \in 0..WallLead :
                              order' = New(side, quantity, lead)

\* The types of what is not the order.
ControlTypes ==
  /\ sinceExit \in -WallLead..ExitRetry
  /\ book \in BOOLEAN /\ killed \in BOOLEAN /\ paused \in BOOLEAN /\ flattenRequested \in BOOLEAN
  /\ command \in Actions \cup {"none"}
  /\ event \in {"none", "depth", "replayed", "trade", "disconnect"}
  /\ pc \in {"commands", "receive", "engine", "killCheck"}

\* A turn of the engine that leaves the inventory alone.
LEMMA TurnedIsKept ==
  ASSUME OrderInv(order, held), Turned(order, held), held' = held
  PROVE  Kept
BY DEF Turned, Kept

\* One command of the queue.
LEMMA CommandKeeps ==
  ASSUME OrderInv(order, held), ControlTypes, NEW action \in Actions, Command(action)
  PROVE  Kept /\ ControlTypes'
<1>1. order' = order /\ held' = held
  BY DEF Command
<1>2. Kept
  BY <1>1 DEF Kept
<1>3. ControlTypes'
  BY DEF Command, ControlTypes
<1> QED
  BY <1>2, <1>3

\* The commands of an iteration.
LEMMA ProcessCommandsKeeps ==
  ASSUME OrderInv(order, held), ControlTypes, ProcessCommands
  PROVE  Kept /\ ControlTypes'
<1>1. held' = held /\ book' = book /\ event' = event /\ pc' = "receive" /\ command' = "none"
  BY DEF ProcessCommands
<1> DEFINE Rest == /\ Turned(order, held) /\ sinceExit' \in -WallLead..ExitRetry
                   /\ killed' \in BOOLEAN /\ paused' \in BOOLEAN /\ flattenRequested' \in BOOLEAN
<1>2. CASE CommandCancels
  <2>1. Turned(order, held)
    BY <1>2, TurnedByCancelling DEF CommandCancels
  <2> QED
    BY <1>1, <1>2, <2>1, TurnedIsKept DEF CommandCancels, ControlTypes
<1>3. CASE CommandFlattens
  <2>1. PICK fresh \in Fresh, lead \in 0..WallLead :
          Flatten(order, fresh, lead) /\ killed' = (killed \/ DustLeft(order, fresh, lead))
    BY <1>3 DEF CommandFlattens
  <2>2. fresh \in BOOLEAN
    BY DEF Fresh
  <2>3. Turned(order, held) /\ sinceExit' \in -WallLead..ExitRetry
    BY <2>1, <2>2, FlattenTurns DEF ControlTypes
  <2> QED
    BY <1>1, <1>3, <2>1, <2>3, TurnedIsKept DEF CommandFlattens, ControlTypes
<1>4. CASE CommandRecovers
  <2>1. Turned(order, held)
    BY <1>4 DEF CommandRecovers, Turned
  <2> QED
    BY <1>1, <1>4, <2>1, TurnedIsKept DEF CommandRecovers, ControlTypes, latches
<1>5. CASE UNCHANGED <<order, sinceExit, latches>>
  <2>1. Turned(order, held)
    BY <1>5 DEF Turned
  <2> QED
    BY <1>1, <1>5, <2>1, TurnedIsKept DEF ControlTypes, latches
<1> QED
  BY <1>2, <1>3, <1>4, <1>5 DEF ProcessCommands

\* A step of the runtime or of an operator that touches neither order nor inventory.
LEMMA IdleKeeps ==
  ASSUME OrderInv(order, held), ControlTypes, Idle
  PROVE  Kept /\ ControlTypes'
<1>1. Turned(order, held)
  BY TurnedByCancelling DEF Idle, Turned
<1>2. Kept
  BY <1>1, TurnedIsKept DEF Idle
<1>3. ControlTypes'
  BY DEF Idle, ControlTypes
<1> QED
  BY <1>2, <1>3

\* PaperBroker.advance makes o of the order and books what has been filled.
LEMMA AdvanceKeeps ==
  ASSUME OrderInv(order, held), ControlTypes, NEW dt \in 0..MaxStep, NEW o,
         NEW kind \in {"depth", "replayed", "trade", "disconnect"},
         NEW outcomes, Advance(kind, outcomes, dt), order' = o,
         o.side = order.side, OrderInv(o, After(order, o, held)),
         ~Active(order) => ~Active(o) /\ o.filled = order.filled
  PROVE  Kept /\ ControlTypes'
<1>1. order' = o /\ held' = After(order, o, held)
  BY DEF Advance, Book, After
<1>2. order.filled \in Int /\ held \in Int
  BY DEF OrderInv, Order
<1>3. Kept
  BY <1>1, <1>2 DEF Kept, After
<1>4. sinceExit' \in -WallLead..ExitRetry
  <2>1. PICK later \in Int : later = sinceExit + dt /\ later >= -WallLead
    BY Assumptions DEF ControlTypes
  <2>2. sinceExit' = Min({later, ExitRetry})
    BY <2>1 DEF Advance
  <2>3. sinceExit' \in {later, ExitRetry} /\ sinceExit' <= ExitRetry
    <3>1. ExitRetry \in Int
      BY Assumptions
    <3> QED
      BY <2>1, <2>2, <3>1, MinOfTwo
  <2> QED
    BY <2>1, <2>3, Assumptions
<1>5. ControlTypes'
  BY <1>4 DEF Advance, Backlog, ControlTypes, latches
<1> QED
  BY <1>3, <1>5

\* What advance makes of the order before the event itself.
LEMMA DueIs ==
  ASSUME OrderInv(order, held), NEW dt \in 0..MaxStep, NEW crosses \in BOOLEAN,
         NEW displayed \in 0..MaxVolume, NEW depth \in Depths
  PROVE  LET c == Due(dt, crosses, displayed, depth) IN
         /\ c.side = order.side /\ OrderInv(c, After(order, c, held))
         /\ ~Active(order) => ~Active(c) /\ c.filled = order.filled
         /\ order.side = "buy" => c.filled = order.filled
<1> DEFINE d == CancellationsDue(order, dt)
           c == Activated(d, crosses, displayed, depth)
<1>1. /\ OrderInv(d, held) /\ d.side = order.side /\ d.filled = order.filled
      /\ ~Active(order) => ~Active(d)
  BY DueKeeps
<1> HIDE DEF d
<1>2. /\ OrderInv(c, After(d, c, held)) /\ c.side = d.side
      /\ ~Active(d) => c = d
      /\ d.side = "buy" => c.filled = d.filled
  BY <1>1, ActivatedKeeps
<1>3. c = Due(dt, crosses, displayed, depth)
  BY DEF Due, d
<1> HIDE DEF c
<1>4. After(d, c, held) = After(order, c, held)
  BY <1>1 DEF After
<1> QED
  BY <1>1, <1>2, <1>3, <1>4

\* An event of the market reaches the broker.
LEMMA ReceiveKeeps ==
  ASSUME OrderInv(order, held), ControlTypes, NEW dt \in 0..MaxStep, Receive(dt)
  PROVE  Kept /\ ControlTypes'
<1>1. ASSUME NEW kind \in {"depth", "replayed", "trade"}, ReceiveQuiet(kind, dt)
      PROVE  Kept /\ ControlTypes'
  <2>1. PICK crosses \in BOOLEAN, displayed \in 0..MaxVolume, depth \in Depths :
          order' = Due(dt, crosses, displayed, depth)
    BY <1>1 DEF ReceiveQuiet, Advance, Settled
  <2> DEFINE c == Due(dt, crosses, displayed, depth)
  <2>2. /\ c.side = order.side /\ OrderInv(c, After(order, c, held))
        /\ ~Active(order) => ~Active(c) /\ c.filled = order.filled
    BY DueIs
  <2> HIDE DEF c
  <2>3. Advance(kind, Settled(dt), dt) /\ order' = c
    BY <1>1, <2>1 DEF ReceiveQuiet, c
  <2> QED
    BY <2>2, <2>3, AdvanceKeeps
<1>2. CASE ReceiveTrade(dt)
  <2>1. PICK crosses \in BOOLEAN, displayed \in 0..MaxVolume, depth \in Depths,
             volume \in 0..MaxVolume, lag \in 0..MaxLag, affordable \in 0..MaxVolume :
          order' = Traded(Due(dt, crosses, displayed, depth), volume, lag, affordable)
    BY <1>2 DEF ReceiveTrade, Advance, Settled, SettledAndTraded
  <2> DEFINE d == Due(dt, crosses, displayed, depth)
             c == Traded(d, volume, lag, affordable)
  <2>2. /\ d.side = order.side /\ OrderInv(d, After(order, d, held))
        /\ ~Active(order) => ~Active(d) /\ d.filled = order.filled
        /\ order.side = "buy" => d.filled = order.filled
    BY DueIs
  <2>3. Advance("trade", SettledAndTraded(dt), dt) /\ order' = c
    BY <1>2, <2>1 DEF ReceiveTrade
  <2> HIDE DEF d
  <2>4. /\ OrderInv(c, After(d, c, After(order, d, held))) /\ c.side = d.side
        /\ ~Active(d) => c = d
        /\ d.side = "sell" => c = d
    BY <2>2, TradedKeeps
  <2> HIDE DEF c
  <2>5. After(d, c, After(order, d, held)) = After(order, c, held)
    <3>1. /\ order.side \in {"buy", "sell"} /\ held \in Int
          /\ order.filled \in Int /\ d.filled \in Int /\ c.filled \in Int
      BY <2>2, <2>4 DEF OrderInv, Order
    <3> QED
      BY <2>2, <2>4, <3>1 DEF After
  <2> QED
    BY <2>2, <2>3, <2>4, <2>5, AdvanceKeeps
<1>3. CASE ReceiveLoss(dt)
  <2>1. Advance("disconnect", {Cancelled(order)}, dt) /\ order' = Cancelled(order)
    BY <1>3 DEF ReceiveLoss, Advance
  <2> DEFINE c == Cancelled(order)
  <2>2. OrderInv(c, held) /\ ~Active(c) /\ c.side = order.side /\ c.filled = order.filled
    BY CancelledKeeps
  <2>3. Advance("disconnect", {c}, dt) /\ order' = c
    BY <2>1
  <2> HIDE DEF c
  <2>4. After(order, c, held) = held
    BY <2>2 DEF After, OrderInv, Order
  <2> QED
    BY <2>2, <2>3, <2>4, AdvanceKeeps
<1> QED
  BY <1>1, <1>2, <1>3 DEF Receive

\* The engine handles an event without a decision.
LEMMA HandleKeeps ==
  ASSUME OrderInv(order, held), ControlTypes, HandleLoss \/ HandleQuietly
  PROVE  Kept /\ ControlTypes'
<1>1. Turned(order, held)
  BY TurnedByCancelling DEF HandleLoss, HandleQuietly, Turned
<1>2. Kept
  BY <1>1, TurnedIsKept DEF HandleLoss, HandleQuietly, InEngine
<1>3. ControlTypes'
  BY DEF HandleLoss, HandleQuietly, InEngine, ControlTypes
<1> QED
  BY <1>2, <1>3

\* The engine decides.
LEMMA DecideKeeps ==
  ASSUME OrderInv(order, held), ControlTypes, Decide
  PROVE  Kept /\ ControlTypes'
<1>1. PICK withdraw \in BOOLEAN :
        DecideHeld(MakersManaged(order, withdraw)) \/ DecideFlat(MakersManaged(order, withdraw))
  BY DEF Decide
<1> DEFINE o == MakersManaged(order, withdraw)
<1>2. OrderInv(o, held) /\ (~Active(order) => ~Active(o) /\ o = order)
  BY CancellingKeeps DEF MakersManaged
<1>3. DecideHeld(o) \/ DecideFlat(o)
  BY <1>1
<1>4. 0 \in 0..WallLead /\ TRUE \in BOOLEAN /\ held \in Nat
  BY Assumptions DEF OrderInv
<1> HIDE DEF o
<1>5. Turned(o, held) /\ sinceExit' \in -WallLead..ExitRetry
      /\ killed' \in BOOLEAN /\ paused' \in BOOLEAN
  <2>1. CASE DecideHeld(o) /\ order' = o /\ UNCHANGED <<sinceExit, killed, paused>>
    BY <1>2, <2>1 DEF Turned, ControlTypes
  <2>2. CASE /\ Flatten(o, TRUE, 0)
             /\ killed' = (killed \/ DustLeft(o, TRUE, 0))
             /\ paused' = (paused \/ DustLeft(o, TRUE, 0))
    <3>1. Turned(o, held) /\ sinceExit' \in -WallLead..ExitRetry
      BY <1>2, <1>4, <2>2, FlattenTurns DEF ControlTypes
    <3> QED
      BY <2>2, <3>1 DEF ControlTypes
  <2>3. CASE DecideFlat(o)
    <3>1. Turned(o, held)
      <4>1. CASE order' = o
        BY <1>2, <4>1 DEF Turned
      <4>2. CASE order' = Cancelling(o)
        BY <1>2, <4>2, TurnedByCancelling
      <4>3. ASSUME NEW quantity \in EntrySizes, order' = New("buy", quantity, 0)
            PROVE  Turned(o, held)
        <5>1. quantity \in Nat /\ quantity <= MaxQuantity /\ held = 0 /\ held \in 0..MaxQuantity
          BY <2>3, Assumptions DEF DecideFlat, OrderInv, EntrySizes
        <5>2. OrderInv(order', held)
          BY <1>4, <4>3, <5>1, NewKeeps
        <5> QED
          BY <1>4, <4>3, <5>1, <5>2 DEF Turned
      <4> QED
        BY <2>3, <4>1, <4>2, <4>3 DEF DecideFlat
    <3> QED
      BY <2>3, <3>1 DEF DecideFlat, ControlTypes
  <2> QED
    BY <1>3, <2>1, <2>2, <2>3 DEF DecideHeld
<1>6. held' = held /\ pc' = "killCheck" /\ event' = "none" /\ command' = command /\ book' = TRUE
      /\ flattenRequested' \in BOOLEAN
  BY DEF Decide, InEngine, ControlTypes
<1>7. Kept
  BY <1>2, <1>5, <1>6 DEF Kept, Turned
<1>8. ControlTypes'
  BY <1>5, <1>6 DEF ControlTypes
<1> QED
  BY <1>7, <1>8

\* A kill that is on cancels and flattens.
LEMMA KillCheckKeeps ==
  ASSUME OrderInv(order, held), ControlTypes, KillCheck
  PROVE  Kept /\ ControlTypes'
<1> DEFINE o == Cancelling(order)
<1>1. OrderInv(o, held) /\ (~Active(order) => ~Active(o) /\ o = order)
  BY CancellingKeeps
<1>2. CASE ~killed /\ UNCHANGED <<order, sinceExit, killed, paused>>
  BY <1>2 DEF KillCheck, Kept, ControlTypes
<1>3. ASSUME NEW fresh \in Fresh, NEW lead \in 0..WallLead,
             IF held > 0 THEN Flatten(o, fresh, lead) ELSE order' = o /\ UNCHANGED sinceExit,
             paused' = (paused \/ DustLeft(o, fresh, lead)), UNCHANGED killed
      PROVE  Kept /\ ControlTypes'
  <2>1. fresh \in BOOLEAN
    BY DEF Fresh
  <2> HIDE DEF o
  <2>2. Turned(o, held) /\ sinceExit' \in -WallLead..ExitRetry
    <3>1. CASE held > 0
      BY <1>1, <1>3, <2>1, <3>1, FlattenTurns DEF ControlTypes
    <3>2. CASE ~(held > 0)
      BY <1>1, <1>3, <3>2 DEF Turned, ControlTypes
    <3> QED
      BY <3>1, <3>2
  <2>3. Kept
    BY <1>1, <2>2 DEF KillCheck, Kept, Turned
  <2>4. ControlTypes'
    BY <1>3, <2>2 DEF KillCheck, ControlTypes
  <2> QED
    BY <2>3, <2>4
<1> QED
  BY <1>2, <1>3 DEF KillCheck

\* What was active is cancelled by a start, with what its queue was.
LEMMA RestartKeeps ==
  ASSUME OrderInv(order, held), ControlTypes, Restart
  PROVE  Kept /\ ControlTypes'
<1> DEFINE c == Cancelled(order)
<1>1. OrderInv(c, held) /\ ~Active(c)
  BY CancelledKeeps
<1>2. order' = [c EXCEPT !.queue = 0] /\ held' = held
  BY DEF Restart
<1>3. 0 \in 0..MaxVolume
  BY Assumptions
<1> HIDE DEF c
<1>4. c \in Order
  BY <1>1 DEF OrderInv
<1>5. /\ order' \in Order /\ order'.side = c.side /\ order'.filled = c.filled
      /\ order'.quantity = c.quantity /\ order'.status = c.status /\ order'.age = c.age
      /\ order'.pending = c.pending /\ order'.credit = c.credit
  BY <1>2, <1>3, <1>4 DEF Order
<1>6. ~Active(order')
  BY <1>1, <1>5 DEF Active
<1>7. OrderInv(order', held)
  BY <1>1, <1>5, <1>6 DEF OrderInv, Phase, Earned, QueueBefore, Exposure, Active
<1>8. Kept
  BY <1>2, <1>6, <1>7 DEF Kept
<1>9. sinceExit' \in -WallLead..ExitRetry
  BY Assumptions DEF Restart
<1>10. killed' \in BOOLEAN /\ paused' \in BOOLEAN
  BY DEF Restart, ControlTypes
<1>11. ControlTypes'
  BY <1>9, <1>10 DEF Restart, ControlTypes
<1> QED
  BY <1>8, <1>11

-----------------------------------------------------------------------------
(* The theorems                                                            *)

\* The inductive invariant ...
PaperInv == OrderInv(order, held) /\ ControlTypes

\* The invariant at the start, and always.
LEMMA InitHolds == Init => PaperInv
<1> SUFFICES ASSUME Init
             PROVE  PaperInv
  OBVIOUS
<1>1. OrderInv(New("buy", 0, 0), 0)
  BY Assumptions, NewKeeps
<1>2. OrderInv(order, held)
  BY <1>1, CancelledKeeps DEF Init
<1>3. ControlTypes
  <2>1. ExitRetry \in -WallLead..ExitRetry
    BY Assumptions
  <2> QED
    BY <2>1 DEF Init, ControlTypes
<1> QED
  BY <1>2, <1>3 DEF PaperInv

\* ... and every step keeps it.
LEMMA NextKeeps ==
  ASSUME PaperInv, [Next]_vars
  PROVE  Kept /\ PaperInv'
<1> USE DEF PaperInv
<1>1. Kept /\ ControlTypes'
  <2>1. CASE Loop
    <3>1. CASE ProcessCommands
      BY <3>1, ProcessCommandsKeeps
    <3>2. CASE Idle
      BY <3>2, IdleKeeps
    <3>3. CASE \E dt \in 0..MaxStep : Receive(dt)
      BY <3>3, ReceiveKeeps
    <3>4. CASE Engine
      BY <3>4, HandleKeeps, DecideKeeps DEF Engine
    <3>5. CASE KillCheck
      BY <3>5, KillCheckKeeps
    <3> QED
      BY <2>1, <3>1, <3>2, <3>3, <3>4, <3>5 DEF Loop
  <2>2. CASE \E action \in Actions : Command(action)
    BY <2>2, CommandKeeps
  <2>3. CASE Restart
    BY <2>3, RestartKeeps
  <2>4. CASE UNCHANGED vars
    <3>1. UNCHANGED <<order, held, book, sinceExit, killed, paused, flattenRequested, command, event, pc>>
      BY <2>4 DEF vars, latches
    <3>2. Kept
      BY <3>1 DEF Kept
    <3>3. ControlTypes'
      BY <3>1 DEF ControlTypes
    <3> QED
      BY <3>2, <3>3
  <2> QED
    BY <2>1, <2>2, <2>3, <2>4 DEF Next
<1>2. OrderInv(order', held')
  BY <1>1 DEF Kept
<1> QED
  BY <1>1, <1>2

LEMMA InvariantHolds == Spec => []PaperInv
<1>1. PaperInv /\ [Next]_vars => PaperInv'
  BY NextKeeps
<1> QED
  BY <1>1, InitHolds, PTL DEF Spec

\* The types of the order, of the position and of the loop; the position is never negative.
THEOREM PaperTyped == Spec => []TypeOK
<1>1. PaperInv => TypeOK
  BY Assumptions DEF PaperInv, OrderInv, Order, Phase, ControlTypes, TypeOK
<1> QED
  BY <1>1, InvariantHolds, PTL

\* docs/RESEARCH.md:35.  For every latency, volume and lag a simulated entry is filled only
\* with what was traded after its activation beyond the queue (PaperBroker.advance).
THEOREM FillsStayEarned == Spec => []FillsAreEarned
<1>1. PaperInv => FillsAreEarned
  BY DEF PaperInv, OrderInv, Earned, FillsAreEarned
<1> QED
  BY <1>1, InvariantHolds, PTL

\* An entry stands on what it has bought itself and an exit never exceeds the position,
\* whatever the controller, the operators and a restart did in between (paper.py).
THEOREM ExposureStaysSingle == Spec => []OneExposure
<1>1. PaperInv => OneExposure
  BY DEF PaperInv, OrderInv, Exposure, OneExposure, Remaining
<1> QED
  BY <1>1, InvariantHolds, PTL

\* A final order stays final and books nothing more, whatever was due for it
\* (PaperBroker.advance).
THEOREM FinalStaysFinal == Spec => FinalIsFinal
<1>1. ASSUME PaperInv, [Next]_vars, ~Active(order)
      PROVE  /\ held' = held
             /\ Active(order') => order' = New(order'.side, order'.quantity, -order'.age)
  <2>1. Kept
    BY <1>1, NextKeeps
  <2>2. ASSUME NEW side \in {"buy", "sell"}, NEW quantity \in Nat, NEW lead \in 0..WallLead,
               order' = New(side, quantity, lead)
        PROVE  order' = New(order'.side, order'.quantity, -order'.age)
    <3>1. order'.side = side /\ order'.quantity = quantity /\ order'.age = -lead
      BY <2>2 DEF New
    <3>2. -order'.age = lead
      BY <3>1, Assumptions
    <3> QED
      BY <2>2, <3>1, <3>2
  <2> QED
    BY <1>1, <2>1, <2>2 DEF Kept
<1>2. []PaperInv /\ [][Next]_vars => FinalIsFinal
  BY <1>1, PTL DEF FinalIsFinal
<1> QED
  BY <1>2, InvariantHolds, PTL DEF Spec
=============================================================================
