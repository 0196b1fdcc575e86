-------------------------- MODULE MarketFeedProofs --------------------------
(***************************************************************************)
(* Theorems about MarketFeed, for every set of prices, every limit and     *)
(* every bound.  BooksAreTrue is inductive once the queue is known to      *)
(* carry only frames whose last number the venue has reached (FeedInv).    *)
(***************************************************************************)
EXTENDS MarketFeed, TLAPS

HistoryType == history \in Seq([levels : BookLevels, at : Nat]) /\ history # <<>>

\* Depth events cover numbers that the venue has reached.
Reached(e) == IsDepth(e) => e.last \in DOMAIN history

QueueReached == \A i \in DOMAIN queue : Reached(queue[i])

FeedInv == TypeOK /\ BooksAreTrue /\ QueueReached

-----------------------------------------------------------------------------
(* Lemmas about the operators *)

LEMMA NoBookType == BookType(NoBook) /\ IsVenueBook(NoBook)
<1>1. NoLevels \in BookLevels
  BY BookAssumption DEF NoLevels, BookLevels
<1> QED
  BY <1>1 DEF BookType, IsVenueBook, NoBook

LEMMA HistoryLevels ==
  ASSUME HistoryType, NEW n \in DOMAIN history
  PROVE  n \in Nat /\ history[n].levels \in BookLevels /\ history[n].at \in Nat
<1> DEFINE State == [levels : BookLevels, at : Nat]
<1>1. history \in Seq(State) /\ DOMAIN history = 1..Len(history) /\ Len(history) \in Nat
  BY DEF HistoryType
<1>2. history[n] \in State
  <2> HIDE DEF State
  <2> QED
    BY <1>1
<1>3. history[n].levels \in BookLevels /\ history[n].at \in Nat
  BY <1>2
<1> QED
  BY <1>1, <1>3

\* A delta that covers the next number of a true book makes it the venue's
\* book at the delta's last number: a level it does not carry has not changed.
LEMMA DeltaIsTrue ==
  ASSUME HistoryType, NEW b, BookType(b), IsVenueBook(b), NEW e \in Events,
         e.kind = "delta", e.last \in DOMAIN history, b.valid, CoversNext(b, e)
  PROVE  Updated(b, e) = history[e.last].levels
<1> DEFINE before == history[b.sequence].levels
           after == history[e.last].levels
<1>1. /\ b.sequence \in DOMAIN history /\ b.sequence \in Nat /\ e.last \in Nat /\ e.first \in Nat
      /\ before \in BookLevels /\ after \in BookLevels
      /\ b.levels = before
  <2>1. b.sequence \in DOMAIN history /\ b.levels = before
    BY DEF IsVenueBook
  <2>2. e.first \in Nat
    BY DEF Events
  <2> QED
    BY <2>1, <2>2, HistoryLevels
<1>2. b.sequence \in (e.first - 1)..e.last
  BY <1>1 DEF CoversNext
<1>3. \A l \in Levels : l \notin Touched(e) => before[l] = after[l]
  BY <1>1, <1>2 DEF Touched
<1>4. Updated(b, e) = [l \in Levels |-> IF l \in Touched(e) THEN after[l] ELSE before[l]]
  BY <1>1 DEF Updated
<1>5. Updated(b, e) = [l \in Levels |-> after[l]]
  BY <1>3, <1>4
<1>6. after = [l \in Levels |-> after[l]]
  BY <1>1 DEF BookLevels
<1> QED
  BY <1>5, <1>6

\* OrderBook.apply turns a true book into a true book.
LEMMA ApplyKeepsTruth ==
  ASSUME HistoryType, NEW b, BookType(b), IsVenueBook(b), NEW e \in Events, Reached(e)
  PROVE  BookType(Applied(b, e)) /\ IsVenueBook(Applied(b, e))
<1>1. CASE e.kind = "disconnect" \/ Rejects(b, e)
  BY <1>1, NoBookType DEF Applied
<1>2. CASE /\ ~(e.kind = "disconnect" \/ Rejects(b, e))
           /\ ~IsDepth(e) \/ Replayed(b, e)
  BY <1>2 DEF Applied
<1>3. CASE ~Rejects(b, e) /\ IsDepth(e) /\ ~Replayed(b, e)
  <2>1. e.last \in DOMAIN history /\ Uncrossed(Updated(b, e))
    BY <1>3 DEF Reached, Rejects
  <2>2. Updated(b, e) = history[e.last].levels
    <3>1. CASE e.kind = "snapshot"
      BY <3>1 DEF Updated
    <3>2. CASE e.kind = "delta"
      <4>1. b.valid /\ CoversNext(b, e)
        BY <1>3, <3>2 DEF Rejects, Continues
      <4> QED
        BY <2>1, <3>2, <4>1, DeltaIsTrue
    <3> QED
      BY <1>3, <3>1, <3>2 DEF IsDepth
  <2>3. Applied(b, e) = FromFrame(b, e)
    BY <1>3 DEF Applied, IsDepth
  <2>4. e.last \in Int /\ e.recv \in Nat /\ e.ts \in Nat /\ history[e.last].levels \in BookLevels
    BY <2>1, HistoryLevels DEF Events
  <2> QED
    BY <2>1, <2>2, <2>3, <2>4 DEF FromFrame, BookType, IsVenueBook
<1> QED
  BY <1>1, <1>2, <1>3

\* A frame that may arrive is an event of numbers that the venue has reached.
LEMMA FramesAreReached ==
  ASSUME TypeOK, NEW e \in DepthFrames
  PROVE  e \in Events /\ Reached(e)
<1>1. /\ e.last \in DOMAIN history
      /\ e \in [kind : {IF first THEN "snapshot" ELSE "delta"}, first : 1..MaxNumber,
                last : DOMAIN history, ts : 0..clock, recv : {clock}, intact : BOOLEAN]
  BY DEF DepthFrames
<1>2. DOMAIN history \subseteq Nat /\ clock \in Nat
  BY DEF TypeOK
<1>3. e.kind \in {"snapshot", "delta", "trade", "disconnect"}
  BY <1>1
<1> QED
  BY <1>1, <1>2, <1>3 DEF Events, Reached

LEMMA ControlEvents ==
  ASSUME clock \in Nat
  PROVE  /\ Loss \in Events /\ Trade \in Events
         /\ Reached(Loss) /\ Reached(Trade)
BY DEF Loss, Trade, Events, Reached, IsDepth

\* What the receive task does with an event keeps the queue typed and reached.
LEMMA DeliverKeepsQueue ==
  ASSUME FeedInv, NEW e \in Events, Reached(e), NEW next \in {"closed", "open"},
         Deliver(e, next), UNCHANGED history
  PROVE  /\ queue' \in Seq(Events) /\ Len(queue') <= QueueSize
         /\ QueueReached'
         /\ conn' \in {"closed", "open", "ended"}
         /\ killed' \in BOOLEAN /\ shutdown' \in BOOLEAN
<1>1. queue \in Seq(Events) /\ Len(queue) <= QueueSize /\ \A i \in DOMAIN queue : Reached(queue[i])
  BY DEF FeedInv, TypeOK, QueueReached
<1>2. CASE /\ Len(queue) < QueueSize
           /\ queue' = Append(queue, e) /\ conn' = next
           /\ UNCHANGED control
  <2>1. \A i \in DOMAIN queue' : queue'[i] = e \/ (i \in DOMAIN queue /\ queue'[i] = queue[i])
    BY <1>1, <1>2
  <2>2. QueueReached'
    <3>1. \A i \in DOMAIN queue' : IsDepth(queue'[i]) => queue'[i].last \in DOMAIN history
      BY <1>1, <2>1 DEF Reached
    <3> QED
      BY <3>1 DEF QueueReached, Reached, IsDepth
  <2>3. queue' \in Seq(Events) /\ Len(queue') <= QueueSize
    BY <1>1, <1>2, LimitsAssumption
  <2>4. killed' \in BOOLEAN /\ shutdown' \in BOOLEAN
    BY <1>2 DEF FeedInv, TypeOK, control
  <2> QED
    BY <1>2, <2>2, <2>3, <2>4
<1>3. CASE Len(queue) >= QueueSize /\ killed' = TRUE /\ shutdown' = TRUE /\ conn' = "ended" /\ UNCHANGED queue
  <2>1. QueueReached'
    <3>1. \A i \in DOMAIN queue' : IsDepth(queue'[i]) => queue'[i].last \in DOMAIN history
      BY <1>1, <1>3 DEF Reached
    <3> QED
      BY <3>1 DEF QueueReached, Reached, IsDepth
  <2> QED
    BY <1>1, <1>3, <2>1
<1> QED
  BY <1>2, <1>3 DEF Deliver

-----------------------------------------------------------------------------
(* Preservation of the invariant *)

LEMMA SameHistoryBooks ==
  ASSUME UNCHANGED history, IsVenueBook(guard'), IsVenueBook(book')
  PROVE  BooksAreTrue'
BY DEF BooksAreTrue, IsVenueBook, Uncrossed

LEMMA SameHistoryQueue ==
  ASSUME QueueReached, UNCHANGED <<history, queue>>
  PROVE  QueueReached'
BY DEF QueueReached, Reached, IsDepth

LEMMA VenueInv ==
  ASSUME FeedInv, NEW l \in Levels, NEW q \in 0..MaxQuantity, VenueUpdates(l, q)
  PROVE  FeedInv'
<1> DEFINE State == [levels : BookLevels, at : Nat]
           last == history[Len(history)].levels
           new == [levels |-> [last EXCEPT ![l] = q], at |-> clock]
<1>1. history \in Seq(State) /\ history # <<>> /\ clock \in Nat /\ HistoryType
  BY DEF FeedInv, TypeOK, HistoryType
<1>2. Len(history) \in DOMAIN history
  <2> HIDE DEF State
  <2> QED
    BY <1>1
<1>3. last \in BookLevels
  BY <1>1, <1>2, HistoryLevels
<1>4. [last EXCEPT ![l] = q] \in BookLevels
  BY <1>3 DEF BookLevels
<1>5. new \in State
  BY <1>1, <1>4
<1>6. history' = Append(history, new)
  BY DEF VenueUpdates
<1>7. /\ history' \in Seq(State) /\ history' # <<>>
      /\ \A n \in DOMAIN history : n \in DOMAIN history' /\ history'[n] = history[n]
  <2> HIDE DEF State, new
  <2> QED
    BY <1>1, <1>5, <1>6
<1>8. TypeOK'
  BY <1>7 DEF FeedInv, TypeOK, VenueUpdates, stream, control, consumer
<1>9. BooksAreTrue'
  BY <1>7 DEF FeedInv, BooksAreTrue, IsVenueBook, Uncrossed, VenueUpdates, stream, consumer
<1>10. QueueReached'
  BY <1>7 DEF FeedInv, QueueReached, Reached, IsDepth, VenueUpdates
<1> QED
  BY <1>8, <1>9, <1>10 DEF FeedInv

\* Every way the receive task goes on after it has handed an event over.
LEMMA DeliveredInv ==
  ASSUME FeedInv, NEW e \in Events, Reached(e), NEW next \in {"closed", "open"},
         Deliver(e, next), first' \in BOOLEAN,
         BookType(guard'), IsVenueBook(guard'),
         UNCHANGED <<history, clock, acknowledged, consumer>>
  PROVE  FeedInv'
<1>1. UNCHANGED history
  OBVIOUS
<1>2. /\ queue' \in Seq(Events) /\ Len(queue') <= QueueSize
      /\ QueueReached'
      /\ conn' \in {"closed", "open", "ended"}
      /\ killed' \in BOOLEAN /\ shutdown' \in BOOLEAN
  BY <1>1, DeliverKeepsQueue
<1>3. TypeOK'
  BY <1>2 DEF FeedInv, TypeOK, consumer, BookType
<1>4. IsVenueBook(book')
  BY DEF FeedInv, BooksAreTrue, consumer
<1>5. BooksAreTrue'
  BY <1>1, <1>4, SameHistoryBooks
<1> QED
  BY <1>2, <1>3, <1>5 DEF FeedInv

LEMMA RemainsOpenOrCloses == Remains \in {"closed", "open"}
BY DEF Remains

LEMMA LoseInv ==
  ASSUME FeedInv, Lose
  PROVE  FeedInv'
<1>1. Loss \in Events /\ Reached(Loss)
  BY ControlEvents DEF FeedInv, TypeOK
<1>2. /\ first' \in BOOLEAN /\ BookType(guard') /\ IsVenueBook(guard')
      /\ UNCHANGED <<history, clock, acknowledged, consumer>>
  BY DEF Lose, FeedInv, TypeOK, BooksAreTrue
<1>3. Deliver(Loss, "closed")
  BY DEF Lose
<1> QED
  BY <1>1, <1>2, <1>3, DeliveredInv

LEMMA DepthInv ==
  ASSUME FeedInv, NEW e \in DepthFrames, ReceiveDepth(e)
  PROVE  FeedInv'
<1>1. CASE ~Acceptable(e) /\ Lose
  BY <1>1, LoseInv
<1>2. CASE /\ Acceptable(e)
           /\ guard' = Applied(guard, e) /\ first' = FALSE
           /\ Deliver(e, Remains)
           /\ UNCHANGED <<history, clock, acknowledged, consumer>>
  <2>1. e \in Events /\ Reached(e)
    BY FramesAreReached DEF FeedInv
  <2>2. HistoryType /\ BookType(guard) /\ IsVenueBook(guard)
    BY DEF FeedInv, TypeOK, HistoryType, BooksAreTrue
  <2>3. BookType(Applied(guard, e)) /\ IsVenueBook(Applied(guard, e))
    BY <2>1, <2>2, ApplyKeepsTruth
  <2> QED
    BY <1>2, <2>1, <2>3, RemainsOpenOrCloses, DeliveredInv
<1> QED
  BY <1>1, <1>2 DEF ReceiveDepth

LEMMA ReceiveInv ==
  ASSUME FeedInv, Receive
  PROVE  FeedInv'
<1>1. CASE Connect
  <2>1. TypeOK'
    BY <1>1, NoBookType DEF FeedInv, TypeOK, Connect, control, consumer, BookType
  <2>2. IsVenueBook(guard') /\ IsVenueBook(book')
    BY <1>1, NoBookType DEF FeedInv, BooksAreTrue, Connect, consumer
  <2>3. UNCHANGED <<history, queue>>
    BY <1>1 DEF Connect
  <2> QED
    BY <2>1, <2>2, <2>3, SameHistoryBooks, SameHistoryQueue DEF FeedInv
<1>2. CASE Acknowledge
  <2>1. TypeOK'
    BY <1>2 DEF FeedInv, TypeOK, Acknowledge, Remains, control, consumer, BookType
  <2>2. IsVenueBook(guard') /\ IsVenueBook(book')
    BY <1>2 DEF FeedInv, BooksAreTrue, Acknowledge, consumer
  <2>3. UNCHANGED <<history, queue>>
    BY <1>2 DEF Acknowledge
  <2> QED
    BY <2>1, <2>2, <2>3, SameHistoryBooks, SameHistoryQueue DEF FeedInv
<1>3. CASE ConnectionLost
  BY <1>3, LoseInv DEF ConnectionLost
<1>4. CASE \E e \in DepthFrames : ReceiveDepth(e)
  BY <1>4, DepthInv
<1>5. CASE ReceiveTrade
  <2>1. Trade \in Events /\ Reached(Trade)
    BY ControlEvents DEF FeedInv, TypeOK
  <2>2. /\ first' \in BOOLEAN /\ BookType(guard') /\ IsVenueBook(guard')
        /\ UNCHANGED <<history, clock, acknowledged, consumer>>
        /\ Deliver(Trade, Remains)
    BY <1>5 DEF ReceiveTrade, FeedInv, TypeOK, BooksAreTrue
  <2> QED
    BY <2>1, <2>2, RemainsOpenOrCloses, DeliveredInv
<1> QED
  BY <1>1, <1>2, <1>3, <1>4, <1>5 DEF Receive

\* The steps of the loop that leave the queue alone.
Quiet ==
  \/ Tick \/ Signal \/ Recover
  \/ Begin \/ Stop \/ Fail \/ Idle \/ ForgetBook
  \/ Enter \/ Exit \/ Decline \/ EndIteration

LEMMA QuietInv ==
  ASSUME FeedInv, Quiet
  PROVE  FeedInv'
<1>1. UNCHANGED <<history, queue, stream>>
  BY DEF Quiet, Tick, Signal, Recover, Begin, Stop, Fail, Idle, ForgetBook, Enter, Exit,
         Decline, EndIteration, outside, stream
<1>2. book' = book \/ book' = NoBook
  BY DEF Quiet, Tick, Signal, Recover, Begin, Stop, Fail, Idle, ForgetBook, Enter, Exit,
         Decline, EndIteration, outside, consumer
<1>3. BookType(book') /\ IsVenueBook(book')
  BY <1>2, NoBookType DEF FeedInv, TypeOK, BooksAreTrue
<1>4. clock' \in Nat /\ iterationTime' \in Nat
  BY DEF Quiet, Tick, Signal, Recover, Begin, Stop, Fail, Idle, ForgetBook, Enter, Exit,
         Decline, EndIteration, outside, consumer, FeedInv, TypeOK
<1>5. killed' \in BOOLEAN /\ shutdown' \in BOOLEAN
  <2>1. killed' \in BOOLEAN
    BY DEF Quiet, Tick, Signal, Recover, Begin, Stop, Fail, Idle, ForgetBook, Enter, Exit,
           Decline, EndIteration, outside, control, FeedInv, TypeOK
  <2>2. shutdown' \in BOOLEAN
    BY DEF Quiet, Tick, Signal, Recover, Begin, Stop, Fail, Idle, ForgetBook, Enter, Exit,
           Decline, EndIteration, outside, control, FeedInv, TypeOK
  <2> QED
    BY <2>1, <2>2
<1>6. /\ loop' \in {"top", "calls", "losing", "deciding", "after", "stopped"}
      /\ priced' \in {"none", "entry", "exit"}
  BY DEF Quiet, Tick, Signal, Recover, Begin, Stop, Fail, Idle, ForgetBook, Enter, Exit,
         Decline, EndIteration, outside, consumer, FeedInv, TypeOK
<1>7. TypeOK'
  BY <1>1, <1>3, <1>4, <1>5, <1>6 DEF FeedInv, TypeOK, BookType, stream
<1>8. IsVenueBook(guard')
  BY <1>1 DEF FeedInv, BooksAreTrue, stream
<1> QED
  BY <1>1, <1>3, <1>7, <1>8, SameHistoryBooks, SameHistoryQueue DEF FeedInv

\* The loop takes the head of the queue.
LEMMA TakeInv ==
  ASSUME FeedInv, TakeLoss \/ TakeEvent
  PROVE  FeedInv'
<1> DEFINE e == Head(queue)
<1>1. queue # <<>> /\ Take(e)
  BY DEF TakeLoss, TakeEvent
<1>2. queue \in Seq(Events) /\ Len(queue) <= QueueSize /\ queue' = Tail(queue)
  BY <1>1 DEF FeedInv, TypeOK, Take
<1>3. e = queue[1] /\ 1 \in DOMAIN queue
  BY <1>1, <1>2
<1>4. e \in Events /\ Reached(e)
  BY <1>2, <1>3 DEF FeedInv, QueueReached
<1>5. /\ queue' \in Seq(Events) /\ Len(queue') <= QueueSize
      /\ \A i \in DOMAIN queue' : i + 1 \in DOMAIN queue /\ queue'[i] = queue[i + 1]
  BY <1>1, <1>2, LimitsAssumption
<1>6. UNCHANGED <<history, clock, stream, shutdown, iterationTime, priced>>
  BY <1>1 DEF Take, outside
<1>7. QueueReached'
  <2>1. \A i \in DOMAIN queue' : IsDepth(queue'[i]) => queue'[i].last \in DOMAIN history
    BY <1>5 DEF FeedInv, QueueReached, Reached
  <2> QED
    BY <1>6, <2>1 DEF QueueReached, Reached, IsDepth
<1>8. BookType(Applied(book, e)) /\ IsVenueBook(Applied(book, e))
  <2>1. HistoryType /\ BookType(book) /\ IsVenueBook(book)
    BY DEF FeedInv, TypeOK, HistoryType, BooksAreTrue
  <2> QED
    BY <1>4, <2>1, ApplyKeepsTruth
<1>9. BookType(book') /\ IsVenueBook(book')
  BY <1>8 DEF TakeLoss, TakeEvent, FeedInv, TypeOK, BooksAreTrue
<1>10. loop' \in {"losing", "deciding", "after"}
  BY DEF TakeLoss, TakeEvent
<1>11. killed' \in BOOLEAN
  BY DEF TakeLoss, TakeEvent, FeedInv, TypeOK
<1>12. TypeOK'
  BY <1>5, <1>6, <1>9, <1>10, <1>11 DEF FeedInv, TypeOK, BookType, stream
<1>13. IsVenueBook(guard')
  BY <1>6 DEF FeedInv, BooksAreTrue, stream
<1> QED
  BY <1>6, <1>7, <1>9, <1>12, <1>13, SameHistoryBooks DEF FeedInv

LEMMA InitInv == Init => FeedInv
<1> SUFFICES ASSUME Init PROVE FeedInv
  OBVIOUS
<1>1. PICK levels \in BookLevels : history = <<[levels |-> levels, at |-> 0]>>
  BY DEF Init
<1>2. history \in Seq([levels : BookLevels, at : Nat]) /\ history # <<>>
  BY <1>1
<1>3. queue = <<>> /\ guard = NoBook /\ book = NoBook
  BY DEF Init
<1>4. TypeOK
  <2>1. BookType(guard) /\ BookType(book)
    BY <1>3, NoBookType
  <2>2. queue \in Seq(Events) /\ Len(queue) <= QueueSize
    BY <1>3, LimitsAssumption
  <2>3. clock \in Nat /\ iterationTime \in Nat
    BY DEF Init
  <2> QED
    BY <1>2, <2>1, <2>2, <2>3 DEF Init, TypeOK
<1>5. BooksAreTrue /\ QueueReached
  BY <1>3, NoBookType DEF BooksAreTrue, QueueReached
<1> QED
  BY <1>4, <1>5 DEF FeedInv

LEMMA StutterInv ==
  ASSUME FeedInv, UNCHANGED vars
  PROVE  FeedInv'
<1>1. TypeOK'
  BY DEF FeedInv, TypeOK, BookType, vars, stream, control, consumer
<1>2. IsVenueBook(guard') /\ IsVenueBook(book') /\ UNCHANGED <<history, queue>>
  BY DEF FeedInv, BooksAreTrue, vars, stream, consumer
<1> QED
  BY <1>1, <1>2, SameHistoryBooks, SameHistoryQueue DEF FeedInv

LEMMA NextInv == FeedInv /\ [Next]_vars => FeedInv'
<1> SUFFICES ASSUME FeedInv, [Next]_vars PROVE FeedInv'
  OBVIOUS
<1>1. CASE \E l \in Levels, q \in 0..MaxQuantity : VenueUpdates(l, q)
  BY <1>1, VenueInv
<1>2. CASE Receive
  BY <1>2, ReceiveInv
<1>3. CASE TakeLoss \/ TakeEvent
  BY <1>3, TakeInv
<1>4. CASE Quiet
  BY <1>4, QuietInv
<1>5. CASE UNCHANGED vars
  BY <1>5, StutterInv
<1> QED
  BY <1>1, <1>2, <1>3, <1>4, <1>5 DEF Next, Loop, Quiet

-----------------------------------------------------------------------------
(* Theorems *)

\* The types of MarketFeed and the bound of its queue hold in every behaviour.
THEOREM FeedTypeCorrect == Spec => []TypeOK
<1>1. FeedInv => TypeOK
  BY DEF FeedInv
<1> QED
  BY <1>1, InitInv, NextInv, PTL DEF Spec

\* Whatever a connection repeats, overlaps, skips, reorders or spoils, a valid
\* book is the venue's at its number (OrderBook.apply), for every set of prices.
THEOREM ValidBooksAreTrue == Spec => []BooksAreTrue
<1>1. FeedInv => BooksAreTrue
  BY DEF FeedInv
<1> QED
  BY <1>1, InitInv, NextInv, PTL DEF Spec

-----------------------------------------------------------------------------
(* The age of a price *)

\* A frame was received within the drift of its stamp, and stamped before the
\* venue's book had moved on.
TimelyEvent(e) == IsDepth(e) => e.recv - e.ts <= Drift /\ e.ts <= CurrentUntil(e.last)
TimelyBook(b) == b.valid => b.recv - b.ts <= Drift /\ b.ts <= CurrentUntil(b.sequence)

QueueTimely == \A i \in DOMAIN queue : TimelyEvent(queue[i])

AgeInv == TimelyBook(book) /\ QueueTimely

\* The same after a step, of an event or a book of any state.
UntilNext(n) == IF n < Len(history') THEN history'[n + 1].at ELSE clock'
TimelyEventNext(e) == IsDepth(e) => e.recv - e.ts <= Drift /\ e.ts <= UntilNext(e.last)
TimelyBookNext(b) == b.valid => b.recv - b.ts <= Drift /\ b.ts <= UntilNext(b.sequence)

LEMMA UntilType ==
  ASSUME TypeOK, NEW n \in DOMAIN history
  PROVE  CurrentUntil(n) \in Nat
<1>1. HistoryType /\ clock \in Nat
  BY DEF TypeOK, HistoryType
<1>2. \A m \in DOMAIN history : history[m].at \in Nat
  BY <1>1, HistoryLevels
<1>3. n \in Nat /\ (n < Len(history) => n + 1 \in DOMAIN history)
  BY <1>1 DEF HistoryType
<1> QED
  BY <1>1, <1>2, <1>3 DEF CurrentUntil

\* A number is never found to have been over earlier than was known.
LEMMA UntilGrows ==
  ASSUME FeedInv, [Next]_vars
  PROVE  \A n \in DOMAIN history : UntilNext(n) \in Nat /\ UntilNext(n) >= CurrentUntil(n)
<1>1. HistoryType /\ clock \in Nat /\ \A n \in DOMAIN history : CurrentUntil(n) \in Nat
  BY UntilType DEF FeedInv, TypeOK, HistoryType
<1>2. CASE \E l \in Levels, q \in 0..MaxQuantity : VenueUpdates(l, q)
  <2>1. PICK l \in Levels, q \in 0..MaxQuantity : VenueUpdates(l, q)
    BY <1>2
  <2> DEFINE new == [levels |-> [history[Len(history)].levels EXCEPT ![l] = q], at |-> clock]
  <2>2. history' = Append(history, new) /\ clock' = clock /\ new.at = clock
    BY <2>1 DEF VenueUpdates
  <2>3. /\ Len(history') = Len(history) + 1 /\ Len(history) \in Nat
        /\ DOMAIN history = 1..Len(history) /\ DOMAIN history' = 1..Len(history')
        /\ history'[Len(history) + 1] = new
        /\ \A n \in DOMAIN history : history'[n] = history[n]
    <3> HIDE DEF new
    <3> QED
      BY <1>1, <2>2 DEF HistoryType
  <2>4. ASSUME NEW n \in DOMAIN history
        PROVE  UntilNext(n) = CurrentUntil(n)
    <3>1. CASE n = Len(history)
      BY <2>2, <2>3, <3>1 DEF CurrentUntil, UntilNext
    <3>2. CASE n < Len(history)
      BY <2>2, <2>3, <3>2 DEF CurrentUntil, UntilNext
    <3> QED
      BY <2>3, <3>1, <3>2
  <2> QED
    BY <1>1, <2>3, <2>4
<1>3. CASE UNCHANGED history /\ (clock' = clock \/ clock' = clock + 1)
  <2>1. \A n \in DOMAIN history : UntilNext(n) = CurrentUntil(n) \/ UntilNext(n) = CurrentUntil(n) + 1
    BY <1>1, <1>3 DEF CurrentUntil, UntilNext
  <2> QED
    BY <1>1, <1>3, <2>1
<1>4. CASE Receive
  <2>1. UNCHANGED <<history, clock>>
    BY <1>4 DEF Receive, Connect, Acknowledge, ConnectionLost, ReceiveDepth, Lose, ReceiveTrade
  <2> QED
    BY <1>3, <2>1
<1>5. CASE TakeLoss \/ TakeEvent
  BY <1>3, <1>5 DEF TakeLoss, TakeEvent, Take, outside
<1>6. CASE Quiet
  BY <1>3, <1>6 DEF Quiet, Tick, Signal, Recover, Begin, Stop, Fail, Idle, ForgetBook, Enter, Exit,
     Decline, EndIteration, outside
<1>7. CASE UNCHANGED vars
  BY <1>3, <1>7 DEF vars
<1> QED
  BY <1>2, <1>4, <1>5, <1>6, <1>7 DEF Next, Loop, Quiet

\* What was timely stays timely.
LEMMA StaysTimely ==
  ASSUME FeedInv, [Next]_vars
  PROVE  /\ \A e \in Events : Reached(e) /\ TimelyEvent(e) => TimelyEventNext(e)
         /\ \A b : BookType(b) /\ IsVenueBook(b) /\ TimelyBook(b) => TimelyBookNext(b)
<1>1. \A n \in DOMAIN history : /\ UntilNext(n) >= CurrentUntil(n)
                                /\ CurrentUntil(n) \in Nat /\ UntilNext(n) \in Nat
  BY UntilGrows, UntilType DEF FeedInv
<1>2. ASSUME NEW e \in Events, Reached(e), TimelyEvent(e)
      PROVE  TimelyEventNext(e)
  <2>1. e.ts \in Nat
    BY DEF Events
  <2> QED
    BY <1>1, <1>2, <2>1 DEF TimelyEvent, TimelyEventNext, Reached
<1>3. ASSUME NEW b, BookType(b), IsVenueBook(b), TimelyBook(b)
      PROVE  TimelyBookNext(b)
  <2>1. b.valid => b.ts \in Nat /\ b.sequence \in DOMAIN history
    BY <1>3 DEF BookType, IsVenueBook
  <2> QED
    BY <1>1, <1>3, <2>1 DEF TimelyBook, TimelyBookNext
<1> QED
  BY <1>2, <1>3

LEMMA AppliedTimely ==
  ASSUME NEW b, TimelyBook(b), NEW e, TimelyEvent(e)
  PROVE  TimelyBook(Applied(b, e))
<1>1. CASE e.kind = "disconnect" \/ Rejects(b, e)
  BY <1>1 DEF Applied, TimelyBook, NoBook
<1>2. CASE ~(e.kind = "disconnect" \/ Rejects(b, e)) /\ (~IsDepth(e) \/ Replayed(b, e))
  BY <1>2 DEF Applied
<1>3. CASE ~(e.kind = "disconnect" \/ Rejects(b, e)) /\ IsDepth(e) /\ ~Replayed(b, e)
  BY <1>3 DEF Applied, FromFrame, TimelyBook, TimelyEvent
<1> QED
  BY <1>1, <1>2, <1>3

\* The engine's book stays, is forgotten, or takes the head of the queue.
LEMMA BookSteps ==
  ASSUME FeedInv, [Next]_vars
  PROVE  \/ book' = book \/ book' = NoBook
         \/ queue # <<>> /\ book' = Applied(book, Head(queue))
<1>1. CASE Receive
  BY <1>1 DEF Receive, Connect, Acknowledge, ConnectionLost, ReceiveDepth, Lose, ReceiveTrade, consumer
<1>2. CASE \E l \in Levels, q \in 0..MaxQuantity : VenueUpdates(l, q)
  BY <1>2 DEF VenueUpdates, consumer
<1>3. CASE TakeLoss \/ TakeEvent
  BY <1>3 DEF TakeLoss, TakeEvent
<1>4. CASE Quiet
  BY <1>4 DEF Quiet, Tick, Signal, Recover, Begin, Stop, Fail, Idle, ForgetBook, Enter, Exit,
     Decline, EndIteration, consumer
<1>5. CASE UNCHANGED vars
  BY <1>5 DEF vars, consumer
<1> QED
  BY <1>1, <1>2, <1>3, <1>4, <1>5 DEF Next, Loop, Quiet

\* The queue stays, loses its head, or gets one timely event.
LEMMA QueueSteps ==
  ASSUME FeedInv, [Next]_vars
  PROVE  \/ queue' = queue
         \/ queue # <<>> /\ queue' = Tail(queue)
         \/ \E e \in Events : Reached(e) /\ TimelyEvent(e) /\ queue' = Append(queue, e)
<1>1. clock \in Nat /\ TypeOK
  BY DEF FeedInv, TypeOK
<1>2. ASSUME Lose PROVE queue' = queue \/ queue' = Append(queue, Loss)
  BY <1>2 DEF Lose, Deliver
<1>3. /\ Loss \in Events /\ Reached(Loss) /\ TimelyEvent(Loss)
      /\ Trade \in Events /\ Reached(Trade) /\ TimelyEvent(Trade)
  BY <1>1, ControlEvents DEF TimelyEvent, IsDepth, Loss, Trade
<1>4. CASE \E e \in DepthFrames : ReceiveDepth(e)
  <2>1. PICK e \in DepthFrames : ReceiveDepth(e)
    BY <1>4
  <2>2. CASE ~Acceptable(e) /\ Lose
    BY <1>2, <1>3, <2>2
  <2>3. CASE Acceptable(e) /\ Deliver(e, Remains)
    <3>1. e \in Events /\ Reached(e) /\ e.ts <= CurrentUntil(e.last)
      BY <1>1, FramesAreReached DEF DepthFrames
    <3>2. TimelyEvent(e)
      BY <2>3, <3>1 DEF Acceptable, NotDrifted, TimelyEvent
    <3> QED
      BY <2>3, <3>1, <3>2 DEF Deliver
  <2> QED
    BY <2>1, <2>2, <2>3 DEF ReceiveDepth
<1>5. CASE ConnectionLost
  BY <1>2, <1>3, <1>5 DEF ConnectionLost
<1>6. CASE ReceiveTrade
  BY <1>3, <1>6 DEF ReceiveTrade, Deliver
<1>7. CASE Connect \/ Acknowledge
  BY <1>7 DEF Connect, Acknowledge
<1>8. CASE \E l \in Levels, q \in 0..MaxQuantity : VenueUpdates(l, q)
  BY <1>8 DEF VenueUpdates
<1>9. CASE TakeLoss \/ TakeEvent
  BY <1>9 DEF TakeLoss, TakeEvent, Take
<1>10. CASE Quiet
  BY <1>10 DEF Quiet, Tick, Signal, Recover, Begin, Stop, Fail, Idle, ForgetBook, Enter, Exit,
     Decline, EndIteration
<1>11. CASE UNCHANGED vars
  BY <1>11 DEF vars
<1> QED
  BY <1>4, <1>5, <1>6, <1>7, <1>8, <1>9, <1>10, <1>11 DEF Next, Loop, Receive, Quiet

LEMMA AgeNext == FeedInv /\ AgeInv /\ [Next]_vars => AgeInv'
<1> SUFFICES ASSUME FeedInv, AgeInv, [Next]_vars PROVE AgeInv'
  OBVIOUS
<1>1. queue \in Seq(Events) /\ QueueReached
  BY DEF FeedInv, TypeOK
<1>2. BookType(book) /\ IsVenueBook(book) /\ TimelyBook(book) /\ HistoryType
  BY DEF FeedInv, TypeOK, BooksAreTrue, AgeInv, HistoryType
<1>3. TimelyBook(book)'
  <2>1. ASSUME queue # <<>>, book' = Applied(book, Head(queue))
        PROVE  TimelyBookNext(book')
    <3>1. /\ Head(queue) \in Events /\ Reached(Head(queue)) /\ TimelyEvent(Head(queue))
      BY <1>1, <2>1 DEF QueueReached, AgeInv, QueueTimely
    <3>2. BookType(Applied(book, Head(queue))) /\ IsVenueBook(Applied(book, Head(queue)))
      BY <1>2, <3>1, ApplyKeepsTruth
    <3>3. TimelyBook(Applied(book, Head(queue)))
      BY <1>2, <3>1, AppliedTimely
    <3> QED
      BY <2>1, <3>2, <3>3, StaysTimely
  <2>2. ASSUME book' = book \/ book' = NoBook
        PROVE  TimelyBookNext(book')
    <3>1. TimelyBookNext(NoBook)
      BY DEF TimelyBookNext, NoBook
    <3>2. TimelyBookNext(book)
      BY <1>2, StaysTimely
    <3> QED
      BY <2>2, <3>1, <3>2
  <2>3. TimelyBookNext(book')
    BY <2>1, <2>2, BookSteps
  <2> QED
    BY <2>3 DEF TimelyBook, TimelyBookNext, CurrentUntil, UntilNext
<1>4. QueueTimely'
  <2>1. \A i \in DOMAIN queue : TimelyEventNext(queue[i])
    BY <1>1, StaysTimely DEF QueueReached, AgeInv, QueueTimely
  <2>2. \A i \in DOMAIN queue' : TimelyEventNext(queue'[i])
    <3>1. CASE queue' = queue
      BY <2>1, <3>1
    <3>2. CASE queue # <<>> /\ queue' = Tail(queue)
      <4>1. \A i \in DOMAIN queue' : i + 1 \in DOMAIN queue /\ queue'[i] = queue[i + 1]
        BY <1>1, <3>2
      <4> QED
        BY <2>1, <4>1
    <3>3. CASE \E e \in Events : Reached(e) /\ TimelyEvent(e) /\ queue' = Append(queue, e)
      <4>1. PICK e \in Events : Reached(e) /\ TimelyEvent(e) /\ queue' = Append(queue, e)
        BY <3>3
      <4>2. TimelyEventNext(e)
        BY <4>1, StaysTimely
      <4>3. \A i \in DOMAIN queue' : queue'[i] = e \/ (i \in DOMAIN queue /\ queue'[i] = queue[i])
        BY <1>1, <4>1
      <4> QED
        BY <2>1, <4>2, <4>3
    <3> QED
      BY <3>1, <3>2, <3>3, QueueSteps
  <2> QED
    BY <2>2 DEF QueueTimely, TimelyEvent, TimelyEventNext, IsDepth, CurrentUntil, UntilNext
<1> QED
  BY <1>3, <1>4 DEF AgeInv

\* A fresh, true and timely book is recent.
LEMMA FreshIsRecent ==
  ASSUME FeedInv, AgeInv, ~IsStale(book, clock)
  PROVE  /\ book.valid /\ book.levels = history[book.sequence].levels
         /\ clock - CurrentUntil(book.sequence) <= StaleAfter + Drift
<1>1. book.valid /\ clock - book.recv <= StaleAfter
  BY LimitsAssumption DEF IsStale, FeedInv, TypeOK, BookType
<1>2. /\ book.sequence \in DOMAIN history /\ book.levels = history[book.sequence].levels
      /\ book.recv - book.ts <= Drift /\ book.ts <= CurrentUntil(book.sequence)
  BY <1>1 DEF FeedInv, BooksAreTrue, IsVenueBook, AgeInv, TimelyBook
<1>3. /\ CurrentUntil(book.sequence) \in Nat
      /\ clock \in Nat /\ book.recv \in Nat /\ book.ts \in Nat
  BY <1>2, UntilType DEF FeedInv, TypeOK, BookType
<1> QED
  BY <1>1, <1>2, <1>3, LimitsAssumption

\* Every order is priced on a book that was the venue's no longer ago than
\* stale_data_ms + maximum_clock_drift_ms, for every value of the two limits,
\* every queue and every market (RiskEngine.authorize, market_stream).
THEOREM PricesAreRecent == Spec => OrdersUseRecentBooks
<1>1. Init => AgeInv
  BY DEF Init, AgeInv, TimelyBook, QueueTimely, NoBook
<1>2. FeedInv /\ AgeInv /\ [Next]_vars
        => [priced' # priced /\ priced' # "none" =>
              /\ book.valid /\ book.levels = history[book.sequence].levels
              /\ clock - CurrentUntil(book.sequence) <= StaleAfter + Drift]_vars
  <2> SUFFICES ASSUME FeedInv, AgeInv, Next, priced' # priced, priced' # "none"
               PROVE  ~IsStale(book, clock)
    BY FreshIsRecent
  <2>1. Enter \/ Exit
    BY DEF Next, VenueUpdates, Tick, Receive, Connect, Acknowledge, ConnectionLost, ReceiveDepth, Lose,
           ReceiveTrade, Signal, Recover, Loop, Begin, Stop, Fail, Idle, TakeLoss, ForgetBook, TakeEvent,
           Take, Decline, EndIteration, consumer
  <2> QED
    BY <2>1 DEF Enter, Exit
<1> QED
  BY <1>1, <1>2, InitInv, NextInv, AgeNext, PTL DEF Spec, OrdersUseRecentBooks

-----------------------------------------------------------------------------
(* The two books of a stream *)

\* There are books, one before and one after each event of the queue, that lead
\* from the engine's book to the guard book and refuse none of the events.  The
\* first is the engine's, or none: after a loss whose cancellations failed the
\* engine keeps its book although the stream has begun anew.
Pipeline(s) ==
  /\ s[0] = book \/ s[0] = NoBook
  /\ loop = "losing" => s[0] = NoBook
  /\ \A i \in DOMAIN queue : ~Rejects(s[i - 1], queue[i]) /\ s[i] = Applied(s[i - 1], queue[i])
  /\ conn = "open" /\ ~first => s[Len(queue)] = guard

PipelineInv == \E s : Pipeline(s)

\* Trades and losses are never refused; a snapshot has the same effect on every book.
LEMMA AnyBook ==
  ASSUME NEW a, NEW b, NEW e
  PROVE  /\ ~IsDepth(e) => ~Rejects(a, e)
         /\ e.kind = "snapshot" => (Rejects(a, e) <=> Rejects(b, e))
         /\ e.kind = "snapshot" /\ ~Rejects(a, e) => Applied(a, e) = Applied(b, e)
         /\ e.kind = "trade" => Applied(a, e) = a
         /\ e.kind = "disconnect" => Applied(a, e) = NoBook
         /\ e.kind = "delta" => Rejects(NoBook, e)
<1>1. ~IsDepth(e) => ~Rejects(a, e)
  BY DEF Rejects
<1>2. e.kind = "snapshot" => (Rejects(a, e) <=> Rejects(b, e))
  BY DEF Rejects, Replayed, Updated
<1>3. e.kind = "snapshot" /\ ~Rejects(a, e) => Applied(a, e) = Applied(b, e)
  BY <1>2 DEF Applied, FromFrame, Updated, Replayed, IsDepth
<1>4. e.kind = "trade" => Applied(a, e) = a
  BY <1>1 DEF Applied, IsDepth
<1>5. e.kind = "disconnect" => Applied(a, e) = NoBook
  BY DEF Applied
<1>6. e.kind = "delta" => Rejects(NoBook, e)
  BY DEF Rejects, Replayed, Continues, NoBook, IsDepth
<1> QED
  BY <1>1, <1>2, <1>3, <1>4, <1>5, <1>6

\* What apply does with a frame does not change when the venue's history grows.
LEMMA SameEffect ==
  ASSUME FeedInv, NEW l \in Levels, NEW q \in 0..MaxQuantity, VenueUpdates(l, q),
         NEW b, NEW e \in Events, Reached(e)
  PROVE  Rejects(b, e)' = Rejects(b, e) /\ Applied(b, e)' = Applied(b, e)
<1> DEFINE new == [levels |-> [history[Len(history)].levels EXCEPT ![l] = q], at |-> clock]
<1>1. /\ DOMAIN history' = DOMAIN history \cup {Len(history) + 1} /\ Len(history) \in Nat
      /\ DOMAIN history = 1..Len(history)
      /\ \A n \in DOMAIN history : history'[n] = history[n]
  <2>1. history' = Append(history, new) /\ HistoryType
    BY DEF VenueUpdates, FeedInv, TypeOK, HistoryType
  <2> HIDE DEF new
  <2> QED
    BY <2>1 DEF HistoryType
<1>2. CASE ~IsDepth(e)
  BY <1>2 DEF Rejects, Applied, IsDepth
<1>3. CASE IsDepth(e)
  <2>1. e.last \in DOMAIN history /\ e.first \in Nat /\ e.last \in Nat
    BY <1>1, <1>3 DEF Reached, Events
  <2>2. history'[e.last] = history[e.last]
    BY <1>1, <2>1
  <2>3. \A n : n \in (e.first - 1)..e.last => (n \in DOMAIN history' <=> n \in DOMAIN history)
    BY <1>1, <2>1
  <2>4. Touched(e)' = Touched(e)
    BY <1>1, <2>2, <2>3 DEF Touched, Levels
  <2>5. Updated(b, e)' = Updated(b, e)
    BY <2>2, <2>4 DEF Updated, Levels
  <2>6. (Rejects(b, e)' <=> Rejects(b, e)) /\ Rejects(b, e) \in BOOLEAN
    BY <2>5 DEF Rejects, Replayed, Continues, CoversNext, TimeReversal, Uncrossed, IsDepth
  <2>7. Applied(b, e)' = Applied(b, e)
    BY <2>5, <2>6 DEF Applied, FromFrame, Replayed, IsDepth, NoBook, NoLevels, Levels
  <2> QED
    BY <2>6, <2>7 DEF Rejects
<1> QED
  BY <1>2, <1>3

LEMMA VenuePipeline ==
  ASSUME FeedInv, PipelineInv, NEW l \in Levels, NEW q \in 0..MaxQuantity, VenueUpdates(l, q)
  PROVE  PipelineInv'
<1>1. PICK s : Pipeline(s)
  BY DEF PipelineInv
<1>2. UNCHANGED <<queue, book, loop, conn, first, guard>> /\ NoBook' = NoBook
  BY DEF VenueUpdates, stream, consumer, NoBook, NoLevels, Levels
<1>3. \A e \in Events : Reached(e) =>
        \A b : Rejects(b, e)' = Rejects(b, e) /\ Applied(b, e)' = Applied(b, e)
  BY SameEffect
<1>4. \A i \in DOMAIN queue : queue[i] \in Events /\ Reached(queue[i])
  BY DEF FeedInv, TypeOK, QueueReached
<1>5. ASSUME NEW i \in DOMAIN queue
      PROVE  Rejects(s[i - 1], queue[i])' = Rejects(s[i - 1], queue[i])
             /\ Applied(s[i - 1], queue[i])' = Applied(s[i - 1], queue[i])
  <2>1. PICK e : e = queue[i]
    OBVIOUS
  <2>2. e \in Events /\ Reached(e) /\ queue[i]' = e
    BY <1>2, <1>4, <2>1
  <2>3. Rejects(s[i - 1], e)' = Rejects(s[i - 1], e) /\ Applied(s[i - 1], e)' = Applied(s[i - 1], e)
    BY <1>3, <2>2
  <2> QED
    BY <2>1, <2>2, <2>3 DEF Rejects, Applied
<1>6. Pipeline(s)'
  BY <1>1, <1>2, <1>5 DEF Pipeline
<1> QED
  BY <1>6 DEF PipelineInv

\* Pipeline after a step that leaves the venue's history alone.
PipelineNext(s) ==
  /\ s[0] = book' \/ s[0] = NoBook
  /\ loop' = "losing" => s[0] = NoBook
  /\ \A i \in DOMAIN queue' : ~Rejects(s[i - 1], queue'[i]) /\ s[i] = Applied(s[i - 1], queue'[i])
  /\ conn' = "open" /\ ~first' => s[Len(queue')] = guard'

LEMMA SameHistoryEffect ==
  ASSUME UNCHANGED history, NEW b, NEW e
  PROVE  Rejects(b, e)' = Rejects(b, e) /\ Applied(b, e)' = Applied(b, e)
<1>1. Updated(b, e)' = Updated(b, e)
  BY DEF Updated, Touched, Levels
<1>2. Rejects(b, e)' = Rejects(b, e)
  BY <1>1 DEF Rejects, Replayed, Continues, CoversNext, TimeReversal, Uncrossed, IsDepth
<1>3. Applied(b, e)' = Applied(b, e)
  BY <1>1, <1>2 DEF Applied, FromFrame, Replayed, IsDepth, NoBook, NoLevels, Levels
<1> QED
  BY <1>2, <1>3

LEMMA PipelineFromNext ==
  ASSUME UNCHANGED history, NEW s, PipelineNext(s)
  PROVE  PipelineInv'
<1>1. NoBook' = NoBook
  BY DEF NoBook, NoLevels, Levels
<1>2. ASSUME NEW i \in DOMAIN queue'
      PROVE  Rejects(s[i - 1], queue[i])' = Rejects(s[i - 1], queue'[i])
             /\ Applied(s[i - 1], queue[i])' = Applied(s[i - 1], queue'[i])
  <2>1. PICK e : e = queue'[i]
    OBVIOUS
  <2>2. Rejects(s[i - 1], e)' = Rejects(s[i - 1], e) /\ Applied(s[i - 1], e)' = Applied(s[i - 1], e)
    BY SameHistoryEffect
  <2> QED
    BY <2>1, <2>2 DEF Rejects, Applied
<1>3. Pipeline(s)'
  BY <1>1, <1>2 DEF Pipeline, PipelineNext
<1> QED
  BY <1>3 DEF PipelineInv

\* The steps that leave the queue alone.
LEMMA QuietPipeline ==
  ASSUME PipelineInv, Quiet \/ Connect \/ Acknowledge \/ UNCHANGED vars
  PROVE  PipelineInv'
<1>1. PICK s : Pipeline(s)
  BY DEF PipelineInv
<1>2. UNCHANGED <<history, queue>>
  BY DEF Quiet, Tick, Signal, Recover, Begin, Stop, Fail, Idle, ForgetBook, Enter, Exit,
         Decline, EndIteration, outside, Connect, Acknowledge, vars
<1>3. (book' = book \/ (loop = "losing" /\ book' = NoBook)) /\ (loop' = "losing" => loop = "losing")
  BY DEF Quiet, Tick, Signal, Recover, Begin, Stop, Fail, Idle, ForgetBook, Enter, Exit,
         Decline, EndIteration, Connect, Acknowledge, vars, consumer
<1>4. conn' = "open" /\ ~first' => conn = "open" /\ ~first /\ guard' = guard
  BY DEF Quiet, Tick, Signal, Recover, Begin, Stop, Fail, Idle, ForgetBook, Enter, Exit,
         Decline, EndIteration, outside, Connect, Acknowledge, vars, stream
<1>5. PipelineNext(s)
  BY <1>1, <1>2, <1>3, <1>4 DEF Pipeline, PipelineNext
<1> QED
  BY <1>2, <1>5, PipelineFromNext

\* An event that nothing behind the queue refuses goes to its end.
LEMMA DeliverPipeline ==
  ASSUME FeedInv, NEW s, Pipeline(s), NEW e \in Events, NEW next, Deliver(e, next),
         ~Rejects(s[Len(queue)], e),
         next = "open" /\ ~first' => guard' = Applied(s[Len(queue)], e),
         UNCHANGED <<history, book, loop>>
  PROVE  PipelineInv'
<1>1. queue \in Seq(Events) /\ Len(queue) \in Nat /\ DOMAIN queue = 1..Len(queue)
  BY DEF FeedInv, TypeOK
<1>2. CASE conn' = "ended" /\ UNCHANGED queue
  <2>1. PipelineNext(s)
    BY <1>2 DEF Pipeline, PipelineNext
  <2> QED
    BY <2>1, PipelineFromNext
<1>3. CASE queue' = Append(queue, e) /\ conn' = next
  <2> DEFINE n == Len(queue)
             t == [i \in 0..(n + 1) |-> IF i <= n THEN s[i] ELSE Applied(s[n], e)]
  <2>1. /\ DOMAIN queue' = 1..(n + 1) /\ Len(queue') = n + 1
        /\ queue'[n + 1] = e /\ \A i \in 1..n : queue'[i] = queue[i]
    BY <1>1, <1>3
  <2>2. t[0] = s[0] /\ t[n + 1] = Applied(t[n], e) /\ \A i \in 0..n : t[i] = s[i]
    BY <1>1
  <2> HIDE DEF t
  <2>3. ASSUME NEW i \in DOMAIN queue'
        PROVE  ~Rejects(t[i - 1], queue'[i]) /\ t[i] = Applied(t[i - 1], queue'[i])
    <3>1. CASE i \in 1..n
      <4>1. i - 1 \in 0..n /\ i \in 0..n /\ i \in DOMAIN queue
        BY <1>1, <3>1
      <4>2. t[i - 1] = s[i - 1] /\ t[i] = s[i] /\ queue'[i] = queue[i]
        BY <2>1, <2>2, <3>1, <4>1
      <4> QED
        BY <4>1, <4>2 DEF Pipeline
    <3>2. CASE i = n + 1
      <4>1. i - 1 = n /\ t[n] = s[n]
        BY <1>1, <2>2, <3>2
      <4> QED
        BY <2>1, <2>2, <3>2, <4>1
    <3> QED
      BY <1>1, <2>1, <3>1, <3>2
  <2>4. t[Len(queue')] = Applied(s[n], e)
    BY <1>1, <2>1, <2>2
  <2>5. PipelineNext(t)
    BY <1>3, <2>2, <2>3, <2>4 DEF Pipeline, PipelineNext
  <2> QED
    BY <2>5, PipelineFromNext
<1> QED
  BY <1>2, <1>3 DEF Deliver

LEMMA LosePipeline ==
  ASSUME FeedInv, PipelineInv, Lose
  PROVE  PipelineInv'
<1>1. PICK s : Pipeline(s)
  BY DEF PipelineInv
<1>2. Loss \in Events /\ ~Rejects(s[Len(queue)], Loss)
  BY ControlEvents, AnyBook DEF FeedInv, TypeOK, Loss, IsDepth
<1>3. Deliver(Loss, "closed") /\ UNCHANGED <<history, book, loop>>
  BY DEF Lose, consumer
<1> QED
  BY <1>1, <1>2, <1>3, DeliverPipeline

LEMMA TradePipeline ==
  ASSUME FeedInv, PipelineInv, ReceiveTrade
  PROVE  PipelineInv'
<1>1. PICK s : Pipeline(s)
  BY DEF PipelineInv
<1>2. /\ Trade \in Events /\ ~Rejects(s[Len(queue)], Trade)
      /\ Applied(s[Len(queue)], Trade) = s[Len(queue)]
  <2>1. Trade \in Events /\ Trade.kind = "trade"
    BY ControlEvents DEF FeedInv, TypeOK, Trade, Loss
  <2> QED
    BY <2>1, AnyBook DEF IsDepth
<1>3. /\ Deliver(Trade, Remains) /\ UNCHANGED <<history, book, loop>>
      /\ ~first' => guard' = s[Len(queue)]
  BY <1>1 DEF ReceiveTrade, consumer, Pipeline
<1> QED
  BY <1>1, <1>2, <1>3, DeliverPipeline

LEMMA DepthPipeline ==
  ASSUME FeedInv, PipelineInv, NEW e \in DepthFrames, ReceiveDepth(e)
  PROVE  PipelineInv'
<1>1. PICK s : Pipeline(s)
  BY DEF PipelineInv
<1>2. CASE ~Acceptable(e) /\ Lose
  BY <1>2, LosePipeline
<1>3. CASE /\ Acceptable(e)
           /\ guard' = Applied(guard, e) /\ first' = FALSE
           /\ Deliver(e, Remains)
           /\ UNCHANGED <<history, clock, acknowledged, consumer>>
  <2>1. e \in Events /\ conn = "open" /\ ~Rejects(guard, e)
    BY <1>3, FramesAreReached DEF FeedInv, ReceiveDepth, Acceptable
  <2>2. ~Rejects(s[Len(queue)], e) /\ Applied(guard, e) = Applied(s[Len(queue)], e)
    <3>1. CASE first
      <4>1. e.kind = "snapshot"
        BY <3>1 DEF DepthFrames
      <4> QED
        BY <2>1, <4>1, AnyBook
    <3>2. CASE ~first
      BY <1>1, <2>1, <3>2 DEF Pipeline
    <3> QED
      BY <3>1, <3>2
  <2> QED
    BY <1>1, <1>3, <2>1, <2>2, DeliverPipeline DEF consumer
<1> QED
  BY <1>2, <1>3 DEF ReceiveDepth

\* The loop takes the head of the queue: the books move up by one.
LEMMA TakePipeline ==
  ASSUME FeedInv, PipelineInv, TakeLoss \/ TakeEvent
  PROVE  PipelineInv'
<1> DEFINE e == Head(queue)
<1>1. PICK s : Pipeline(s)
  BY DEF PipelineInv
<1> DEFINE t == [i \in 0..Len(queue) - 1 |-> s[i + 1]]
<1>2. queue \in Seq(Events) /\ queue # <<>> /\ queue' = Tail(queue) /\ UNCHANGED <<history, stream>>
  BY DEF FeedInv, TypeOK, TakeLoss, TakeEvent, Take, outside
<1>3. /\ Len(queue) \in Nat \ {0} /\ DOMAIN queue = 1..Len(queue) /\ e = queue[1]
      /\ Len(queue') = Len(queue) - 1 /\ DOMAIN queue' = 1..(Len(queue) - 1)
      /\ \A i \in DOMAIN queue' : queue'[i] = queue[i + 1]
  BY <1>2
<1>4. ~Rejects(s[0], e) /\ s[1] = Applied(s[0], e)
  BY <1>1, <1>3 DEF Pipeline
<1>5. \A i \in 0..(Len(queue) - 1) : t[i] = s[i + 1]
  OBVIOUS
<1> HIDE DEF t
<1>6. t[0] = s[1] /\ t[Len(queue')] = s[Len(queue)]
  BY <1>3, <1>5
<1>7. ASSUME NEW i \in DOMAIN queue'
      PROVE  ~Rejects(t[i - 1], queue'[i]) /\ t[i] = Applied(t[i - 1], queue'[i])
  <2>1. /\ i + 1 \in DOMAIN queue /\ i - 1 \in 0..(Len(queue) - 1) /\ i \in 0..(Len(queue) - 1)
        /\ (i + 1) - 1 = i /\ (i - 1) + 1 = i
    BY <1>3
  <2>2. t[i - 1] = s[i] /\ t[i] = s[i + 1] /\ queue'[i] = queue[i + 1]
    BY <1>3, <1>5, <2>1
  <2> QED
    BY <1>1, <2>1, <2>2 DEF Pipeline
<1>8. (t[0] = book' \/ t[0] = NoBook) /\ (loop' = "losing" => t[0] = NoBook)
  <2>1. CASE TakeLoss
    BY <1>4, <1>6, <2>1, AnyBook DEF TakeLoss
  <2>2. CASE TakeEvent
    <3>1. book' = Applied(book, e) /\ e.kind # "disconnect" /\ loop' # "losing"
      BY <2>2 DEF TakeEvent
    <3>2. CASE s[0] = book
      BY <1>4, <1>6, <3>1, <3>2
    <3>3. CASE s[0] = NoBook
      <4>1. e.kind \in {"snapshot", "trade", "delta", "disconnect"}
        <5>1. e \in Events
          BY <1>2, <1>3
        <5> HIDE DEF e
        <5> QED
          BY <5>1 DEF Events
      <4>2. e.kind # "delta"
        BY <1>4, <3>3, AnyBook
      <4>3. CASE e.kind = "snapshot"
        BY <1>4, <1>6, <3>1, <3>3, <4>3, AnyBook
      <4>4. CASE e.kind = "trade"
        BY <1>4, <1>6, <3>1, <3>3, <4>4, AnyBook
      <4> QED
        BY <3>1, <4>1, <4>2, <4>3, <4>4
    <3> QED
      BY <1>1, <3>2, <3>3 DEF Pipeline
  <2> QED
    BY <2>1, <2>2
<1>9. PipelineNext(t)
  BY <1>1, <1>2, <1>6, <1>7, <1>8 DEF Pipeline, PipelineNext, stream
<1> QED
  BY <1>2, <1>9, PipelineFromNext

LEMMA NextPipeline == FeedInv /\ PipelineInv /\ [Next]_vars => PipelineInv'
<1> SUFFICES ASSUME FeedInv, PipelineInv, [Next]_vars PROVE PipelineInv'
  OBVIOUS
<1>1. CASE \E l \in Levels, q \in 0..MaxQuantity : VenueUpdates(l, q)
  BY <1>1, VenuePipeline
<1>2. CASE \E e \in DepthFrames : ReceiveDepth(e)
  BY <1>2, DepthPipeline
<1>3. CASE ConnectionLost
  BY <1>3, LosePipeline DEF ConnectionLost
<1>4. CASE ReceiveTrade
  BY <1>4, TradePipeline
<1>5. CASE TakeLoss \/ TakeEvent
  BY <1>5, TakePipeline
<1>6. CASE Quiet \/ Connect \/ Acknowledge \/ UNCHANGED vars
  BY <1>6, QuietPipeline
<1> QED
  BY <1>1, <1>2, <1>3, <1>4, <1>5, <1>6 DEF Next, Loop, Receive, Quiet

\* The engine's book refuses nothing that the guard book of the stream has
\* passed: the BookError branch of Engine.event is never taken.
THEOREM ConsumerAgreesWithGuard == Spec => []ConsumerNeverRejects
<1>1. Init => PipelineInv
  <2> SUFFICES ASSUME Init PROVE PipelineInv
    OBVIOUS
  <2> DEFINE s == [i \in {0} |-> NoBook]
  <2>1. s[0] = NoBook
    OBVIOUS
  <2> HIDE DEF s
  <2>2. Pipeline(s)
    BY <2>1 DEF Init, Pipeline
  <2> QED
    BY <2>2 DEF PipelineInv
<1>2. FeedInv /\ PipelineInv => ConsumerNeverRejects
  <2> SUFFICES ASSUME FeedInv, PipelineInv, queue # <<>> PROVE ~Rejects(book, Head(queue))
    BY DEF ConsumerNeverRejects
  <2>1. PICK s : Pipeline(s)
    BY DEF PipelineInv
  <2>2. queue \in Seq(Events) /\ 1 \in DOMAIN queue /\ Head(queue) = queue[1] /\ queue[1] \in Events
    BY DEF FeedInv, TypeOK
  <2>3. ~Rejects(s[0], Head(queue)) /\ (s[0] = book \/ s[0] = NoBook)
    BY <2>1, <2>2 DEF Pipeline
  <2>4. CASE s[0] = NoBook
    <3>1. Head(queue).kind # "delta"
      BY <2>3, <2>4, AnyBook
    <3>2. ~IsDepth(Head(queue)) \/ Head(queue).kind = "snapshot"
      BY <3>1 DEF IsDepth
    <3> QED
      BY <2>3, <3>2, AnyBook
  <2> QED
    BY <2>3, <2>4
<1> QED
  BY <1>1, <1>2, InitInv, NextInv, NextPipeline, PTL DEF Spec

=============================================================================
