----------------------------- MODULE MarketFeed -----------------------------
(***************************************************************************)
(* From the venue's order book to the price of an order: market_stream of  *)
(* trader/market_data.py with the guard book of a connection, the bounded  *)
(* queue of trader/runtime.py, OrderBook of trader/orderbook.py, and the   *)
(* loop and Engine.event where they read the book.                         *)
(*                                                                         *)
(* The venue's book is a history of numbered states.  A depth frame is the *)
(* range of numbers it covers, with the time it was stamped: what levels   *)
(* it carries follows from the history.  A connection may repeat, overlap, *)
(* skip or reorder ranges, spoil a frame or fall silent; only its first    *)
(* depth frame is a full snapshot.                                         *)
(*                                                                         *)
(* A step of the loop is the code between two awaits; the stream may       *)
(* deliver at every await.  Whether anything is held or due is a choice.   *)
(* Times are in ticks of one clock: the host is synchronized.  This is     *)
(* live and sandbox mode; the paper broker prices on the event's own time. *)
(***************************************************************************)
EXTENDS Integers, Sequences

CONSTANTS
  Prices,      \* prices a level may have
  MaxQuantity, \* largest quantity of a level
  StaleAfter,  \* risk.stale_data_ms
  Drift,       \* risk.maximum_clock_drift_ms
  QueueSize,   \* asyncio.Queue(maxsize=256)
  Openings,    \* bound: the books a history begins with
  MaxNumber,   \* bound: numbers of the venue's history
  MaxClock     \* bound: ticks

ASSUME BookAssumption == Prices \subseteq Int /\ MaxQuantity \in Nat
ASSUME LimitsAssumption == StaleAfter \in Nat /\ Drift \in Nat /\ QueueSize \in Nat \ {0}
ASSUME BoundsAssumption == MaxNumber \in Nat /\ MaxClock \in Nat

VARIABLES
  history,       \* the venue: sequence of [levels, at]
  clock,
  \* market_stream, run by the receive task
  conn,          \* "closed", "open", or "ended" with the task
  acknowledged,
  first,         \* the next depth frame is the snapshot
  guard,         \* the book that checks this connection
  queue,         \* events between the task and the loop
  \* The process
  killed, shutdown,
  loop,          \* where the loop is
  iterationTime, \* now, read when the iteration began
  book,          \* engine.book
  priced         \* what this iteration has sent: "none", "entry" or "exit"

stream == <<conn, acknowledged, first, guard>>
control == <<killed, shutdown>>
consumer == <<loop, iterationTime, book, priced>>
vars == <<history, clock, stream, queue, control, consumer>>

Levels == {"bids", "asks"} \X Prices
BookLevels == [Levels -> 0..MaxQuantity]
NoLevels == [l \in Levels |-> 0]

Uncrossed(levels) ==
  /\ \E p \in Prices : levels[<<"bids", p>>] > 0
  /\ \E p \in Prices : levels[<<"asks", p>>] > 0
  /\ \A p, q \in Prices : levels[<<"bids", p>>] > 0 /\ levels[<<"asks", q>>] > 0 => p < q

\* OrderBook after reset().
NoBook == [valid |-> FALSE, levels |-> NoLevels, sequence |-> -1, recv |-> 0, ts |-> 0]

Events == [kind : {"snapshot", "delta", "trade", "disconnect"}, first : Nat, last : Nat,
           ts : Nat, recv : Nat, intact : BOOLEAN]
IsDepth(e) == e.kind \in {"snapshot", "delta"}
Loss == [kind |-> "disconnect", first |-> 0, last |-> 0, ts |-> clock, recv |-> clock, intact |-> TRUE]
Trade == [Loss EXCEPT !.kind = "trade"]

Init ==
  /\ history \in {<<[levels |-> levels, at |-> 0]>> : levels \in {b \in BookLevels \cap Openings : Uncrossed(b)}}
  /\ clock = 0
  /\ conn = "closed" /\ acknowledged = FALSE /\ first = TRUE /\ guard = NoBook
  /\ queue = <<>>
  /\ killed = FALSE /\ shutdown = FALSE
  /\ loop = "top" /\ iterationTime = 0 /\ book = NoBook
  /\ priced = "none"

-----------------------------------------------------------------------------
(* The venue and the clock *)

\* One level of the venue's book changes; its book may be empty or crossed.
VenueUpdates(l, q) ==
  LET levels == history[Len(history)].levels IN
  /\ Len(history) < MaxNumber
  /\ levels[l] # q
  /\ history' = Append(history, [levels |-> [levels EXCEPT ![l] = q], at |-> clock])
  /\ UNCHANGED <<clock, stream, queue, control, consumer>>

Tick ==
  /\ clock < MaxClock
  /\ clock' = clock + 1
  /\ UNCHANGED <<history, stream, queue, control, consumer>>

\* The last time at which number n was the venue's current book.
CurrentUntil(n) == IF n < Len(history) THEN history[n + 1].at ELSE clock

\* A frame is not stamped after its last number was over; it may be stamped earlier.
DepthFrames ==
  {e \in [kind : {IF first THEN "snapshot" ELSE "delta"}, first : 1..MaxNumber, last : DOMAIN history,
          ts : 0..clock, recv : {clock}, intact : BOOLEAN] : e.ts <= CurrentUntil(e.last)}

\* The levels whose quantity is not the same in all of the range, and before it.
Touched(e) ==
  {l \in Levels : \E n \in DOMAIN history :
     n \in (e.first - 1)..e.last /\ history[n].levels[l] # history[e.last].levels[l]}

-----------------------------------------------------------------------------
(* OrderBook *)

\* A snapshot starts from nothing and carries every level.
Updated(b, e) ==
  IF e.kind = "snapshot" THEN history[e.last].levels
  ELSE [l \in Levels |-> IF l \in Touched(e) THEN history[e.last].levels[l] ELSE b.levels[l]]

\* A replayed frame changes nothing, its time of receipt included.
Replayed(b, e) == e.kind = "delta" /\ b.valid /\ e.first <= e.last /\ e.last <= b.sequence

CoversNextAcceptingGaps(b, e) == b.sequence + 1 <= e.last
CoversNext(b, e) == e.first <= b.sequence + 1 /\ b.sequence + 1 <= e.last

TimeReversal(b, e) == e.ts < b.ts \/ e.recv < b.recv

Continues(b, e) == b.valid /\ CoversNext(b, e) /\ ~TimeReversal(b, e)

\* apply raises BookError.
Rejects(b, e) ==
  /\ IsDepth(e) /\ ~Replayed(b, e)
  /\ \/ e.first > e.last
     \/ e.kind = "delta" /\ ~Continues(b, e)
     \/ ~e.intact
     \/ ~Uncrossed(Updated(b, e))

FromFrame(b, e) ==
  [valid |-> TRUE, levels |-> Updated(b, e), sequence |-> e.last, recv |-> e.recv, ts |-> e.ts]

Applied(b, e) ==
  IF e.kind = "disconnect" \/ Rejects(b, e) THEN NoBook
  ELSE IF ~IsDepth(e) \/ Replayed(b, e) THEN b
  ELSE FromFrame(b, e)

IsStale(b, now) == ~b.valid \/ now - b.recv > StaleAfter

-----------------------------------------------------------------------------
(* market_stream and the receive task *)

\* The task puts an event in the queue, or kills and ends when the queue is full.
DeliverDroppingWhenFull(e, next) ==
  /\ conn' = next
  /\ queue' = IF Len(queue) < QueueSize THEN Append(queue, e) ELSE queue
  /\ UNCHANGED control
DeliverUnbounded(e, next) ==
  /\ queue' = Append(queue, e) /\ conn' = next /\ UNCHANGED control
Deliver(e, next) ==
  \/ /\ Len(queue) < QueueSize
     /\ queue' = Append(queue, e) /\ conn' = next
     /\ UNCHANGED control
  \/ /\ Len(queue) >= QueueSize
     /\ killed' = TRUE /\ shutdown' = TRUE /\ conn' = "ended"
     /\ UNCHANGED queue

Connect ==
  /\ conn = "closed" /\ ~shutdown
  /\ conn' = "open" /\ acknowledged' = FALSE /\ first' = TRUE /\ guard' = NoBook
  /\ UNCHANGED <<history, clock, queue, control, consumer>>

\* shutdown is looked at before each frame is awaited: one more may still come.
Remains == IF shutdown THEN "closed" ELSE "open"

Acknowledge ==
  /\ conn = "open" /\ ~acknowledged
  /\ conn' = Remains /\ acknowledged' = TRUE
  /\ UNCHANGED <<history, clock, first, guard, queue, control, consumer>>

\* Every exception of a connection, a silence of three seconds among them.
Lose ==
  /\ Deliver(Loss, "closed")
  /\ UNCHANGED <<history, clock, acknowledged, first, guard, consumer>>

ConnectionLost == conn = "open" /\ Lose

NotDrifted(e) == e.recv - e.ts <= Drift

AcceptableWithoutDrift(e) == ~Rejects(guard, e) /\ acknowledged
Acceptable(e) == NotDrifted(e) /\ ~Rejects(guard, e) /\ acknowledged

ReceiveDepth(e) ==
  /\ conn = "open"
  /\ \/ /\ Acceptable(e)
        /\ guard' = Applied(guard, e) /\ first' = FALSE
        /\ Deliver(e, Remains)
        /\ UNCHANGED <<history, clock, acknowledged, consumer>>
     \/ ~Acceptable(e) /\ Lose

ReceiveTrade ==
  /\ conn = "open" /\ acknowledged
  /\ Deliver(Trade, Remains)
  /\ UNCHANGED <<history, clock, acknowledged, first, guard, consumer>>

Receive ==
  \/ Connect
  \/ Acknowledge
  \/ ConnectionLost
  \/ \E e \in DepthFrames : ReceiveDepth(e)
  \/ ReceiveTrade

-----------------------------------------------------------------------------
(* The loop *)

outside == <<history, clock, stream, shutdown>>

\* The iteration reads the time once and then waits for the exchange.
Begin ==
  /\ loop = "top" /\ ~shutdown
  /\ loop' = "calls" /\ iterationTime' = clock /\ priced' = "none"
  /\ UNCHANGED <<outside, queue, killed, book>>

Stop ==
  /\ loop = "top" /\ shutdown
  /\ loop' = "stopped"
  /\ UNCHANGED <<outside, queue, killed, iterationTime, book, priced>>

\* SIGTERM or SIGINT.
Signal ==
  /\ ~shutdown
  /\ shutdown' = TRUE
  /\ UNCHANGED <<history, clock, stream, queue, killed, consumer>>

\* A call of the iteration raises: the handler kills.
Fail ==
  /\ loop \in {"calls", "losing", "deciding", "after"}
  /\ loop' = "top" /\ killed' = TRUE
  /\ UNCHANGED <<outside, queue, iterationTime, book, priced>>

\* reset-kill, then resume: both refuse a stale book.
Recover ==
  /\ loop = "calls" /\ killed /\ ~IsStale(book, clock)
  /\ killed' = FALSE
  /\ UNCHANGED <<outside, queue, consumer>>

Idle ==
  /\ loop = "calls" /\ queue = <<>>
  /\ loop' = "after"
  /\ killed' = (killed \/ (book.valid /\ IsStale(book, clock)))
  /\ UNCHANGED <<outside, queue, iterationTime, book, priced>>

Take(e) ==
  /\ loop = "calls" /\ queue # <<>> /\ e = Head(queue)
  /\ queue' = Tail(queue)
  /\ UNCHANGED <<outside, iterationTime, priced>>

\* A loss kills and cancels; the book is reset when that has gone well.
TakeLossWithoutKill ==
  /\ queue # <<>> /\ Head(queue).kind = "disconnect"
  /\ Take(Head(queue))
  /\ loop' = "losing"
  /\ UNCHANGED <<book, killed>>
TakeLoss ==
  /\ queue # <<>> /\ Head(queue).kind = "disconnect"
  /\ Take(Head(queue))
  /\ loop' = "losing" /\ killed' = TRUE
  /\ UNCHANGED book

ForgetBook ==
  /\ loop = "losing"
  /\ loop' = "after" /\ book' = NoBook
  /\ UNCHANGED <<outside, queue, killed, iterationTime, priced>>

Backlog(e) == iterationTime - e.recv > StaleAfter

\* The book has refused the event, is not valid yet or has learned nothing.
NothingNew(e) == ~Applied(book, e).valid \/ Replayed(book, e)

\* A refused event kills and cancels, and so does a book that was stale when it came.
TakeEvent ==
  LET e == Head(queue) IN
  /\ queue # <<>> /\ e.kind # "disconnect"
  /\ Take(e)
  /\ book' = Applied(book, e)
  /\ \/ /\ NothingNew(e)
        /\ loop' = "after" /\ killed' = (killed \/ Backlog(e) \/ Rejects(book, e))
     \/ /\ ~NothingNew(e) /\ IsStale(Applied(book, e), e.recv)
        /\ loop' = "after" /\ killed' = TRUE
     \/ /\ ~NothingNew(e) /\ ~IsStale(Applied(book, e), e.recv)
        /\ loop' \in {"deciding", "after"}
        /\ killed' = (killed \/ Backlog(e))

\* The risk gate reads the clock and the book again after the awaits.
EnterOnEventTime ==
  /\ loop = "deciding" /\ ~killed /\ ~IsStale(book, iterationTime)
  /\ loop' = "after" /\ priced' = "entry"
  /\ UNCHANGED <<outside, queue, killed, iterationTime, book>>
Enter ==
  /\ loop = "deciding" /\ ~killed /\ ~IsStale(book, clock)
  /\ loop' = "after" /\ priced' = "entry"
  /\ UNCHANGED <<outside, queue, killed, iterationTime, book>>

\* Controller.flatten: a command, the engine's decision, or the kill latch.
Exit ==
  /\ loop \in {"calls", "deciding"} \/ (loop = "after" /\ killed)
  /\ ~IsStale(book, clock)
  /\ loop' = [calls |-> "calls", deciding |-> "after", after |-> "top"][loop]
  /\ priced' = "exit"
  /\ UNCHANGED <<outside, queue, killed, iterationTime, book>>

Decline ==
  /\ loop = "deciding"
  /\ loop' = "after"
  /\ UNCHANGED <<outside, queue, killed, iterationTime, book, priced>>

EndIteration ==
  /\ loop = "after"
  /\ loop' = "top"
  /\ UNCHANGED <<outside, queue, killed, iterationTime, book, priced>>

Loop ==
  \/ Begin \/ Stop \/ Fail \/ Idle
  \/ TakeLoss \/ ForgetBook \/ TakeEvent
  \/ Enter \/ Exit \/ Decline \/ EndIteration

Next ==
  \/ \E l \in Levels, q \in 0..MaxQuantity : VenueUpdates(l, q)
  \/ Tick
  \/ Receive
  \/ Signal
  \/ Recover
  \/ Loop

Spec == Init /\ [][Next]_vars

\* Every call of the loop has a timeout and the lock comes free again.
FairSpec == Spec /\ WF_vars(Loop)

-----------------------------------------------------------------------------
(* Properties *)

BookType(b) ==
  /\ b.valid \in BOOLEAN /\ b.levels \in BookLevels
  /\ b.sequence \in Int /\ b.recv \in Nat /\ b.ts \in Nat

\* Types, and the bounded queue.
TypeOK ==
  /\ history \in Seq([levels : BookLevels, at : Nat]) /\ history # <<>>
  /\ clock \in Nat
  /\ conn \in {"closed", "open", "ended"}
  /\ acknowledged \in BOOLEAN /\ first \in BOOLEAN
  /\ BookType(guard) /\ BookType(book)
  /\ queue \in Seq(Events) /\ Len(queue) <= QueueSize
  /\ killed \in BOOLEAN /\ shutdown \in BOOLEAN
  /\ loop \in {"top", "calls", "losing", "deciding", "after", "stopped"}
  /\ iterationTime \in Nat
  /\ priced \in {"none", "entry", "exit"}

\* A valid book shows, level by level, what the venue's book was at its number,
\* and has two sides that do not cross.
IsVenueBook(b) ==
  b.valid => /\ b.sequence \in DOMAIN history
             /\ b.levels = history[b.sequence].levels
             /\ Uncrossed(b.levels)

\* Gaps, repeats, overlaps and reordering never leave a wrong level behind in a
\* valid book: neither in the guard book of a connection nor in the one the
\* engine prices orders on (OrderBook.apply).
BooksAreTrue == IsVenueBook(guard) /\ IsVenueBook(book)

\* The engine's book takes every event the guard book has passed, although it
\* sees them later, over reconnections and failed cancellations: the BookError
\* branch of Engine.event is never taken, and the guardian's receive task, that
\* has no such branch, does not end by one.
ConsumerNeverRejects == queue # <<>> => ~Rejects(book, Head(queue))

\* Every order, entry or exit, is priced on a book that was the venue's own no
\* longer ago than stale_data_ms and maximum_clock_drift_ms together, however
\* long its frames waited in the queue and its calls took.
OrdersUseRecentBooks ==
  [][priced' # priced /\ priced' # "none" =>
       /\ book.valid /\ book.levels = history[book.sequence].levels
       /\ clock - CurrentUntil(book.sequence) <= StaleAfter + Drift]_vars

\* A loss of the stream is explicit: the process latches the kill or has stopped.
LossIsLatched == (\E i \in DOMAIN queue : queue[i].kind = "disconnect") ~> (killed \/ loop = "stopped")

=============================================================================
