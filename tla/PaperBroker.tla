---------------------------- MODULE PaperBroker ----------------------------
(***************************************************************************)
(* Simulated execution: PaperBroker of trader/paper.py under the runtime   *)
(* loop and the engine in paper mode.                                      *)
(*                                                                         *)
(* Neither the entry nor the exit of the controller is placed beside an    *)
(* active order, so one order record suffices: the active order, or the    *)
(* last one.  It carries what the broker keeps for its id in memory (the   *)
(* activation, the cancellation and the queue) and what is in the store.   *)
(*                                                                         *)
(* Times are relative, in ticks: the age of the order and what remains of  *)
(* its cancellation are counted in the receive times of events, as         *)
(* PaperBroker.now is.  Prices are abstracted to what the simulator asks   *)
(* of them: whether a maker would cross, what is displayed at its price,   *)
(* what an exit can take within its limit, and how much of a trade is      *)
(* eligible.  Volumes are those after queue_multiplier and                 *)
(* participation_fraction.  Cash limits a purchase to any part of it.      *)
(* The book refuses no event (ConsumerNeverRejects of MarketFeed).         *)
(***************************************************************************)
EXTENDS Integers, FiniteSetsExt

CONSTANTS
  MaxQuantity,   \* largest entry
  Minimum,       \* instrument.minimum_quantity
  Increment,     \* instrument.quantity_increment, in units of what a fill may be
  SubmitLatency, \* execution.simulated_latency_ms
  CancelLatency, \* execution.cancel_latency_ms
  ExitRetry,     \* execution.exit_retry_seconds
  MaxStep,       \* bound: ticks from one event to the next
  MaxLag,        \* bound: ticks from a trade to its receipt
  MaxVolume,     \* bound: eligible volume of a trade, displayed queue
  WallLead,      \* bound: ticks the wall clock is ahead of the last event
  Depths,        \* what an exit may find within its limit
  Troubles       \* among "disconnect", "stale" and "restart"

ASSUME QuantityAssumption ==
  MaxQuantity \in Nat /\ Minimum \in Nat \ {0} /\ Increment \in Nat \ {0} /\ Depths \subseteq Nat
ASSUME LatencyAssumption ==
  SubmitLatency \in Nat \ {0} /\ CancelLatency \in Nat \ {0} /\ ExitRetry \in Nat \ {0}
ASSUME BoundsAssumption ==
  MaxStep \in Nat /\ MaxLag \in Nat /\ MaxVolume \in Nat /\ WallLead \in Nat

VARIABLES
  order,            \* the active order, or the last one
  held,             \* portfolio().quantity
  book,             \* the book is valid
  sinceExit,        \* ticks since last_exit_ns
  killed, paused, flattenRequested,
  command,          \* the pending command
  event,            \* the event between PaperBroker.advance and the rest of Engine.event
  pc                \* "commands", "receive", "engine", "killCheck"

latches == <<killed, paused, flattenRequested>>
vars == <<order, held, book, sinceExit, latches, command, event, pc>>

Oldest == SubmitLatency + MaxLag

\* Instrument.quantity, for what the controller orders. Fills are not rounded.
Rounded(quantity) == Increment * (quantity \div Increment)
EntrySizes == {quantity \in Minimum..MaxQuantity : Rounded(quantity) = quantity}

Active(o) == o.status \in {"intent", "open"}
Remaining(o) == o.quantity - o.filled

\* credit is a history: eligible volume since activation less the queue displayed then.
New(side, quantity, lead) ==
  [side |-> side, quantity |-> quantity, filled |-> 0, status |-> "intent", age |-> -lead,
   pending |-> TRUE, cancelIn |-> 0, queue |-> 0, credit |-> 0]

Cancelled(o) ==
  [o EXCEPT !.status = IF Active(o) THEN "cancelled" ELSE @, !.pending = FALSE, !.cancelIn = 0]

Init ==
  /\ order = Cancelled(New("buy", 0, 0))
  /\ held = 0 /\ book = FALSE /\ sinceExit = ExitRetry
  /\ killed = FALSE /\ paused = FALSE /\ flattenRequested = FALSE
  /\ command = "none" /\ event = "none" /\ pc = "commands"

-----------------------------------------------------------------------------
(* PaperBroker *)

\* cancel, for the active orders of cancel_all: a second request does not move the first.
CancellingAnew(o) == IF Active(o) THEN [o EXCEPT !.cancelIn = CancelLatency] ELSE o
Cancelling(o) ==
  IF Active(o) /\ o.cancelIn = 0 THEN [o EXCEPT !.cancelIn = CancelLatency] ELSE o

Elapsed(o, dt) ==
  [o EXCEPT !.age = Min({@ + dt, Oldest}), !.cancelIn = IF @ > dt THEN @ - dt ELSE 0]

\* Cancellations that are due come before activations, and prevent them.
CancellationsDueOnly(o, dt) ==
  IF o.cancelIn \in 1..dt
  THEN [Elapsed(o, dt) EXCEPT !.status = IF Active(o) THEN "cancelled" ELSE @]
  ELSE Elapsed(o, dt)
CancellationsDue(o, dt) == IF o.cancelIn \in 1..dt THEN Cancelled(Elapsed(o, dt)) ELSE Elapsed(o, dt)

\* An exit takes what it can of the displayed depth and is over.
Crossed(o, depth) ==
  LET taken == Min({Remaining(o), depth, held}) IN
  [o EXCEPT !.filled = @ + taken, !.status = IF taken = Remaining(o) THEN "closed" ELSE "cancelled"]

\* A maker that would cross is cancelled; another one joins behind the displayed queue.
Queued(o, crosses, displayed) ==
  IF crosses THEN [o EXCEPT !.status = "cancelled"]
  ELSE [o EXCEPT !.status = "open", !.queue = displayed, !.credit = -displayed]

Activated(o, crosses, displayed, depth) ==
  IF ~(o.pending /\ o.age >= SubmitLatency /\ book) THEN o
  ELSE LET taken == [o EXCEPT !.pending = FALSE] IN
       IF o.side = "sell" THEN Crossed(taken, depth) ELSE Queued(taken, crosses, displayed)

\* A trade counts when it is not older than the activation; it uses up the queue first.
Counts(o, lag) == o.status = "open" /\ o.age - lag >= SubmitLatency
Bought(o, volume, affordable) ==
  Min({volume - Min({o.queue, volume}), Remaining(o), affordable})
Credited(o, volume, lag) ==
  IF Counts(o, lag) THEN Min({o.credit + volume, o.quantity}) ELSE o.credit

TradedOverfilling(o, volume, lag, affordable) ==
  IF ~Counts(o, lag) THEN o
  ELSE [o EXCEPT !.queue = @ - Min({@, volume}),
                 !.filled = @ + Min({volume - Min({o.queue, volume}), affordable}),
                 !.credit = Credited(o, volume, lag)]
TradedWheneverOpen(o, volume, lag, affordable) ==
  IF o.status # "open" THEN o
  ELSE [o EXCEPT !.queue = @ - Min({@, volume}),
                 !.filled = @ + Bought(o, volume, affordable),
                 !.credit = Credited(o, volume, lag)]
Traded(o, volume, lag, affordable) ==
  IF ~Counts(o, lag) THEN o
  ELSE [o EXCEPT !.queue = @ - Min({@, volume}),
                 !.filled = @ + Bought(o, volume, affordable),
                 !.status = IF Bought(o, volume, affordable) = Remaining(o) THEN "closed" ELSE @,
                 !.credit = Credited(o, volume, lag)]

\* What the broker makes of the order is booked.
Book ==
  LET traded == order'.filled - order.filled IN
  held' = IF order'.side = "buy" THEN held + traded ELSE held - traded

-----------------------------------------------------------------------------
(* Controller *)

Fresh == IF ~book THEN {FALSE} ELSE IF "stale" \in Troubles THEN BOOLEAN ELSE {TRUE}

\* What is held makes an order.
Sellable == held \in {quantity \in 0..MaxQuantity : Rounded(quantity) >= Minimum}

\* flatten, after the caller has made o of the order, lead ticks after the last event.
MayExit(o, fresh, lead) == sinceExit + lead >= ExitRetry /\ fresh /\ ~Active(o) /\ held > 0
DustLeft(o, fresh, lead) == MayExit(o, fresh, lead) /\ ~Sellable
Places(o, fresh, lead) == MayExit(o, fresh, lead) /\ Sellable

Flatten(o, fresh, lead) ==
  \/ /\ sinceExit + lead < ExitRetry
     /\ order' = o /\ UNCHANGED sinceExit
  \/ /\ sinceExit + lead >= ExitRetry /\ ~Places(o, fresh, lead)
     /\ order' = Cancelling(o) /\ UNCHANGED sinceExit
  \/ /\ Places(o, fresh, lead)
     /\ order' = New("sell", Rounded(held), lead) /\ sinceExit' = -lead

\* manage_makers: an entry that is partly filled, or no longer wanted.
MakersManaged(o, withdraw) ==
  IF o.side = "buy" /\ (withdraw \/ o.filled > 0) THEN Cancelling(o) ELSE o

-----------------------------------------------------------------------------
(* Operators and their commands *)

Actions == {"pause", "resume", "cancel-all", "flatten", "kill", "reset-kill"}

\* Store.command, from another process.
Command(action) ==
  /\ command = "none"
  /\ command' = action
  /\ paused' = (paused \/ action \in {"pause", "cancel-all", "flatten", "kill"})
  /\ flattenRequested' = (flattenRequested \/ action \in {"flatten", "kill"})
  /\ killed' = (killed \/ action = "kill")
  /\ UNCHANGED <<order, held, book, sinceExit, event, pc>>

CommandCancels ==
  /\ command \in {"pause", "cancel-all", "kill"}
  /\ paused' = TRUE
  /\ killed' = (killed \/ command = "kill")
  /\ flattenRequested' = (flattenRequested \/ command = "kill")
  /\ order' = Cancelling(order)
  /\ UNCHANGED sinceExit

CommandFlattens ==
  /\ command = "flatten"
  /\ paused' = TRUE /\ flattenRequested' = TRUE
  /\ \E fresh \in Fresh, lead \in 0..WallLead :
       /\ Flatten(order, fresh, lead)
       /\ killed' = (killed \/ DustLeft(order, fresh, lead))

CommandRecovers ==
  /\ \/ /\ command \in {"resume", "reset-kill"} /\ UNCHANGED latches
     \/ /\ command = "resume" /\ ~killed /\ ~flattenRequested /\ TRUE \in Fresh
        /\ paused' = FALSE /\ UNCHANGED <<killed, flattenRequested>>
     \/ /\ command = "reset-kill" /\ held = 0 /\ ~Active(order) /\ TRUE \in Fresh
        /\ killed' = FALSE /\ paused' = TRUE /\ flattenRequested' = FALSE
  /\ UNCHANGED <<order, sinceExit>>

ProcessCommands ==
  /\ pc = "commands"
  /\ pc' = "receive" /\ command' = "none"
  /\ \/ CommandCancels \/ CommandFlattens \/ CommandRecovers
     \/ command = "none" /\ UNCHANGED <<order, sinceExit, latches>>
  /\ UNCHANGED <<held, book, event>>

-----------------------------------------------------------------------------
(* The loop *)

\* No event is waiting; a stale book kills.
Idle ==
  /\ pc = "receive"
  /\ pc' = "killCheck"
  /\ \/ UNCHANGED <<order, killed, paused>>
     \/ /\ book /\ FALSE \in Fresh
        /\ killed' = TRUE /\ paused' = TRUE /\ order' = Cancelling(order)
  /\ UNCHANGED <<held, book, sinceExit, flattenRequested, command, event>>

\* PROCESSING_BACKLOG, for an event that has waited too long in the queue.
Backlog ==
  \/ UNCHANGED latches
  \/ "stale" \in Troubles /\ killed' = TRUE /\ paused' = TRUE /\ UNCHANGED flattenRequested

\* PaperBroker.advance, dt ticks after the last event, against the book before this one.
Advance(kind, outcomes, dt) ==
  /\ pc = "receive"
  /\ pc' = "engine" /\ event' = kind
  /\ sinceExit' = Min({sinceExit + dt, ExitRetry})
  /\ order' \in outcomes
  /\ Book
  /\ Backlog
  /\ UNCHANGED <<book, command>>

Due(dt, crosses, displayed, depth) == Activated(CancellationsDue(order, dt), crosses, displayed, depth)

\* What cancellations and activations that are due make of the order, and a trade then.
Settled(dt) ==
  {Due(dt, crosses, displayed, depth) :
     crosses \in BOOLEAN, displayed \in 0..MaxVolume, depth \in Depths}
SettledAndTraded(dt) ==
  {Traded(o, volume, lag, affordable) :
     o \in Settled(dt), volume \in 0..MaxVolume, lag \in 0..MaxLag, affordable \in 0..MaxVolume}

\* A depth frame, a replayed frame or a trade that has been seen.
ReceiveQuiet(kind, dt) == Advance(kind, Settled(dt), dt)

ReceiveTrade(dt) == Advance("trade", SettledAndTraded(dt), dt)

\* A loss cancels at once and forgets what was due.
ReceiveLoss(dt) ==
  /\ "disconnect" \in Troubles
  /\ Advance("disconnect", {Cancelled(order)}, dt)

Receive(dt) ==
  \/ \E kind \in {"depth", "replayed", "trade"} : ReceiveQuiet(kind, dt)
  \/ ReceiveTrade(dt)
  \/ ReceiveLoss(dt)

\* The rest of Engine.event.
InEngine == pc = "engine" /\ pc' = "killCheck" /\ event' = "none" /\ UNCHANGED <<held, command>>

HandleLoss ==
  /\ InEngine /\ event = "disconnect"
  /\ killed' = TRUE /\ paused' = TRUE /\ book' = FALSE
  /\ order' = Cancelling(order)
  /\ UNCHANGED <<sinceExit, flattenRequested>>

\* The book is not valid, the frame was a replay, the book is stale or no decision is due.
HandleQuietly ==
  /\ InEngine /\ event # "disconnect"
  /\ book' = (book \/ event = "depth")
  /\ \/ UNCHANGED <<order, killed, paused>>
     \/ /\ book /\ event = "trade" /\ FALSE \in Fresh
        /\ killed' = TRUE /\ paused' = TRUE /\ order' = Cancelling(order)
  /\ UNCHANGED <<sinceExit, flattenRequested>>

\* Inventory is sold for a reason, which a kill or a flatten request always is.
DecideHeld(o) ==
  /\ held > 0
  /\ \/ /\ ~killed /\ ~flattenRequested
        /\ order' = o /\ UNCHANGED <<sinceExit, killed, paused>>
     \/ /\ Flatten(o, TRUE, 0)
        /\ killed' = (killed \/ DustLeft(o, TRUE, 0))
        /\ paused' = (paused \/ DustLeft(o, TRUE, 0))

DecideFlatAveraging(o) ==
  /\ order' = o \/ \E quantity \in EntrySizes : order' = New("buy", quantity, 0)
  /\ ~killed /\ ~paused /\ ~Active(o)
  /\ UNCHANGED <<sinceExit, killed, paused>>
DecideFlat(o) ==
  /\ held = 0
  /\ \/ /\ killed \/ paused
        /\ order' = Cancelling(o)
     \/ /\ ~killed /\ ~paused
        /\ \/ order' = o
           \/ /\ ~Active(o)
              /\ \E quantity \in EntrySizes : order' = New("buy", quantity, 0)
  /\ UNCHANGED <<sinceExit, killed, paused>>

RequestDoneWhenIdle(o) == ~Active(o)
RequestDone(o) == held = 0 /\ ~Active(o)

Decide ==
  /\ InEngine /\ event \in {"depth", "trade"}
  /\ book \/ event = "depth"
  /\ book' = TRUE
  /\ \E withdraw \in BOOLEAN :
       LET o == MakersManaged(order, withdraw) IN DecideHeld(o) \/ DecideFlat(o)
  /\ flattenRequested' = (flattenRequested /\ ~RequestDone(order'))

\* The end of the loop body.
KillCheck ==
  /\ pc = "killCheck"
  /\ pc' = "commands"
  /\ \/ ~killed /\ UNCHANGED <<order, sinceExit, killed, paused>>
     \/ /\ killed
        /\ \E fresh \in Fresh, lead \in 0..WallLead :
             LET o == Cancelling(order) IN
             /\ IF held > 0 THEN Flatten(o, fresh, lead) ELSE order' = o /\ UNCHANGED sinceExit
             /\ paused' = (paused \/ DustLeft(o, fresh, lead))
        /\ UNCHANGED killed
  /\ UNCHANGED <<held, book, flattenRequested, command, event>>

\* The process ends, cleanly or not, and starts again with what the store has.
\* Orders that were active have lost their place in the queue: they are cancelled.
RestartKeepingOrders ==
  /\ "restart" \in Troubles
  /\ order' = [order EXCEPT !.pending = FALSE, !.cancelIn = 0, !.queue = 0]
  /\ book' = FALSE /\ sinceExit' = ExitRetry /\ event' = "none" /\ pc' = "commands"
  /\ UNCHANGED <<held, latches, command>>
Restart ==
  /\ "restart" \in Troubles
  /\ order' = [Cancelled(order) EXCEPT !.queue = 0]
  /\ \E clean \in BOOLEAN :
       LET stopped == Active(order) \/ (clean /\ held > 0) IN
       killed' = (killed \/ stopped) /\ paused' = (paused \/ stopped)
  /\ book' = FALSE /\ sinceExit' = ExitRetry /\ event' = "none" /\ pc' = "commands"
  /\ UNCHANGED <<held, flattenRequested, command>>

Engine == HandleLoss \/ HandleQuietly \/ Decide
Loop ==
  \/ ProcessCommands
  \/ Idle
  \/ \E dt \in 0..MaxStep : Receive(dt)
  \/ Engine
  \/ KillCheck

Next ==
  \/ Loop
  \/ \E action \in Actions : Command(action)
  \/ Restart

Spec == Init /\ [][Next]_vars

\* The loop goes on, depth frames come with later times of receipt, and decisions fall due.
FairSpec ==
  /\ Spec
  /\ WF_vars(Loop)
  /\ SF_vars(\E dt \in 1..MaxStep : ReceiveQuiet("depth", dt))
  /\ SF_vars(Decide)

-----------------------------------------------------------------------------
(* Properties *)

TypeOK ==
  /\ order.side \in {"buy", "sell"} /\ order.status \in {"intent", "open", "closed", "cancelled"}
  /\ order.quantity \in Nat /\ order.filled \in 0..order.quantity
  /\ order.age \in -WallLead..Oldest /\ order.pending \in BOOLEAN
  /\ order.cancelIn \in 0..CancelLatency /\ order.queue \in 0..MaxVolume /\ order.credit \in Int
  /\ held \in 0..MaxQuantity /\ sinceExit \in -WallLead..ExitRetry
  /\ book \in BOOLEAN /\ killed \in BOOLEAN /\ paused \in BOOLEAN /\ flattenRequested \in BOOLEAN
  /\ command \in Actions \cup {"none"}
  /\ event \in {"none", "depth", "replayed", "trade", "disconnect"}
  /\ pc \in {"commands", "receive", "engine", "killCheck"}

\* docs/RESEARCH.md:35.  A simulated entry is never filled before its latency
\* has passed, nor with more than what was traded since it was activated beyond
\* the queue displayed then, over cancellations, losses and restarts.
FillsAreEarned ==
  order.side = "buy" /\ order.filled > 0 =>
    order.age >= SubmitLatency /\ order.filled <= order.credit

\* An order is only working while nothing else could use its inventory: an
\* entry stands on what it has bought itself, an exit never exceeds the position.
OneExposure ==
  Active(order) => IF order.side = "buy" THEN held = order.filled ELSE Remaining(order) <= held

\* A filled or cancelled order is never active again and books nothing more,
\* whatever was still due for it (PaperBroker.advance).
FinalIsFinal ==
  [][~Active(order) => held' = held /\ (Active(order') => order' = New(order'.side, order'.quantity, -order'.age))]_vars

\* A cancellation is carried out although cancel_all repeats it in every iteration.
CancellationsEnd == Active(order) /\ order.cancelIn > 0 ~> ~Active(order)

\* A flatten request sells what an order can sell, over partial fills, entries in between
\* and losses of the stream, unless a kill takes over, operators go on asking for something
\* else or the process is restarted for ever.  What is left below the increment or the
\* minimum is nobody's: the code kills for it, and neither sells nor resets it.
FlattenSells ==
  <>[](command = "none") /\ <>[][~Restart]_vars =>
    (flattenRequested /\ Sellable ~> ~Sellable \/ killed)

\* docs/ARCHITECTURE.md:38: "Kill = durable no-new-entry latch + cancellation of
\* risk-increasing orders + attempted reduction of held inventory with a fresh
\* book".  In a market without troubles the reduction succeeds.
KillReduces == <>[](command = "none") => (killed /\ Sellable ~> ~Sellable)

=============================================================================
