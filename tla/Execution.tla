------------------------------ MODULE Execution ------------------------------
(***************************************************************************)
(* Live order execution: LiveBroker and Controller of trader/execution.py  *)
(* in the runtime and in the guardian, the gate of trader/risk.py, the     *)
(* order journal and fill ledger of trader/storage/db.py, and the venue.   *)
(*                                                                         *)
(* A step is the code between two awaits: one network call with what is    *)
(* done on its answer.  Any call may fail before or after the venue has    *)
(* acted; a creation may arrive later; the venue fills whenever it likes.  *)
(* The call stack of a process is its plan: the tasks still to be done,    *)
(* innermost first.  Prices, times and cash are abstracted, and so is the  *)
(* pause latch: an entry is always a choice (ControlPlane has the latches  *)
(* and the order of the loop in full).                                     *)
(***************************************************************************)
EXTENDS Integers, Sequences, FiniteSetsExt, Functions

CONSTANTS
  Size,            \* units of an entry order
  Minimum,         \* instrument.minimum_quantity, in units
  OperatorActions, \* the commands that operators may issue
  MaxOrders,       \* bound: rows of the orders table
  MaxFailures,     \* bound: network calls that fail
  MaxCrashes       \* bound: deaths of a process

ASSUME SizeAssumption == Size \in Nat \ {0} /\ Minimum \in Nat \ {0}
ASSUME BoundsAssumption == MaxOrders \in Nat /\ MaxFailures \in Nat /\ MaxCrashes \in Nat

VARIABLES
  \* The store
  journal,          \* sequence of [kind, quantity, status, known, filled]
  ledger,           \* Portfolio.from_fills(store.fills()).quantity
  killed, flattenRequested,
  recovery,         \* protection_recovery.status, "none" before the first
  mark,             \* runtime_was_running
  \* The venue
  venue,            \* per journal row [state, executed]
  inventory,        \* its BTC balance, net of the baseline
  \* The processes
  proc,             \* per process, its volatile state
  lock,             \* who holds .execution.lockfile
  up,               \* the runtime: "down", "booting" or "up"
  reply,            \* an answer the booting runtime has received and not applied
  \* What has gone wrong
  failures, crashes,
  unanswered        \* the stops whose cancellation got no answer: it may still arrive

store == <<journal, ledger, killed, flattenRequested, recovery, mark>>
exchange == <<venue, inventory>>
faults == <<failures, crashes, unanswered>>
vars == <<store, exchange, proc, lock, up, reply, faults>>

Processes == {"runtime", "guardian"}

\* broker.last_account is None until the first reconciliation.
NoAccount == -1

Fresh == [plan |-> <<>>, stage |-> "begin", todo |-> {}, blind |-> {}, failed |-> FALSE,
          current |-> 0, available |-> NoAccount, retry |-> FALSE]

Init ==
  /\ journal = <<>> /\ ledger = 0
  /\ killed = FALSE /\ flattenRequested = FALSE /\ recovery = "none" /\ mark = FALSE
  /\ venue = <<>> /\ inventory = 0
  /\ proc = [p \in Processes |-> Fresh]
  /\ lock = "free" /\ up = "down" /\ reply = {}
  /\ failures = 0 /\ crashes = 0 /\ unanswered = {}

-----------------------------------------------------------------------------
(* The journal                                                             *)

Sign(kind) == IF kind = "maker" THEN 1 ELSE -1
Remaining(i) == journal[i].quantity - journal[i].filled

\* Store.orders(active_only)
ActiveOrders == {i \in DOMAIN journal : journal[i].status \in {"intent", "unknown", "open"}}
ActiveStops == {i \in ActiveOrders : journal[i].kind = "stop"}
ActiveSells == {i \in ActiveOrders : journal[i].kind # "maker"}

\* (The mutant counts the stops that are over.)
CoveredByAnyStop == MapThenSumSet(Remaining, {i \in DOMAIN journal : journal[i].kind = "stop"})
Covered == MapThenSumSet(Remaining, ActiveStops)
Reserved == MapThenSumSet(Remaining, ActiveSells)

\* The journal row and the ledger after apply_status with a consistent answer: the
\* fills and the status are one transaction, and a fill counts once. (The mutant books
\* the fills of every answer again.)
AppliedAgain(i, live, executed) ==
  /\ journal' = [journal EXCEPT ![i].known = TRUE,
                                ![i].filled = executed,
                                ![i].status = IF live THEN "open" ELSE "done"]
  /\ ledger' = ledger + Sign(journal[i].kind) * executed
Applied(i, live, executed) ==
  /\ journal' = [journal EXCEPT ![i].known = TRUE,
                                ![i].filled = executed,
                                ![i].status = IF live THEN "open" ELSE "done"]
  /\ ledger' = ledger + Sign(journal[i].kind) * (executed - journal[i].filled)

\* A new row, written before anything is sent.
Journaled(kind, quantity) ==
  /\ Len(journal) < MaxOrders
  /\ journal' = Append(journal, [kind |-> kind, quantity |-> quantity, status |-> "intent",
                                 known |-> FALSE, filled |-> 0])
  /\ venue' = Append(venue, [state |-> "unsent", executed |-> 0])
  /\ UNCHANGED <<ledger, inventory>>

-----------------------------------------------------------------------------
(* The venue (external)                                                    *)

Here(i) == venue[i].state \in {"live", "ended"}

\* A resting order rests; an IOC executes what it can and is over.
Accept(i) ==
  \E x \in IF journal[i].kind = "ioc" THEN 0..journal[i].quantity ELSE {0} :
    /\ venue' = [venue EXCEPT ![i] = [state |-> IF journal[i].kind = "ioc" THEN "ended" ELSE "live",
                                      executed |-> x]]
    /\ inventory' = inventory - x

Refuse(i) == venue' = [venue EXCEPT ![i].state = "never"] /\ UNCHANGED inventory

\* A resting order is hit, or a stop triggers, for one unit.
VenueFills(i) ==
  /\ venue[i].state = "live"
  /\ LET executed == venue[i].executed + 1 IN
       venue' = [venue EXCEPT ![i] = [state |-> IF executed = journal[i].quantity THEN "ended" ELSE "live",
                                      executed |-> executed]]
  /\ inventory' = inventory + Sign(journal[i].kind)
  /\ UNCHANGED <<store, proc, lock, up, reply, faults>>

\* The entry key's heartbeat lapses, or the runtime cancels its session after an error; the
\* stops belong to the other key, and end by a cancellation whose caller has given up.
VenueCancels(i) ==
  /\ venue[i].state = "live"
  /\ journal[i].kind = "maker" \/ i \in unanswered
  /\ venue' = [venue EXCEPT ![i].state = "ended"]
  /\ UNCHANGED <<store, inventory, proc, lock, up, reply, faults>>

\* A creation whose caller has given up arrives after all, or is lost.
LateArrival(i) ==
  /\ venue[i].state = "wire"
  /\ Accept(i) \/ Refuse(i)
  /\ UNCHANGED <<store, proc, lock, up, reply, faults>>

VenueReserved ==
  MapThenSumSet(LAMBDA i : journal[i].quantity - venue[i].executed,
                {i \in DOMAIN venue : venue[i].state = "live" /\ journal[i].kind # "maker"})

-----------------------------------------------------------------------------
(* Plans                                                                   *)

Working(p, task) == proc[p].plan # <<>> /\ Head(proc[p].plan) = task
At(p, task, stage) == Working(p, task) /\ proc[p].stage = stage

\* The tasks that remain after the first occurrence of task.
After(plan, task) ==
  LET k == Min({j \in DOMAIN plan : plan[j] = task}) IN SubSeq(plan, k + 1, Len(plan))

\* The task at the head is over; more comes before the rest.
Becomes(p, plan) == [proc EXCEPT ![p].plan = plan, ![p].stage = "begin",
                                 ![p].todo = {}, ![p].blind = {}, ![p].failed = FALSE,
                                 ![p].current = 0]
Done(p) == Becomes(p, Tail(proc[p].plan))
DoneThen(p, more) == Becomes(p, more \o Tail(proc[p].plan))

\* A session ends and releases the execution lock; last_account and last_exit_ns stay.
Leave(p) ==
  /\ proc' = Becomes(p, <<>>)
  /\ lock' = "free"

Inside(p, task) == task \in Range(proc[p].plan)

\* An exception raised by the task at the head. recover_protection records it and the
\* original error goes on; flatten latches the stop and recovers; everything else
\* ends the session, and the runtime's loop latches a kill unless process_commands
\* has caught it. (The mutant leaves flatten without the latch.)
RaiseInFlattenUnlatched(p) ==
  /\ Inside(p, "endFlatten")
  /\ proc' = Becomes(p, <<"reconcile", "protect", "verdict">> \o After(proc[p].plan, "endFlatten"))
  /\ UNCHANGED <<killed, flattenRequested, recovery, lock>>
RaiseInFlatten(p) ==
  /\ Inside(p, "endFlatten")
  /\ killed' = TRUE /\ flattenRequested' = TRUE
  /\ proc' = Becomes(p, <<"reconcile", "protect", "verdict">> \o After(proc[p].plan, "endFlatten"))
  /\ UNCHANGED <<recovery, lock>>

RaiseInRecovery(p) ==
  /\ Inside(p, "verdict")
  /\ recovery' = "operator_required"
  /\ killed' = TRUE
  /\ Leave(p)
  /\ UNCHANGED flattenRequested

RaiseOutside(p, kills) ==
  /\ ~Inside(p, "endFlatten") /\ ~Inside(p, "verdict")
  /\ killed' = (killed \/ kills \/ proc[p].plan[Len(proc[p].plan)] \in {"tick", "decided"})
  /\ Leave(p)
  /\ UNCHANGED <<flattenRequested, recovery>>

Raise(p, kills) == RaiseInFlatten(p) \/ RaiseInRecovery(p) \/ RaiseOutside(p, kills)

\* A network call that gives no usable answer.
Fault == failures < MaxFailures /\ failures' = failures + 1 /\ UNCHANGED <<crashes, unanswered>>
\* The same for a status query, which is also refused while the venue has no such order.
NoStatus(i) == Fault \/ (~Here(i) /\ UNCHANGED faults)

Latches == <<killed, flattenRequested, recovery>>
Elsewhere == <<mark, up, reply>>

-----------------------------------------------------------------------------
(* Cancellation: LiveBroker.cancel under cancel_all and manage_makers      *)

Cancels == {"cancelEntries", "cancelAll", "makers"}

\* The rows read by store.orders(True): cancel_all takes them with or without the stops,
\* manage_makers the entries that are stale, adverse, unwanted or partly filled.
Targets(task, chosen) ==
  CASE task = "cancelAll"     -> chosen = ActiveOrders
    [] task = "cancelEntries" -> chosen = ActiveOrders \ ActiveStops
    [] task = "makers"        -> /\ chosen \subseteq ActiveOrders \ ActiveSells
                                 /\ {i \in ActiveOrders \ ActiveSells : journal[i].filled > 0} \subseteq chosen

\* LiveBroker.cancel looks an order up if it has no exchange id, and asks for the
\* cancellation only of one that it takes for open.
ListOrders(p, task) ==
  /\ At(p, task, "begin")
  /\ \E chosen \in SUBSET ActiveOrders :
       /\ Targets(task, chosen)
       /\ proc' = [proc EXCEPT ![p].stage = "next", ![p].todo = chosen,
                     ![p].blind = {i \in chosen : journal[i].known /\ journal[i].status # "open"}]
  /\ UNCHANGED <<store, exchange, lock, Elsewhere, faults>>

\* Order i is the one being cancelled, and the call is the next one about it.
Cancelling(p, task, i, call) ==
  /\ Working(p, task) /\ proc[p].stage # "begin"
  /\ i \in proc[p].todo /\ \A j \in proc[p].todo : i <= j
  /\ call = IF proc[p].stage # "next" THEN proc[p].stage
            ELSE CASE ~journal[i].known -> "lookup"
                   [] i \in proc[p].blind -> "confirm"
                   [] OTHER -> "request"

Looked(p, task, i) ==
  /\ Cancelling(p, task, i, "lookup")
  /\ Here(i)
  /\ Applied(i, venue[i].state = "live", venue[i].executed)
  /\ proc' = [proc EXCEPT ![p].stage = IF venue[i].state = "live" THEN "request" ELSE "confirm"]
  /\ UNCHANGED <<exchange, Latches, lock, Elsewhere, faults>>

Ended(i) == IF venue[i].state = "live" THEN [venue EXCEPT ![i].state = "ended"] ELSE venue

Requested(p, task, i) ==
  /\ Cancelling(p, task, i, "request")
  /\ venue' = Ended(i)
  /\ proc' = [proc EXCEPT ![p].stage = "confirm"]
  /\ UNCHANGED <<store, inventory, lock, Elsewhere, faults>>

Confirmed(p, task, i) ==
  /\ Cancelling(p, task, i, "confirm")
  /\ Here(i)
  /\ Applied(i, venue[i].state = "live", venue[i].executed)
  /\ proc' = [proc EXCEPT ![p].stage = "next", ![p].todo = @ \ {i}]
  /\ UNCHANGED <<exchange, Latches, lock, Elsewhere, faults>>

\* The cancellation of a stop that a process has sent, or is about to send.
InFlight(p) ==
  {i \in proc[p].todo : /\ journal[i].kind = "stop"
                        /\ \E task \in Cancels : Cancelling(p, task, i, "request")}

\* No answer to a cancellation: it takes effect now, later or never (VenueCancels).
RequestLost(p) ==
  /\ failures < MaxFailures /\ failures' = failures + 1
  /\ unanswered' = unanswered \cup InFlight(p)
  /\ UNCHANGED crashes

\* A call fails. cancel_all goes on with the remaining orders, manage_makers does not.
CancelFails(p, task, i) ==
  /\ \/ \E call \in {"lookup", "confirm"} : Cancelling(p, task, i, call) /\ NoStatus(i)
     \/ Cancelling(p, task, i, "request") /\ RequestLost(p)
  /\ IF task = "makers"
     THEN Raise(p, FALSE)
     ELSE /\ proc' = [proc EXCEPT ![p].stage = "next", ![p].todo = @ \ {i}, ![p].failed = TRUE]
          /\ UNCHANGED <<Latches, lock>>
  /\ UNCHANGED <<journal, ledger, exchange, Elsewhere>>

CancelsEnd(p, task) ==
  /\ At(p, task, "next")
  /\ proc[p].todo = {}
  /\ IF proc[p].failed
     THEN Raise(p, FALSE)
     ELSE proc' = Done(p) /\ UNCHANGED <<Latches, lock>>
  /\ UNCHANGED <<journal, ledger, exchange, Elsewhere, faults>>

Cancel(p) ==
  \E task \in Cancels :
    \/ ListOrders(p, task) \/ CancelsEnd(p, task)
    \/ \E i \in DOMAIN journal :
         Looked(p, task, i) \/ Requested(p, task, i) \/ Confirmed(p, task, i) \/ CancelFails(p, task, i)

-----------------------------------------------------------------------------
(* LiveBroker.reconcile                                                    *)

\* Rows that are terminal are read again too: they do not change any more, so only the
\* active ones matter here.
Unread(p) == IF proc[p].stage = "begin" THEN ActiveOrders ELSE proc[p].todo

ReadStatus(p) ==
  /\ Working(p, "reconcile")
  /\ Unread(p) # {}
  /\ LET i == Min(Unread(p)) IN
       /\ Here(i)
       /\ Applied(i, venue[i].state = "live", venue[i].executed)
       /\ proc' = [proc EXCEPT ![p].stage = "statuses", ![p].todo = Unread(p) \ {i}]
  /\ UNCHANGED <<exchange, Latches, lock, Elsewhere, faults>>

\* The full balance must equal the ledger: a fill since the statuses were read, or an
\* order that is not in the journal, ends the reconciliation.
BalanceMatches == inventory = ledger

ReadBalances(p) ==
  /\ Working(p, "reconcile")
  /\ Unread(p) = {}
  /\ BalanceMatches
  /\ proc' = [Done(p) EXCEPT ![p].available = Max({0, inventory - VenueReserved})]
  /\ UNCHANGED <<store, exchange, lock, Elsewhere, faults>>

ReconcileFails(p) ==
  /\ Working(p, "reconcile")
  /\ IF Unread(p) # {}
     THEN NoStatus(Min(Unread(p)))
     ELSE Fault \/ (~BalanceMatches /\ UNCHANGED faults)
  /\ Raise(p, FALSE)
  /\ UNCHANGED <<journal, ledger, exchange, Elsewhere>>

Reconcile(p) == ReadStatus(p) \/ ReadBalances(p) \/ ReconcileFails(p)

-----------------------------------------------------------------------------
(* LiveBroker.submit                                                       *)

Create(p, kind, quantity, then) ==
  /\ Journaled(kind, quantity)
  /\ proc' = [DoneThen(p, <<"submit">> \o then) EXCEPT ![p].current = Len(journal) + 1,
                                                       ![p].retry = (@ \/ kind = "ioc")]
  /\ UNCHANGED <<Latches, lock, Elsewhere, faults>>

\* The answer to the creation: the exchange id is journaled before the status query.
Submitted(p, i) ==
  /\ At(p, "submit", "begin") /\ i = proc[p].current
  /\ Accept(i)
  /\ journal' = [journal EXCEPT ![i].known = TRUE]
  /\ proc' = [proc EXCEPT ![p].stage = "status"]
  /\ UNCHANGED <<ledger, Latches, lock, Elsewhere, faults>>

SubmitConfirmed(p, i) ==
  /\ At(p, "submit", "status") /\ i = proc[p].current
  /\ Applied(i, venue[i].state = "live", venue[i].executed)
  /\ proc' = Done(p)
  /\ UNCHANGED <<exchange, Latches, lock, Elsewhere, faults>>

\* A definite rejection; the last one allowed latches a kill.
SubmitRejected(p, i) ==
  /\ At(p, "submit", "begin") /\ i = proc[p].current
  /\ Fault
  /\ Refuse(i)
  /\ journal' = [journal EXCEPT ![i].status = "rejected"]
  /\ \E kills \in BOOLEAN : Raise(p, kills)
  /\ UNCHANGED <<ledger, Elsewhere>>

\* No answer: the order is unknown, wherever its creation is. (The mutant takes a
\* timeout for a rejection.)
TimeoutIsRejection == "rejected"
TimeoutIsUnknown == "unknown"

SubmitLost(p, i) ==
  /\ At(p, "submit", "begin") /\ i = proc[p].current
  /\ Fault
  /\ Accept(i) \/ Refuse(i) \/ (venue' = [venue EXCEPT ![i].state = "wire"] /\ UNCHANGED inventory)
  /\ journal' = [journal EXCEPT ![i].status = TimeoutIsUnknown]
  /\ Raise(p, TRUE)
  /\ UNCHANGED <<ledger, Elsewhere>>

\* An accepted order whose status cannot be read is unknown too.
SubmitUnconfirmed(p, i) ==
  /\ At(p, "submit", "status") /\ i = proc[p].current
  /\ Fault
  /\ journal' = [journal EXCEPT ![i].status = "unknown"]
  /\ Raise(p, TRUE)
  /\ UNCHANGED <<ledger, exchange, Elsewhere>>

Submit(p) ==
  \E i \in DOMAIN journal :
    Submitted(p, i) \/ SubmitConfirmed(p, i) \/ SubmitRejected(p, i) \/ SubmitLost(p, i)
      \/ SubmitUnconfirmed(p, i)

-----------------------------------------------------------------------------
(* Controller: protect, flatten, recover_protection, decide                *)

\* A task that calls nothing.
Plain(p) == UNCHANGED <<journal, ledger, mark, exchange, up, reply, faults>>

\* RiskEngine.authorize for a sale of the quantity.
SellAuthorized(p, quantity) ==
  /\ quantity <= Min({proc[p].available, ledger})
  /\ quantity + Reserved <= ledger

Missing == Max({0, ledger - Covered})
UnresolvedExit == ActiveSells # ActiveStops

\* Nothing to cover, or too little; a remainder with no stop at all is dust and kills.
ProtectIdle(p) ==
  /\ At(p, "protect", "begin")
  /\ ~UnresolvedExit /\ Missing < Minimum
  /\ killed' = (killed \/ (ledger > 0 /\ Covered = 0))
  /\ proc' = Done(p)
  /\ UNCHANGED <<flattenRequested, recovery, lock>>
  /\ Plain(p)

ProtectRefused(p) ==
  /\ At(p, "protect", "begin")
  /\ \/ UnresolvedExit /\ UNCHANGED faults
     \/ Missing >= Minimum /\ ~SellAuthorized(p, Missing) /\ UNCHANGED faults
     \/ Missing >= Minimum /\ Fault
  /\ Raise(p, FALSE)
  /\ UNCHANGED <<journal, ledger, exchange, Elsewhere>>

ProtectPlaces(p) ==
  /\ At(p, "protect", "begin")
  /\ ~UnresolvedExit /\ Missing >= Minimum
  /\ SellAuthorized(p, Missing)
  /\ Create(p, "stop", Missing, <<"reconcile">>)

\* Controller.flatten: nothing within exit_retry_seconds; without a fresh book only the
\* entries are cancelled and the stops stay. (The mutant cancels all in one go.)
FlattenAtOnce(fresh) ==
  IF fresh THEN <<"recheck", "endFlatten">>
  ELSE <<"cancelEntries", "reconcile", "protect", "endFlatten">>
FlattenPlan(fresh) ==
  <<"cancelEntries", "reconcile", IF fresh THEN "recheck" ELSE "protect", "endFlatten">>

BeginFlatten(p) ==
  /\ At(p, "flatten", "begin")
  /\ \/ proc[p].retry /\ proc' = Done(p)
     \/ ~proc[p].retry /\ \E fresh \in BOOLEAN : proc' = DoneThen(p, FlattenPlan(fresh))
  /\ UNCHANGED <<Latches, lock>> /\ Plain(p)

\* The book is read again after the network calls: fresh or not, whatever it was before.
Recheck(p) ==
  /\ At(p, "recheck", "begin")
  /\ \/ proc' = DoneThen(p, <<"cancelAll", "reconcile", "exit">>)
     \/ proc' = DoneThen(p, <<"protect">>)
  /\ UNCHANGED <<Latches, lock>> /\ Plain(p)

ExitQuantity(p) == Min({ledger, proc[p].available})

ExitIdle(p) ==
  /\ At(p, "exit", "begin")
  /\ \/ (ActiveOrders # {} \/ ledger <= 0) /\ proc' = Done(p) /\ UNCHANGED killed
     \/ ActiveOrders = {} /\ ledger > 0 /\ proc' = DoneThen(p, <<"protect">>) /\ UNCHANGED killed
     \/ /\ ActiveOrders = {} /\ ledger > 0 /\ ExitQuantity(p) < Minimum
        /\ proc' = Done(p) /\ killed' = TRUE
  /\ UNCHANGED <<flattenRequested, recovery, lock>>
  /\ Plain(p)

ExitPlaces(p) ==
  /\ At(p, "exit", "begin")
  /\ ActiveOrders = {} /\ ledger > 0 /\ ExitQuantity(p) >= Minimum
  /\ SellAuthorized(p, ExitQuantity(p))
  /\ Create(p, "ioc", ExitQuantity(p), <<"reconcile", "protect">>)

\* RiskEngine.authorize refuses the exit: a stale account, a stale book or the price bound.
ExitRefused(p) ==
  /\ At(p, "exit", "begin")
  /\ ActiveOrders = {} /\ ledger > 0 /\ ExitQuantity(p) >= Minimum
  /\ Fault
  /\ Raise(p, FALSE)
  /\ UNCHANGED <<journal, ledger, exchange, Elsewhere>>

EndFlatten(p) ==
  /\ At(p, "endFlatten", "begin")
  /\ proc' = Done(p)
  /\ UNCHANGED <<Latches, lock>> /\ Plain(p)

\* The end of recover_protection, from which the original error goes on. (The mutants
\* do not look at the stops, and take the request for carried out.)
OpenCover == MapThenSumSet(Remaining, {i \in ActiveStops : journal[i].status = "open"})
VerdictUnchecked == IF ledger = 0 THEN "flat" ELSE "protected"
VerdictStatus ==
  IF ledger = 0 THEN "flat" ELSE IF OpenCover >= ledger THEN "protected" ELSE "operator_required"

VerdictReleasing(p) ==
  /\ At(p, "verdict", "begin")
  /\ recovery' = VerdictStatus
  /\ killed' = TRUE /\ flattenRequested' = FALSE
  /\ Leave(p)
  /\ Plain(p)
Verdict(p) ==
  /\ At(p, "verdict", "begin")
  /\ recovery' = VerdictStatus
  /\ killed' = TRUE
  /\ Leave(p)
  /\ UNCHANGED flattenRequested
  /\ Plain(p)

\* The end of the loop body flattens what it holds.
KillFlatten(p) ==
  /\ At(p, "killFlatten", "begin")
  /\ proc' = DoneThen(p, IF ledger > 0 THEN <<"flatten">> ELSE <<>>)
  /\ UNCHANGED <<Latches, lock>> /\ Plain(p)

\* RiskEngine.authorize for an entry; a flatten request implies the pause. (The mutant
\* looks at the position only.)
EntryUnlessHeld == ~killed /\ ~flattenRequested /\ ledger = 0
EntryAuthorized == ~killed /\ ~flattenRequested /\ ledger = 0 /\ ActiveOrders = {}

\* Controller.decide after manage_makers; a refused entry is a decision not to trade.
DecideNothing(p) ==
  /\ At(p, "decide", "begin")
  /\ proc' = DoneThen(p, IF ledger > 0 THEN <<"protect">> ELSE <<>>)
  /\ UNCHANGED <<Latches, lock>> /\ Plain(p)

DecideEntry(p) ==
  /\ At(p, "decide", "begin")
  /\ EntryAuthorized
  /\ Create(p, "maker", Size, <<>>)

\* reset-kill after its reconciliation, and resume, which changes nothing here.
Reset(p) ==
  /\ At(p, "reset", "begin")
  /\ \/ ledger = 0 /\ ActiveOrders = {} /\ killed' = FALSE /\ flattenRequested' = FALSE
     \/ UNCHANGED <<killed, flattenRequested>>
  /\ proc' = Done(p)
  /\ UNCHANGED <<recovery, lock>> /\ Plain(p)

\* The end of a session; a market event completes a flatten request.
EndSession(p) ==
  /\ proc[p].plan # <<>>
  /\ Head(proc[p].plan) \in {"tick", "decided", "answer", "cancelled", "report"}
  /\ flattenRequested' = (flattenRequested /\ ~(/\ Head(proc[p].plan) = "decided"
                                                /\ ledger = 0 /\ ActiveOrders = {}))
  /\ Leave(p)
  /\ UNCHANGED <<killed, recovery>> /\ Plain(p)

Control(p) ==
  \/ ProtectIdle(p) \/ ProtectRefused(p) \/ ProtectPlaces(p)
  \/ BeginFlatten(p) \/ Recheck(p) \/ EndFlatten(p) \/ Verdict(p)
  \/ ExitIdle(p) \/ ExitRefused(p) \/ ExitPlaces(p)
  \/ KillFlatten(p) \/ DecideNothing(p) \/ DecideEntry(p) \/ Reset(p) \/ EndSession(p)

-----------------------------------------------------------------------------
(* Sessions under the execution lock                                       *)

Open(p, plan) ==
  /\ lock = "free" /\ proc[p].plan = <<>>
  /\ lock' = p
  /\ proc' = Becomes(p, plan)
  /\ UNCHANGED <<journal, ledger, recovery, exchange, Elsewhere, faults>>

Stops(kill, flatten) ==
  killed' = (killed \/ kill) /\ flattenRequested' = (flattenRequested \/ flatten)

\* The reconciliation that is due every few seconds.
ReconcileSession ==
  /\ up = "up"
  /\ Open("runtime", <<"reconcile", "protect", "tick">>)
  /\ Stops(FALSE, FALSE)

CommandSession ==
  /\ up = "up"
  /\ \/ \E action \in OperatorActions \cap {"pause", "cancel-all", "kill"} :
          Open("runtime", <<"cancelEntries", "cancelled">>) /\ Stops(action = "kill", action = "kill")
     \/ "flatten" \in OperatorActions
        /\ Open("runtime", <<"flatten", "answer">>) /\ Stops(FALSE, TRUE)
     \/ OperatorActions \cap {"resume", "reset-kill"} # {}
        /\ Open("runtime", <<"reconcile", "reset", "answer">>) /\ Stops(FALSE, FALSE)

\* A disconnect, a book error or a stale book.
BookLost ==
  /\ up = "up"
  /\ Open("runtime", <<"cancelEntries", "tick">>)
  /\ Stops(TRUE, FALSE)

\* A decision: the position is read before the makers are managed.
MarketEvent ==
  /\ up = "up"
  /\ \/ ledger > 0 /\ Open("runtime", <<"makers", "flatten", "decided">>)
     \/ ledger > 0 /\ ~killed /\ ~flattenRequested /\ Open("runtime", <<"makers", "protect", "decided">>)
     \/ ledger = 0 /\ ~killed /\ Open("runtime", <<"makers", "makers", "decide", "decided">>)
     \/ ledger = 0 /\ Open("runtime", <<"makers", "cancelEntries", "decided">>)
  /\ Stops(FALSE, FALSE)

\* The end of every loop body while killed.
KilledSession ==
  /\ up = "up" /\ killed
  /\ Open("runtime", <<"cancelEntries", "killFlatten", "tick">>)
  /\ Stops(FALSE, FALSE)

\* needs_help, and the help it brings. A runtime that is down or hangs has a stale heartbeat
\* (ControlPlane has the time between the look and the lock).
GuardianSession ==
  /\ killed \/ mark
  /\ ActiveOrders # {} \/ ledger > 0
  /\ Open("guardian", <<"cancelEntries", "reconcile", "flatten", "protect", "report">>)
  /\ Stops(TRUE, FALSE)

-----------------------------------------------------------------------------
(* Start and crash                                                         *)

\* The runtime reconciles at its start outside the execution lock: the guardian may act
\* between the answer to a query and its application.
Boot ==
  /\ up = "down"
  /\ up' = "booting"
  /\ proc' = [proc EXCEPT !["runtime"] = [Fresh EXCEPT !.todo = ActiveOrders]]
  /\ UNCHANGED <<store, exchange, lock, reply, faults>>

BootAsks ==
  /\ up = "booting" /\ reply = {}
  /\ IF proc["runtime"].todo # {}
     THEN LET i == Min(proc["runtime"].todo) IN
            Here(i) /\ reply' = {[live |-> venue[i].state = "live", executed |-> venue[i].executed]}
     ELSE reply' = {[balance |-> inventory, available |-> Max({0, inventory - VenueReserved})]}
  /\ UNCHANGED <<store, exchange, proc, lock, up, faults>>

\* INCOMPLETE_FILL_DETAILS when the store has fills that the answer has not.
BootApplies(answer) ==
  /\ up = "booting"
  /\ proc["runtime"].todo # {}
  /\ LET i == Min(proc["runtime"].todo) IN
       /\ journal[i].filled <= answer.executed
       /\ Applied(i, answer.live, answer.executed)
       /\ proc' = [proc EXCEPT !["runtime"].todo = @ \ {i}]
  /\ reply' = {}
  /\ UNCHANGED <<exchange, Latches, lock, mark, up, faults>>

\* UNCLEAN_PROCESS_RESTART, then the running mark.
BootCompletes(answer) ==
  /\ up = "booting"
  /\ proc["runtime"].todo = {}
  /\ answer.balance = ledger
  /\ proc' = [proc EXCEPT !["runtime"].available = answer.available]
  /\ killed' = (killed \/ mark)
  /\ mark' = TRUE /\ up' = "up" /\ reply' = {}
  /\ UNCHANGED <<journal, ledger, flattenRequested, recovery, exchange, lock, faults>>

BootFails ==
  /\ up = "booting"
  /\ \/ reply = {} /\ Fault
     \/ /\ reply = {} /\ UNCHANGED faults
        /\ proc["runtime"].todo # {} /\ ~Here(Min(proc["runtime"].todo))
     \/ \E answer \in reply :
          /\ UNCHANGED faults
          /\ IF proc["runtime"].todo # {}
             THEN journal[Min(proc["runtime"].todo)].filled > answer.executed
             ELSE answer.balance # ledger
  /\ up' = "down" /\ reply' = {}
  /\ proc' = [proc EXCEPT !["runtime"] = Fresh]
  /\ UNCHANGED <<store, exchange, lock>>

\* A process dies between two awaits; a request it had sent may still arrive.
Crash(p) ==
  /\ crashes < MaxCrashes
  /\ p = "runtime" => up # "down"
  /\ crashes' = crashes + 1 /\ UNCHANGED failures
  /\ unanswered' = unanswered \cup InFlight(p)
  /\ proc' = [proc EXCEPT ![p] = Fresh]
  /\ lock' = IF lock = p THEN "free" ELSE lock
  /\ IF p = "runtime" THEN up' = "down" /\ reply' = {} ELSE UNCHANGED <<up, reply>>
  /\ IF At(p, "submit", "begin")
     THEN LET i == proc[p].current IN
            \/ venue' = [venue EXCEPT ![i].state = "wire"] /\ UNCHANGED inventory
            \/ Accept(i) \/ Refuse(i)
     ELSE UNCHANGED exchange
  /\ UNCHANGED store

RetryElapses(p) ==
  /\ proc[p].retry
  /\ proc' = [proc EXCEPT ![p].retry = FALSE]
  /\ UNCHANGED <<store, exchange, lock, up, reply, faults>>

-----------------------------------------------------------------------------
(* The specification                                                       *)

Step(p) == Cancel(p) \/ Reconcile(p) \/ Submit(p) \/ Control(p)

Booting ==
  \/ Boot \/ BootAsks \/ BootFails
  \/ \E answer \in reply : BootApplies(answer) \/ BootCompletes(answer)

Environment ==
  \/ \E i \in DOMAIN venue : VenueFills(i) \/ VenueCancels(i) \/ LateArrival(i)
  \/ \E p \in Processes : Crash(p) \/ RetryElapses(p)

Next ==
  \/ \E p \in Processes : Step(p)
  \/ ReconcileSession \/ CommandSession \/ BookLost \/ MarketEvent \/ KilledSession
  \/ GuardianSession
  \/ Booting \/ Environment

Spec == Init /\ [][Next]_vars

\* Every call ends, in an answer or a timeout, and the loop comes round to a due
\* reconciliation however often it meets the guardian's lock: the guardian lets go of it
\* between its rounds.
Fairness ==
  /\ \A p \in Processes : WF_vars(Step(p))
  /\ SF_vars(ReconcileSession)

FairSpec == Spec /\ Fairness

-----------------------------------------------------------------------------
(* Properties                                                              *)

Statuses == {"intent", "unknown", "open", "done", "rejected"}
JournalRow == [kind : {"maker", "ioc", "stop"}, quantity : Nat, status : Statuses,
               known : BOOLEAN, filled : Nat]
VenueRow == [state : {"unsent", "wire", "live", "ended", "never"}, executed : Nat]

\* Besides the types: a ledger that never goes short (Portfolio.apply refuses to).
TypeOK ==
  /\ journal \in Seq(JournalRow) /\ venue \in Seq(VenueRow) /\ Len(venue) = Len(journal)
  /\ ledger \in Nat /\ inventory \in Int
  /\ killed \in BOOLEAN /\ flattenRequested \in BOOLEAN /\ mark \in BOOLEAN
  /\ recovery \in {"none", "flat", "protected", "operator_required"}
  /\ lock \in {"free"} \cup Processes /\ up \in {"down", "booting", "up"}
  /\ \A p \in Processes : proc[p].todo \subseteq DOMAIN journal

\* The journal never takes an order for finished that can still trade, and a finished
\* row has exactly the fills of the venue: whatever request, answer or process is lost
\* between the intent and the last status (LiveBroker.submit, apply_status).
JournalSound ==
  \A i \in DOMAIN journal :
    /\ venue[i].state \in {"unsent", "wire", "live"} => i \in ActiveOrders
    /\ journal[i].status = "done" => venue[i].state = "ended"
    /\ journal[i].status = "rejected" => venue[i].state = "never"
    /\ journal[i].filled <= venue[i].executed
    /\ journal[i].status = "done" => journal[i].filled = venue[i].executed

\* Every sale that may still execute at the venue is covered by inventory there: no
\* interleaving of stops, exits of unknown outcome, partial fills and restarts sells
\* short (RiskEngine.authorize, Controller.protect and _flatten).
NeverOversold ==
  MapThenSumSet(LAMBDA i : journal[i].quantity - venue[i].executed,
                {i \in DOMAIN journal : journal[i].kind # "maker"
                                          /\ venue[i].state \in {"unsent", "wire", "live"}})
    <= inventory

\* A death between two calls of either process loses nothing: what the journal says is
\* still true, and what the survivor and the next life sell is covered (LiveBroker.reconcile).
DeathLosesNothing == JournalSound /\ NeverOversold

\* The venue itself, and not only the ledger, is flat and has no order of ours working
\* or on its way.
VenueFlat ==
  /\ inventory = 0
  /\ \A i \in DOMAIN venue : venue[i].state \in {"ended", "never"}

\* An entry is created only over a flat venue: no averaging down (RiskEngine.authorize).
EntersFlat ==
  [][Len(journal') > Len(journal) /\ journal'[Len(journal')].kind = "maker" => VenueFlat]_vars

\* Protection is withdrawn only once no entry can add inventory any more (Controller._flatten:
\* "Cancel entry risk before removing protection").
EntryRiskGoesFirst ==
  [][\A i \in DOMAIN venue :
       journal[i].kind = "stop" /\ venue[i].state = "live" /\ venue'[i].state = "ended"
         /\ venue'[i].executed = venue[i].executed
         => \A j \in DOMAIN venue : journal[j].kind = "maker" => venue[j].state \in {"ended", "never"}]_vars

\* docs/RUNBOOK.md:229: a failed exit latches the kill and "retains a flatten request".
\* Both are latched throughout its recovery and by the verdict that ends it; and whatever
\* latched them, no session of either process, death or start clears one until the venue is
\* flat, so a flatten command that is answered within exit_retry_seconds is not forgotten
\* either (Controller.flatten, process_commands, Engine.event).
StopsAreRetained ==
  [][/\ \A p \in Processes : Inside(p, "verdict") => killed' /\ flattenRequested'
     /\ (killed /\ ~killed') \/ (flattenRequested /\ ~flattenRequested') => VenueFlat]_vars

StopsAtVenue ==
  MapThenSumSet(LAMBDA i : journal[i].quantity - venue[i].executed,
                {i \in DOMAIN venue : venue[i].state = "live" /\ journal[i].kind = "stop"})

\* docs/RUNBOOK.md:229 calls the recorded recovery an observation at that time, and at that
\* time it is right: "protected" and "flat" hold at the venue, unless the journal still has
\* an entry that could not be cancelled and may be filling. A stop counts that has just ended
\* by a cancellation without an answer, for nobody could see that.
StandingStops ==
  {i \in DOMAIN venue : /\ journal[i].kind = "stop"
                        /\ venue[i].state = "live" \/ (i \in unanswered /\ journal[i].status = "open")}
VerdictIsTrue ==
  [][\A p \in Processes :
       At(p, "verdict", "begin") /\ proc'[p].plan = <<>> /\ UNCHANGED crashes
       /\ ActiveOrders = ActiveSells
         => /\ recovery' = "protected" =>
                 MapThenSumSet(LAMBDA i : journal[i].quantity - venue[i].executed, StandingStops) >= inventory
            /\ recovery' = "flat" => inventory = 0]_vars

\* README.md of cancel-all: it cancels entry orders, and status says whether it is done or
\* failed. When it is about to be answered done, no entry is left at the venue.
CancelAllLeavesNoEntry ==
  \A p \in Processes : At(p, "cancelled", "begin") =>
    \A i \in DOMAIN venue : venue[i].state \in {"unsent", "wire", "live"} => journal[i].kind # "maker"

\* A position does not stay bare. It ends sold, or covered by live stops but for less than
\* the minimum of an order, or behind an order of unknown outcome that only the operator can
\* resolve; and where no stop covers any of that rest, the kill is latched (Controller.protect,
\* _flatten). The last case is a protection that finds no row within the bound on orders.
Uncovered == inventory - StopsAtVenue
Unresolved == \E i \in ActiveOrders : venue[i].state \in {"wire", "never"}
OutOfRows ==
  /\ Len(journal) = MaxOrders
  /\ \E p \in Processes : At(p, "protect", "begin") /\ ~UnresolvedExit /\ Missing >= Minimum
HeldEndsSafe ==
  inventory > 0 ~> \/ inventory = 0
                   \/ Uncovered < Minimum /\ (StopsAtVenue = 0 => killed)
                   \/ Unresolved \/ OutOfRows
=============================================================================
