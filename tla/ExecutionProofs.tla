--------------------------- MODULE ExecutionProofs ---------------------------
(***************************************************************************)
(* Proofs about Execution, for every value of its constants.               *)
(*                                                                         *)
(* The inductive invariant, ExecutionInv, has four parts.  JournalInv says *)
(* what is true of each row and keeps the accounts: the ledger and the     *)
(* venue's balance are sums over the orders, and what all sales together   *)
(* may still execute is not more than the ledger.  SessionInv says who may *)
(* have a plan, which plans there are, and that a recovery is under both   *)
(* latches.  SubmitOf ties the creation in progress to what the venue has  *)
(* of it, and ReplyInv an answer that a start has not applied yet to what  *)
(* the venue has become since.                                             *)
(*                                                                         *)
(* RiskInv adds what is true of the entries and of the way to a withdrawal *)
(* of protection, and VerdictInv what a recovery has seen at the venue;    *)
(* they are at the end, with the theorems they are for.                    *)
(***************************************************************************)
EXTENDS Execution, SumProofs, SequenceTheorems, TLAPS

-----------------------------------------------------------------------------
(* Plans                                                                   *)

\* The last task of a session, the tasks, and three kinds of them.
Finals == {"tick", "decided", "answer", "cancelled", "report"}
Tasks == Finals \cup
  {"cancelEntries", "cancelAll", "makers", "reconcile", "submit", "protect", "flatten",
   "recheck", "exit", "endFlatten", "verdict", "killFlatten", "decide", "reset"}

\* What a recovery does before its verdict, and the tasks of which a plan has one at most:
\* each turns into the next.
Recovering == {"submit", "reconcile", "protect"}
Exits == {"killFlatten", "flatten", "endFlatten", "verdict"}

\* The tasks that withdraw protection or are about to.
Withdraws == {"recheck", "cancelAll"}
Withdrawing(plan) == \E k \in DOMAIN plan : plan[k] \in Withdraws

\* A creation is in progress or has not been begun.
PlanOK(plan) ==
  /\ plan \in Seq(Tasks)
  /\ \A k \in DOMAIN plan : plan[k] = "submit" => k = 1
  /\ \A j, k \in DOMAIN plan : plan[j] \in Exits /\ plan[k] \in Exits => j = k
  /\ \A j, k \in DOMAIN plan : plan[k] = "verdict" /\ j < k => plan[j] \in Recovering

\* What a task may put before the rest of the plan.
MoreOK(head, more) ==
  /\ more \in Seq(Tasks)
  /\ \A k \in DOMAIN more : more[k] = "submit" => k = 1
  /\ \A k \in DOMAIN more : more[k] # "verdict" /\ (more[k] \in Exits => head \in Exits)
  /\ \A j, k \in DOMAIN more : more[j] \in Exits /\ more[k] \in Exits => j = k
  /\ head \in Recovering => \A k \in DOMAIN more : more[k] \in Recovering

\* What a plan begins with.
LEMMA PlanParts ==
  ASSUME NEW plan, PlanOK(plan), plan # <<>>
  PROVE  /\ plan \in Seq(Tasks) /\ Tail(plan) \in Seq(Tasks) /\ Head(plan) = plan[1]
         /\ Len(plan) \in Nat \ {0} /\ DOMAIN plan = 1 .. Len(plan) /\ 1 \in DOMAIN plan
         /\ DOMAIN Tail(plan) = 1 .. Len(plan) - 1
         /\ \A k \in DOMAIN Tail(plan) : Tail(plan)[k] = plan[k + 1] /\ k + 1 \in DOMAIN plan
         /\ \A k \in DOMAIN Tail(plan) : Tail(plan)[k] # "submit"
<1>1. /\ plan \in Seq(Tasks) /\ Tail(plan) \in Seq(Tasks) /\ Head(plan) = plan[1]
      /\ Len(plan) \in Nat \ {0} /\ DOMAIN plan = 1 .. Len(plan) /\ 1 \in DOMAIN plan
      /\ DOMAIN Tail(plan) = 1 .. Len(plan) - 1
      /\ \A k \in DOMAIN Tail(plan) : Tail(plan)[k] = plan[k + 1] /\ k + 1 \in DOMAIN plan
  BY DEF PlanOK
<1>2. \A k \in DOMAIN Tail(plan) : Tail(plan)[k] # "submit"
  BY <1>1 DEF PlanOK
<1> QED
  BY <1>1, <1>2

\* What is at the head of a recovery.
LEMMA RecoveryHead ==
  ASSUME NEW plan, PlanOK(plan), "verdict" \in Range(plan)
  PROVE  /\ plan # <<>> /\ Head(plan) \in Recovering \cup {"verdict"}
         /\ "verdict" \in Range(Tail(plan)) => Head(plan) # "verdict"
<1>1. PICK k \in DOMAIN plan : plan[k] = "verdict"
  BY DEF Range
<1>2. plan # <<>>
  BY <1>1
<1>3. /\ Head(plan) = plan[1] /\ DOMAIN plan = 1 .. Len(plan) /\ 1 \in DOMAIN plan
      /\ \A j \in DOMAIN Tail(plan) : Tail(plan)[j] = plan[j + 1] /\ j + 1 \in DOMAIN plan
      /\ DOMAIN Tail(plan) = 1 .. Len(plan) - 1
  BY <1>2, PlanParts
<1>4. plan[1] \in Recovering \cup {"verdict"}
  <2>1. k = 1 \/ 1 < k
    BY <1>3
  <2> QED
    BY <1>1, <1>3, <2>1 DEF PlanOK
<1>5. "verdict" \in Range(Tail(plan)) => plan[1] # "verdict"
  <2> SUFFICES ASSUME NEW j \in DOMAIN Tail(plan), Tail(plan)[j] = "verdict"
               PROVE  plan[1] # "verdict"
    BY DEF Range
  <2>1. plan[j + 1] = "verdict" /\ j + 1 \in DOMAIN plan /\ 1 < j + 1
    BY <1>3
  <2> QED
    BY <1>3, <2>1 DEF PlanOK, Recovering
<1> QED
  BY <1>2, <1>3, <1>4, <1>5

\* A task that is over may put more before the rest: the plan stays one, and no recovery
\* appears in it.
LEMMA MorePlan ==
  ASSUME NEW plan, PlanOK(plan), plan # <<>>, NEW more, MoreOK(Head(plan), more),
         Head(plan) # "verdict"
  PROVE  /\ PlanOK(more \o Tail(plan))
         /\ "verdict" \in Range(more \o Tail(plan)) => "verdict" \in Range(plan)
<1> DEFINE new == more \o Tail(plan)
<1>1. /\ plan \in Seq(Tasks) /\ more \in Seq(Tasks) /\ Tail(plan) \in Seq(Tasks)
      /\ Len(plan) \in Nat \ {0} /\ Len(more) \in Nat
      /\ DOMAIN plan = 1 .. Len(plan) /\ DOMAIN more = 1 .. Len(more) /\ Head(plan) = plan[1]
  BY DEF PlanOK, MoreOK
<1>2. /\ new \in Seq(Tasks)
      /\ DOMAIN new = 1 .. Len(more) + Len(plan) - 1
      /\ \A k \in 1 .. Len(more) : new[k] = more[k]
      /\ \A k \in DOMAIN new : k > Len(more) =>
           k - Len(more) + 1 \in DOMAIN plan /\ new[k] = plan[k - Len(more) + 1]
  BY <1>1
<1> HIDE DEF new
<1>3. \A k \in DOMAIN new : new[k] = "submit" => k = 1
  BY <1>1, <1>2 DEF PlanOK, MoreOK
<1>4. ASSUME NEW j \in DOMAIN new, NEW k \in DOMAIN new, new[j] \in Exits, new[k] \in Exits
      PROVE  j = k
  <2>1. CASE j > Len(more) /\ k > Len(more)
    BY <1>1, <1>2, <1>4, <2>1 DEF PlanOK
  <2>2. CASE ~(j > Len(more)) /\ ~(k > Len(more))
    BY <1>1, <1>2, <1>4, <2>2 DEF MoreOK
  <2>3. ASSUME NEW m \in DOMAIN new, NEW n \in DOMAIN new, m > Len(more), ~(n > Len(more)),
               new[m] \in Exits, new[n] \in Exits
        PROVE  FALSE
    <3>1. n \in DOMAIN more /\ more[n] \in Exits
      BY <1>1, <1>2, <2>3
    <3>2. plan[1] \in Exits /\ 1 \in DOMAIN plan
      BY <1>1, <3>1 DEF MoreOK
    <3>3. m - Len(more) + 1 \in DOMAIN plan /\ plan[m - Len(more) + 1] \in Exits
      BY <1>2, <2>3
    <3>4. m - Len(more) + 1 = 1
      BY <3>2, <3>3 DEF PlanOK
    <3> QED
      BY <1>1, <1>2, <2>3, <3>4
  <2> QED
    BY <1>4, <2>1, <2>2, <2>3
<1>5. ASSUME NEW k \in DOMAIN new, new[k] = "verdict"
      PROVE  /\ k > Len(more) /\ k - Len(more) + 1 \in DOMAIN plan
             /\ plan[k - Len(more) + 1] = "verdict" /\ plan[1] \in Recovering
  <2>1. k > Len(more)
    BY <1>1, <1>2, <1>5 DEF MoreOK
  <2>2. k - Len(more) + 1 \in DOMAIN plan /\ plan[k - Len(more) + 1] = "verdict"
    BY <1>2, <1>5, <2>1
  <2> QED
    BY <1>1, <1>2, <2>1, <2>2 DEF PlanOK
<1>6. ASSUME NEW j \in DOMAIN new, NEW k \in DOMAIN new, new[k] = "verdict", j < k
      PROVE  new[j] \in Recovering
  <2>1. CASE j > Len(more)
    BY <1>1, <1>2, <1>5, <1>6, <2>1 DEF PlanOK
  <2>2. CASE ~(j > Len(more))
    BY <1>1, <1>2, <1>5, <1>6, <2>2 DEF MoreOK
  <2> QED
    BY <2>1, <2>2
<1>7. "verdict" \in Range(new) => "verdict" \in Range(plan)
  BY <1>5 DEF Range
<1> QED
  BY <1>2, <1>3, <1>4, <1>6, <1>7 DEF PlanOK, new

\* The recovery that takes the place of a flatten that raises.
Recovery(plan) == <<"reconcile", "protect", "verdict">> \o After(plan, "endFlatten")

\* A recovery is three tasks and what remains of the plan after its flatten.
LEMMA RecoveryParts ==
  ASSUME NEW plan, PlanOK(plan), "endFlatten" \in Range(plan)
  PROVE  \E k \in DOMAIN plan :
           /\ plan[k] = "endFlatten" /\ DOMAIN plan = 1 .. Len(plan) /\ Len(plan) \in Nat
           /\ Recovery(plan) \in Seq(Tasks) /\ DOMAIN Recovery(plan) = 1 .. Len(plan) - k + 3
           /\ Recovery(plan)[1] = "reconcile" /\ Recovery(plan)[2] = "protect"
           /\ Recovery(plan)[3] = "verdict"
           /\ \A j \in DOMAIN Recovery(plan) : j > 3 =>
                /\ k + (j - 3) \in DOMAIN plan
                /\ Recovery(plan)[j] = plan[k + (j - 3)]
<1>1. plan \in Seq(Tasks) /\ Len(plan) \in Nat /\ DOMAIN plan = 1 .. Len(plan)
  BY DEF PlanOK
<1>2. PICK k \in DOMAIN plan : plan[k] = "endFlatten"
  BY DEF Range
<1>3. {j \in DOMAIN plan : plan[j] = "endFlatten"} = {k}
  BY <1>2 DEF PlanOK, Exits
<1>4. Min({k}) = k
  BY <1>1 DEF Min
<1> DEFINE rest == SubSeq(plan, k + 1, Len(plan))
<1>5. After(plan, "endFlatten") = rest
  BY <1>3, <1>4 DEF After
<1>6. /\ rest \in Seq(Tasks) /\ Len(rest) = Len(plan) - k
      /\ \A j \in 1 .. Len(plan) - k : rest[j] = plan[k + j] /\ k + j \in DOMAIN plan
  BY <1>1
<1> HIDE DEF rest
<1> DEFINE first == <<"reconcile", "protect", "verdict">>
           new == first \o rest
<1>7. /\ new \in Seq(Tasks) /\ DOMAIN new = 1 .. Len(plan) - k + 3
      /\ new[1] = "reconcile" /\ new[2] = "protect" /\ new[3] = "verdict"
      /\ \A j \in DOMAIN new : j > 3 => j - 3 \in 1 .. Len(plan) - k /\ new[j] = rest[j - 3]
  <2>1. first \in Seq(Tasks) /\ Len(first) = 3
    BY DEF Tasks
  <2> QED
    BY <1>1, <1>6, <2>1
<1>8. Recovery(plan) = new
  BY <1>5 DEF Recovery
<1> HIDE DEF new
<1> QED
  BY <1>1, <1>2, <1>6, <1>7, <1>8

\* The plan of a recovery is one, and begins with the reconciliation.
LEMMA RecoveryPlan ==
  ASSUME NEW plan, PlanOK(plan), "endFlatten" \in Range(plan)
  PROVE  /\ PlanOK(Recovery(plan))
         /\ Recovery(plan) # <<>> /\ Head(Recovery(plan)) = "reconcile"
<1> DEFINE new == Recovery(plan)
<1>1. PICK k \in DOMAIN plan :
        /\ plan[k] = "endFlatten" /\ DOMAIN plan = 1 .. Len(plan) /\ Len(plan) \in Nat
        /\ new \in Seq(Tasks) /\ DOMAIN new = 1 .. Len(plan) - k + 3
        /\ new[1] = "reconcile" /\ new[2] = "protect" /\ new[3] = "verdict"
        /\ \A j \in DOMAIN new : j > 3 => k + (j - 3) \in DOMAIN plan /\ new[j] = plan[k + (j - 3)]
  BY RecoveryParts
<1> HIDE DEF new
<1>2. ASSUME NEW j \in DOMAIN new
      PROVE  j = 1 \/ j = 2 \/ j = 3 \/ (j > 3 /\ new[j] # "submit" /\ new[j] \notin Exits)
  <2>1. j \in Int /\ 1 <= j
    BY <1>1
  <2>2. CASE j > 3
    BY <1>1, <2>2 DEF PlanOK, Exits
  <2> QED
    BY <2>1, <2>2
<1>3. PlanOK(new)
  <2>1. \A j \in DOMAIN new : new[j] = "submit" => j = 1
    BY <1>1, <1>2
  <2>2. \A j \in DOMAIN new : new[j] \in Exits => j = 3
    BY <1>1, <1>2 DEF Exits
  <2>3. \A i, j \in DOMAIN new : new[j] = "verdict" /\ i < j => new[i] \in Recovering
    BY <1>1, <1>2, <2>2 DEF Exits, Recovering
  <2> QED
    BY <1>1, <2>1, <2>2, <2>3 DEF PlanOK
<1>4. new # <<>> /\ Head(new) = "reconcile"
  <2>1. Len(new) \in Nat /\ Len(new) >= 3
    BY <1>1
  <2> QED
    BY <1>1, <2>1
<1> QED
  BY <1>3, <1>4 DEF new

-----------------------------------------------------------------------------
(* The journal                                                             *)

\* The types of the journal and of the venue.
Rows ==
  /\ journal \in Seq(JournalRow) /\ venue \in Seq(VenueRow) /\ Len(venue) = Len(journal)

RowTypes ==
  /\ Len(journal) \in Nat /\ DOMAIN journal = 1 .. Len(journal)
  /\ DOMAIN venue = DOMAIN journal /\ IsFiniteSet(DOMAIN journal)
  /\ \A i \in DOMAIN journal :
       /\ journal[i].filled \in Nat /\ journal[i].status \in Statuses
       /\ journal[i].kind \in {"maker", "ioc", "stop"} /\ journal[i].known \in BOOLEAN
       /\ journal[i].quantity \in Nat
       /\ venue[i] \in VenueRow /\ venue[i].executed \in Nat

\* The types of the rows, one by one.
LEMMA RowFacts == Rows => RowTypes
<1> SUFFICES ASSUME Rows PROVE RowTypes
  OBVIOUS
<1>1. DOMAIN journal = 1 .. Len(journal) /\ DOMAIN venue = 1 .. Len(venue) /\ Len(journal) \in Nat
  BY DEF Rows
<1>2. \A i \in DOMAIN journal : journal[i] \in JournalRow
  BY DEF Rows
<1>3. \A i \in DOMAIN venue : venue[i] \in VenueRow
  BY DEF Rows
<1>4. IsFiniteSet(DOMAIN journal)
  BY <1>1, FS_Interval
<1> QED
  BY <1>1, <1>2, <1>3, <1>4 DEF RowTypes, Rows, JournalRow, VenueRow

\* Only row i changes, in what a venue's answer or its absence changes.
RowBecomes(i, k, f, s) ==
  \/ journal' = [journal EXCEPT ![i].known = k, ![i].filled = f, ![i].status = s]
  \/ journal' = [journal EXCEPT ![i].known = k] /\ f = journal[i].filled /\ s = journal[i].status
  \/ journal' = [journal EXCEPT ![i].status = s] /\ f = journal[i].filled /\ k = journal[i].known
  \/ /\ journal' = journal
     /\ k = journal[i].known /\ f = journal[i].filled /\ s = journal[i].status

\* A row that changes keeps its kind and its quantity, and the others stay.
LEMMA RowSet ==
  ASSUME Rows, NEW i \in DOMAIN journal, NEW k \in BOOLEAN, NEW f \in Nat, NEW s \in Statuses,
         RowBecomes(i, k, f, s)
  PROVE  /\ journal' \in Seq(JournalRow)
         /\ Len(journal') = Len(journal) /\ DOMAIN journal' = DOMAIN journal
         /\ \A j \in DOMAIN journal : j # i => journal'[j] = journal[j]
         /\ journal'[i].known = k /\ journal'[i].filled = f /\ journal'[i].status = s
         /\ journal'[i].kind = journal[i].kind /\ journal'[i].quantity = journal[i].quantity
<1> DEFINE r == [kind |-> journal[i].kind, quantity |-> journal[i].quantity, status |-> s,
                 known |-> k, filled |-> f]
<1>1. journal[i] \in JournalRow /\ i \in 1 .. Len(journal)
  BY DEF Rows
<1>2. journal[i] = [kind |-> journal[i].kind, quantity |-> journal[i].quantity,
                    status |-> journal[i].status, known |-> journal[i].known,
                    filled |-> journal[i].filled]
  BY <1>1 DEF JournalRow
<1>3. r \in JournalRow
  BY <1>1 DEF JournalRow
<1>4. journal' = [journal EXCEPT ![i] = r]
  <2>1. CASE /\ journal' = journal
             /\ k = journal[i].known /\ f = journal[i].filled /\ s = journal[i].status
    <3>1. r = journal[i]
      BY <1>2, <2>1
    <3> HIDE DEF r
    <3> QED
      BY <2>1, <3>1 DEF Rows
  <2>2. CASE journal' = [journal EXCEPT ![i].known = k, ![i].filled = f, ![i].status = s]
    <3> DEFINE one == [journal[i] EXCEPT !.known = k]
               two == [one EXCEPT !.filled = f]
    <3>1. one = [kind |-> journal[i].kind, quantity |-> journal[i].quantity,
                 status |-> journal[i].status, known |-> k, filled |-> journal[i].filled]
      BY <1>2
    <3>2. two = [kind |-> journal[i].kind, quantity |-> journal[i].quantity,
                 status |-> journal[i].status, known |-> k, filled |-> f]
      <4> HIDE DEF one
      <4> QED
        BY <3>1
    <3>3. [two EXCEPT !.status = s] = r
      <4> HIDE DEF two
      <4> QED
        BY <3>2
    <3>4. [journal[i] EXCEPT !.known = k, !.filled = f, !.status = s] = r
      BY <3>3
    <3>5. journal' = [journal EXCEPT ![i] = [journal[i] EXCEPT !.known = k, !.filled = f, !.status = s]]
      BY <2>2
    <3> QED
      BY <3>4, <3>5
  <2>3. CASE /\ journal' = [journal EXCEPT ![i].known = k]
             /\ f = journal[i].filled /\ s = journal[i].status
    <3>1. [journal[i] EXCEPT !.known = k] = r
      BY <1>2, <2>3
    <3>2. journal' = [journal EXCEPT ![i] = [journal[i] EXCEPT !.known = k]]
      BY <2>3
    <3> QED
      BY <3>1, <3>2
  <2>4. CASE /\ journal' = [journal EXCEPT ![i].status = s]
             /\ f = journal[i].filled /\ k = journal[i].known
    <3>1. [journal[i] EXCEPT !.status = s] = r
      BY <1>2, <2>4
    <3>2. journal' = [journal EXCEPT ![i] = [journal[i] EXCEPT !.status = s]]
      BY <2>4
    <3> QED
      BY <3>1, <3>2
  <2> QED
    BY <2>1, <2>2, <2>3, <2>4 DEF RowBecomes
<1> HIDE DEF r
<1>5. /\ [journal EXCEPT ![i] = r] \in Seq(JournalRow)
      /\ Len([journal EXCEPT ![i] = r]) = Len(journal)
      /\ \A j \in 1 .. Len(journal) : [journal EXCEPT ![i] = r][j] = IF j = i THEN r ELSE journal[j]
  BY <1>1, <1>3, ExceptSeq DEF Rows
<1>6. /\ journal' \in Seq(JournalRow) /\ Len(journal') = Len(journal)
      /\ \A j \in 1 .. Len(journal) : journal'[j] = IF j = i THEN r ELSE journal[j]
  BY <1>4, <1>5
<1>7. DOMAIN journal' = DOMAIN journal
  BY <1>6 DEF Rows
<1> QED
  BY <1>1, <1>6, <1>7 DEF r

\* Only what the venue has of order i changes.
LEMMA VenueSet ==
  ASSUME Rows, NEW i \in DOMAIN journal, NEW r \in VenueRow, venue' = [venue EXCEPT ![i] = r]
  PROVE  /\ venue' \in Seq(VenueRow) /\ Len(venue') = Len(venue)
         /\ \A j \in DOMAIN journal : venue'[j] = IF j = i THEN r ELSE venue[j]
<1>1. venue \in Seq(VenueRow) /\ DOMAIN venue = DOMAIN journal /\ DOMAIN venue = 1 .. Len(venue)
  BY RowFacts DEF Rows, RowTypes
<1>2. i \in 1 .. Len(venue)
  BY <1>1
<1>3. /\ [venue EXCEPT ![i] = r] \in Seq(VenueRow)
      /\ Len([venue EXCEPT ![i] = r]) = Len(venue)
      /\ \A j \in 1 .. Len(venue) : [venue EXCEPT ![i] = r][j] = IF j = i THEN r ELSE venue[j]
  BY <1>1, <1>2, ExceptSeq
<1> QED
  BY <1>1, <1>3

-----------------------------------------------------------------------------
(* The accounts                                                            *)

\* What order i may still come to, and what that means for the three sums.
Pending(i) == venue[i].state \in {"unsent", "wire", "live"}
Potential(i) == IF Pending(i) THEN journal[i].quantity ELSE venue[i].executed
Executed == [i \in DOMAIN journal |-> Sign(journal[i].kind) * venue[i].executed]
Booked == [i \in DOMAIN journal |-> Sign(journal[i].kind) * journal[i].filled]
Promised == [i \in DOMAIN journal |->
              IF journal[i].kind = "maker" THEN 0 ELSE Potential(i) - journal[i].filled]

\* The ledger and the balance are the sums of their orders, and no more is promised to
\* buyers than the ledger holds.
Accounts ==
  /\ ledger = Sum(Booked, DOMAIN journal)
  /\ inventory = Sum(Executed, DOMAIN journal)
  /\ Sum(Promised, DOMAIN journal) <= ledger

\* What the journal says of order i is true (see JournalSound), and the venue keeps to the
\* quantity.
RowSound(i) ==
  /\ venue[i].state \in {"unsent", "wire", "live"} => i \in ActiveOrders
  /\ journal[i].status = "done" => venue[i].state = "ended"
  /\ journal[i].status = "rejected" => venue[i].state = "never"
  /\ journal[i].filled <= venue[i].executed
  /\ journal[i].status = "done" => journal[i].filled = venue[i].executed
RowBounded(i) ==
  /\ journal[i].quantity > 0 /\ venue[i].executed <= journal[i].quantity
  /\ venue[i].state = "live" => venue[i].executed < journal[i].quantity
  /\ venue[i].state \in {"unsent", "wire", "never"} => venue[i].executed = 0

JournalInv ==
  /\ Rows /\ Accounts
  /\ \A i \in DOMAIN journal : RowSound(i) /\ RowBounded(i)

\* JournalInv is stronger than the property.
LEMMA InvIsSound == ASSUME JournalInv PROVE JournalSound
BY DEF JournalInv, JournalSound, RowSound

\* An entry adds to the ledger, a sale takes from it.
LEMMA SignedIs ==
  ASSUME NEW kind, NEW x \in Int
  PROVE  Sign(kind) * x = (IF kind = "maker" THEN x ELSE -x) /\ Sign(kind) * x \in Int
BY DEF Sign

\* The types of the summands.
WeightTypes ==
  \A i \in DOMAIN journal :
    /\ Executed[i] \in Int /\ Booked[i] \in Int /\ Promised[i] \in Int
    /\ Executed[i] = (IF journal[i].kind = "maker" THEN venue[i].executed ELSE -venue[i].executed)
    /\ Booked[i] = (IF journal[i].kind = "maker" THEN journal[i].filled ELSE -journal[i].filled)

\* The summands are integers.
LEMMA WeightsAreInt == Rows => WeightTypes
<1> SUFFICES ASSUME Rows, NEW i \in DOMAIN journal
             PROVE  /\ Executed[i] \in Int /\ Booked[i] \in Int /\ Promised[i] \in Int
                    /\ Executed[i] = (IF journal[i].kind = "maker" THEN venue[i].executed
                                      ELSE -venue[i].executed)
                    /\ Booked[i] = (IF journal[i].kind = "maker" THEN journal[i].filled
                                    ELSE -journal[i].filled)
  BY DEF WeightTypes
<1>1. venue[i].executed \in Int /\ journal[i].filled \in Int /\ journal[i].quantity \in Int
  BY RowFacts DEF RowTypes
<1>2. /\ Executed[i] = Sign(journal[i].kind) * venue[i].executed
      /\ Booked[i] = Sign(journal[i].kind) * journal[i].filled
  BY DEF Executed, Booked
<1>3. Promised[i] \in Int
  BY <1>1 DEF Promised, Potential
<1> QED
  BY <1>1, <1>2, <1>3, SignedIs

\* No step forgets a row, or what the venue has executed, and what is over stays over.
Moves ==
  /\ DOMAIN journal \subseteq DOMAIN journal'
  /\ \A i \in DOMAIN journal :
       /\ Here(i) => Here(i)' /\ venue[i].executed <= venue'[i].executed
       /\ venue[i].state = "ended" => venue'[i] = venue[i]
       /\ Pending(i)' => Pending(i)
       /\ ~Pending(i) => venue'[i].executed = venue[i].executed
       /\ journal'[i].kind = journal[i].kind /\ journal[i].filled <= journal'[i].filled

JournalStep == JournalInv' /\ Moves

\* Where the journal, the ledger and the venue stay, so does what is true of them.
LEMMA NothingMoves ==
  ASSUME JournalInv, UNCHANGED <<journal, ledger, venue, inventory>>
  PROVE  JournalStep
<1>1. \A i \in DOMAIN journal :
        venue[i].executed <= venue[i].executed /\ journal[i].filled <= journal[i].filled
  BY RowFacts DEF JournalInv, RowTypes
<1>2. Moves
  BY <1>1 DEF Moves, Here, Pending
<1> QED
  BY <1>2 DEF JournalStep, JournalInv, Rows, RowSound, RowBounded, ActiveOrders, Accounts, Booked,
              Executed, Promised, Potential, Pending

\* A step on one order: it promises no more than before, and the ledger and the balance
\* follow it.
RowStep(i) ==
  /\ Rows' /\ DOMAIN journal' = DOMAIN journal
  /\ \A j \in DOMAIN journal : j # i => journal'[j] = journal[j] /\ venue'[j] = venue[j]
  /\ journal'[i].kind = journal[i].kind /\ journal'[i].quantity = journal[i].quantity
  /\ RowSound(i)' /\ RowBounded(i)'
  /\ venue[i].executed <= venue'[i].executed
  /\ Here(i) => Here(i)'
  /\ venue[i].state = "ended" => venue'[i] = venue[i]
  /\ Potential(i)' <= Potential(i)
  /\ journal[i].filled <= journal'[i].filled
  /\ ledger' = ledger + Sign(journal[i].kind) * (journal'[i].filled - journal[i].filled)
  /\ inventory' = inventory + Sign(journal[i].kind) * (venue'[i].executed - venue[i].executed)

\* A step on one order keeps the accounts: the sums change by the change of its summand.
LEMMA RowStepKeeps ==
  ASSUME JournalInv, NEW i \in DOMAIN journal, RowStep(i)
  PROVE  JournalStep
<1> DEFINE D == DOMAIN journal
<1>1. /\ Rows /\ Rows' /\ DOMAIN journal' = D /\ IsFiniteSet(D) /\ DOMAIN venue = D
      /\ \A j \in D : RowSound(j) /\ RowBounded(j)
      /\ \A j \in D : j # i => journal'[j] = journal[j] /\ venue'[j] = venue[j]
  BY RowFacts DEF JournalInv, RowStep, RowTypes
<1>2. \A j \in D : (RowSound(j) /\ RowBounded(j))'
  <2> TAKE j \in D
  <2>1. CASE j = i
    BY <2>1 DEF RowStep
  <2>2. CASE j # i
    BY <1>1, <2>2 DEF RowSound, RowBounded, ActiveOrders
  <2> QED
    BY <2>1, <2>2
<1>3. \A j \in D : /\ Executed[j] \in Int /\ Booked[j] \in Int /\ Promised[j] \in Int
                   /\ Executed'[j] \in Int /\ Booked'[j] \in Int /\ Promised'[j] \in Int
  <2>1. \A j \in D : Executed[j] \in Int /\ Booked[j] \in Int /\ Promised[j] \in Int
    BY <1>1, WeightsAreInt DEF WeightTypes
  <2>2. (\A j \in DOMAIN journal : Executed[j] \in Int /\ Booked[j] \in Int /\ Promised[j] \in Int)'
    <3>1. WeightTypes'
      BY <1>1, WeightsAreInt, PTL
    <3> QED
      BY <3>1 DEF WeightTypes
  <2> QED
    BY <1>1, <2>1, <2>2
<1>4. \A j \in D : j # i => /\ Executed[j] = Executed'[j] /\ Booked[j] = Booked'[j]
                            /\ Promised[j] = Promised'[j]
  BY <1>1 DEF Executed, Booked, Promised, Potential, Pending
<1>5. Sum(Executed', D) = Sum(Executed, D) + Executed'[i] - Executed[i]
  BY <1>1, <1>3, <1>4, SumChange
<1>6. Sum(Booked', D) = Sum(Booked, D) + Booked'[i] - Booked[i]
  BY <1>1, <1>3, <1>4, SumChange
<1>7. Sum(Promised', D) = Sum(Promised, D) + Promised'[i] - Promised[i]
  BY <1>1, <1>3, <1>4, SumChange
<1>8. Sum(Executed, D) \in Int /\ Sum(Booked, D) \in Int /\ Sum(Promised, D) \in Int
  BY <1>1, <1>3, SumInt
<1>9. /\ journal[i].filled \in Int /\ journal'[i].filled \in Int /\ venue[i].executed \in Int
      /\ venue'[i].executed \in Int /\ Potential(i) \in Int /\ Potential(i)' \in Int
  <2>1. (\A j \in DOMAIN journal : journal[j].filled \in Nat /\ venue[j].executed \in Nat
                                     /\ journal[j].quantity \in Nat)'
    <3>1. RowTypes'
      BY <1>1, RowFacts, PTL
    <3> QED
      BY <3>1 DEF RowTypes
  <2> QED
    BY <1>1, <2>1, RowFacts DEF Potential, RowTypes
<1> DEFINE k == journal[i].kind
<1>10. /\ Sign(k) * (journal'[i].filled - journal[i].filled)
            = Sign(k) * journal'[i].filled - Sign(k) * journal[i].filled
       /\ Sign(k) * (venue'[i].executed - venue[i].executed)
            = Sign(k) * venue'[i].executed - Sign(k) * venue[i].executed
  BY <1>9 DEF Sign
<1>11. /\ Executed'[i] = Sign(k) * venue'[i].executed /\ Executed[i] = Sign(k) * venue[i].executed
       /\ Booked'[i] = Sign(k) * journal'[i].filled /\ Booked[i] = Sign(k) * journal[i].filled
  BY <1>1 DEF Executed, Booked, RowStep
<1>12. ledger' = Sum(Booked', D) /\ inventory' = Sum(Executed', D)
  BY <1>3, <1>5, <1>6, <1>8, <1>10, <1>11 DEF JournalInv, Accounts, RowStep
<1>13. Promised'[i] - Promised[i] <= Booked'[i] - Booked[i]
  <2>1. CASE k = "maker"
    <3>1. Promised'[i] = 0 /\ Promised[i] = 0
      BY <1>1, <2>1 DEF Promised, RowStep
    <3>2. Booked'[i] = journal'[i].filled /\ Booked[i] = journal[i].filled
      BY <1>9, <1>11, <2>1, SignedIs
    <3> QED
      BY <1>9, <3>1, <3>2 DEF RowStep
  <2>2. CASE k # "maker"
    <3>1. /\ Promised'[i] = Potential(i)' - journal'[i].filled
          /\ Promised[i] = Potential(i) - journal[i].filled
      BY <1>1, <2>2 DEF Promised, RowStep
    <3>2. Booked'[i] = -journal'[i].filled /\ Booked[i] = -journal[i].filled
      BY <1>9, <1>11, <2>2, SignedIs
    <3>3. Potential(i)' <= Potential(i)
      BY DEF RowStep
    <3> HIDE DEF k
    <3> QED
      BY <1>9, <3>1, <3>2, <3>3
  <2> QED
    BY <2>1, <2>2
<1>14. Sum(Promised', D) <= ledger'
  BY <1>3, <1>6, <1>7, <1>8, <1>12, <1>13 DEF JournalInv, Accounts
<1>15. Accounts'
  BY <1>1, <1>12, <1>14 DEF Accounts
<1>16. Moves
  <2>1. Pending(i)' => Pending(i)
    <3> SUFFICES ASSUME Pending(i)', ~Pending(i)
                 PROVE  FALSE
      OBVIOUS
    <3>1. Potential(i)' = journal[i].quantity /\ Potential(i) = venue[i].executed
      BY DEF Potential, RowStep
    <3>2. venue[i].state \in {"ended", "never"} /\ journal[i].quantity \in Nat
      BY <1>1, RowFacts DEF Pending, RowTypes, VenueRow
    <3>3. venue[i].state = "never"
      BY <3>2 DEF RowStep, Pending
    <3>4. venue[i].executed = 0 /\ journal[i].quantity > 0
      BY <1>1, <3>3 DEF RowBounded
    <3> QED
      BY <3>1, <3>2, <3>4 DEF RowStep
  <2>2. \A j \in D : j # i => (Pending(j)' => Pending(j)) /\ journal'[j].kind = journal[j].kind
    BY <1>1 DEF Pending
  <2>3. \A j \in D : journal[j].filled <= journal'[j].filled /\ venue[j].executed <= venue'[j].executed
    <3>1. \A j \in D : journal[j].filled \in Nat /\ venue[j].executed \in Nat
      BY <1>1, RowFacts DEF RowTypes
    <3> QED
      BY <1>1, <3>1 DEF RowStep
  <2>4. \A j \in D : /\ Here(j) => Here(j)'
                     /\ venue[j].state = "ended" => venue'[j] = venue[j]
    BY <1>1 DEF RowStep, Here
  <2>5. \A j \in D : ~Pending(j) => venue'[j].executed = venue[j].executed
    <3>1. ~Pending(i) => Potential(i)' = venue'[i].executed /\ Potential(i) = venue[i].executed
      BY <2>1 DEF Potential
    <3> QED
      BY <1>1, <1>9, <3>1 DEF RowStep
  <2> QED
    BY <1>1, <2>1, <2>2, <2>3, <2>4, <2>5 DEF Moves, RowStep
<1> QED
  BY <1>1, <1>2, <1>15, <1>16 DEF JournalStep, JournalInv

\* An answer applied late is as good as one applied at once, if it takes no live order for
\* finished and counts no more than has been executed and no less than has been booked.
LEMMA AppliedKeeps ==
  ASSUME JournalInv, NEW i \in DOMAIN journal, NEW live \in BOOLEAN, NEW e \in Nat,
         Applied(i, live, e), UNCHANGED <<venue, inventory>>,
         Here(i), journal[i].filled <= e, e <= venue[i].executed,
         ~live => venue[i].state = "ended" /\ e = venue[i].executed
  PROVE  JournalStep
<1> DEFINE s == IF live THEN "open" ELSE "done"
<1>1. s \in Statuses /\ TRUE \in BOOLEAN /\ Rows
  BY DEF Statuses, JournalInv
<1>2. PICK k \in BOOLEAN : RowBecomes(i, k, e, s)
  BY <1>1 DEF Applied, RowBecomes
<1> HIDE DEF s
<1>3. /\ journal' \in Seq(JournalRow)
      /\ Len(journal') = Len(journal) /\ DOMAIN journal' = DOMAIN journal
      /\ \A j \in DOMAIN journal : j # i => journal'[j] = journal[j]
      /\ journal'[i].filled = e /\ journal'[i].status = s
      /\ journal'[i].kind = journal[i].kind /\ journal'[i].quantity = journal[i].quantity
  BY <1>1, <1>2, RowSet
<1>4. Rows'
  BY <1>1, <1>3 DEF Rows
<1>5. venue[i].state \in {"live", "ended"} /\ venue[i].executed \in Nat /\ journal[i].quantity \in Nat
  BY <1>1, RowFacts DEF Here, RowTypes
<1>6. RowSound(i)' /\ RowBounded(i)'
  <2>1. RowSound(i) /\ RowBounded(i)
    BY DEF JournalInv
  <2> QED
    BY <1>3, <1>5, <2>1 DEF RowSound, RowBounded, ActiveOrders, s
<1>7. ledger' = ledger + Sign(journal[i].kind) * (journal'[i].filled - journal[i].filled)
  BY <1>3 DEF Applied
<1>8. inventory' = inventory + Sign(journal[i].kind) * (venue'[i].executed - venue[i].executed)
  <2>1. inventory \in Int
    BY <1>1, RowFacts, WeightsAreInt, SumInt DEF RowTypes, WeightTypes, JournalInv, Accounts
  <2> QED
    BY <1>5, <2>1 DEF Sign
<1>9. Potential(i)' <= Potential(i)
  BY <1>3, <1>5 DEF Potential, Pending
<1>10. RowStep(i)
  BY <1>3, <1>4, <1>5, <1>6, <1>7, <1>8, <1>9 DEF RowStep, Here
<1> QED
  BY <1>10, RowStepKeeps

\* The venue's answer about order i as it stands.
LEMMA AppliedNow ==
  ASSUME JournalInv, NEW i \in DOMAIN journal, Here(i), UNCHANGED <<venue, inventory>>,
         Applied(i, venue[i].state = "live", venue[i].executed)
  PROVE  JournalStep
<1>1. venue[i].executed \in Nat /\ venue[i].executed <= venue[i].executed
  BY RowFacts DEF JournalInv, RowTypes
<1>2. (venue[i].state = "live") \in BOOLEAN /\ journal[i].filled <= venue[i].executed
  BY DEF JournalInv, RowSound
<1>3. venue[i].state # "live" => venue[i].state = "ended"
  BY DEF Here
<1> QED
  BY <1>1, <1>2, <1>3, AppliedKeeps

\* What only changes what the venue has of one order.
VenueBecomes(i, r) ==
  /\ UNCHANGED <<journal, ledger>> /\ venue' = [venue EXCEPT ![i] = r]
  /\ inventory' = inventory + Sign(journal[i].kind) * (r.executed - venue[i].executed)
  /\ venue[i].executed <= r.executed /\ r.executed <= journal[i].quantity
  /\ Pending(i) /\ (Here(i) => r.state \in {"live", "ended"})
  /\ r.state = "live" => r.executed < journal[i].quantity
  /\ r.state \in {"unsent", "wire", "never"} => r.executed = 0

\* The venue acts on one order, and the journal does not know it yet.
LEMMA VenueKeeps ==
  ASSUME JournalInv, NEW i \in DOMAIN journal, NEW r \in VenueRow, VenueBecomes(i, r)
  PROVE  JournalStep
<1> USE DEF VenueBecomes
<1>1. Rows /\ RowSound(i) /\ RowBounded(i)
  BY DEF JournalInv
<1>2. /\ venue' \in Seq(VenueRow) /\ Len(venue') = Len(venue)
      /\ \A j \in DOMAIN journal : venue'[j] = IF j = i THEN r ELSE venue[j]
  BY <1>1, VenueSet
<1>3. Rows'
  BY <1>1, <1>2 DEF Rows
<1>4. venue[i].executed \in Nat /\ r.executed \in Nat /\ journal[i].quantity \in Nat /\ ledger \in Int
      /\ journal[i].filled \in Nat
  BY <1>1, RowFacts, WeightsAreInt, SumInt DEF RowTypes, WeightTypes, JournalInv, Accounts, VenueRow
<1>5. RowSound(i)' /\ RowBounded(i)'
  BY <1>1, <1>2, <1>4 DEF RowSound, RowBounded, ActiveOrders, Pending
<1>6. Potential(i)' <= Potential(i)
  BY <1>2, <1>4 DEF Potential, Pending
<1>7. ledger' = ledger + Sign(journal[i].kind) * (journal'[i].filled - journal[i].filled)
  BY <1>4 DEF Sign
<1>8. journal[i].filled <= journal'[i].filled
  BY <1>4
<1>9. RowStep(i)
  BY <1>2, <1>3, <1>5, <1>6, <1>7, <1>8 DEF RowStep, Here, Pending
<1> QED
  BY <1>9, RowStepKeeps

\* The ledger and the balance are integers.
LEMMA InventoryInt == JournalInv => inventory \in Int /\ ledger \in Int
BY RowFacts, WeightsAreInt, SumInt DEF RowTypes, WeightTypes, JournalInv, Accounts

\* The venue lets a resting order go.
LEMMA EndingKeeps ==
  ASSUME JournalInv, NEW i \in DOMAIN journal, venue' \in {venue, Ended(i)},
         UNCHANGED <<journal, ledger, inventory>>
  PROVE  JournalStep
<1>1. CASE venue' = venue
  BY <1>1, NothingMoves
<1>2. CASE venue[i].state = "live" /\ venue' = [venue EXCEPT ![i].state = "ended"]
  <2> DEFINE r == [state |-> "ended", executed |-> venue[i].executed]
  <2>1. /\ venue[i].executed \in Nat /\ venue[i] \in VenueRow /\ RowBounded(i)
        /\ inventory \in Int /\ Pending(i)
    BY <1>2, RowFacts, InventoryInt DEF JournalInv, RowTypes, Pending
  <2>2. r \in VenueRow /\ venue' = [venue EXCEPT ![i] = r]
    BY <1>2, <2>1 DEF VenueRow
  <2>3. r.state = "ended" /\ r.executed = venue[i].executed
    OBVIOUS
  <2> HIDE DEF r
  <2>4. inventory' = inventory + Sign(journal[i].kind) * (r.executed - venue[i].executed)
    BY <2>1, <2>3 DEF Sign
  <2> QED
    <3>1. /\ r.executed <= journal[i].quantity /\ venue[i].executed <= r.executed
          /\ UNCHANGED <<journal, ledger>>
      BY <2>1, <2>3 DEF RowBounded
    <3>2. VenueBecomes(i, r)
      BY <2>1, <2>2, <2>3, <2>4, <3>1 DEF VenueBecomes
    <3> QED
      BY <2>2, <3>2, VenueKeeps
<1> QED
  BY <1>1, <1>2 DEF Ended

\* A fill at the venue keeps the accounts.
LEMMA FillKeeps ==
  ASSUME JournalInv, NEW i \in DOMAIN journal, VenueFills(i)
  PROVE  JournalStep
<1> DEFINE e == venue[i].executed + 1
           r == [state |-> IF e = journal[i].quantity THEN "ended" ELSE "live", executed |-> e]
<1>1. /\ venue[i].executed \in Nat /\ journal[i].quantity \in Nat
      /\ venue[i].executed < journal[i].quantity
      /\ venue[i].state = "live" /\ UNCHANGED <<journal, ledger>> /\ Pending(i)
  BY RowFacts DEF JournalInv, RowTypes, VenueFills, store, Pending, RowBounded
<1>2. /\ r \in VenueRow /\ venue' = [venue EXCEPT ![i] = r] /\ r.executed = venue[i].executed + 1
      /\ r.state = IF r.executed = journal[i].quantity THEN "ended" ELSE "live"
  BY <1>1 DEF VenueRow, VenueFills
<1> HIDE DEF r, e
<1>3. inventory' = inventory + Sign(journal[i].kind) * (r.executed - venue[i].executed)
  <2>1. inventory' = inventory + Sign(journal[i].kind)
    BY DEF VenueFills
  <2>2. r.executed - venue[i].executed = 1 /\ Sign(journal[i].kind) * 1 = Sign(journal[i].kind)
    BY <1>1, <1>2 DEF Sign
  <2> QED
    BY <2>1, <2>2
<1> QED
  <2>1. VenueBecomes(i, r)
    BY <1>1, <1>2, <1>3 DEF VenueBecomes
  <2> QED
    BY <1>2, <2>1, VenueKeeps

\* A creation reaches the venue, is refused, or stays on its way.
OnItsWay(i) == venue' = [venue EXCEPT ![i].state = "wire"] /\ UNCHANGED inventory
Answered(i) == Accept(i) \/ Refuse(i) \/ OnItsWay(i)

\* What the venue has of an order whose creation has been answered or lost.
AnsweredAs(i, r) ==
  /\ venue' = [venue EXCEPT ![i] = r]
  /\ inventory' = inventory + Sign(journal[i].kind) * r.executed
  /\ r.state \in {"wire", "live", "ended", "never"} /\ r.executed <= journal[i].quantity
  /\ r.state \in {"wire", "live", "never"} => r.executed = 0
  /\ (Accept(i) => r.state \in {"live", "ended"}) /\ (Refuse(i) => r.state = "never")

\* What the venue has of an order whose creation has been answered or lost is one of these.
LEMMA AnsweredVenue ==
  ASSUME JournalInv, NEW i \in DOMAIN journal, venue[i].state \in {"unsent", "wire"}, Answered(i)
  PROVE  \E r \in VenueRow : AnsweredAs(i, r)
<1>1. /\ Rows /\ venue[i].executed = 0 /\ venue[i] \in VenueRow /\ i \in DOMAIN venue
      /\ journal[i].quantity \in Nat /\ inventory \in Int
      /\ venue \in Seq(VenueRow) /\ journal[i].kind \in {"maker", "ioc", "stop"}
  BY RowFacts, InventoryInt DEF JournalInv, RowTypes, RowBounded, Rows
<1>2. venue[i] = [state |-> venue[i].state, executed |-> 0]
  BY <1>1 DEF VenueRow
<1>3. \A s : [venue[i] EXCEPT !.state = s] = [state |-> s, executed |-> 0]
  BY <1>2
<1>4. Sign(journal[i].kind) * 0 = 0
  BY DEF Sign
<1>5. ~(Accept(i) /\ Refuse(i))
  <2> SUFFICES ASSUME Accept(i), Refuse(i)
               PROVE  FALSE
    OBVIOUS
  <2>1. venue'[i].state = "never"
    BY <1>1, <1>3 DEF Refuse
  <2>2. PICK x : venue' = [venue EXCEPT ![i] =
                   [state |-> IF journal[i].kind = "ioc" THEN "ended" ELSE "live", executed |-> x]]
    BY DEF Accept
  <2>3. venue'[i].state = IF journal[i].kind = "ioc" THEN "ended" ELSE "live"
    BY <1>1, <2>2
  <2> QED
    BY <2>1, <2>3
<1>6. CASE Accept(i)
  <2>1. PICK x \in IF journal[i].kind = "ioc" THEN 0..journal[i].quantity ELSE {0} :
          /\ venue' = [venue EXCEPT ![i] =
               [state |-> IF journal[i].kind = "ioc" THEN "ended" ELSE "live", executed |-> x]]
          /\ inventory' = inventory - x
    BY <1>6 DEF Accept
  <2> DEFINE r == [state |-> IF journal[i].kind = "ioc" THEN "ended" ELSE "live", executed |-> x]
  <2>2. x \in Nat /\ x <= journal[i].quantity /\ (journal[i].kind # "ioc" => x = 0)
    BY <1>1, <2>1
  <2>3. r \in VenueRow /\ r.executed = x /\ r.state = IF journal[i].kind = "ioc" THEN "ended" ELSE "live"
    BY <2>2 DEF VenueRow
  <2>4. venue' = [venue EXCEPT ![i] = r]
    BY <2>1
  <2> HIDE DEF r
  <2>5. inventory' = inventory + Sign(journal[i].kind) * x
    <3>1. CASE journal[i].kind = "ioc"
      BY <1>1, <2>1, <2>2, <3>1 DEF Sign
    <3>2. CASE journal[i].kind # "ioc"
      BY <1>1, <1>4, <2>1, <2>2, <3>2
    <3> QED
      BY <3>1, <3>2
  <2>6. AnsweredAs(i, r)
    BY <1>5, <1>6, <2>2, <2>3, <2>4, <2>5 DEF AnsweredAs
  <2> QED
    BY <2>3, <2>6
<1>7. CASE ~Accept(i)
  <2>1. PICK s \in {"never", "wire"} :
          /\ venue' = [venue EXCEPT ![i].state = s] /\ UNCHANGED inventory
          /\ Refuse(i) => s = "never"
    BY <1>7 DEF Answered, Refuse, OnItsWay
  <2> DEFINE r == [state |-> s, executed |-> 0]
  <2>2. r \in VenueRow /\ r.state = s /\ r.executed = 0
    BY DEF VenueRow
  <2>3. venue' = [venue EXCEPT ![i] = r]
    <3>1. [venue EXCEPT ![i].state = s] = [venue EXCEPT ![i] = [venue[i] EXCEPT !.state = s]]
      OBVIOUS
    <3>2. [venue[i] EXCEPT !.state = s] = r
      BY <1>3
    <3> QED
      BY <2>1, <3>1, <3>2
  <2> HIDE DEF r
  <2>4. inventory' = inventory + Sign(journal[i].kind) * r.executed
    BY <1>1, <1>4, <2>1, <2>2
  <2>5. Refuse(i) => r.state = "never"
    BY <2>1, <2>2
  <2>6. r.executed <= journal[i].quantity /\ r.state \in {"wire", "live", "ended", "never"}
    BY <1>1, <2>2
  <2>7. AnsweredAs(i, r)
    BY <1>7, <2>2, <2>3, <2>4, <2>5, <2>6 DEF AnsweredAs
  <2> QED
    BY <2>2, <2>7
<1> QED
  BY <1>6, <1>7

\* Whatever becomes of a creation, its row is right if it stays active, or is rejected when
\* the venue has refused it.
LEMMA AnsweredKeeps ==
  ASSUME JournalInv, NEW i \in DOMAIN journal, venue[i].state \in {"unsent", "wire"}, Answered(i),
         UNCHANGED ledger, NEW k \in BOOLEAN, NEW s \in Statuses,
         RowBecomes(i, k, journal[i].filled, s),
         s \in {journal[i].status, "unknown"} \/ (s = "rejected" /\ Refuse(i))
  PROVE  JournalStep
<1>1. /\ Rows /\ RowSound(i) /\ RowBounded(i) /\ ledger \in Int
      /\ journal[i].quantity \in Nat /\ journal[i].filled \in Nat /\ i \in ActiveOrders
  BY RowFacts, InventoryInt DEF JournalInv, RowTypes, RowSound
<1>2. venue[i].executed = 0 /\ journal[i].filled = 0
      /\ journal[i].status \in {"intent", "unknown", "open"}
  BY <1>1 DEF RowSound, RowBounded, ActiveOrders
<1>3. PICK r \in VenueRow : AnsweredAs(i, r)
  BY AnsweredVenue
<1>4. /\ venue' \in Seq(VenueRow) /\ Len(venue') = Len(venue)
      /\ \A j \in DOMAIN journal : venue'[j] = IF j = i THEN r ELSE venue[j]
  BY <1>1, <1>3, VenueSet DEF AnsweredAs
<1>5. /\ journal' \in Seq(JournalRow)
      /\ Len(journal') = Len(journal) /\ DOMAIN journal' = DOMAIN journal
      /\ \A j \in DOMAIN journal : j # i => journal'[j] = journal[j]
      /\ journal'[i].filled = 0 /\ journal'[i].status = s
      /\ journal'[i].kind = journal[i].kind /\ journal'[i].quantity = journal[i].quantity
  BY <1>1, <1>2, RowSet
<1>6. Rows'
  BY <1>1, <1>4, <1>5 DEF Rows
<1>7. r.executed \in Nat
  BY DEF VenueRow
<1>8. RowSound(i)' /\ RowBounded(i)'
  BY <1>1, <1>2, <1>3, <1>4, <1>5, <1>7 DEF RowSound, RowBounded, ActiveOrders, AnsweredAs
<1>9. Potential(i)' <= Potential(i)
  BY <1>1, <1>3, <1>4, <1>5 DEF Potential, Pending, AnsweredAs
<1>10. ledger' = ledger + Sign(journal[i].kind) * (journal'[i].filled - journal[i].filled)
  BY <1>1, <1>2, <1>5 DEF Sign
<1>11. inventory' = inventory + Sign(journal[i].kind) * (venue'[i].executed - venue[i].executed)
  BY <1>2, <1>3, <1>4, <1>7 DEF AnsweredAs
<1>12. RowStep(i)
  BY <1>2, <1>4, <1>5, <1>6, <1>7, <1>8, <1>9, <1>10, <1>11 DEF RowStep, Here
<1> QED
  BY <1>12, RowStepKeeps

-----------------------------------------------------------------------------
(* What is reserved covers what is promised                                *)

\* MapThenSumSet of a helper is the sum of its values.
Unfilled == [i \in DOMAIN journal |-> Remaining(i)]

\* The sum of what the journal says remains.
LEMMA RemainingSum ==
  ASSUME NEW S \in SUBSET DOMAIN journal, IsFiniteSet(S)
  PROVE  MapThenSumSet(Remaining, S) = Sum(Unfilled, S)
<1> DEFINE body(g) == [s \in SUBSET S |-> IF s = {} THEN 0 ELSE Remaining(Some(s)) + g[s \ {Some(s)}]]
           same(g) == [s \in SUBSET S |-> IF s = {} THEN 0 ELSE Unfilled[Some(s)] + g[s \ {Some(s)}]]
           iter == CHOOSE g : g = body(g)
<1>1. ASSUME NEW g PROVE body(g) = same(g)
  <2>1. ASSUME NEW s \in SUBSET S, s # {}
        PROVE  Unfilled[Some(s)] = Remaining(Some(s))
    <3>1. Some(s) \in DOMAIN journal
      BY <2>1, SomeIn
    <3> QED
      BY <3>1 DEF Unfilled
  <2> QED
    BY <2>1
<1>2. MapThenSumSet(Remaining, S) = iter[S]
  BY DEF MapThenSumSet, MapThenFoldSet, Some
<1>3. PICK f : IsFold(f, S, Unfilled)
  BY FoldExists
<1>4. f = same(f)
  BY <1>3 DEF IsFold
<1>5. f = body(f)
  BY <1>1, <1>4
<1>6. iter = body(iter)
  <2> HIDE DEF body
  <2> QED
    BY <1>5
<1>7. iter = same(iter)
  <2> HIDE DEF body, same, iter
  <2> QED
    BY <1>1, <1>6
<1>8. IsFold(iter, S, Unfilled)
  BY <1>7 DEF IsFold
<1> HIDE DEF iter
<1> QED
  BY <1>2, <1>8, SumIsFold

Unexecuted == [i \in DOMAIN journal |-> journal[i].quantity - venue[i].executed]

\* The sum of what the venue has not executed.
LEMMA UnexecutedSum ==
  ASSUME NEW S \in SUBSET DOMAIN journal, IsFiniteSet(S)
  PROVE  MapThenSumSet(LAMBDA i : journal[i].quantity - venue[i].executed, S) = Sum(Unexecuted, S)
<1> DEFINE left(i) == journal[i].quantity - venue[i].executed
           body(g) == [s \in SUBSET S |-> IF s = {} THEN 0 ELSE left(Some(s)) + g[s \ {Some(s)}]]
           same(g) == [s \in SUBSET S |-> IF s = {} THEN 0 ELSE Unexecuted[Some(s)] + g[s \ {Some(s)}]]
           iter == CHOOSE g : g = body(g)
<1>1. ASSUME NEW g PROVE body(g) = same(g)
  <2>1. ASSUME NEW s \in SUBSET S, s # {}
        PROVE  Unexecuted[Some(s)] = left(Some(s))
    <3>1. Some(s) \in DOMAIN journal
      BY <2>1, SomeIn
    <3> QED
      BY <3>1 DEF Unexecuted
  <2> HIDE DEF left
  <2> QED
    BY <2>1
<1>2. MapThenSumSet(LAMBDA i : journal[i].quantity - venue[i].executed, S) = iter[S]
  BY DEF MapThenSumSet, MapThenFoldSet, Some
<1>3. PICK f : IsFold(f, S, Unexecuted)
  BY FoldExists
<1>4. f = same(f)
  BY <1>3 DEF IsFold
<1>5. f = body(f)
  BY <1>1, <1>4
<1>6. iter = body(iter)
  <2> HIDE DEF body
  <2> QED
    BY <1>5
<1>7. iter = same(iter)
  <2> HIDE DEF body, same, iter
  <2> QED
    BY <1>1, <1>6
<1>8. IsFold(iter, S, Unexecuted)
  BY <1>7 DEF IsFold
<1> HIDE DEF iter
<1> QED
  BY <1>2, <1>8, SumIsFold

\* A sum of part of the rows, as one over all of them.
LEMMA PartSum ==
  ASSUME NEW D, IsFiniteSet(D), NEW S \in SUBSET D, NEW w, \A i \in S : w[i] \in Int
  PROVE  /\ IsFiniteSet(S)
         /\ Sum(w, S) = Sum([i \in D |-> IF i \in S THEN w[i] ELSE 0], D)
         /\ Sum(w, S) \in Int
<1> DEFINE v == [i \in D |-> IF i \in S THEN w[i] ELSE 0]
<1>1. IsFiniteSet(S)
  BY FS_Subset
<1>2. /\ \A i \in D : v[i] \in Int
      /\ \A i \in D \ S : v[i] = 0
      /\ \A i \in S : w[i] = v[i]
  OBVIOUS
<1> HIDE DEF v
<1>3. Sum(v, D) = Sum(v, S)
  BY <1>2, SumZero
<1>4. Sum(w, S) = Sum(v, S)
  BY <1>1, <1>2, SumSame
<1>5. Sum(w, S) \in Int
  BY <1>1, SumInt
<1> QED
  BY <1>1, <1>3, <1>4, <1>5 DEF v

\* The sums that the controller computes are integers.
LEMMA SumsAreInt ==
  ASSUME Rows
  PROVE  Covered \in Int /\ Reserved \in Int /\ VenueReserved \in Int
<1>1. RowTypes
  BY RowFacts
<1>2. /\ \A i \in DOMAIN journal : Unfilled[i] \in Int /\ Unexecuted[i] \in Int
      /\ ActiveSells \in SUBSET DOMAIN journal /\ ActiveStops \in SUBSET DOMAIN journal
  BY <1>1 DEF RowTypes, Unfilled, Unexecuted, Remaining, ActiveSells, ActiveStops, ActiveOrders
<1> DEFINE L == {i \in DOMAIN venue : venue[i].state = "live" /\ journal[i].kind # "maker"}
<1>3. L \in SUBSET DOMAIN journal
  BY <1>1 DEF RowTypes
<1>4. /\ IsFiniteSet(ActiveSells) /\ IsFiniteSet(ActiveStops) /\ IsFiniteSet(L)
  BY <1>1, <1>2, <1>3, FS_Subset DEF RowTypes
<1>5. Reserved = Sum(Unfilled, ActiveSells) /\ Covered = Sum(Unfilled, ActiveStops)
  BY <1>2, <1>4, RemainingSum DEF Reserved, Covered
<1>6. VenueReserved = Sum(Unexecuted, L)
  <2>1. MapThenSumSet(LAMBDA i : journal[i].quantity - venue[i].executed, L) = Sum(Unexecuted, L)
    BY <1>3, <1>4, UnexecutedSum
  <2> QED
    BY <2>1 DEF VenueReserved
<1> HIDE DEF L
<1>7. Sum(Unexecuted, L) \in Int
  BY <1>2, <1>3, <1>4, SumInt
<1>8. Sum(Unfilled, ActiveSells) \in Int /\ Sum(Unfilled, ActiveStops) \in Int
  BY <1>2, <1>4, SumInt
<1> QED
  BY <1>5, <1>6, <1>7, <1>8

\* What RiskEngine.authorize takes for reserved is at least what is promised: an active sale
\* is reserved with all that its row has not seen filled.
LEMMA ReservedCovers == JournalInv => Sum(Promised, DOMAIN journal) <= Reserved
<1> SUFFICES ASSUME JournalInv PROVE Sum(Promised, DOMAIN journal) <= Reserved
  OBVIOUS
<1>1. RowTypes /\ WeightTypes /\ \A i \in DOMAIN journal : RowSound(i) /\ RowBounded(i)
  BY RowFacts, WeightsAreInt DEF JournalInv
<1>2. /\ \A i \in DOMAIN journal : Unfilled[i] \in Int
      /\ ActiveSells \in SUBSET DOMAIN journal /\ IsFiniteSet(DOMAIN journal)
  BY <1>1 DEF RowTypes, Unfilled, Remaining, ActiveSells, ActiveOrders
<1> DEFINE held == [i \in DOMAIN journal |-> IF i \in ActiveSells THEN Unfilled[i] ELSE 0]
<1>3. IsFiniteSet(ActiveSells) /\ Sum(Unfilled, ActiveSells) = Sum(held, DOMAIN journal)
  BY <1>2, PartSum
<1>4. Reserved = Sum(held, DOMAIN journal)
  BY <1>2, <1>3, RemainingSum DEF Reserved
<1>5. \A i \in DOMAIN journal : Promised[i] \in Int /\ held[i] \in Int /\ Promised[i] <= held[i]
  <2> TAKE i \in DOMAIN journal
  <2>1. Promised[i] \in Int /\ held[i] \in Int
    BY <1>1, <1>2 DEF WeightTypes
  <2>2. held[i] = IF i \in ActiveSells THEN journal[i].quantity - journal[i].filled ELSE 0
    BY DEF Unfilled, Remaining
  <2>3. Promised[i] = IF journal[i].kind = "maker" THEN 0 ELSE Potential(i) - journal[i].filled
    BY DEF Promised
  <2>4. /\ journal[i].quantity \in Nat /\ journal[i].filled \in Nat /\ venue[i].executed \in Nat
        /\ journal[i].status \in Statuses /\ venue[i] \in VenueRow
    BY <1>1 DEF RowTypes
  <2>5. CASE i \in ActiveSells
    BY <1>1, <2>2, <2>3, <2>4, <2>5 DEF Potential, RowBounded, ActiveSells
  <2>6. CASE i \notin ActiveSells /\ journal[i].kind = "maker"
    BY <2>2, <2>3, <2>6
  <2>7. CASE i \notin ActiveOrders /\ journal[i].kind # "maker"
    <3>1. journal[i].status \in {"done", "rejected"}
      BY <2>4, <2>7 DEF ActiveOrders, Statuses
    <3>2. ~Pending(i) /\ Potential(i) = venue[i].executed
      BY <1>1, <2>7 DEF RowSound, Pending, Potential
    <3>3. venue[i].executed = journal[i].filled
      BY <1>1, <2>4, <3>1 DEF RowSound, RowBounded
    <3>4. i \notin ActiveSells
      BY <2>7 DEF ActiveSells
    <3> QED
      BY <2>2, <2>3, <2>4, <3>2, <3>3, <3>4
  <2> QED
    BY <2>1, <2>5, <2>6, <2>7 DEF ActiveSells
<1> HIDE DEF held
<1>6. Sum(Promised, DOMAIN journal) <= Sum(held, DOMAIN journal)
  BY <1>2, <1>5, SumLeq
<1> QED
  BY <1>4, <1>6

\* The journal and the ledger carry the venue's inventory.
LEMMA InvNeverOversold == JournalInv => NeverOversold /\ ledger \in Nat
<1> SUFFICES ASSUME JournalInv PROVE NeverOversold /\ ledger \in Nat
  OBVIOUS
<1>1. /\ RowTypes /\ WeightTypes /\ Accounts
      /\ \A i \in DOMAIN journal : RowSound(i) /\ RowBounded(i)
  BY RowFacts, WeightsAreInt DEF JournalInv
<1> DEFINE D == DOMAIN journal
           S == {i \in D : journal[i].kind # "maker" /\ venue[i].state \in {"unsent", "wire", "live"}}
           open == [i \in D |-> IF i \in S THEN Unexecuted[i] ELSE 0]
<1>2. /\ IsFiniteSet(D) /\ S \in SUBSET D /\ \A i \in D : Unexecuted[i] \in Int
  BY <1>1 DEF RowTypes, Unexecuted
<1>3. IsFiniteSet(S) /\ Sum(Unexecuted, S) = Sum(open, D)
  BY <1>2, PartSum
<1>4. MapThenSumSet(LAMBDA i : journal[i].quantity - venue[i].executed, S) = Sum(Unexecuted, S)
  BY <1>2, <1>3, UnexecutedSum
<1>5. ASSUME NEW i \in D
      PROVE  /\ open[i] \in Int /\ Promised[i] \in Nat /\ Executed[i] \in Int /\ Booked[i] \in Int
             /\ open[i] <= Promised[i] + Executed[i] - Booked[i]
  <2>1. /\ journal[i].quantity \in Nat /\ journal[i].filled \in Nat /\ venue[i].executed \in Nat
        /\ journal[i].filled <= venue[i].executed /\ venue[i].executed <= journal[i].quantity
    BY <1>1 DEF RowTypes, RowSound, RowBounded
  <2>2. open[i] = IF journal[i].kind # "maker" /\ Pending(i) THEN journal[i].quantity - venue[i].executed
                  ELSE 0
    BY DEF Unexecuted, Pending
  <2>3. Promised[i] = IF journal[i].kind = "maker" THEN 0 ELSE Potential(i) - journal[i].filled
    BY DEF Promised
  <2>4. /\ Executed[i] = (IF journal[i].kind = "maker" THEN venue[i].executed ELSE -venue[i].executed)
        /\ Booked[i] = (IF journal[i].kind = "maker" THEN journal[i].filled ELSE -journal[i].filled)
    BY <1>1 DEF WeightTypes
  <2> HIDE DEF open
  <2> QED
    BY <2>1, <2>2, <2>3, <2>4 DEF Potential
<1> HIDE DEF open, S
<1>6. Sum(open, D) <= Sum(Promised, D) + Sum(Executed, D) - Sum(Booked, D)
  <2>1. \A i \in D : /\ open[i] \in Int /\ Promised[i] \in Int /\ Executed[i] \in Int /\ Booked[i] \in Int
                     /\ open[i] <= Promised[i] + Executed[i] - Booked[i]
    BY <1>5
  <2> QED
    BY <1>2, <2>1, SumBound
<1>7. Sum(Promised, D) \in Nat
  BY <1>2, <1>5, SumNat
<1>8. inventory \in Int /\ ledger \in Int
  BY InventoryInt
<1>9. Sum(open, D) <= inventory
  <2>1. Sum(open, D) \in Int
    BY <1>2, <1>5, SumInt
  <2> QED
    BY <1>1, <1>6, <1>7, <1>8, <2>1 DEF Accounts
<1>10. ledger \in Nat
  BY <1>1, <1>7, <1>8 DEF Accounts
<1> QED
  BY <1>3, <1>4, <1>9, <1>10 DEF NeverOversold, S

-----------------------------------------------------------------------------
(* A new order                                                             *)

\* What the journal may take up: an entry, or a sale of what no other sale reserves.
NewOrder(kind, quantity) ==
  /\ kind \in {"maker", "ioc", "stop"} /\ quantity \in Nat \ {0}
  /\ kind # "maker" => quantity + Reserved <= ledger
  /\ Journaled(kind, quantity)

\* The new row promises its quantity, which Reserved leaves free.
LEMMA JournaledKeeps ==
  ASSUME JournalInv, NEW kind, NEW quantity, NewOrder(kind, quantity)
  PROVE  /\ JournalStep
         /\ Len(journal) + 1 \in DOMAIN journal' /\ venue'[Len(journal) + 1].state = "unsent"
<1> DEFINE D == DOMAIN journal
           n == Len(journal) + 1
           row == [kind |-> kind, quantity |-> quantity, status |-> "intent",
                   known |-> FALSE, filled |-> 0]
           sent == [state |-> "unsent", executed |-> 0]
<1>1. /\ Rows /\ RowTypes /\ D = 1 .. Len(journal) /\ Len(journal) \in Nat /\ Len(venue) = Len(journal)
      /\ IsFiniteSet(D) /\ ledger \in Int /\ inventory \in Int
      /\ kind \in {"maker", "ioc", "stop"} /\ quantity \in Nat /\ quantity > 0
      /\ kind # "maker" => quantity + Reserved <= ledger
      /\ ledger' = ledger /\ inventory' = inventory
  BY RowFacts, InventoryInt DEF JournalInv, RowTypes, Rows, NewOrder, Journaled
<1>2. row \in JournalRow /\ sent \in VenueRow
  BY <1>1 DEF JournalRow, VenueRow, Statuses
<1>3. /\ row.kind = kind /\ row.quantity = quantity /\ row.status = "intent" /\ row.filled = 0
      /\ sent.state = "unsent" /\ sent.executed = 0
      /\ journal' = Append(journal, row) /\ venue' = Append(venue, sent)
  BY DEF NewOrder, Journaled
<1> HIDE DEF row, sent
<1>4. /\ journal' \in Seq(JournalRow) /\ Len(journal') = n
      /\ \A j \in D : journal'[j] = journal[j]
      /\ journal'[n] = row
  BY <1>1, <1>2, <1>3 DEF Rows
<1>5. /\ venue' \in Seq(VenueRow) /\ Len(venue') = n
      /\ \A j \in D : venue'[j] = venue[j]
      /\ venue'[n] = sent
  BY <1>1, <1>2, <1>3 DEF Rows
<1>6. Rows' /\ DOMAIN journal' = D \cup {n} /\ n \notin D /\ (D \cup {n}) \ {n} = D
      /\ IsFiniteSet(D \cup {n})
  <2>1. Rows'
    BY <1>4, <1>5 DEF Rows
  <2>2. DOMAIN journal' = 1 .. n
    BY <1>1, <1>4
  <2>3. 1 .. n = D \cup {n} /\ n \notin D
    BY <1>1
  <2>4. (D \cup {n}) \ {n} = D
    BY <2>3
  <2>5. IsFiniteSet(D \cup {n})
    <3> HIDE DEF D, n
    <3> QED
      BY <1>1, FS_AddElement
  <2> QED
    BY <2>1, <2>2, <2>3, <2>4, <2>5
<1>7. \A j \in D : (RowSound(j) /\ RowBounded(j))'
  BY <1>4, <1>5, <1>6 DEF JournalInv, RowSound, RowBounded, ActiveOrders
<1>8. \A j \in {n} : (RowSound(j) /\ RowBounded(j))'
  BY <1>1, <1>3, <1>4, <1>5, <1>6 DEF RowSound, RowBounded, ActiveOrders
<1>9. WeightTypes /\ WeightTypes'
  BY <1>1, <1>6, WeightsAreInt, PTL
<1>10. \A j \in D : /\ Executed[j] \in Int /\ Booked[j] \in Int /\ Promised[j] \in Int
                    /\ Executed'[j] = Executed[j] /\ Booked'[j] = Booked[j]
                    /\ Promised'[j] = Promised[j]
  <2>1. \A j \in D : Executed[j] \in Int /\ Booked[j] \in Int /\ Promised[j] \in Int
    BY <1>9 DEF WeightTypes
  <2>2. \A j \in D : j \in DOMAIN journal'
    BY <1>6
  <2>3. \A j \in D : Executed'[j] = Executed[j] /\ Booked'[j] = Booked[j]
    BY <1>4, <1>5, <2>2 DEF Executed, Booked
  <2>4. \A j \in D : Promised'[j] = Promised[j]
    BY <1>4, <1>5, <2>2 DEF Promised, Potential, Pending
  <2> QED
    BY <2>1, <2>3, <2>4
<1>11. /\ Executed'[n] = 0 /\ Booked'[n] = 0
       /\ Promised'[n] = IF kind = "maker" THEN 0 ELSE quantity
  <2>1. n \in DOMAIN journal'
    BY <1>6
  <2>2. Sign(kind) * 0 = 0
    BY DEF Sign
  <2>3. Executed'[n] = 0 /\ Booked'[n] = 0
    BY <1>3, <1>4, <1>5, <2>1, <2>2 DEF Executed, Booked
  <2>4. Promised'[n] = IF kind = "maker" THEN 0 ELSE quantity - 0
    BY <1>3, <1>4, <1>5, <2>1 DEF Promised, Potential, Pending
  <2> QED
    BY <1>1, <2>3, <2>4
<1>12. ASSUME NEW w, NEW v, \A j \in D : w[j] \in Int /\ v[j] = w[j], v[n] \in Int
       PROVE  Sum(v, D \cup {n}) = v[n] + Sum(w, D) /\ Sum(w, D) \in Int
  <2>1. \A j \in D \cup {n} : v[j] \in Int
    BY <1>12
  <2>2. Sum(v, D \cup {n}) = v[n] + Sum(v, (D \cup {n}) \ {n})
    BY <1>6, <2>1, SumAny
  <2>3. Sum(v, D) = Sum(w, D) /\ Sum(w, D) \in Int
    BY <1>1, <1>12, SumSame, SumInt
  <2> QED
    BY <1>6, <2>2, <2>3
<1>13. Sum(Executed', D \cup {n}) = inventory
  <2>1. Executed'[n] \in Int
    BY <1>11
  <2>2. Sum(Executed', D \cup {n}) = Executed'[n] + Sum(Executed, D) /\ Sum(Executed, D) \in Int
    BY <1>10, <1>12, <2>1
  <2> QED
    BY <1>1, <1>11, <2>2 DEF JournalInv, Accounts
<1>14. Sum(Booked', D \cup {n}) = ledger
  <2>1. Booked'[n] \in Int
    BY <1>11
  <2>2. Sum(Booked', D \cup {n}) = Booked'[n] + Sum(Booked, D) /\ Sum(Booked, D) \in Int
    BY <1>10, <1>12, <2>1
  <2> QED
    BY <1>1, <1>11, <2>2 DEF JournalInv, Accounts
<1>15. Sum(Promised', D \cup {n}) <= ledger
  <2>1. Promised'[n] \in Int
    BY <1>1, <1>11
  <2>2. Sum(Promised', D \cup {n}) = Promised'[n] + Sum(Promised, D) /\ Sum(Promised, D) \in Int
    BY <1>10, <1>12, <2>1
  <2>3. Sum(Promised, D) <= Reserved /\ Sum(Promised, D) <= ledger /\ Reserved \in Int
    BY <1>1, ReservedCovers, SumsAreInt DEF JournalInv, Accounts
  <2> QED
    BY <1>1, <1>11, <2>2, <2>3
<1>16. Accounts'
  BY <1>1, <1>6, <1>13, <1>14, <1>15 DEF Accounts
<1>17. JournalInv'
  <2>1. \A j \in DOMAIN journal' : (RowSound(j) /\ RowBounded(j))'
    BY <1>6, <1>7, <1>8
  <2> QED
    BY <1>6, <1>16, <2>1 DEF JournalInv
<1>18. Moves
  <2>1. \A i \in D : journal[i].filled \in Nat /\ venue[i].executed \in Nat
    BY <1>1 DEF RowTypes
  <2>2. \A i \in D : journal[i].filled <= journal'[i].filled /\ venue[i].executed <= venue'[i].executed
    BY <1>4, <1>5, <2>1
  <2> QED
    BY <1>4, <1>5, <1>6, <2>2 DEF Moves, Here, Pending
<1> QED
  BY <1>3, <1>5, <1>6, <1>17, <1>18 DEF JournalStep

-----------------------------------------------------------------------------
(* Sessions                                                                *)

\* The volatile state of a process.
Fields == {"plan", "stage", "todo", "blind", "failed", "current", "available", "retry"}
ProcShape ==
  /\ DOMAIN proc = Processes
  /\ \A p \in Processes :
       DOMAIN proc[p] = Fields /\ proc[p].available \in Int /\ proc[p].todo \subseteq DOMAIN journal

\* The types of the latches.
LatchTypes ==
  /\ killed \in BOOLEAN /\ flattenRequested \in BOOLEAN
  /\ recovery \in {"none", "flat", "protected", "operator_required"}

\* A recovery is under both latches.
RecoveryLatched == \A p \in Processes : Inside(p, "verdict") => killed /\ flattenRequested

\* Who has a plan has the execution lock, and a recovery is under both latches.
SessionInv ==
  /\ ProcShape /\ LatchTypes /\ mark \in BOOLEAN
  /\ lock \in {"free"} \cup Processes /\ up \in {"down", "booting", "up"}
  /\ \A p \in Processes : PlanOK(proc[p].plan) /\ (proc[p].plan # <<>> => lock = p)
  /\ up # "up" => proc["runtime"].plan = <<>>
  /\ RecoveryLatched

\* The creation in progress has not been sent, or is known to the venue.
SubmitOf(p) ==
  Working(p, "submit") =>
    /\ proc[p].current \in DOMAIN journal
    /\ \/ proc[p].stage = "begin" /\ venue[proc[p].current].state = "unsent"
       \/ proc[p].stage = "status" /\ Here(proc[p].current)

\* What an answer says of order i was true when it was given.
Describes(answer, i) ==
  /\ answer.live \in BOOLEAN /\ answer.executed \in Nat
  /\ Here(i) /\ answer.executed <= venue[i].executed
  /\ ~answer.live => venue[i].state = "ended" /\ answer.executed = venue[i].executed

\* An answer that a start has not applied yet.
ReplyInv ==
  \A answer \in reply :
    /\ up = "booting"
    /\ proc["runtime"].todo = {} => answer.available \in Int
    /\ \A i \in proc["runtime"].todo : i = Min(proc["runtime"].todo) => Describes(answer, i)

\* The inductive invariant.
ExecutionInv == JournalInv /\ SessionInv /\ (\A p \in Processes : SubmitOf(p)) /\ ReplyInv

-----------------------------------------------------------------------------
(* A step of a session                                                     *)

\* Process p changes, with this plan, and the other does not.
Turns(p, plan) ==
  /\ DOMAIN proc' = Processes /\ \A q \in Processes \ {p} : proc'[q] = proc[q]
  /\ DOMAIN proc'[p] = Fields /\ proc'[p].available \in Int
  /\ proc'[p].todo \subseteq DOMAIN journal /\ proc'[p].plan = plan

\* What a step of a session is, for the processes and the latches.
SessionStep(p) ==
  /\ LatchTypes' /\ \E plan : Turns(p, plan)
  /\ PlanOK(proc'[p].plan)
  /\ IF proc'[p].plan = <<>> THEN lock' \in {"free", lock} ELSE lock' = lock
  /\ "verdict" \in Range(proc'[p].plan) => killed' /\ flattenRequested'
  /\ UNCHANGED Elsewhere

\* The maximum of zero and a number.
LEMMA Positive ==
  ASSUME NEW x \in Int
  PROVE  Max({0, x}) \in Nat /\ Max({0, x}) = IF x > 0 THEN x ELSE 0
<1>1. \E y \in {0, x} : \A z \in {0, x} : y >= z
  OBVIOUS
<1> QED
  BY <1>1 DEF Max

\* The minimum of two numbers is one of them.
LEMMA MinOfTwo ==
  ASSUME NEW a \in Int, NEW b \in Int
  PROVE  Min({a, b}) \in {a, b} /\ Min({a, b}) <= a /\ Min({a, b}) <= b
<1>1. \E x \in {a, b} : \A y \in {a, b} : x <= y
  OBVIOUS
<1> QED
  BY <1>1 DEF Min

\* No plan is a plan.
LEMMA EmptyPlan == PlanOK(<<>>) /\ Range(<<>>) = {}
BY DEF PlanOK, Range

\* The least of some rows is one of them.
LEMMA LeastIsRow ==
  ASSUME JournalInv, NEW S \in SUBSET DOMAIN journal, S # {}
  PROVE  Min(S) \in S /\ Min(S) \in DOMAIN journal
<1>1. S \in SUBSET Nat
  BY RowFacts DEF JournalInv, RowTypes
<1> QED
  BY <1>1, MinIn

\* What was true of an order when the venue answered can still be applied later.
LEMMA StillDescribed ==
  ASSUME JournalInv, JournalStep, NEW answer, NEW i \in DOMAIN journal, Describes(answer, i)
  PROVE  Describes(answer, i)'
<1>1. i \in DOMAIN journal' /\ RowTypes /\ RowTypes'
  <2>1. i \in DOMAIN journal' /\ Rows /\ Rows'
    BY DEF JournalStep, Moves, JournalInv
  <2>2. RowTypes /\ RowTypes'
    BY <2>1, RowFacts, PTL
  <2> QED
    BY <2>1, <2>2
<1>2. venue[i].executed \in Nat /\ venue'[i].executed \in Nat
  BY <1>1 DEF RowTypes
<1>3. /\ Here(i) => Here(i)' /\ venue[i].executed <= venue'[i].executed
      /\ venue[i].state = "ended" => venue'[i] = venue[i]
  BY DEF JournalStep, Moves
<1> QED
  BY <1>2, <1>3 DEF Describes

\* An answer that waits to be applied stays good whatever the other process does.
LEMMA ReplyStays ==
  ASSUME ExecutionInv, JournalStep, UNCHANGED <<up, reply>>,
         up = "booting" => proc'["runtime"].todo = proc["runtime"].todo
  PROVE  ReplyInv'
<1>1. "runtime" \in Processes /\ ProcShape
  BY DEF Processes, ExecutionInv, SessionInv
<1>2. proc["runtime"].todo \subseteq DOMAIN journal
  BY <1>1 DEF ProcShape
<1>3. \A answer : \A i \in DOMAIN journal : Describes(answer, i) => Describes(answer, i)'
  BY StillDescribed DEF ExecutionInv
<1> QED
  BY <1>2, <1>3 DEF ExecutionInv, ReplyInv

\* A step keeps the invariant and forgets nothing.
Kept == ExecutionInv' /\ Moves

\* A session that goes on or ends leaves what the other process relies on.
LEMMA TaskStepKeeps ==
  ASSUME ExecutionInv, NEW p \in Processes, proc[p].plan # <<>>,
         SessionStep(p), JournalStep, SubmitOf(p)'
  PROVE  Kept
<1>1. \A q \in Processes \ {p} : proc[q].plan = <<>> /\ proc'[q] = proc[q]
  BY DEF ExecutionInv, SessionInv, SessionStep, Turns
<1>2. DOMAIN journal \subseteq DOMAIN journal' /\ ProcShape /\ lock = p
  BY DEF JournalStep, Moves, ExecutionInv, SessionInv
<1>3. ProcShape'
  BY <1>1, <1>2 DEF ProcShape, SessionStep, Turns
<1>4. SessionInv'
  <2>1. \A q \in Processes : PlanOK(proc'[q].plan) /\ (proc'[q].plan # <<>> => lock' = q)
    BY <1>1, <1>2, EmptyPlan DEF SessionStep
  <2>2. (up # "up" => proc["runtime"].plan = <<>>)'
    BY <1>1 DEF ExecutionInv, SessionInv, SessionStep, Processes, Elsewhere
  <2>3. RecoveryLatched'
    BY <1>1, EmptyPlan DEF RecoveryLatched, Inside, SessionStep
  <2>4. lock' \in {"free"} \cup Processes /\ up' \in {"down", "booting", "up"} /\ mark' \in BOOLEAN
    BY <1>2 DEF SessionStep, Elsewhere, ExecutionInv, SessionInv
  <2> QED
    BY <1>3, <2>1, <2>2, <2>3, <2>4 DEF SessionInv, SessionStep
<1>5. \A q \in Processes : SubmitOf(q)'
  BY <1>1 DEF SubmitOf, Working
<1>6. ReplyInv'
  <2>1. up = "booting" => p # "runtime" /\ "runtime" \in Processes
    BY DEF ExecutionInv, SessionInv, Processes
  <2>2. up = "booting" => proc'["runtime"] = proc["runtime"]
    BY <1>1, <2>1
  <2>3. UNCHANGED <<up, reply>>
    BY DEF SessionStep, Elsewhere
  <2> QED
    BY <2>2, <2>3, ReplyStays
<1> QED
  BY <1>4, <1>5, <1>6 DEF Kept, ExecutionInv, JournalStep

\* How the processes change.
LEMMA BecomesIs ==
  ASSUME ProcShape, NEW p \in Processes, NEW plan, proc' = Becomes(p, plan)
  PROVE  Turns(p, plan)
BY DEF ProcShape, Becomes, Turns, Fields

\* The session stays at its task; only the fields of the task change.
StaysAs(p, s, t) ==
  \/ proc' = [proc EXCEPT ![p].stage = s] /\ t = proc[p].todo
  \/ proc' = [proc EXCEPT ![p].stage = s, ![p].todo = t]
  \/ \E b : proc' = [proc EXCEPT ![p].stage = s, ![p].todo = t, ![p].blind = b]
  \/ proc' = [proc EXCEPT ![p].stage = s, ![p].todo = t, ![p].failed = TRUE]

\* Staying at a task changes neither the plan nor the creation in progress.
LEMMA StaysTurns ==
  ASSUME ProcShape, NEW p \in Processes, NEW s, NEW t, StaysAs(p, s, t), t \subseteq DOMAIN journal
  PROVE  Turns(p, proc[p].plan) /\ proc'[p].stage = s /\ proc'[p].current = proc[p].current
<1>1. CASE proc' = [proc EXCEPT ![p].stage = s] /\ t = proc[p].todo
  BY <1>1 DEF ProcShape, Turns, Fields
<1>2. CASE proc' = [proc EXCEPT ![p].stage = s, ![p].todo = t]
  BY <1>2 DEF ProcShape, Turns, Fields
<1>3. ASSUME NEW b, proc' = [proc EXCEPT ![p].stage = s, ![p].todo = t, ![p].blind = b]
      PROVE  Turns(p, proc[p].plan) /\ proc'[p].stage = s /\ proc'[p].current = proc[p].current
  BY <1>3 DEF ProcShape, Turns, Fields
<1>4. CASE proc' = [proc EXCEPT ![p].stage = s, ![p].todo = t, ![p].failed = TRUE]
  BY <1>4 DEF ProcShape, Turns, Fields
<1> QED
  BY <1>1, <1>2, <1>3, <1>4 DEF StaysAs

\* A session that stays at its task is a step of a session.
LEMMA StaysKeeps ==
  ASSUME ExecutionInv, NEW p \in Processes, proc[p].plan # <<>>, Turns(p, proc[p].plan),
         UNCHANGED <<Latches, lock, Elsewhere>>
  PROVE  SessionStep(p) /\ (~Working(p, "submit") => SubmitOf(p)')
<1>1. proc'[p].plan = proc[p].plan
  BY DEF Turns
<1>2. LatchTypes'
  BY DEF ExecutionInv, SessionInv, LatchTypes, Latches
<1>3. "verdict" \in Range(proc'[p].plan) => killed' /\ flattenRequested'
  BY <1>1 DEF ExecutionInv, SessionInv, RecoveryLatched, Inside, Latches
<1> QED
  BY <1>1, <1>2, <1>3 DEF ExecutionInv, SessionInv, SessionStep, SubmitOf, Working

\* No latch is cleared.
LatchesStay == (killed => killed') /\ (flattenRequested => flattenRequested')
\* The task at the head of the plan of p is over, and more comes before the rest.
Goes(p, more) ==
  /\ MoreOK(Head(proc[p].plan), more) /\ Head(proc[p].plan) # "verdict"
  /\ Turns(p, more \o Tail(proc[p].plan))
  /\ LatchTypes' /\ UNCHANGED <<lock, Elsewhere>>

\* A session that goes on to the next task is a step of a session.
LEMMA GoesKeeps ==
  ASSUME ExecutionInv, NEW p \in Processes, proc[p].plan # <<>>, NEW more, Goes(p, more),
         LatchesStay \/ "verdict" \notin Range(proc[p].plan)
  PROVE  SessionStep(p) /\ (more = <<>> \/ more[1] # "submit" => SubmitOf(p)')
<1> USE DEF Goes
<1> DEFINE plan == proc[p].plan
           new == more \o Tail(plan)
<1>1. PlanOK(plan)
  BY DEF ExecutionInv, SessionInv
<1>2. PlanOK(new) /\ ("verdict" \in Range(new) => "verdict" \in Range(plan))
  BY <1>1, MorePlan
<1>3. proc'[p].plan = new
  BY DEF Turns
<1>4. "verdict" \in Range(new) => killed' /\ flattenRequested'
  BY <1>2 DEF ExecutionInv, SessionInv, RecoveryLatched, Inside, LatchesStay
<1>5. SessionStep(p)
  BY <1>2, <1>3, <1>4 DEF SessionStep
<1>6. ASSUME more = <<>> \/ more[1] # "submit", new # <<>>
      PROVE  Head(new) # "submit"
  <2>1. /\ plan \in Seq(Tasks) /\ more \in Seq(Tasks) /\ Tail(plan) \in Seq(Tasks)
        /\ DOMAIN plan = 1 .. Len(plan) /\ Len(plan) \in Nat \ {0} /\ Len(more) \in Nat
    BY <1>1 DEF PlanOK, MoreOK
  <2>2. CASE more # <<>>
    <3>1. new[1] = more[1] /\ Head(new) = new[1]
      BY <1>6, <2>1, <2>2
    <3> QED
      BY <1>6, <2>2, <3>1
  <2>3. CASE more = <<>>
    <3>1. new = Tail(plan) /\ Tail(plan) # <<>>
      BY <1>6, <2>1, <2>3
    <3>2. 2 \in DOMAIN plan /\ Head(Tail(plan)) = plan[2]
      BY <2>1, <3>1
    <3> QED
      BY <1>1, <3>1, <3>2 DEF PlanOK
  <2> QED
    BY <2>2, <2>3
<1> HIDE DEF new
<1> QED
  BY <1>3, <1>5, <1>6 DEF SubmitOf, Working

\* A session that ends is a step of a session.
LEMMA LeaveKeeps ==
  ASSUME ExecutionInv, NEW p \in Processes, Leave(p), LatchTypes', UNCHANGED Elsewhere
  PROVE  SessionStep(p) /\ SubmitOf(p)'
<1>1. Turns(p, <<>>)
  BY BecomesIs DEF ExecutionInv, SessionInv, Leave
<1>2. proc'[p].plan = <<>>
  BY <1>1 DEF Turns
<1> QED
  BY <1>1, <1>2, EmptyPlan DEF SessionStep, SubmitOf, Working, Leave

\* An exception keeps or sets the latches of a failed exit.
LEMMA RaiseKeeps ==
  ASSUME ExecutionInv, NEW p \in Processes, proc[p].plan # <<>>,
         NEW kills \in BOOLEAN, Raise(p, kills), UNCHANGED Elsewhere
  PROVE  SessionStep(p) /\ SubmitOf(p)'
<1>1. ProcShape /\ LatchTypes /\ PlanOK(proc[p].plan)
  BY DEF ExecutionInv, SessionInv
<1>2. CASE RaiseInFlatten(p)
  <2> DEFINE new == Recovery(proc[p].plan)
  <2>1. PlanOK(new) /\ new # <<>> /\ Head(new) = "reconcile"
    BY <1>1, <1>2, RecoveryPlan DEF RaiseInFlatten, Inside
  <2>2. Turns(p, new)
    BY <1>1, <1>2, BecomesIs DEF RaiseInFlatten, Recovery
  <2>3. LatchTypes' /\ killed' /\ flattenRequested' /\ lock' = lock
    BY <1>1, <1>2 DEF RaiseInFlatten, LatchTypes
  <2>4. proc'[p].plan = new
    BY <2>2 DEF Turns
  <2> HIDE DEF new
  <2> QED
    BY <2>1, <2>2, <2>3, <2>4 DEF SessionStep, SubmitOf, Working
<1>3. CASE RaiseInRecovery(p)
  <2>1. LatchTypes' /\ Leave(p)
    BY <1>1, <1>3 DEF RaiseInRecovery, LatchTypes
  <2> QED
    BY <2>1, LeaveKeeps
<1>4. CASE RaiseOutside(p, kills)
  <2>1. killed' \in BOOLEAN
    BY <1>4 DEF RaiseOutside
  <2>2. LatchTypes' /\ Leave(p)
    BY <1>1, <1>4, <2>1 DEF RaiseOutside, LatchTypes
  <2> QED
    BY <2>2, LeaveKeeps
<1> QED
  BY <1>2, <1>3, <1>4 DEF Raise

-----------------------------------------------------------------------------
(* Cancellation and reconciliation                                         *)

\* A task may be over without more.
LEMMA NoMore == \A head : MoreOK(head, <<>>)
BY DEF MoreOK

\* A task that is over, with nothing more to be done.
LEMMA DoneKeeps ==
  ASSUME ExecutionInv, NEW p \in Processes, proc[p].plan # <<>>, Head(proc[p].plan) # "verdict",
         Turns(p, Tail(proc[p].plan)), LatchTypes', UNCHANGED <<lock, Elsewhere>>,
         LatchesStay \/ "verdict" \notin Range(proc[p].plan)
  PROVE  SessionStep(p) /\ SubmitOf(p)'
<1>1. proc[p].plan \in Seq(Tasks)
  BY DEF ExecutionInv, SessionInv, PlanOK
<1>2. <<>> \o Tail(proc[p].plan) = Tail(proc[p].plan)
  BY <1>1
<1>3. Goes(p, <<>>)
  BY <1>2, NoMore DEF Goes
<1> QED
  BY <1>3, GoesKeeps

\* Latches that do not change stay latched.
LEMMA SameLatches == LatchTypes /\ UNCHANGED Latches => LatchTypes' /\ LatchesStay
BY DEF LatchTypes, Latches, LatchesStay

\* cancel_all and manage_makers, with LiveBroker.cancel.
LEMMA CancelKeeps ==
  ASSUME ExecutionInv, NEW p \in Processes, Cancel(p)
  PROVE  Kept
<1>1. PICK task \in {"cancelEntries", "cancelAll", "makers"} :
        \/ ListOrders(p, task) \/ CancelsEnd(p, task)
        \/ \E i \in DOMAIN journal :
             Looked(p, task, i) \/ Requested(p, task, i) \/ Confirmed(p, task, i)
               \/ CancelFails(p, task, i)
  BY DEF Cancel, Cancels
<1>2. JournalInv /\ SessionInv /\ ProcShape /\ LatchTypes
  BY DEF ExecutionInv, SessionInv
<1>3. Working(p, task)
  BY <1>1 DEF ListOrders, CancelsEnd, Looked, Requested, Confirmed, CancelFails, Cancelling, At
<1>4. proc[p].plan # <<>> /\ ~Working(p, "submit") /\ Head(proc[p].plan) # "verdict"
      /\ proc[p].todo \subseteq DOMAIN journal
  BY <1>2, <1>3 DEF Working, ProcShape
<1>5. CASE ListOrders(p, task)
  <2>1. PICK chosen \in SUBSET ActiveOrders :
          proc' = [proc EXCEPT ![p].stage = "next", ![p].todo = chosen,
                     ![p].blind = {i \in chosen : journal[i].known /\ journal[i].status # "open"}]
    BY <1>5 DEF ListOrders
  <2>2. chosen \subseteq DOMAIN journal
    BY DEF ActiveOrders
  <2>3. Turns(p, proc[p].plan)
    BY <1>2, <2>1, <2>2, StaysTurns DEF StaysAs
  <2>4. JournalStep /\ UNCHANGED <<Latches, lock, Elsewhere>>
    BY <1>2, <1>5, NothingMoves DEF ListOrders, store, exchange, Latches, Elsewhere
  <2> QED
    BY <1>4, <2>3, <2>4, StaysKeeps, TaskStepKeeps
<1>6. ASSUME NEW i \in DOMAIN journal, Looked(p, task, i)
      PROVE  Kept
  <2>1. JournalStep
    BY <1>2, <1>6, AppliedNow DEF Looked, exchange
  <2>2. Turns(p, proc[p].plan)
    BY <1>2, <1>4, <1>6, StaysTurns DEF Looked, StaysAs
  <2> QED
    BY <1>4, <1>6, <2>1, <2>2, StaysKeeps, TaskStepKeeps DEF Looked
<1>7. ASSUME NEW i \in DOMAIN journal, Requested(p, task, i)
      PROVE  Kept
  <2>1. JournalStep /\ UNCHANGED <<Latches, lock, Elsewhere>>
    BY <1>2, <1>7, EndingKeeps DEF Requested, store, Latches, Elsewhere
  <2>2. Turns(p, proc[p].plan)
    BY <1>2, <1>4, <1>7, StaysTurns DEF Requested, StaysAs
  <2> QED
    BY <1>4, <2>1, <2>2, StaysKeeps, TaskStepKeeps
<1>8. ASSUME NEW i \in DOMAIN journal, Confirmed(p, task, i)
      PROVE  Kept
  <2>1. JournalStep
    BY <1>2, <1>8, AppliedNow DEF Confirmed, exchange
  <2>2. proc[p].todo \ {i} \subseteq DOMAIN journal
    BY <1>4
  <2>3. StaysAs(p, "next", proc[p].todo \ {i})
    BY <1>2, <1>8 DEF Confirmed, StaysAs, ProcShape, Fields
  <2>4. Turns(p, proc[p].plan)
    BY <1>2, <2>2, <2>3, StaysTurns
  <2> QED
    BY <1>4, <1>8, <2>1, <2>4, StaysKeeps, TaskStepKeeps DEF Confirmed
<1>9. ASSUME NEW i \in DOMAIN journal, CancelFails(p, task, i)
      PROVE  Kept
  <2>1. UNCHANGED <<journal, ledger, venue, inventory, Elsewhere>>
    BY <1>9 DEF CancelFails, exchange
  <2>2. JournalStep
    BY <1>2, <2>1, NothingMoves
  <2>3. CASE task = "makers"
    <3>1. Raise(p, FALSE) /\ FALSE \in BOOLEAN
      BY <1>9, <2>3 DEF CancelFails
    <3> QED
      BY <1>4, <2>1, <2>2, <3>1, RaiseKeeps, TaskStepKeeps
  <2>4. CASE task # "makers"
    <3>1. UNCHANGED <<Latches, lock>>
      BY <1>9, <2>4 DEF CancelFails
    <3>2. proc[p].todo \ {i} \subseteq DOMAIN journal
      BY <1>4
    <3>3. StaysAs(p, "next", proc[p].todo \ {i})
      BY <1>2, <1>9, <2>4 DEF CancelFails, StaysAs, ProcShape, Fields
    <3>4. Turns(p, proc[p].plan)
      BY <1>2, <3>2, <3>3, StaysTurns
    <3> QED
      BY <1>4, <2>1, <2>2, <3>1, <3>4, StaysKeeps, TaskStepKeeps
  <2> QED
    BY <2>3, <2>4
<1>10. CASE CancelsEnd(p, task)
  <2>1. JournalStep /\ UNCHANGED Elsewhere
    BY <1>2, <1>10, NothingMoves DEF CancelsEnd, exchange
  <2>2. CASE proc[p].failed
    <3>1. Raise(p, FALSE) /\ FALSE \in BOOLEAN
      BY <1>10, <2>2 DEF CancelsEnd
    <3> QED
      BY <1>4, <2>1, <3>1, RaiseKeeps, TaskStepKeeps
  <2>3. CASE ~proc[p].failed
    <3>1. UNCHANGED <<Latches, lock>> /\ proc' = Done(p)
      BY <1>10, <2>3 DEF CancelsEnd
    <3>2. Turns(p, Tail(proc[p].plan))
      BY <1>2, <3>1, BecomesIs DEF Done
    <3> QED
      BY <1>2, <1>4, <2>1, <3>1, <3>2, SameLatches, DoneKeeps, TaskStepKeeps
  <2> QED
    BY <2>2, <2>3
<1> QED
  BY <1>1, <1>5, <1>6, <1>7, <1>8, <1>9, <1>10

\* LiveBroker.reconcile.
LEMMA ReconcileKeeps ==
  ASSUME ExecutionInv, NEW p \in Processes, Reconcile(p)
  PROVE  Kept
<1>1. JournalInv /\ SessionInv /\ ProcShape /\ LatchTypes
  BY DEF ExecutionInv, SessionInv
<1>2. Working(p, "reconcile")
  BY DEF Reconcile, ReadStatus, ReadBalances, ReconcileFails
<1>3. /\ proc[p].plan # <<>> /\ ~Working(p, "submit") /\ Head(proc[p].plan) # "verdict"
      /\ Unread(p) \subseteq DOMAIN journal
  BY <1>1, <1>2 DEF Working, ProcShape, Unread, ActiveOrders
<1>4. CASE ReadStatus(p)
  <2>1. PICK i : i = Min(Unread(p)) /\ i \in DOMAIN journal
    BY <1>1, <1>3, <1>4, LeastIsRow DEF ReadStatus
  <2>2. JournalStep
    BY <1>1, <1>4, <2>1, AppliedNow DEF ReadStatus, exchange
  <2>3. StaysAs(p, "statuses", Unread(p) \ {i}) /\ Unread(p) \ {i} \subseteq DOMAIN journal
    BY <1>3, <1>4, <2>1 DEF ReadStatus, StaysAs
  <2>4. Turns(p, proc[p].plan)
    BY <1>1, <2>3, StaysTurns
  <2> QED
    BY <1>3, <1>4, <2>2, <2>4, StaysKeeps, TaskStepKeeps DEF ReadStatus
<1>5. CASE ReadBalances(p)
  <2>1. JournalStep /\ UNCHANGED <<Latches, lock, Elsewhere>>
    BY <1>1, <1>5, NothingMoves DEF ReadBalances, store, exchange, Latches, Elsewhere
  <2>2. inventory - VenueReserved \in Int
    BY <1>1, InventoryInt, SumsAreInt DEF JournalInv
  <2>3. Max({0, inventory - VenueReserved}) \in Int
    BY <2>2, Positive
  <2>4. Turns(p, Tail(proc[p].plan))
    BY <1>1, <1>5, <2>3 DEF ReadBalances, ProcShape, Done, Becomes, Turns, Fields
  <2> QED
    BY <1>1, <1>3, <2>1, <2>4, SameLatches, DoneKeeps, TaskStepKeeps
<1>6. CASE ReconcileFails(p)
  <2>1. JournalStep /\ UNCHANGED Elsewhere /\ Raise(p, FALSE) /\ FALSE \in BOOLEAN
    BY <1>1, <1>6, NothingMoves DEF ReconcileFails, exchange
  <2> QED
    BY <1>3, <2>1, RaiseKeeps, TaskStepKeeps
<1> QED
  BY <1>4, <1>5, <1>6 DEF Reconcile

-----------------------------------------------------------------------------
(* Submission                                                              *)

\* An order that the venue has accepted is there.
LEMMA AcceptedIsHere ==
  ASSUME JournalInv, NEW i \in DOMAIN journal, Accept(i)
  PROVE  Here(i)'
<1>1. i \in DOMAIN venue
  BY RowFacts DEF JournalInv, RowTypes
<1>2. PICK x : venue' = [venue EXCEPT ![i] =
                 [state |-> IF journal[i].kind = "ioc" THEN "ended" ELSE "live", executed |-> x]]
  BY DEF Accept
<1>3. venue'[i].state = IF journal[i].kind = "ioc" THEN "ended" ELSE "live"
  BY <1>1, <1>2
<1> QED
  BY <1>3 DEF Here

\* An order may become unknown whatever is known of it.
LEMMA UnknownKeeps ==
  ASSUME JournalInv, NEW i \in DOMAIN journal, UNCHANGED <<ledger, venue, inventory>>,
         NEW k \in BOOLEAN, NEW s \in Statuses, s = "unknown",
         RowBecomes(i, k, journal[i].filled, s)
  PROVE  JournalStep
<1>1. /\ Rows /\ RowSound(i) /\ RowBounded(i) /\ ledger \in Int /\ inventory \in Int
      /\ journal[i].quantity \in Nat /\ journal[i].filled \in Nat /\ journal[i].known \in BOOLEAN
      /\ venue[i].executed \in Nat
  BY RowFacts, InventoryInt DEF JournalInv, RowTypes
<1>2. PICK f \in Nat : f = journal[i].filled
  BY <1>1
<1>3. /\ journal' \in Seq(JournalRow)
      /\ Len(journal') = Len(journal) /\ DOMAIN journal' = DOMAIN journal
      /\ \A j \in DOMAIN journal : j # i => journal'[j] = journal[j]
      /\ journal'[i].filled = journal[i].filled /\ journal'[i].status = s
      /\ journal'[i].kind = journal[i].kind /\ journal'[i].quantity = journal[i].quantity
  BY <1>1, <1>2, RowSet
<1>4. Rows'
  BY <1>1, <1>3 DEF Rows
<1>5. RowSound(i)' /\ RowBounded(i)'
  BY <1>1, <1>3 DEF RowSound, RowBounded, ActiveOrders
<1>6. Potential(i)' <= Potential(i)
  BY <1>1, <1>3 DEF Potential, Pending
<1>7. /\ ledger' = ledger + Sign(journal[i].kind) * (journal'[i].filled - journal[i].filled)
      /\ inventory' = inventory + Sign(journal[i].kind) * (venue'[i].executed - venue[i].executed)
  BY <1>1, <1>3 DEF Sign
<1>8. RowStep(i)
  BY <1>1, <1>3, <1>4, <1>5, <1>6, <1>7 DEF RowStep, Here
<1> QED
  BY <1>8, RowStepKeeps

\* LiveBroker.submit.
LEMMA SubmitKeeps ==
  ASSUME ExecutionInv, NEW p \in Processes, Submit(p)
  PROVE  Kept
<1>1. PICK i \in DOMAIN journal :
        Submitted(p, i) \/ SubmitConfirmed(p, i) \/ SubmitRejected(p, i) \/ SubmitLost(p, i)
          \/ SubmitUnconfirmed(p, i)
  BY DEF Submit
<1>2. JournalInv /\ SessionInv /\ ProcShape /\ LatchTypes /\ SubmitOf(p)
  BY DEF ExecutionInv, SessionInv
<1>3. Working(p, "submit") /\ i = proc[p].current
  BY <1>1 DEF Submitted, SubmitConfirmed, SubmitRejected, SubmitLost, SubmitUnconfirmed, At
<1>4. /\ proc[p].plan # <<>> /\ Head(proc[p].plan) # "verdict" /\ ProcShape
      /\ proc[p].todo \subseteq DOMAIN journal
      /\ proc[p].stage = "begin" => venue[i].state \in {"unsent", "wire"}
      /\ proc[p].stage = "status" => Here(i)
  BY <1>2, <1>3 DEF Working, SubmitOf, ProcShape
<1>5. /\ journal[i].filled \in Nat /\ journal[i].known \in BOOLEAN /\ journal[i].status \in Statuses
      /\ TRUE \in BOOLEAN /\ "unknown" \in Statuses /\ "rejected" \in Statuses
  BY <1>2, RowFacts DEF JournalInv, RowTypes, Statuses
<1>6. CASE Submitted(p, i)
  <2>1. RowBecomes(i, TRUE, journal[i].filled, journal[i].status) /\ Answered(i) /\ UNCHANGED ledger
    BY <1>6 DEF RowBecomes, Submitted, Answered
  <2>2. JournalStep
    BY <1>2, <1>4, <1>5, <1>6, <2>1, AnsweredKeeps DEF Submitted, At
  <2>3. /\ Turns(p, proc[p].plan) /\ proc'[p].stage = "status"
        /\ proc'[p].current = proc[p].current
    BY <1>2, <1>4, <1>6, StaysTurns DEF Submitted, StaysAs
  <2>4. UNCHANGED <<Latches, lock, Elsewhere>>
    BY <1>6 DEF Submitted
  <2>5. SubmitOf(p)'
    <3>1. Here(i)' /\ i \in DOMAIN journal'
      BY <1>2, <1>6, <2>2, AcceptedIsHere DEF Submitted, JournalStep, Moves
    <3>2. proc'[p].current = i
      BY <1>3, <2>3
    <3> QED
      BY <2>3, <3>1, <3>2 DEF SubmitOf, Here
  <2> QED
    BY <1>4, <2>2, <2>3, <2>4, <2>5, StaysKeeps, TaskStepKeeps
<1>7. CASE SubmitConfirmed(p, i)
  <2>1. JournalStep
    BY <1>2, <1>4, <1>7, AppliedNow DEF SubmitConfirmed, At, exchange
  <2>2. UNCHANGED <<Latches, lock, Elsewhere>> /\ Turns(p, Tail(proc[p].plan))
    BY <1>2, <1>7, BecomesIs DEF SubmitConfirmed, Done
  <2> QED
    BY <1>2, <1>4, <2>1, <2>2, SameLatches, DoneKeeps, TaskStepKeeps
<1>8. CASE SubmitRejected(p, i)
  <2>1. /\ RowBecomes(i, journal[i].known, journal[i].filled, "rejected")
        /\ Refuse(i) /\ Answered(i) /\ UNCHANGED <<ledger, Elsewhere>>
    BY <1>8 DEF RowBecomes, SubmitRejected, Answered
  <2>2. JournalStep
    BY <1>2, <1>4, <1>5, <1>8, <2>1, AnsweredKeeps DEF SubmitRejected, At
  <2>3. PICK kills \in BOOLEAN : Raise(p, kills)
    BY <1>8 DEF SubmitRejected
  <2> QED
    BY <1>4, <2>1, <2>2, <2>3, RaiseKeeps, TaskStepKeeps
<1>9. CASE SubmitLost(p, i)
  <2>1. /\ RowBecomes(i, journal[i].known, journal[i].filled, "unknown")
        /\ Answered(i) /\ UNCHANGED <<ledger, Elsewhere>> /\ Raise(p, TRUE)
    BY <1>9 DEF RowBecomes, SubmitLost, Answered, OnItsWay, TimeoutIsUnknown
  <2>2. JournalStep
    BY <1>2, <1>4, <1>5, <1>9, <2>1, AnsweredKeeps DEF SubmitLost, At
  <2> QED
    BY <1>4, <1>5, <2>1, <2>2, RaiseKeeps, TaskStepKeeps
<1>10. CASE SubmitUnconfirmed(p, i)
  <2>1. RowBecomes(i, journal[i].known, journal[i].filled, "unknown")
    BY <1>10 DEF RowBecomes, SubmitUnconfirmed
  <2>2. JournalStep
    BY <1>2, <1>5, <1>10, <2>1, UnknownKeeps DEF SubmitUnconfirmed, exchange
  <2>3. UNCHANGED Elsewhere /\ Raise(p, TRUE)
    BY <1>10 DEF SubmitUnconfirmed
  <2> QED
    BY <1>4, <1>5, <2>2, <2>3, RaiseKeeps, TaskStepKeeps
<1> QED
  BY <1>1, <1>6, <1>7, <1>8, <1>9, <1>10

-----------------------------------------------------------------------------
(* The controller                                                          *)

\* What the tasks put before the rest of their plan.
LEMMA ControlPlans ==
  /\ MoreOK("protect", <<"submit">> \o <<"reconcile">>)
  /\ MoreOK("exit", <<"submit">> \o <<"reconcile", "protect">>)
  /\ MoreOK("decide", <<"submit">> \o <<>>)
  /\ MoreOK("decide", <<"protect">>) /\ MoreOK("exit", <<"protect">>)
  /\ MoreOK("recheck", <<"protect">>) /\ MoreOK("recheck", <<"cancelAll", "reconcile", "exit">>)
  /\ MoreOK("killFlatten", <<"flatten">>)
  /\ \A fresh \in BOOLEAN : MoreOK("flatten", FlattenPlan(fresh))
<1>1. ASSUME NEW head, NEW then \in Seq({"reconcile", "protect"})
      PROVE  MoreOK(head, <<"submit">> \o then)
  <2> DEFINE new == <<"submit">> \o then
  <2>1. /\ Len(then) \in Nat /\ DOMAIN new = 1 .. Len(then) + 1 /\ new \in Seq(Tasks)
        /\ new[1] = "submit"
        /\ \A k \in DOMAIN new : k # 1 => k - 1 \in 1 .. Len(then) /\ new[k] = then[k - 1]
    BY DEF Tasks
  <2> HIDE DEF new
  <2>2. \A k \in DOMAIN new : k # 1 => new[k] \in {"reconcile", "protect"}
    BY <2>1
  <2>3. \A k \in DOMAIN new : new[k] \in Recovering /\ new[k] \notin Exits
    BY <2>1, <2>2 DEF Recovering, Exits
  <2>4. \A k \in DOMAIN new : new[k] = "submit" => k = 1
    BY <2>2
  <2> QED
    BY <2>1, <2>3, <2>4 DEF MoreOK, Exits, new
<1>2. <<"reconcile">> \in Seq({"reconcile", "protect"}) /\ <<>> \in Seq({"reconcile", "protect"})
  OBVIOUS
<1>3. <<"reconcile", "protect">> \in Seq({"reconcile", "protect"})
  OBVIOUS
<1> USE DEF MoreOK, Tasks, Finals, Exits, Recovering
<1>4. MoreOK("decide", <<"protect">>) /\ MoreOK("exit", <<"protect">>) /\ MoreOK("recheck", <<"protect">>)
  OBVIOUS
<1>5. MoreOK("recheck", <<"cancelAll", "reconcile", "exit">>)
  OBVIOUS
<1>6. MoreOK("killFlatten", <<"flatten">>)
  OBVIOUS
<1>7. MoreOK("flatten", FlattenPlan(TRUE))
  BY DEF FlattenPlan
<1>8. MoreOK("flatten", FlattenPlan(FALSE))
  BY DEF FlattenPlan
<1> HIDE DEF MoreOK
<1> QED
  BY <1>1, <1>2, <1>3, <1>4, <1>5, <1>6, <1>7, <1>8

\* An order is journaled and its creation comes next.
LEMMA CreateKeeps ==
  ASSUME ExecutionInv, NEW p \in Processes, proc[p].plan # <<>>, Head(proc[p].plan) # "verdict",
         NEW kind, NEW quantity, NEW then, Create(p, kind, quantity, then),
         NewOrder(kind, quantity), MoreOK(Head(proc[p].plan), <<"submit">> \o then)
  PROVE  Kept
<1> DEFINE more == <<"submit">> \o then
           n == Len(journal) + 1
<1>1. JournalInv /\ SessionInv /\ ProcShape /\ LatchTypes
  BY DEF ExecutionInv, SessionInv
<1>2. JournalStep /\ n \in DOMAIN journal' /\ venue'[n].state = "unsent"
  BY <1>1, JournaledKeeps
<1>3. /\ Turns(p, more \o Tail(proc[p].plan))
      /\ proc'[p].current = n /\ proc'[p].stage = "begin"
  <2> DEFINE next == more \o Tail(proc[p].plan)
  <2>1. proc' = [Becomes(p, next) EXCEPT ![p].current = n, ![p].retry = (@ \/ kind = "ioc")]
    BY DEF Create, DoneThen
  <2> HIDE DEF next, n, more
  <2>2. Turns(p, next) /\ proc'[p].current = n /\ proc'[p].stage = "begin"
    BY <1>1, <2>1 DEF ProcShape, Becomes, Turns, Fields
  <2> QED
    BY <2>2 DEF next
<1>4. LatchTypes' /\ LatchesStay /\ UNCHANGED <<lock, Elsewhere>>
  BY <1>1, SameLatches DEF Create
<1>5. SessionStep(p)
  <2>1. Goes(p, more)
    BY <1>3, <1>4 DEF Goes
  <2> QED
    BY <1>4, <2>1, GoesKeeps
<1>6. SubmitOf(p)'
  BY <1>2, <1>3 DEF SubmitOf
<1> QED
  BY <1>2, <1>5, <1>6, TaskStepKeeps

\* A task that calls nothing and is over.
LEMMA PlainKeeps ==
  ASSUME ExecutionInv, NEW p \in Processes, proc[p].plan # <<>>, Head(proc[p].plan) # "verdict",
         NEW more, MoreOK(Head(proc[p].plan), more), more = <<>> \/ more[1] # "submit",
         proc' = DoneThen(p, more),
         Plain(p), LatchTypes', UNCHANGED lock, LatchesStay \/ "verdict" \notin Range(proc[p].plan)
  PROVE  Kept
<1>1. JournalInv /\ ProcShape
  BY DEF ExecutionInv, SessionInv
<1>2. JournalStep /\ UNCHANGED Elsewhere
  BY <1>1, NothingMoves DEF Plain, exchange, Elsewhere
<1>3. Goes(p, more)
  BY <1>1, <1>2, BecomesIs DEF Goes, DoneThen
<1> QED
  BY <1>2, <1>3, GoesKeeps, TaskStepKeeps

\* The same, when nothing more is to be done.
LEMMA PlainDone ==
  ASSUME ExecutionInv, NEW p \in Processes, proc[p].plan # <<>>, Head(proc[p].plan) # "verdict",
         proc' = Done(p),
         Plain(p), LatchTypes', UNCHANGED lock, LatchesStay \/ "verdict" \notin Range(proc[p].plan)
  PROVE  Kept
<1>1. proc[p].plan \in Seq(Tasks)
  BY DEF ExecutionInv, SessionInv, PlanOK
<1>2. <<>> \o Tail(proc[p].plan) = Tail(proc[p].plan)
  BY <1>1
<1>3. proc' = DoneThen(p, <<>>)
  BY <1>2 DEF Done, DoneThen
<1> QED
  BY <1>3, NoMore, PlainKeeps

\* A sale is of what the ledger holds and no other sale reserves.
LEMMA SalesAreNew ==
  ASSUME ExecutionInv, NEW p \in Processes
  PROVE  /\ ProtectPlaces(p) => NewOrder("stop", Missing) /\ Missing <= ledger
         /\ ExitPlaces(p) => NewOrder("ioc", ExitQuantity(p)) /\ ExitQuantity(p) <= ledger
<1>1. JournalInv /\ Rows /\ ProcShape
  BY DEF ExecutionInv, SessionInv, JournalInv
<1>2. Covered \in Int /\ Reserved \in Int /\ ledger \in Int /\ proc[p].available \in Int
  BY <1>1, SumsAreInt, InventoryInt DEF ProcShape
<1>3. Min({proc[p].available, ledger}) <= ledger /\ Min({proc[p].available, ledger}) \in Int
  BY <1>2, MinOfTwo
<1>4. ASSUME ProtectPlaces(p)
      PROVE  NewOrder("stop", Missing) /\ Missing <= ledger
  <2>1. ledger - Covered \in Int
    BY <1>2
  <2>2. Missing \in Nat
    BY <2>1, Positive DEF Missing
  <2>3. Missing \in Nat \ {0}
    BY <1>4, <2>2, SizeAssumption DEF ProtectPlaces
  <2>4. NewOrder("stop", Missing)
    BY <1>4, <2>3 DEF ProtectPlaces, Create, SellAuthorized, NewOrder
  <2>5. Missing <= Min({proc[p].available, ledger})
    BY <1>4 DEF ProtectPlaces, SellAuthorized
  <2> QED
    BY <1>2, <1>3, <2>2, <2>4, <2>5
<1>5. ASSUME ExitPlaces(p)
      PROVE  NewOrder("ioc", ExitQuantity(p)) /\ ExitQuantity(p) <= ledger
  <2>1. ExitQuantity(p) \in Int /\ ExitQuantity(p) <= ledger
    BY <1>2, MinOfTwo DEF ExitQuantity
  <2>2. ExitQuantity(p) \in Nat \ {0}
    BY <1>5, <2>1, SizeAssumption DEF ExitPlaces
  <2>3. NewOrder("ioc", ExitQuantity(p))
    BY <1>5, <2>2 DEF ExitPlaces, Create, SellAuthorized, NewOrder
  <2> QED
    BY <2>1, <2>3
<1> QED
  BY <1>4, <1>5

\* Controller.protect: the stop covers what no other sale reserves.
LEMMA ProtectKeeps ==
  ASSUME ExecutionInv, NEW p \in Processes, ProtectIdle(p) \/ ProtectRefused(p) \/ ProtectPlaces(p)
  PROVE  Kept
<1>1. JournalInv /\ LatchTypes /\ Rows
  BY DEF ExecutionInv, SessionInv, JournalInv
<1>2. proc[p].plan # <<>> /\ Head(proc[p].plan) = "protect"
  BY DEF ProtectIdle, ProtectRefused, ProtectPlaces, At, Working
<1>3. CASE ProtectIdle(p)
  <2>1. killed' \in BOOLEAN /\ (killed => killed')
    BY <1>3 DEF ProtectIdle
  <2>2. /\ LatchTypes' /\ LatchesStay /\ UNCHANGED lock
        /\ proc' = Done(p) /\ Plain(p)
    BY <1>1, <1>3, <2>1 DEF ProtectIdle, LatchTypes, LatchesStay
  <2> QED
    BY <1>2, <2>2, PlainDone
<1>4. CASE ProtectRefused(p)
  <2>1. JournalStep /\ UNCHANGED Elsewhere /\ Raise(p, FALSE) /\ FALSE \in BOOLEAN
    BY <1>1, <1>4, NothingMoves DEF ProtectRefused, exchange
  <2> QED
    BY <1>2, <2>1, RaiseKeeps, TaskStepKeeps
<1>5. CASE ProtectPlaces(p)
  BY <1>2, <1>5, SalesAreNew, ControlPlans, CreateKeeps DEF ProtectPlaces
<1> QED
  BY <1>3, <1>4, <1>5

\* Controller.flatten up to the exit.
LEMMA FlattenKeeps ==
  ASSUME ExecutionInv, NEW p \in Processes,
         BeginFlatten(p) \/ Recheck(p) \/ EndFlatten(p) \/ KillFlatten(p)
  PROVE  Kept
<1>1. LatchTypes
  BY DEF ExecutionInv, SessionInv
<1>2. /\ proc[p].plan # <<>>
      /\ UNCHANGED <<Latches, lock>> /\ Plain(p)
  BY DEF BeginFlatten, Recheck, EndFlatten, KillFlatten, At, Working
<1>3. LatchTypes' /\ LatchesStay
  BY <1>1, <1>2, SameLatches
<1>4. CASE BeginFlatten(p)
  <2>1. Head(proc[p].plan) = "flatten"
    BY <1>4 DEF BeginFlatten, At, Working
  <2>2. CASE proc' = Done(p)
    BY <1>2, <1>3, <2>1, <2>2, PlainDone
  <2>3. ASSUME NEW fresh \in BOOLEAN, proc' = DoneThen(p, FlattenPlan(fresh))
        PROVE  Kept
    <3>1. MoreOK("flatten", FlattenPlan(fresh)) /\ FlattenPlan(fresh)[1] # "submit"
      BY ControlPlans DEF FlattenPlan
    <3> QED
      BY <1>2, <1>3, <2>1, <2>3, <3>1, PlainKeeps
  <2> QED
    BY <1>4, <2>2, <2>3 DEF BeginFlatten
<1>5. CASE Recheck(p)
  <2>1. Head(proc[p].plan) = "recheck"
    BY <1>5 DEF Recheck, At, Working
  <2>2. CASE proc' = DoneThen(p, <<"cancelAll", "reconcile", "exit">>)
    <3>1. /\ MoreOK("recheck", <<"cancelAll", "reconcile", "exit">>)
          /\ <<"cancelAll", "reconcile", "exit">>[1] # "submit"
      BY ControlPlans
    <3> QED
      BY <1>2, <1>3, <2>1, <2>2, <3>1, PlainKeeps
  <2>3. CASE proc' = DoneThen(p, <<"protect">>)
    <3>1. MoreOK("recheck", <<"protect">>) /\ <<"protect">>[1] # "submit"
      BY ControlPlans
    <3> QED
      BY <1>2, <1>3, <2>1, <2>3, <3>1, PlainKeeps
  <2> QED
    BY <1>5, <2>2, <2>3 DEF Recheck
<1>6. CASE EndFlatten(p)
  <2>1. Head(proc[p].plan) = "endFlatten" /\ proc' = Done(p)
    BY <1>6 DEF EndFlatten, At, Working
  <2> QED
    BY <1>2, <1>3, <2>1, PlainDone
<1>7. CASE KillFlatten(p)
  <2>1. Head(proc[p].plan) = "killFlatten"
    BY <1>7 DEF KillFlatten, At, Working
  <2>2. CASE proc' = DoneThen(p, <<"flatten">>)
    <3>1. MoreOK("killFlatten", <<"flatten">>) /\ <<"flatten">>[1] # "submit"
      BY ControlPlans
    <3> QED
      BY <1>2, <1>3, <2>1, <2>2, <3>1, PlainKeeps
  <2>3. CASE proc' = DoneThen(p, <<>>)
    BY <1>2, <1>3, <2>1, <2>3, NoMore, PlainKeeps
  <2> QED
    BY <1>7, <2>2, <2>3 DEF KillFlatten
<1> QED
  BY <1>4, <1>5, <1>6, <1>7

\* The exit of Controller.flatten, placed when no order is active.
LEMMA ExitKeeps ==
  ASSUME ExecutionInv, NEW p \in Processes, ExitIdle(p) \/ ExitPlaces(p) \/ ExitRefused(p)
  PROVE  Kept
<1>1. JournalInv /\ LatchTypes /\ ProcShape
  BY DEF ExecutionInv, SessionInv
<1>2. proc[p].plan # <<>> /\ Head(proc[p].plan) = "exit"
  BY DEF ExitIdle, ExitPlaces, ExitRefused, At, Working
<1>3. CASE ExitIdle(p)
  <2>1. /\ killed' = killed \/ killed' = TRUE
        /\ UNCHANGED <<flattenRequested, recovery, lock>> /\ Plain(p)
        /\ proc' = Done(p) \/ proc' = DoneThen(p, <<"protect">>)
    BY <1>3 DEF ExitIdle
  <2>2. LatchTypes' /\ LatchesStay
    <3>1. CASE killed' = killed
      BY <1>1, <2>1, <3>1 DEF LatchTypes, LatchesStay
    <3>2. CASE killed' = TRUE
      BY <1>1, <2>1, <3>2 DEF LatchTypes, LatchesStay
    <3> QED
      BY <2>1, <3>1, <3>2
  <2>3. CASE proc' = Done(p)
    BY <1>2, <2>1, <2>2, <2>3, PlainDone
  <2>4. CASE proc' = DoneThen(p, <<"protect">>)
    <3>1. MoreOK("exit", <<"protect">>) /\ <<"protect">>[1] # "submit"
      BY ControlPlans
    <3> QED
      BY <1>2, <2>1, <2>2, <2>4, <3>1, PlainKeeps
  <2> QED
    BY <2>1, <2>3, <2>4
<1>4. CASE ExitPlaces(p)
  BY <1>2, <1>4, SalesAreNew, ControlPlans, CreateKeeps DEF ExitPlaces
<1>5. CASE ExitRefused(p)
  <2>1. JournalStep
    BY <1>1, <1>5, NothingMoves DEF ExitRefused, exchange
  <2>2. Raise(p, FALSE) /\ FALSE \in BOOLEAN /\ UNCHANGED Elsewhere
    BY <1>5 DEF ExitRefused
  <2>3. ~Working(p, "submit")
    BY <1>2 DEF Working
  <2> QED
    BY <1>2, <2>1, <2>2, <2>3, RaiseKeeps, TaskStepKeeps
<1> QED
  BY <1>3, <1>4, <1>5

\* The decision to enter or not.
LEMMA DecideKeeps ==
  ASSUME ExecutionInv, NEW p \in Processes, DecideNothing(p) \/ DecideEntry(p)
  PROVE  Kept
<1>1. LatchTypes
  BY DEF ExecutionInv, SessionInv
<1>2. proc[p].plan # <<>> /\ Head(proc[p].plan) = "decide"
  BY DEF DecideNothing, DecideEntry, At, Working
<1>3. CASE DecideNothing(p)
  <2>1. /\ UNCHANGED <<Latches, lock>> /\ Plain(p) /\ LatchTypes' /\ LatchesStay
        /\ proc' = DoneThen(p, <<"protect">>) \/ proc' = DoneThen(p, <<>>)
    BY <1>1, <1>3, SameLatches DEF DecideNothing
  <2>2. CASE proc' = DoneThen(p, <<"protect">>)
    <3>1. MoreOK("decide", <<"protect">>) /\ <<"protect">>[1] # "submit"
      BY ControlPlans
    <3> QED
      BY <1>2, <2>1, <2>2, <3>1, PlainKeeps
  <2>3. CASE proc' = DoneThen(p, <<>>)
    BY <1>2, <2>1, <2>3, NoMore, PlainKeeps
  <2> QED
    BY <2>1, <2>2, <2>3
<1>4. CASE DecideEntry(p)
  <2>1. NewOrder("maker", Size)
    BY <1>4, SizeAssumption DEF DecideEntry, Create, NewOrder
  <2> QED
    BY <1>2, <1>4, <2>1, ControlPlans, CreateKeeps DEF DecideEntry
<1> QED
  BY <1>3, <1>4

\* What clears a latch is not part of a recovery.
LEMMA EndKeeps ==
  ASSUME ExecutionInv, NEW p \in Processes, Verdict(p) \/ Reset(p) \/ EndSession(p)
  PROVE  Kept
<1>1. JournalInv /\ LatchTypes /\ ProcShape /\ PlanOK(proc[p].plan)
  BY DEF ExecutionInv, SessionInv
<1>2. proc[p].plan # <<>> /\ Plain(p)
  BY DEF Verdict, Reset, EndSession, At, Working
<1>3. JournalStep /\ UNCHANGED Elsewhere
  BY <1>1, <1>2, NothingMoves DEF Plain, exchange, Elsewhere
<1>4. CASE Verdict(p)
  <2>1. recovery' \in {"flat", "protected", "operator_required"}
    BY <1>4 DEF Verdict, VerdictStatus
  <2>2. LatchTypes' /\ Leave(p)
    BY <1>1, <1>4, <2>1 DEF Verdict, LatchTypes
  <2> QED
    BY <1>2, <1>3, <2>2, LeaveKeeps, TaskStepKeeps
<1>5. CASE Reset(p)
  <2>1. Head(proc[p].plan) = "reset"
    BY <1>5 DEF Reset, At, Working
  <2>2. "verdict" \notin Range(proc[p].plan)
    <3> SUFFICES ASSUME NEW k \in DOMAIN proc[p].plan, proc[p].plan[k] = "verdict"
                 PROVE  FALSE
      BY DEF Range
    <3>1. proc[p].plan \in Seq(Tasks) /\ k \in 1 .. Len(proc[p].plan) /\ proc[p].plan[1] = "reset"
      BY <1>1, <1>2, <2>1 DEF PlanOK
    <3>2. 1 \in DOMAIN proc[p].plan /\ 1 < k
      BY <3>1
    <3> QED
      BY <1>1, <3>1, <3>2 DEF PlanOK, Recovering
  <2>3. LatchTypes' /\ proc' = Done(p) /\ UNCHANGED lock
    BY <1>1, <1>5 DEF Reset, LatchTypes
  <2> QED
    BY <1>2, <2>1, <2>2, <2>3, PlainDone
<1>6. CASE EndSession(p)
  <2>1. flattenRequested' \in BOOLEAN
    BY <1>6 DEF EndSession
  <2>2. LatchTypes' /\ Leave(p)
    BY <1>1, <1>6, <2>1 DEF EndSession, LatchTypes
  <2> QED
    BY <1>2, <1>3, <2>2, LeaveKeeps, TaskStepKeeps
<1> QED
  BY <1>4, <1>5, <1>6

\* All tasks of the controller.
LEMMA ControlKeeps ==
  ASSUME ExecutionInv, NEW p \in Processes, Control(p)
  PROVE  Kept
BY ProtectKeeps, FlattenKeeps, ExitKeeps, DecideKeeps, EndKeeps DEF Control

-----------------------------------------------------------------------------
(* The start of a session, of a process, and its death                     *)

\* A plan to start with: no creation is in progress, no recovery under way and no protection
\* about to be withdrawn.
StartOK(plan) ==
  /\ PlanOK(plan) /\ plan # <<>> /\ Head(plan) # "submit"
  /\ "verdict" \notin Range(plan) /\ ~Withdrawing(plan)

\* The plans that sessions begin with.
LEMMA SessionPlans ==
  /\ StartOK(<<"reconcile", "protect", "tick">>)
  /\ StartOK(<<"cancelEntries", "cancelled">>)
  /\ StartOK(<<"flatten", "answer">>)
  /\ StartOK(<<"reconcile", "reset", "answer">>)
  /\ StartOK(<<"cancelEntries", "tick">>)
  /\ StartOK(<<"makers", "flatten", "decided">>)
  /\ StartOK(<<"makers", "protect", "decided">>)
  /\ StartOK(<<"makers", "makers", "decide", "decided">>)
  /\ StartOK(<<"makers", "cancelEntries", "decided">>)
  /\ StartOK(<<"cancelEntries", "killFlatten", "tick">>)
  /\ StartOK(<<"cancelEntries", "reconcile", "flatten", "protect", "report">>)
  /\ "decide" \notin Range(<<"cancelEntries", "reconcile", "flatten", "protect", "report">>)
<1> USE DEF StartOK, PlanOK, Range, Tasks, Finals, Exits, Withdrawing, Withdraws
<1>1. StartOK(<<"reconcile", "protect", "tick">>)
  OBVIOUS
<1>2. StartOK(<<"cancelEntries", "cancelled">>)
  OBVIOUS
<1>3. StartOK(<<"flatten", "answer">>)
  OBVIOUS
<1>4. StartOK(<<"reconcile", "reset", "answer">>)
  OBVIOUS
<1>5. StartOK(<<"cancelEntries", "tick">>)
  OBVIOUS
<1>6. StartOK(<<"makers", "flatten", "decided">>)
  OBVIOUS
<1>7. StartOK(<<"makers", "protect", "decided">>)
  OBVIOUS
<1>8. StartOK(<<"makers", "makers", "decide", "decided">>)
  OBVIOUS
<1>9. StartOK(<<"makers", "cancelEntries", "decided">>)
  OBVIOUS
<1>10. StartOK(<<"cancelEntries", "killFlatten", "tick">>)
  OBVIOUS
<1>11. StartOK(<<"cancelEntries", "reconcile", "flatten", "protect", "report">>)
  OBVIOUS
<1>12. "decide" \notin Range(<<"cancelEntries", "reconcile", "flatten", "protect", "report">>)
  OBVIOUS
<1> HIDE DEF StartOK, Range
<1> QED
  BY <1>1, <1>2, <1>3, <1>4, <1>5, <1>6, <1>7, <1>8, <1>9, <1>10, <1>11, <1>12

\* A session that begins.
Opened(p, plan) ==
  /\ Open(p, plan) /\ StartOK(plan)
  /\ p = "runtime" => up = "up"
  /\ p = "guardian" => "decide" \notin Range(plan)
  /\ killed' \in BOOLEAN /\ flattenRequested' \in BOOLEAN

\* A session begins when no other is under way.
LEMMA OpenKeeps ==
  ASSUME ExecutionInv, NEW p \in Processes, NEW plan, Opened(p, plan)
  PROVE  Kept
<1>1. /\ JournalInv /\ SessionInv /\ ProcShape /\ LatchTypes
      /\ Open(p, plan) /\ StartOK(plan) /\ (p = "runtime" => up = "up")
  BY DEF ExecutionInv, SessionInv, Opened
<1>2. JournalStep
  BY <1>1, NothingMoves DEF Open, exchange
<1>3. Turns(p, plan)
  BY <1>1, BecomesIs DEF Open
<1>4. /\ \A q \in Processes \ {p} : proc'[q] = proc[q] /\ proc[q].plan = <<>>
      /\ proc'[p].plan = plan
  BY <1>1, <1>3 DEF Turns, SessionInv, Open, Processes
<1>5. LatchTypes' /\ UNCHANGED Elsewhere /\ lock' = p /\ UNCHANGED <<journal, venue>>
  BY <1>1 DEF LatchTypes, Opened, Open, exchange
<1>6. SessionInv'
  <2>1. ProcShape'
    BY <1>1, <1>3, <1>5 DEF ProcShape, Turns
  <2>2. \A q \in Processes : PlanOK(proc'[q].plan) /\ (proc'[q].plan # <<>> => lock' = q)
    BY <1>1, <1>4, <1>5, EmptyPlan DEF StartOK
  <2>3. (up # "up" => proc["runtime"].plan = <<>>)'
    BY <1>1, <1>4, <1>5 DEF Processes, Elsewhere
  <2>4. RecoveryLatched'
    BY <1>1, <1>4, EmptyPlan DEF RecoveryLatched, Inside, StartOK
  <2> QED
    BY <1>1, <1>5, <2>1, <2>2, <2>3, <2>4 DEF SessionInv, Elsewhere
<1>7. \A q \in Processes : SubmitOf(q)'
  BY <1>1, <1>4 DEF SubmitOf, Working, StartOK
<1>8. ReplyInv'
  <2>1. ASSUME reply # {}
        PROVE  proc'["runtime"] = proc["runtime"]
    BY <1>1, <1>4, <2>1 DEF ExecutionInv, ReplyInv, Processes
  <2>2. UNCHANGED <<up, reply, venue>>
    BY <1>5 DEF Elsewhere
  <2> QED
    BY <2>1, <2>2 DEF ExecutionInv, ReplyInv, Describes, Here
<1> QED
  BY <1>2, <1>6, <1>7, <1>8 DEF Kept, ExecutionInv, JournalStep

\* The sessions of the runtime and of the guardian begin with one of these plans.
Sessions ==
  \/ ReconcileSession \/ CommandSession \/ BookLost \/ MarketEvent \/ KilledSession
  \/ GuardianSession

\* They do.
LEMMA SessionsOpen ==
  ASSUME ExecutionInv, Sessions
  PROVE  \E p \in Processes : \E plan : Opened(p, plan)
<1>1. killed \in BOOLEAN /\ flattenRequested \in BOOLEAN
  BY DEF ExecutionInv, SessionInv, LatchTypes
<1>2. ASSUME NEW kill \in BOOLEAN, NEW flatten \in BOOLEAN, Stops(kill, flatten)
      PROVE  killed' \in BOOLEAN /\ flattenRequested' \in BOOLEAN
  BY <1>2 DEF Stops
<1>3. "runtime" \in Processes /\ "guardian" \in Processes /\ "guardian" # "runtime"
  BY DEF Processes
<1>4. TRUE \in BOOLEAN /\ FALSE \in BOOLEAN
  OBVIOUS
<1>5. CASE ReconcileSession
  BY <1>2, <1>3, <1>4, <1>5, SessionPlans DEF ReconcileSession, Opened
<1>6. CASE CommandSession
  BY <1>2, <1>3, <1>4, <1>6, SessionPlans DEF CommandSession, Opened
<1>7. CASE BookLost
  BY <1>2, <1>3, <1>4, <1>7, SessionPlans DEF BookLost, Opened
<1>8. CASE MarketEvent
  BY <1>2, <1>3, <1>4, <1>8, SessionPlans DEF MarketEvent, Opened
<1>9. CASE KilledSession
  BY <1>2, <1>3, <1>4, <1>9, SessionPlans DEF KilledSession, Opened
<1>10. CASE GuardianSession
  BY <1>2, <1>3, <1>4, <1>10, SessionPlans DEF GuardianSession, Opened
<1> QED
  BY <1>5, <1>6, <1>7, <1>8, <1>9, <1>10 DEF Sessions

\* All sessions.
LEMMA SessionsKeep == ExecutionInv /\ Sessions => Kept
BY SessionsOpen, OpenKeeps

\* What happens beside the sessions leaves them at their tasks, and unsent what they have
\* not sent.
Aside ==
  /\ \A q \in Processes :
       /\ proc'[q].plan = proc[q].plan
       /\ proc[q].plan # <<>> => proc'[q].stage = proc[q].stage /\ proc'[q].current = proc[q].current
  /\ ProcShape' /\ LatchTypes' /\ LatchesStay /\ mark' \in BOOLEAN /\ UNCHANGED lock
  /\ up' \in {"down", "booting", "up"} /\ (up' # "up" => proc["runtime"].plan = <<>>)
  /\ \A i \in DOMAIN journal : venue[i].state = "unsent" => venue'[i].state = "unsent"

\* A step beside the sessions keeps what they rely on.
LEMMA AsideKeeps ==
  ASSUME ExecutionInv, JournalStep, Aside, ReplyInv'
  PROVE  Kept
<1> USE DEF Aside
<1>1. SessionInv'
  <2>1. \A q \in Processes : PlanOK(proc'[q].plan) /\ (proc'[q].plan # <<>> => lock' = q)
    BY DEF ExecutionInv, SessionInv
  <2>2. RecoveryLatched'
    BY DEF ExecutionInv, SessionInv, RecoveryLatched, Inside, LatchesStay
  <2>3. lock' \in {"free"} \cup Processes /\ "runtime" \in Processes
    BY DEF ExecutionInv, SessionInv, Processes
  <2> QED
    BY <2>1, <2>2, <2>3 DEF SessionInv
<1>2. ASSUME NEW q \in Processes
      PROVE  SubmitOf(q)'
  <2> SUFFICES ASSUME Working(q, "submit")'
               PROVE  (/\ proc[q].current \in DOMAIN journal
                       /\ \/ proc[q].stage = "begin" /\ venue[proc[q].current].state = "unsent"
                          \/ proc[q].stage = "status" /\ Here(proc[q].current))'
    BY DEF SubmitOf
  <2>1. Working(q, "submit") /\ proc[q].plan # <<>>
    BY DEF Working
  <2>2. PICK i \in DOMAIN journal :
          /\ i = proc[q].current
          /\ \/ proc[q].stage = "begin" /\ venue[i].state = "unsent"
             \/ proc[q].stage = "status" /\ Here(i)
    BY <2>1 DEF ExecutionInv, SubmitOf
  <2>3. /\ i \in DOMAIN journal' /\ (Here(i) => Here(i)')
        /\ venue[i].state = "unsent" => venue'[i].state = "unsent"
        /\ proc'[q].stage = proc[q].stage /\ proc'[q].current = i
    BY <2>1, <2>2 DEF JournalStep, Moves
  <2> QED
    BY <2>2, <2>3 DEF Here
<1> QED
  BY <1>1, <1>2 DEF Kept, ExecutionInv, JournalStep

\* The venue acts by itself.
LEMMA VenueStepsKeep ==
  ASSUME ExecutionInv, NEW i \in DOMAIN venue, VenueFills(i) \/ VenueCancels(i) \/ LateArrival(i)
  PROVE  Kept
<1>1. JournalInv /\ SessionInv /\ ProcShape /\ LatchTypes /\ i \in DOMAIN journal /\ Rows
  BY RowFacts DEF ExecutionInv, SessionInv, JournalInv, RowTypes
<1>2. /\ UNCHANGED <<journal, ledger, killed, flattenRequested, recovery, mark, proc, lock, up, reply>>
      /\ venue[i].state \in {"live", "wire"}
  BY DEF VenueFills, VenueCancels, LateArrival, store
<1>3. JournalStep
  <2>1. CASE VenueFills(i)
    BY <1>1, <2>1, FillKeeps
  <2>2. CASE VenueCancels(i)
    BY <1>1, <2>2, EndingKeeps DEF VenueCancels, Ended, store
  <2>3. CASE LateArrival(i)
    <3>1. RowBecomes(i, journal[i].known, journal[i].filled, journal[i].status) /\ Answered(i)
      BY <2>3 DEF LateArrival, RowBecomes, Answered, store
    <3>2. journal[i].known \in BOOLEAN /\ journal[i].status \in Statuses
      BY <1>1, RowFacts DEF RowTypes
    <3> QED
      BY <1>1, <1>2, <2>3, <3>1, <3>2, AnsweredKeeps DEF LateArrival
  <2> QED
    BY <2>1, <2>2, <2>3
<1>4. \A j \in DOMAIN journal : venue[j].state = "unsent" => venue'[j].state = "unsent"
  <2>1. \E r : venue' = [venue EXCEPT ![i] = r]
    <3>1. CASE VenueFills(i)
      BY <3>1 DEF VenueFills
    <3>2. CASE VenueCancels(i)
      BY <3>2 DEF VenueCancels
    <3>3. CASE LateArrival(i)
      BY <3>3 DEF LateArrival, Accept, Refuse
    <3> QED
      BY <3>1, <3>2, <3>3
  <2>2. \A j \in DOMAIN journal : j # i => venue'[j] = venue[j]
    BY <1>1, <2>1, RowFacts DEF RowTypes
  <2> QED
    BY <1>2, <2>2
<1>5. Aside
  <2>1. ProcShape'
    BY <1>1, <1>2 DEF ProcShape
  <2> QED
    BY <1>1, <1>2, <1>4, <2>1 DEF Aside, LatchTypes, LatchesStay, SessionInv
<1> QED
  BY <1>2, <1>3, <1>5, ReplyStays, AsideKeeps

\* The delay between two exits passes.
LEMMA RetryKeeps ==
  ASSUME ExecutionInv, NEW p \in Processes, RetryElapses(p)
  PROVE  Kept
<1>1. JournalInv /\ SessionInv /\ ProcShape /\ LatchTypes /\ "runtime" \in Processes
  BY DEF ExecutionInv, SessionInv, Processes
<1>2. /\ UNCHANGED <<journal, ledger, venue, inventory>>
      /\ UNCHANGED <<killed, flattenRequested, recovery, mark, lock, up, reply>>
  BY DEF RetryElapses, store, exchange
<1>3. JournalStep
  BY <1>1, <1>2, NothingMoves
<1>4. /\ ProcShape'
      /\ \A q \in Processes : /\ proc'[q].plan = proc[q].plan /\ proc'[q].stage = proc[q].stage
                              /\ proc'[q].current = proc[q].current /\ proc'[q].todo = proc[q].todo
  BY <1>1, <1>2 DEF RetryElapses, ProcShape, Fields
<1>5. Aside
  BY <1>1, <1>2, <1>4 DEF Aside, LatchTypes, LatchesStay, SessionInv
<1> QED
  BY <1>1, <1>2, <1>3, <1>4, <1>5, ReplyStays, AsideKeeps

\* The start of the runtime reconciles while the guardian may act.
LEMMA BootKeeps ==
  ASSUME ExecutionInv, Booting
  PROVE  Kept
<1> DEFINE r == "runtime"
<1>1. /\ JournalInv /\ SessionInv /\ ProcShape /\ LatchTypes /\ ReplyInv
      /\ r \in Processes /\ proc[r].todo \subseteq DOMAIN journal
  BY DEF ExecutionInv, SessionInv, Processes, ProcShape
<1>2. up # "up" /\ proc[r].plan = <<>>
  BY <1>1 DEF Booting, Boot, BootAsks, BootFails, BootApplies, BootCompletes, SessionInv
\* What a start does to its process.
<1>3. ASSUME DOMAIN proc' = Processes, DOMAIN proc'[r] = Fields, proc'[r].available \in Int,
             proc'[r].todo \subseteq DOMAIN journal, proc'[r].plan = <<>>,
             \A q \in Processes \ {r} : proc'[q] = proc[q],
             UNCHANGED <<venue, flattenRequested, recovery, lock>>,
             killed' \in BOOLEAN, killed => killed', mark' \in BOOLEAN,
             up' \in {"down", "booting", "up"}, JournalStep
      PROVE  Aside
  <2>1. DOMAIN journal \subseteq DOMAIN journal'
    BY <1>3 DEF JournalStep, Moves
  <2>2. ProcShape'
    BY <1>1, <1>3, <2>1 DEF ProcShape
  <2> QED
    BY <1>1, <1>2, <1>3, <2>2 DEF Aside, LatchTypes, LatchesStay
<1>4. /\ DOMAIN Fresh = Fields /\ Fresh.plan = <<>> /\ Fresh.todo = {} /\ Fresh.available \in Int
  BY DEF Fresh, Fields, NoAccount
<1>5. CASE Boot
  <2>1. JournalStep /\ UNCHANGED <<store, exchange, lock, reply>> /\ up' = "booting"
    BY <1>1, <1>5, NothingMoves DEF Boot, store, exchange
  <2>2. /\ DOMAIN proc' = Processes /\ DOMAIN proc'[r] = Fields /\ proc'[r].available \in Int
        /\ proc'[r].todo = ActiveOrders /\ proc'[r].plan = <<>>
        /\ \A q \in Processes \ {r} : proc'[q] = proc[q]
    BY <1>1, <1>5 DEF Boot, ProcShape, Fresh, Fields, NoAccount
  <2>3. Aside
    BY <1>1, <1>3, <2>1, <2>2 DEF store, exchange, ActiveOrders, LatchTypes, SessionInv
  <2>4. ReplyInv'
    BY <1>1, <1>5, <2>1 DEF Boot, ReplyInv
  <2> QED
    BY <2>1, <2>3, <2>4, AsideKeeps
<1>6. CASE BootAsks
  <2>1. JournalStep /\ UNCHANGED <<store, exchange, proc, lock, up>> /\ up = "booting"
    BY <1>1, <1>6, NothingMoves DEF BootAsks, store, exchange
  <2>2. Aside
    BY <1>1, <1>2, <1>3, <2>1 DEF store, exchange, LatchTypes, SessionInv, ProcShape
  <2>3. CASE proc[r].todo # {}
    <3>1. PICK i \in DOMAIN journal : i = Min(proc[r].todo)
      BY <1>1, <2>3, LeastIsRow
    <3>2. /\ Here(i)
          /\ reply' = {[live |-> venue[i].state = "live", executed |-> venue[i].executed]}
      BY <1>6, <2>3, <3>1 DEF BootAsks
    <3>3. \A answer \in reply' :
            answer.live = (venue[i].state = "live") /\ answer.executed = venue[i].executed
      BY <3>2
    <3>4. venue[i].executed \in Nat
      BY <1>1, RowFacts DEF JournalInv, RowTypes
    <3>5. ASSUME NEW answer \in reply'
          PROVE  Describes(answer, i)
      <4>1. answer.live \in BOOLEAN
        BY <3>3
      <4>2. answer.executed \in Nat /\ answer.executed <= venue[i].executed
        BY <3>3, <3>4
      <4>3. ~answer.live => venue[i].state = "ended"
        BY <3>2, <3>3 DEF Here
      <4> QED
        BY <3>2, <3>3, <4>1, <4>2, <4>3 DEF Describes
    <3>6. \A answer \in reply' : Describes(answer, i)'
      BY <2>1, <3>5 DEF Describes, Here, exchange
    <3> QED
      BY <2>1, <2>2, <2>3, <3>1, <3>6, AsideKeeps DEF ReplyInv
  <2>4. CASE proc[r].todo = {}
    <3>1. reply' = {[balance |-> inventory, available |-> Max({0, inventory - VenueReserved})]}
      BY <1>6, <2>4 DEF BootAsks
    <3>2. inventory - VenueReserved \in Int
      BY <1>1, InventoryInt, SumsAreInt DEF JournalInv
    <3>3. Max({0, inventory - VenueReserved}) \in Int
      BY <3>2, Positive
    <3>4. \A answer \in reply' : answer.available \in Int
      BY <3>1, <3>3
    <3> QED
      BY <2>1, <2>2, <2>4, <3>4, AsideKeeps DEF ReplyInv
  <2> QED
    BY <2>3, <2>4
<1>7. ASSUME NEW answer \in reply, BootApplies(answer)
      PROVE  Kept
  <2>1. PICK i \in DOMAIN journal : i = Min(proc[r].todo) /\ i \in proc[r].todo
    BY <1>1, <1>7, LeastIsRow DEF BootApplies
  <2>2. /\ journal[i].filled <= answer.executed /\ Applied(i, answer.live, answer.executed)
        /\ proc' = [proc EXCEPT ![r].todo = proc[r].todo \ {i}]
        /\ reply' = {} /\ UNCHANGED <<exchange, Latches, lock, mark, up>>
    BY <1>1, <1>7, <2>1 DEF BootApplies, ProcShape
  <2>3. Describes(answer, i)
    BY <1>1, <2>1 DEF ReplyInv
  <2>4. JournalStep
    BY <1>1, <2>2, <2>3, AppliedKeeps DEF Describes, exchange
  <2>5. /\ DOMAIN proc' = Processes /\ DOMAIN proc'[r] = Fields /\ proc'[r].available \in Int
        /\ proc'[r].todo \subseteq DOMAIN journal /\ proc'[r].plan = <<>>
        /\ \A q \in Processes \ {r} : proc'[q] = proc[q]
    BY <1>1, <1>2, <2>2 DEF ProcShape, Fields
  <2>6. Aside
    BY <1>1, <1>3, <2>2, <2>4, <2>5 DEF Latches, exchange, LatchTypes, SessionInv
  <2> QED
    BY <2>2, <2>4, <2>6, AsideKeeps DEF ReplyInv
<1>8. ASSUME NEW answer \in reply, BootCompletes(answer)
      PROVE  Kept
  <2>1. /\ proc[r].todo = {} /\ proc' = [proc EXCEPT ![r].available = answer.available]
        /\ killed' = (killed \/ mark) /\ mark' = TRUE /\ up' = "up" /\ reply' = {}
        /\ UNCHANGED <<journal, ledger, flattenRequested, recovery, venue, inventory, lock>>
    BY <1>8 DEF BootCompletes, exchange
  <2>2. answer.available \in Int
    BY <1>1, <2>1 DEF ReplyInv
  <2>3. JournalStep
    BY <1>1, <2>1, NothingMoves
  <2>4. killed' \in BOOLEAN /\ (killed => killed') /\ mark' \in BOOLEAN
    BY <2>1
  <2>5. /\ DOMAIN proc' = Processes /\ DOMAIN proc'[r] = Fields /\ proc'[r].available \in Int
        /\ proc'[r].todo \subseteq DOMAIN journal /\ proc'[r].plan = <<>>
        /\ \A q \in Processes \ {r} : proc'[q] = proc[q]
    BY <1>1, <1>2, <2>1, <2>2 DEF ProcShape, Fields
  <2>6. Aside
    BY <1>3, <2>1, <2>3, <2>4, <2>5
  <2> QED
    BY <2>1, <2>3, <2>6, AsideKeeps DEF ReplyInv
<1>9. CASE BootFails
  <2>1. JournalStep /\ UNCHANGED <<store, exchange, lock>> /\ up' = "down" /\ reply' = {}
    BY <1>1, <1>9, NothingMoves DEF BootFails, store, exchange
  <2>2. /\ DOMAIN proc' = Processes /\ proc'[r] = Fresh
        /\ \A q \in Processes \ {r} : proc'[q] = proc[q]
    BY <1>1, <1>9 DEF BootFails, ProcShape
  <2>3. Aside
    BY <1>1, <1>3, <1>4, <2>1, <2>2 DEF store, exchange, LatchTypes, SessionInv
  <2> QED
    BY <2>1, <2>3, AsideKeeps DEF ReplyInv
<1> QED
  BY <1>5, <1>6, <1>7, <1>8, <1>9 DEF Booting

\* A death leaves the creation in progress sent, lost or on its way.
LEMMA CrashKeeps ==
  ASSUME ExecutionInv, NEW p \in Processes, Crash(p)
  PROVE  Kept
<1>1. /\ JournalInv /\ SessionInv /\ ProcShape /\ LatchTypes /\ SubmitOf(p)
      /\ UNCHANGED <<journal, ledger, killed, flattenRequested, recovery, mark>>
  BY DEF ExecutionInv, SessionInv, Crash, store
<1>2. /\ DOMAIN Fresh = Fields /\ Fresh.plan = <<>> /\ Fresh.todo = {} /\ Fresh.available \in Int
  BY DEF Fresh, Fields, NoAccount
<1>3. /\ DOMAIN proc' = Processes /\ proc'[p] = Fresh
      /\ \A q \in Processes \ {p} : proc'[q] = proc[q]
  BY <1>1 DEF Crash, ProcShape
<1>4. JournalStep
  <2>1. CASE At(p, "submit", "begin")
    <3>1. PICK i \in DOMAIN journal : i = proc[p].current /\ venue[i].state \in {"unsent", "wire"}
      BY <1>1, <2>1 DEF SubmitOf, At
    <3>2. Answered(i) /\ RowBecomes(i, journal[i].known, journal[i].filled, journal[i].status)
      BY <1>1, <2>1, <3>1 DEF Crash, Answered, OnItsWay, RowBecomes
    <3>3. journal[i].known \in BOOLEAN /\ journal[i].status \in Statuses
      BY <1>1, RowFacts DEF JournalInv, RowTypes
    <3> QED
      BY <1>1, <3>1, <3>2, <3>3, AnsweredKeeps
  <2>2. CASE ~At(p, "submit", "begin")
    BY <1>1, <2>2, NothingMoves DEF Crash, exchange
  <2> QED
    BY <2>1, <2>2
<1>5. ProcShape'
  BY <1>1, <1>2, <1>3 DEF ProcShape
<1>6. SessionInv'
  <2>1. \A q \in Processes : PlanOK(proc'[q].plan) /\ (proc'[q].plan # <<>> => lock' = q)
    BY <1>1, <1>2, <1>3, EmptyPlan DEF SessionInv, Crash
  <2>2. (up # "up" => proc["runtime"].plan = <<>>)' /\ up' \in {"down", "booting", "up"}
    BY <1>1, <1>2, <1>3 DEF SessionInv, Crash, Processes
  <2>3. RecoveryLatched'
    BY <1>1, <1>2, <1>3, EmptyPlan DEF SessionInv, RecoveryLatched, Inside
  <2>4. lock' \in {"free"} \cup Processes
    BY <1>1 DEF SessionInv, Crash
  <2> QED
    BY <1>1, <1>5, <2>1, <2>2, <2>3, <2>4 DEF SessionInv, LatchTypes
<1>7. ASSUME NEW q \in Processes
      PROVE  SubmitOf(q)'
  <2>1. CASE q = p
    BY <1>2, <1>3, <2>1 DEF SubmitOf, Working
  <2>2. CASE q # p /\ proc[q].plan = <<>>
    BY <1>3, <2>2 DEF SubmitOf, Working
  <2>3. CASE q # p /\ proc[q].plan # <<>>
    <3>1. UNCHANGED <<journal, venue>> /\ proc'[q] = proc[q]
      BY <1>1, <1>3, <2>3 DEF SessionInv, Crash, At, Working, exchange
    <3> QED
      BY <3>1 DEF ExecutionInv, SubmitOf, Working, Here
  <2> QED
    BY <2>1, <2>2, <2>3
<1>8. ReplyInv'
  <2>1. CASE p = "runtime"
    BY <2>1 DEF Crash, ReplyInv
  <2>2. CASE p # "runtime"
    <3>1. UNCHANGED <<up, reply>> /\ proc'["runtime"] = proc["runtime"]
      BY <1>3, <2>2 DEF Crash, Processes
    <3> QED
      BY <1>4, <3>1, ReplyStays
  <2> QED
    BY <2>1, <2>2
<1> QED
  BY <1>4, <1>6, <1>7, <1>8 DEF Kept, ExecutionInv, JournalStep

-----------------------------------------------------------------------------
(* The theorems                                                            *)

\* The invariant holds at first ...
LEMMA InitHolds == Init => ExecutionInv
<1> SUFFICES ASSUME Init PROVE ExecutionInv
  OBVIOUS
<1>1. DOMAIN journal = {} /\ Len(journal) = 0 /\ DOMAIN venue = {} /\ Len(venue) = 0
  BY DEF Init
<1>2. JournalInv
  <2>1. Rows
    BY DEF Init, Rows
  <2>2. Accounts
    BY <1>1, SumEmpty DEF Init, Accounts
  <2> QED
    BY <1>1, <2>1, <2>2 DEF JournalInv
<1>3. \A p \in Processes : proc[p] = Fresh /\ proc[p].plan = <<>>
  BY DEF Init, Fresh
<1>4. SessionInv
  <2>1. ProcShape
    BY <1>3 DEF Init, ProcShape, Fresh, Fields, NoAccount
  <2>2. RecoveryLatched
    BY <1>3, EmptyPlan DEF RecoveryLatched, Inside
  <2>3. \A p \in Processes : PlanOK(proc[p].plan)
    BY <1>3, EmptyPlan
  <2> QED
    BY <1>3, <2>1, <2>2, <2>3 DEF Init, SessionInv, LatchTypes, Processes
<1> QED
  BY <1>2, <1>3, <1>4 DEF Init, ExecutionInv, SubmitOf, Working, ReplyInv

\* ... and every step keeps it ...
LEMMA NextKeeps == ExecutionInv /\ [Next]_vars => Kept
<1> SUFFICES ASSUME ExecutionInv, [Next]_vars PROVE Kept
  OBVIOUS
<1>1. ASSUME NEW p \in Processes, Step(p)
      PROVE  Kept
  BY <1>1, CancelKeeps, ReconcileKeeps, SubmitKeeps, ControlKeeps DEF Step
<1>2. CASE Sessions
  BY <1>2, SessionsKeep
<1>3. CASE Booting
  BY <1>3, BootKeeps
<1>4. CASE Environment
  BY <1>4, VenueStepsKeep, CrashKeeps, RetryKeeps DEF Environment
<1>5. CASE UNCHANGED vars
  <2>1. UNCHANGED <<journal, ledger, killed, flattenRequested, recovery, mark, venue, inventory,
                    proc, lock, up, reply>>
    BY <1>5 DEF vars, store, exchange
  <2>2. JournalStep
    BY <2>1, NothingMoves DEF ExecutionInv
  <2>3. Aside
    BY <2>1 DEF Aside, ExecutionInv, SessionInv, ProcShape, LatchTypes, LatchesStay
  <2> QED
    BY <2>1, <2>2, <2>3, ReplyStays, AsideKeeps
<1> QED
  BY <1>1, <1>2, <1>3, <1>4, <1>5 DEF Next, Sessions

\* ... so it holds always.
LEMMA InvariantHolds == Spec => []ExecutionInv
<1>1. ExecutionInv /\ [Next]_vars => ExecutionInv'
  BY NextKeeps DEF Kept
<1> QED
  BY <1>1, InitHolds, PTL DEF Spec

\* The types of the store, of the venue and of the processes; the ledger is never negative,
\* which Portfolio.apply refuses.
THEOREM TypesHold == Spec => []TypeOK
<1>1. ExecutionInv => TypeOK
  <2> SUFFICES ASSUME ExecutionInv PROVE TypeOK
    OBVIOUS
  <2>1. JournalInv /\ SessionInv /\ Rows /\ ledger \in Nat /\ inventory \in Int
    BY InvNeverOversold, InventoryInt DEF ExecutionInv, JournalInv
  <2> QED
    BY <2>1 DEF TypeOK, Rows, SessionInv, ProcShape, LatchTypes
<1> QED
  BY <1>1, InvariantHolds, PTL

\* Whatever request, answer or process is lost: no live order is taken for finished, and
\* every sale that may still execute is covered at the venue (LiveBroker.submit, apply_status
\* and reconcile; RiskEngine.authorize, Controller.protect and _flatten).
THEOREM NothingIsLost == Spec => []DeathLosesNothing
<1>1. ExecutionInv => DeathLosesNothing
  BY InvIsSound, InvNeverOversold DEF ExecutionInv, DeathLosesNothing
<1> QED
  BY <1>1, InvariantHolds, PTL

\* No sale that may still execute is uncovered at the venue: RiskEngine.authorize for sales.
THEOREM NothingIsOversold == Spec => []NeverOversold
<1>1. ExecutionInv => NeverOversold
  BY InvNeverOversold DEF ExecutionInv
<1> QED
  BY <1>1, InvariantHolds, PTL

\* With no order working the ledger is the venue's balance.
LEMMA IdleIsFlat ==
  ASSUME JournalInv, ActiveOrders = {}
  PROVE  /\ inventory = ledger
         /\ \A i \in DOMAIN venue : venue[i].state \in {"ended", "never"}
         /\ \A i \in DOMAIN journal : ~Pending(i) /\ journal[i].filled = venue[i].executed
<1>1. /\ RowTypes /\ WeightTypes /\ Accounts
      /\ \A i \in DOMAIN journal : RowSound(i) /\ RowBounded(i)
  BY RowFacts, WeightsAreInt DEF JournalInv
<1>2. ASSUME NEW i \in DOMAIN journal
      PROVE  /\ Executed[i] = Booked[i] /\ venue[i].state \in {"ended", "never"}
             /\ journal[i].filled = venue[i].executed
  <2>1. journal[i].status \in {"done", "rejected"}
    BY <1>1 DEF RowTypes, Statuses, ActiveOrders
  <2>2. venue[i].executed \in Nat /\ journal[i].filled \in Nat
    BY <1>1 DEF RowTypes
  <2>3. journal[i].filled = venue[i].executed /\ venue[i].state \in {"ended", "never"}
    BY <1>1, <2>1, <2>2 DEF RowSound, RowBounded
  <2> QED
    BY <2>3 DEF Executed, Booked
<1>3. Sum(Executed, DOMAIN journal) = Sum(Booked, DOMAIN journal)
  BY <1>1, <1>2, SumSame DEF RowTypes
<1> QED
  BY <1>1, <1>2, <1>3 DEF Accounts, RowTypes, Pending

\* A journal row is written by an answer of the venue, by the creation in progress or as a
\* new order.
JournalWrite ==
  \/ UNCHANGED journal
  \/ \E i \in DOMAIN journal : \E live, executed : Applied(i, live, executed)
  \/ \E p \in Processes : \E i \in DOMAIN journal, k \in BOOLEAN, s \in Statuses :
       Working(p, "submit") /\ i = proc[p].current /\ RowBecomes(i, k, journal[i].filled, s)
  \/ \E kind, quantity :
       /\ NewOrder(kind, quantity)
       /\ IF kind = "maker" THEN EntryAuthorized ELSE quantity <= ledger

\* No step writes the journal otherwise.
LEMMA JournalWrites ==
  ASSUME ExecutionInv, [Next]_vars
  PROVE  JournalWrite
<1>1. /\ JournalInv
      /\ \A i \in DOMAIN journal : journal[i].known \in BOOLEAN /\ journal[i].status \in Statuses
      /\ TRUE \in BOOLEAN /\ "unknown" \in Statuses /\ "rejected" \in Statuses
  BY RowFacts DEF ExecutionInv, JournalInv, RowTypes, Statuses
<1>2. ASSUME NEW p \in Processes, Step(p)
      PROVE  JournalWrite
  <2>1. CASE Cancel(p)
    <3>1. PICK task \in {"cancelEntries", "cancelAll", "makers"} :
            \/ ListOrders(p, task) \/ CancelsEnd(p, task)
            \/ \E i \in DOMAIN journal : Looked(p, task, i) \/ Requested(p, task, i)
                                        \/ Confirmed(p, task, i) \/ CancelFails(p, task, i)
      BY <2>1 DEF Cancel, Cancels
    <3>2. CASE ListOrders(p, task) \/ CancelsEnd(p, task)
      BY <3>2 DEF ListOrders, CancelsEnd, store, JournalWrite
    <3>3. CASE \E i \in DOMAIN journal : Looked(p, task, i) \/ Confirmed(p, task, i)
      BY <3>3 DEF Looked, Confirmed, JournalWrite
    <3>4. CASE \E i \in DOMAIN journal : Requested(p, task, i) \/ CancelFails(p, task, i)
      BY <3>4 DEF Requested, CancelFails, store, JournalWrite
    <3> QED
      BY <3>1, <3>2, <3>3, <3>4
  <2>2. CASE ReadStatus(p)
    <3>1. ProcShape
      BY DEF ExecutionInv, SessionInv
    <3>2. Unread(p) \subseteq DOMAIN journal
      BY <3>1 DEF ProcShape, Unread, ActiveOrders
    <3>3. PICK i \in DOMAIN journal : i = Min(Unread(p))
      BY <1>1, <2>2, <3>2, LeastIsRow DEF ReadStatus
    <3> QED
      BY <2>2, <3>3 DEF ReadStatus, JournalWrite
  <2>3. CASE ReadBalances(p) \/ ReconcileFails(p)
    BY <2>3 DEF ReadBalances, ReconcileFails, store, JournalWrite
  <2>4. CASE Submit(p)
    <3>1. PICK i \in DOMAIN journal :
            Submitted(p, i) \/ SubmitConfirmed(p, i) \/ SubmitRejected(p, i) \/ SubmitLost(p, i)
              \/ SubmitUnconfirmed(p, i)
      BY <2>4 DEF Submit
    <3>2. Working(p, "submit") /\ i = proc[p].current
      BY <3>1 DEF Submitted, SubmitConfirmed, SubmitRejected, SubmitLost, SubmitUnconfirmed, At
    <3>3. CASE Submitted(p, i)
      <4>1. RowBecomes(i, TRUE, journal[i].filled, journal[i].status)
        BY <3>3 DEF Submitted, RowBecomes
      <4> QED
        BY <1>1, <3>2, <4>1 DEF JournalWrite
    <3>4. CASE SubmitConfirmed(p, i)
      BY <3>4 DEF SubmitConfirmed, JournalWrite
    <3>5. CASE SubmitRejected(p, i)
      <4>1. RowBecomes(i, journal[i].known, journal[i].filled, "rejected")
        BY <3>5 DEF SubmitRejected, RowBecomes
      <4> QED
        BY <1>1, <3>2, <4>1 DEF JournalWrite
    <3>6. CASE SubmitLost(p, i) \/ SubmitUnconfirmed(p, i)
      <4>1. RowBecomes(i, journal[i].known, journal[i].filled, "unknown")
        BY <3>6 DEF SubmitLost, SubmitUnconfirmed, TimeoutIsUnknown, RowBecomes
      <4> QED
        BY <1>1, <3>2, <4>1 DEF JournalWrite
    <3> QED
      BY <3>1, <3>3, <3>4, <3>5, <3>6
  <2>5. CASE ProtectPlaces(p) \/ ExitPlaces(p)
    BY <2>5, SalesAreNew DEF JournalWrite
  <2>6. CASE DecideEntry(p)
    BY <2>6, SizeAssumption DEF DecideEntry, Create, NewOrder, JournalWrite
  <2>7. CASE /\ Control(p)
             /\ ~ProtectPlaces(p) /\ ~ExitPlaces(p) /\ ~DecideEntry(p)
    BY <2>7 DEF Control, ProtectIdle, ProtectRefused, BeginFlatten, Recheck, ExitIdle, ExitRefused,
                EndFlatten, Verdict, KillFlatten, DecideNothing, Reset, EndSession, Plain, JournalWrite
  <2> QED
    BY <1>2, <2>1, <2>2, <2>3, <2>4, <2>5, <2>6, <2>7 DEF Step, Reconcile
<1>3. CASE Sessions
  BY <1>3, SessionsOpen DEF Opened, Open, JournalWrite
<1>4. CASE Booting
  <2>1. CASE Boot \/ BootAsks \/ BootFails \/ \E answer \in reply : BootCompletes(answer)
    BY <2>1 DEF Boot, BootAsks, BootFails, BootCompletes, store, JournalWrite
  <2>2. ASSUME NEW answer \in reply, BootApplies(answer)
        PROVE  JournalWrite
    <3>1. proc["runtime"].todo \subseteq DOMAIN journal
      BY DEF ExecutionInv, SessionInv, ProcShape, Processes
    <3>2. PICK i \in DOMAIN journal : i = Min(proc["runtime"].todo)
      BY <1>1, <2>2, <3>1, LeastIsRow DEF BootApplies
    <3> QED
      BY <2>2, <3>2 DEF BootApplies, JournalWrite
  <2> QED
    BY <1>4, <2>1, <2>2 DEF Booting
<1>5. CASE Environment \/ UNCHANGED vars
  BY <1>5 DEF Environment, VenueFills, VenueCancels, LateArrival, Crash, RetryElapses, store, vars,
              JournalWrite
<1> QED
  BY <1>2, <1>3, <1>4, <1>5 DEF Next, Sessions

\* A new order is the last row, and the others stay.
LEMMA NewRow ==
  ASSUME JournalInv, NEW kind, NEW quantity, NewOrder(kind, quantity)
  PROVE  /\ UNCHANGED ledger
         /\ Len(journal) \in Nat /\ Len(journal') = Len(journal) + 1
         /\ DOMAIN journal' = DOMAIN journal \cup {Len(journal')}
         /\ \A i \in DOMAIN journal : journal'[i] = journal[i] /\ venue'[i] = venue[i]
         /\ journal'[Len(journal')].kind = kind /\ journal'[Len(journal')].filled = 0
<1> DEFINE row == [kind |-> kind, quantity |-> quantity, status |-> "intent",
                   known |-> FALSE, filled |-> 0]
           sent == [state |-> "unsent", executed |-> 0]
<1>1. /\ journal' = Append(journal, row) /\ venue' = Append(venue, sent)
      /\ row.kind = kind /\ row.filled = 0 /\ UNCHANGED ledger
  BY DEF NewOrder, Journaled
<1>2. /\ journal \in Seq(JournalRow) /\ venue \in Seq(VenueRow) /\ Len(venue) = Len(journal)
      /\ Len(journal) \in Nat /\ DOMAIN journal = 1 .. Len(journal)
  BY DEF JournalInv, Rows
<1> HIDE DEF row, sent
<1>3. /\ Len(journal') = Len(journal) + 1 /\ journal'[Len(journal) + 1] = row
      /\ \A i \in 1 .. Len(journal) : journal'[i] = journal[i] /\ venue'[i] = venue[i]
  BY <1>1, <1>2
<1>4. DOMAIN journal' = 1 .. Len(journal) + 1
  BY <1>1, <1>2
<1>5. DOMAIN journal' = DOMAIN journal \cup {Len(journal')}
  BY <1>2, <1>3, <1>4
<1> QED
  BY <1>1, <1>2, <1>3, <1>5

\* A row that is written over is no new one.
LEMMA OldRow ==
  ASSUME NEW i \in DOMAIN journal, NEW k, NEW f, NEW s,
         RowBecomes(i, k, f, s) \/ \E live, executed : Applied(i, live, executed)
  PROVE  /\ DOMAIN journal' = DOMAIN journal
         /\ \A j \in DOMAIN journal \ {i} : journal'[j] = journal[j]
BY DEF RowBecomes, Applied

\* Only a creation lengthens the journal, and only a decision creates an entry.
LEMMA EntriesAreDecided ==
  ASSUME ExecutionInv, ExecutionInv', [Next]_vars,
         Len(journal') > Len(journal), journal'[Len(journal')].kind = "maker"
  PROVE  EntryAuthorized
<1>1. JournalInv /\ DOMAIN journal' # DOMAIN journal
  <2>1. /\ DOMAIN journal = 1 .. Len(journal) /\ DOMAIN journal' = 1 .. Len(journal')
        /\ Len(journal) \in Nat /\ Len(journal') \in Nat
    BY DEF ExecutionInv, JournalInv, Rows
  <2>2. Len(journal') \in 1 .. Len(journal') /\ Len(journal') \notin 1 .. Len(journal)
    BY <2>1
  <2> QED
    BY <2>1, <2>2 DEF ExecutionInv
<1>2. PICK kind, quantity : /\ NewOrder(kind, quantity)
                            /\ kind = "maker" => EntryAuthorized
  BY <1>1, JournalWrites, OldRow DEF JournalWrite
<1>3. journal'[Len(journal')].kind = kind
  BY <1>1, <1>2, NewRow
<1> QED
  BY <1>2, <1>3

\* No averaging down: an entry is created only when the venue, and not only the ledger, is
\* flat and has no order of ours (RiskEngine.authorize).
THEOREM EntriesAreFlat == Spec => EntersFlat
<1>1. ASSUME ExecutionInv, ExecutionInv', [Next]_vars,
             Len(journal') > Len(journal), journal'[Len(journal')].kind = "maker"
      PROVE  VenueFlat
  <2>1. ledger = 0 /\ ActiveOrders = {}
    BY <1>1, EntriesAreDecided DEF EntryAuthorized
  <2> QED
    BY <1>1, <2>1, IdleIsFlat DEF ExecutionInv, VenueFlat
<1>2. ExecutionInv /\ [Next]_vars =>
        (Len(journal') > Len(journal) /\ journal'[Len(journal')].kind = "maker" => VenueFlat)
  BY <1>1, NextKeeps DEF Kept
<1>3. []ExecutionInv /\ [][Next]_vars => EntersFlat
  BY <1>2, PTL DEF EntersFlat
<1> QED
  BY <1>3, InvariantHolds, PTL DEF Spec

\* An exception clears no latch ...
LEMMA RaiseHolds ==
  ASSUME NEW p \in Processes, NEW kills, Raise(p, kills)
  PROVE  LatchesStay
<1>1. CASE RaiseInFlatten(p)
  BY <1>1 DEF RaiseInFlatten, LatchesStay
<1>2. CASE RaiseInRecovery(p)
  BY <1>2 DEF RaiseInRecovery, LatchesStay
<1>3. CASE RaiseOutside(p, kills)
  BY <1>3 DEF RaiseOutside, LatchesStay
<1> QED
  BY <1>1, <1>2, <1>3 DEF Raise

\* ... and nothing else does but reset-kill and a market event, of a flat account.
LEMMA LatchesHeld ==
  ASSUME [Next]_vars
  PROVE  \/ LatchesStay
         \/ \E p \in Processes : (Reset(p) \/ EndSession(p)) /\ ledger = 0 /\ ActiveOrders = {}
<1>1. UNCHANGED Latches => LatchesStay
  BY DEF Latches, LatchesStay
<1>2. ASSUME NEW p \in Processes, Cancel(p)
      PROVE  LatchesStay
  BY <1>1, <1>2, RaiseHolds DEF Cancel, ListOrders, CancelsEnd, Looked, Requested, Confirmed, CancelFails,
                               store, Latches
<1>3. ASSUME NEW p \in Processes, Reconcile(p)
      PROVE  LatchesStay
  BY <1>1, <1>3, RaiseHolds DEF Reconcile, ReadStatus, ReadBalances, ReconcileFails, store, Latches
<1>4. ASSUME NEW p \in Processes, Submit(p)
      PROVE  LatchesStay
  BY <1>1, <1>4, RaiseHolds DEF Submit, Submitted, SubmitConfirmed, SubmitRejected, SubmitLost, SubmitUnconfirmed
<1>5. ASSUME NEW p \in Processes, Control(p)
      PROVE  LatchesStay \/ ((Reset(p) \/ EndSession(p)) /\ ledger = 0 /\ ActiveOrders = {})
  <2>1. CASE ProtectPlaces(p) \/ ExitPlaces(p) \/ DecideEntry(p)
    BY <1>1, <2>1 DEF ProtectPlaces, ExitPlaces, DecideEntry, Create
  <2>2. CASE ProtectRefused(p) \/ ExitRefused(p)
    BY <2>2, RaiseHolds DEF ProtectRefused, ExitRefused
  <2>3. CASE BeginFlatten(p) \/ Recheck(p) \/ EndFlatten(p) \/ KillFlatten(p) \/ DecideNothing(p)
    BY <1>1, <2>3 DEF BeginFlatten, Recheck, EndFlatten, KillFlatten, DecideNothing
  <2>4. CASE ProtectIdle(p) \/ ExitIdle(p) \/ Verdict(p)
    BY <2>4 DEF ProtectIdle, ExitIdle, Verdict, LatchesStay
  <2>5. CASE Reset(p)
    BY <2>5 DEF Reset, LatchesStay
  <2>6. CASE EndSession(p)
    BY <2>6 DEF EndSession, LatchesStay
  <2> QED
    BY <1>5, <2>1, <2>2, <2>3, <2>4, <2>5, <2>6 DEF Control
<1>6. CASE Sessions
  <2>1. \E kill, flatten \in BOOLEAN : Stops(kill, flatten)
    BY <1>6 DEF Sessions, ReconcileSession, CommandSession, BookLost, MarketEvent, KilledSession, GuardianSession
  <2> QED
    BY <2>1 DEF Stops, LatchesStay
<1>7. CASE Booting
  BY <1>1, <1>7 DEF Booting, Boot, BootAsks, BootFails, BootApplies, BootCompletes, store, Latches, LatchesStay
<1>8. CASE Environment \/ UNCHANGED vars
  BY <1>1, <1>8 DEF Environment, VenueFills, VenueCancels, LateArrival, Crash, RetryElapses, vars, store, Latches
<1> QED
  BY <1>2, <1>3, <1>4, <1>5, <1>6, <1>7, <1>8 DEF Next, Step, Sessions

\* A failed exit keeps the kill and the flatten request throughout its recovery and at the end
\* of it, and no latch is cleared before the venue is flat, whichever session, death or start
\* comes (Controller.flatten and recover_protection, process_commands, Engine.event).
THEOREM LatchesAreRetained == Spec => StopsAreRetained
<1>1. ASSUME ExecutionInv, [Next]_vars, NEW p \in Processes, Inside(p, "verdict")
      PROVE  killed' /\ flattenRequested'
  <2>1. killed /\ flattenRequested /\ SessionInv
    BY <1>1 DEF ExecutionInv, SessionInv, RecoveryLatched
  <2>2. ASSUME NEW q \in Processes, Reset(q) \/ EndSession(q)
        PROVE  FALSE
    <3>1. proc[q].plan # <<>> /\ Head(proc[q].plan) \notin Recovering \cup {"verdict"}
      BY <2>2 DEF Reset, EndSession, At, Working, Recovering
    <3>2. PlanOK(proc[p].plan) /\ "verdict" \in Range(proc[p].plan)
      BY <1>1, <2>1 DEF SessionInv, Inside
    <3>3. proc[p].plan # <<>> /\ Head(proc[p].plan) \in Recovering \cup {"verdict"}
      BY <3>2, RecoveryHead
    <3>4. lock = p /\ lock = q
      BY <2>1, <3>1, <3>3 DEF SessionInv
    <3> QED
      BY <3>1, <3>3, <3>4
  <2>3. LatchesStay
    BY <1>1, <2>2, LatchesHeld
  <2> QED
    BY <2>1, <2>3 DEF LatchesStay
<1>2. ASSUME ExecutionInv, [Next]_vars, (killed /\ ~killed') \/ (flattenRequested /\ ~flattenRequested')
      PROVE  VenueFlat
  <2>1. ledger = 0 /\ ActiveOrders = {}
    BY <1>2, LatchesHeld DEF LatchesStay
  <2> QED
    BY <1>2, <2>1, IdleIsFlat DEF ExecutionInv, VenueFlat
<1>3. ExecutionInv /\ [Next]_vars =>
        /\ \A p \in Processes : Inside(p, "verdict") => killed' /\ flattenRequested'
        /\ (killed /\ ~killed') \/ (flattenRequested /\ ~flattenRequested') => VenueFlat
  BY <1>1, <1>2
<1>4. []ExecutionInv /\ [][Next]_vars => StopsAreRetained
  BY <1>3, PTL DEF StopsAreRetained
<1> QED
  BY <1>4, InvariantHolds, PTL DEF Spec

-----------------------------------------------------------------------------
(* Entry risk goes first: the plans                                        *)

\* Before protection is withdrawn the entries are cancelled and the accounts reconciled; the
\* guardian does not decide on entries.
RiskPlan(p, plan) ==
  /\ \A k \in DOMAIN plan : plan[k] \in Withdraws =>
       \/ k = 1
       \/ k = 2 /\ plan[1] = "reconcile" /\ plan[2] = "recheck"
       \/ k = 3 /\ plan[1] = "cancelEntries" /\ plan[2] = "reconcile" /\ plan[3] = "recheck"
  /\ p = "guardian" => "decide" \notin Range(plan)

\* A task that is over leaves the withdrawal it led to.
LEMMA TailRisk ==
  ASSUME NEW p, NEW plan, PlanOK(plan), plan # <<>>, RiskPlan(p, plan)
  PROVE  /\ RiskPlan(p, Tail(plan))
         /\ Withdrawing(Tail(plan)) =>
              /\ Withdrawing(plan) /\ Head(plan) \in {"reconcile", "cancelEntries"}
              /\ Tail(plan) # <<>> /\ Head(Tail(plan)) # "cancelEntries"
<1> DEFINE tail == Tail(plan)
<1>1. /\ Len(plan) \in Nat \ {0} /\ DOMAIN plan = 1 .. Len(plan) /\ Head(plan) = plan[1]
      /\ DOMAIN tail = 1 .. Len(plan) - 1 /\ tail \in Seq(Tasks)
      /\ \A k \in DOMAIN tail : tail[k] = plan[k + 1] /\ k + 1 \in DOMAIN plan
  BY PlanParts
<1> HIDE DEF tail
<1>2. ASSUME NEW k \in DOMAIN tail, tail[k] \in Withdraws
      PROVE  /\ \/ k = 1 /\ plan[1] = "reconcile" /\ tail[1] = "recheck"
                \/ k = 2 /\ plan[1] = "cancelEntries" /\ tail[1] = "reconcile" /\ tail[2] = "recheck"
             /\ plan[k + 1] \in Withdraws /\ k + 1 \in DOMAIN plan /\ 1 \in DOMAIN tail
  <2>1. plan[k + 1] \in Withdraws /\ k + 1 \in DOMAIN plan /\ k \in Int /\ 1 <= k /\ 1 \in DOMAIN tail
    BY <1>1, <1>2
  <2>2. \/ k = 1 /\ plan[1] = "reconcile" /\ plan[2] = "recheck"
        \/ k = 2 /\ plan[1] = "cancelEntries" /\ plan[2] = "reconcile" /\ plan[3] = "recheck"
    BY <2>1 DEF RiskPlan
  <2> QED
    BY <1>1, <1>2, <2>1, <2>2
<1>3. "decide" \in Range(tail) => "decide" \in Range(plan)
  BY <1>1 DEF Range
<1>4. RiskPlan(p, tail)
  BY <1>2, <1>3 DEF RiskPlan
<1>5. ASSUME Withdrawing(tail)
      PROVE  /\ Withdrawing(plan) /\ Head(plan) \in {"reconcile", "cancelEntries"}
             /\ tail # <<>> /\ Head(tail) # "cancelEntries"
  <2>1. PICK k \in DOMAIN tail : tail[k] \in Withdraws
    BY <1>5 DEF Withdrawing
  <2>2. /\ plan[1] \in {"reconcile", "cancelEntries"} /\ tail[1] # "cancelEntries"
        /\ plan[k + 1] \in Withdraws /\ k + 1 \in DOMAIN plan /\ 1 \in DOMAIN tail
    BY <1>2, <2>1
  <2>3. tail # <<>> /\ Head(tail) = tail[1]
    BY <1>1, <2>2
  <2> QED
    BY <1>1, <2>2, <2>3 DEF Withdrawing
<1> QED
  BY <1>4, <1>5 DEF tail

\* A task that leads to no withdrawal may put one before the rest.
LEMMA MoreRisk ==
  ASSUME NEW p, NEW plan, PlanOK(plan), plan # <<>>, RiskPlan(p, plan),
         Head(plan) \notin {"reconcile", "cancelEntries"},
         NEW more, more \in Seq(Tasks), RiskPlan(p, more)
  PROVE  /\ RiskPlan(p, more \o Tail(plan))
         /\ Withdrawing(more \o Tail(plan)) =>
              Withdrawing(more) /\ more \o Tail(plan) # <<>> /\ Head(more \o Tail(plan)) = more[1]
<1> DEFINE tail == Tail(plan)
           new == more \o tail
<1>1. /\ ~Withdrawing(tail) /\ RiskPlan(p, tail) /\ tail \in Seq(Tasks)
  BY TailRisk, PlanParts
<1>2. /\ new \in Seq(Tasks) /\ Len(more) \in Nat /\ DOMAIN more = 1 .. Len(more)
      /\ DOMAIN new = 1 .. Len(more) + Len(tail) /\ Len(tail) \in Nat /\ DOMAIN tail = 1 .. Len(tail)
      /\ \A k \in DOMAIN more : new[k] = more[k]
      /\ \A k \in DOMAIN new : k > Len(more) => k - Len(more) \in DOMAIN tail /\ new[k] = tail[k - Len(more)]
  <2> HIDE DEF tail
  <2> QED
    BY <1>1
<1> HIDE DEF tail, new
<1>3. ASSUME NEW k \in DOMAIN new, new[k] \in Withdraws
      PROVE  k \in DOMAIN more /\ more[k] \in Withdraws
  <2>1. ~(k > Len(more))
    BY <1>1, <1>2, <1>3 DEF Withdrawing
  <2> QED
    BY <1>2, <1>3, <2>1
<1>4. "decide" \in Range(new) => "decide" \in Range(more) \/ "decide" \in Range(tail)
  <2> SUFFICES ASSUME NEW k \in DOMAIN new, new[k] = "decide"
               PROVE  "decide" \in Range(more) \/ "decide" \in Range(tail)
    BY DEF Range
  <2> QED
    BY <1>2 DEF Range
<1>5. ASSUME NEW k \in DOMAIN new, new[k] \in Withdraws
      PROVE  \/ k = 1
             \/ k = 2 /\ new[1] = "reconcile" /\ new[2] = "recheck"
             \/ k = 3 /\ new[1] = "cancelEntries" /\ new[2] = "reconcile" /\ new[3] = "recheck"
  <2>1. k \in DOMAIN more /\ more[k] \in Withdraws
    BY <1>3, <1>5
  <2>2. \A j \in 1 .. k : j \in DOMAIN more /\ new[j] = more[j]
    BY <1>2, <2>1
  <2>3. CASE k = 1
    BY <2>3
  <2>4. CASE k = 2 /\ more[1] = "reconcile" /\ more[2] = "recheck"
    BY <2>2, <2>4
  <2>5. CASE k = 3 /\ more[1] = "cancelEntries" /\ more[2] = "reconcile" /\ more[3] = "recheck"
    BY <2>2, <2>5
  <2> QED
    BY <2>1, <2>3, <2>4, <2>5 DEF RiskPlan
<1>6. RiskPlan(p, new)
  BY <1>1, <1>4, <1>5 DEF RiskPlan
<1>7. ASSUME Withdrawing(new)
      PROVE  Withdrawing(more) /\ new # <<>> /\ Head(new) = more[1]
  <2>1. PICK k \in DOMAIN more : more[k] \in Withdraws
    BY <1>3, <1>7 DEF Withdrawing
  <2>2. 1 \in DOMAIN more /\ 1 \in DOMAIN new
    BY <1>2, <2>1
  <2> QED
    BY <1>2, <2>1, <2>2 DEF Withdrawing
<1> QED
  BY <1>6, <1>7 DEF new, tail

\* A recovery withdraws nothing.
LEMMA RecoveryRisk ==
  ASSUME NEW p, NEW plan, PlanOK(plan), RiskPlan(p, plan), "endFlatten" \in Range(plan)
  PROVE  RiskPlan(p, Recovery(plan)) /\ ~Withdrawing(Recovery(plan))
<1> DEFINE new == Recovery(plan)
<1>1. PICK k \in DOMAIN plan :
        /\ plan[k] = "endFlatten" /\ DOMAIN plan = 1 .. Len(plan) /\ Len(plan) \in Nat
        /\ new \in Seq(Tasks) /\ DOMAIN new = 1 .. Len(plan) - k + 3
        /\ new[1] = "reconcile" /\ new[2] = "protect" /\ new[3] = "verdict"
        /\ \A j \in DOMAIN new : j > 3 => k + (j - 3) \in DOMAIN plan /\ new[j] = plan[k + (j - 3)]
  BY RecoveryParts
<1> HIDE DEF new
<1>2. \A j \in DOMAIN plan : j > k => plan[j] \notin Withdraws
  <2> SUFFICES ASSUME NEW j \in DOMAIN plan, j > k, plan[j] \in Withdraws
               PROVE  FALSE
    OBVIOUS
  <2>1. j \in Int /\ k \in Int /\ k >= 1
    BY <1>1
  <2>2. CASE j = 2 /\ plan[1] = "reconcile"
    BY <1>1, <2>1, <2>2
  <2>3. CASE j = 3 /\ plan[1] = "cancelEntries" /\ plan[2] = "reconcile"
    <3>1. k = 1 \/ k = 2
      BY <2>1, <2>3
    <3> QED
      BY <1>1, <2>3, <3>1
  <2> QED
    BY <2>1, <2>2, <2>3 DEF RiskPlan
<1>3. ASSUME NEW j \in DOMAIN new
      PROVE  /\ new[j] \notin Withdraws
             /\ new[j] = "decide" => "decide" \in Range(plan)
  <2>1. CASE j > 3
    <3>1. k + (j - 3) \in DOMAIN plan /\ k + (j - 3) > k /\ new[j] = plan[k + (j - 3)]
      BY <1>1, <2>1
    <3> QED
      BY <1>2, <3>1 DEF Range
  <2>2. CASE ~(j > 3)
    <3>1. j = 1 \/ j = 2 \/ j = 3
      BY <1>1, <2>2
    <3> QED
      BY <1>1, <3>1 DEF Withdraws
  <2> QED
    BY <2>1, <2>2
<1>4. "decide" \in Range(new) => "decide" \in Range(plan)
  BY <1>3 DEF Range
<1>5. RiskPlan(p, new) /\ ~Withdrawing(new)
  BY <1>3, <1>4 DEF RiskPlan, Withdrawing
<1> QED
  BY <1>5 DEF new

-----------------------------------------------------------------------------
(* Entry risk goes first: the invariant                                    *)

\* An entry, and a stop, that may still execute.
PendingEntry(j) == Pending(j) /\ journal[j].kind = "maker"
PendingStop(i) == Pending(i) /\ journal[i].kind = "stop"

\* An entry that may still execute is alone in a flat account until a fill of it is booked;
\* from then on the journal knows it as open, so cancel asks the venue to end it.
EntriesInv ==
  \A j \in DOMAIN journal : PendingEntry(j) =>
    IF journal[j].filled = 0
    THEN ledger = 0 /\ \A i \in DOMAIN journal \ {j} : ~Pending(i) /\ journal[i].filled = venue[i].executed
    ELSE journal[j].known /\ journal[j].status = "open"

\* No fill of an entry is booked before its creation is over, and it is the runtime's.
EntryGoes(p) ==
  Working(p, "submit") /\ journal[proc[p].current].kind = "maker"
    => p = "runtime" /\ journal[proc[p].current].filled = 0

\* Beside a stop that may still execute there is no entry that may.
EntriesGone == \A i, j \in DOMAIN journal : PendingStop(i) => ~PendingEntry(j)

\* The entries that do are before cancel_all, which does not pass over them.
Facing(p) ==
  \A i, j \in DOMAIN journal : PendingStop(i) /\ PendingEntry(j) =>
    /\ j \in proc[p].todo /\ j \notin proc[p].blind
    /\ proc[p].stage = "confirm" => \E k \in proc[p].todo : k < j

\* What is true before protection is withdrawn, at each task that leads to it.
WithdrawInv(p) ==
  Withdrawing(proc[p].plan) =>
    IF Working(p, "cancelEntries")
    THEN proc[p].stage = "begin" \/ proc[p].failed \/ Facing(p)
    ELSE EntriesGone

\* The entries alone are cancelled.
TodoInv(p) ==
  (Working(p, "cancelEntries") \/ Working(p, "makers")) /\ proc[p].stage # "begin" =>
    \A i \in proc[p].todo : journal[i].kind # "stop"

SessionRisk(p) == RiskPlan(p, proc[p].plan) /\ EntryGoes(p) /\ WithdrawInv(p) /\ TodoInv(p)

\* Nor is there one beside a stop whose cancellation may still arrive.
UnansweredInv ==
  /\ unanswered \subseteq DOMAIN journal
  /\ \A i \in unanswered : \A j \in DOMAIN journal : PendingStop(i) => ~PendingEntry(j)

\* The inductive invariant.
RiskInv == ExecutionInv /\ EntriesInv /\ UnansweredInv /\ \A p \in Processes : SessionRisk(p)

\* Without a plan nothing is at risk.
LEMMA IdleRisk ==
  ASSUME NEW p, proc[p].plan = <<>>
  PROVE  SessionRisk(p)
BY DEF SessionRisk, RiskPlan, EntryGoes, WithdrawInv, TodoInv, Withdrawing, Working, Range

\* Rows of the journal do not change their kind, and what is over stays over.
LEMMA GoneStays ==
  ASSUME Moves, DOMAIN journal' = DOMAIN journal, EntriesGone
  PROVE  EntriesGone'
BY DEF Moves, EntriesGone, PendingStop, PendingEntry

\* What is beside p leaves its session as it is.
LEMMA BesideRisk ==
  ASSUME ExecutionInv, Moves, DOMAIN journal' = DOMAIN journal, NEW p \in Processes, SessionRisk(p),
         proc'[p].plan = proc[p].plan,
         proc[p].plan # <<>> =>
           /\ proc'[p].stage = proc[p].stage /\ proc'[p].todo = proc[p].todo
           /\ proc'[p].blind = proc[p].blind /\ proc'[p].failed = proc[p].failed
           /\ proc'[p].current = proc[p].current
           /\ p = "runtime" => \A i \in DOMAIN journal : journal'[i].filled = journal[i].filled
  PROVE  SessionRisk(p)'
<1>1. CASE proc[p].plan = <<>>
  <2>1. (proc[p].plan = <<>>)'
    BY <1>1
  <2>2. (proc[p].plan = <<>>)' => SessionRisk(p)'
    BY DEF SessionRisk, RiskPlan, EntryGoes, WithdrawInv, TodoInv, Withdrawing, Working, Range
  <2> QED
    BY <2>1, <2>2
<1>2. CASE proc[p].plan # <<>>
  <2>1. /\ proc'[p].stage = proc[p].stage /\ proc'[p].todo = proc[p].todo
        /\ proc'[p].blind = proc[p].blind /\ proc'[p].failed = proc[p].failed
        /\ proc'[p].current = proc[p].current
        /\ p = "runtime" => \A i \in DOMAIN journal : journal'[i].filled = journal[i].filled
        /\ \A task : Working(p, task)' <=> Working(p, task)
    BY <1>2 DEF Working
  <2>2. \A i \in DOMAIN journal : /\ journal'[i].kind = journal[i].kind
                                  /\ PendingStop(i)' => PendingStop(i)
                                  /\ PendingEntry(i)' => PendingEntry(i)
    BY DEF Moves, PendingStop, PendingEntry
  <2>3. RiskPlan(p, proc'[p].plan)
    BY DEF SessionRisk
  <2>4. EntryGoes(p)'
    <3>1. Working(p, "submit") => proc[p].current \in DOMAIN journal
      BY DEF ExecutionInv, SubmitOf
    <3> QED
      BY <2>1, <2>2, <3>1 DEF SessionRisk, EntryGoes
  <2>5. WithdrawInv(p)'
    <3>1. Facing(p) => Facing(p)'
      BY <2>1, <2>2 DEF Facing
    <3>2. EntriesGone => EntriesGone'
      BY GoneStays
    <3> QED
      BY <2>1, <3>1, <3>2 DEF SessionRisk, WithdrawInv
  <2>6. TodoInv(p)'
    <3>1. proc[p].todo \subseteq DOMAIN journal
      BY DEF ExecutionInv, SessionInv, ProcShape
    <3> QED
      BY <2>1, <2>2, <3>1 DEF SessionRisk, TodoInv
  <2> QED
    BY <2>3, <2>4, <2>5, <2>6 DEF SessionRisk
<1> QED
  BY <1>1, <1>2

\* Everybody but p is without a plan.
LEMMA OthersRisk ==
  ASSUME ExecutionInv, NEW p \in Processes, proc[p].plan # <<>> \/ lock = "free",
         \A q \in Processes \ {p} : proc'[q] = proc[q], SessionRisk(p)'
  PROVE  \A q \in Processes : SessionRisk(q)'
<1>1. \A q \in Processes \ {p} : (proc[q].plan = <<>>)'
  BY DEF ExecutionInv, SessionInv, Processes
<1>2. \A q \in Processes \ {p} : (proc[q].plan = <<>>)' => SessionRisk(q)'
  BY DEF SessionRisk, RiskPlan, EntryGoes, WithdrawInv, TodoInv, Withdrawing, Working, Range
<1> QED
  BY <1>1, <1>2

\* A task begins.
Begins(p, plan) ==
  /\ proc'[p].plan = plan /\ proc'[p].stage = "begin"
  /\ RiskPlan(p, plan)
  /\ Withdrawing(plan) => Head(plan) = "cancelEntries" \/ EntriesGone'

\* A task that begins is at risk only for what the plan withdraws.
LEMMA BeginsRisk ==
  ASSUME NEW p, NEW plan, Begins(p, plan), EntryGoes(p)'
  PROVE  SessionRisk(p)'
<1>1. proc'[p].plan = plan /\ proc'[p].stage = "begin"
  BY DEF Begins
<1>2. WithdrawInv(p)'
  <2> SUFFICES ASSUME Withdrawing(plan)
               PROVE  (IF Working(p, "cancelEntries")
                       THEN proc[p].stage = "begin" \/ proc[p].failed \/ Facing(p)
                       ELSE EntriesGone)'
    BY <1>1 DEF WithdrawInv
  <2>1. plan # <<>>
    BY DEF Withdrawing
  <2> QED
    BY <1>1, <2>1 DEF Begins, Working
<1>3. TodoInv(p)'
  BY <1>1 DEF TodoInv
<1> QED
  BY <1>1, <1>2, <1>3 DEF Begins, SessionRisk

\* A session that stays at another task than a cancellation.
LEMMA StaysRisk ==
  ASSUME Moves, DOMAIN journal' = DOMAIN journal, NEW p \in Processes, SessionRisk(p),
         proc'[p].plan = proc[p].plan, proc[p].plan # <<>>,
         Head(proc[p].plan) \notin {"cancelEntries", "makers"}, EntryGoes(p)'
  PROVE  SessionRisk(p)'
<1>1. ~Working(p, "cancelEntries")' /\ ~Working(p, "makers")' /\ ~Working(p, "cancelEntries")
  BY DEF Working
<1>2. WithdrawInv(p)'
  BY <1>1, GoneStays DEF SessionRisk, WithdrawInv
<1> QED
  BY <1>1, <1>2 DEF SessionRisk, TodoInv

\* What p and the others have after a step of p.
RiskStep(p) == SessionRisk(p)' /\ \A q \in Processes \ {p} : proc'[q] = proc[q]

\* An exception withdraws nothing.
LEMMA RaiseRisk ==
  ASSUME ExecutionInv, NEW p \in Processes, proc[p].plan # <<>>, SessionRisk(p),
         NEW kills, Raise(p, kills)
  PROVE  RiskStep(p)
<1>1. ProcShape /\ PlanOK(proc[p].plan) /\ RiskPlan(p, proc[p].plan)
  BY DEF ExecutionInv, SessionInv, SessionRisk
<1>2. CASE RaiseInFlatten(p)
  <2> DEFINE new == Recovery(proc[p].plan)
  <2>1. /\ RiskPlan(p, new) /\ ~Withdrawing(new)
        /\ new # <<>> /\ Head(new) = "reconcile"
    BY <1>1, <1>2, RecoveryRisk, RecoveryPlan DEF RaiseInFlatten, Inside
  <2>2. proc' = Becomes(p, new)
    BY <1>2 DEF RaiseInFlatten, Recovery
  <2> HIDE DEF new
  <2>3. /\ proc'[p].plan = new /\ proc'[p].stage = "begin"
        /\ \A q \in Processes \ {p} : proc'[q] = proc[q]
    BY <1>1, <2>2 DEF ProcShape, Fields, Becomes
  <2>4. EntryGoes(p)' /\ Begins(p, new)
    BY <2>1, <2>3 DEF EntryGoes, Working, Begins
  <2> QED
    BY <2>3, <2>4, BeginsRisk DEF RiskStep
<1>3. CASE RaiseInRecovery(p) \/ RaiseOutside(p, kills)
  <2>1. proc' = Becomes(p, <<>>)
    BY <1>3 DEF RaiseInRecovery, RaiseOutside, Leave
  <2>2. /\ (proc[p].plan = <<>>)'
        /\ \A q \in Processes \ {p} : proc'[q] = proc[q]
    BY <1>1, <2>1 DEF ProcShape, Fields, Becomes
  <2>3. (proc[p].plan = <<>>)' => SessionRisk(p)'
    BY DEF SessionRisk, RiskPlan, EntryGoes, WithdrawInv, TodoInv, Withdrawing, Working, Range
  <2> QED
    BY <2>2, <2>3 DEF RiskStep
<1> QED
  BY <1>2, <1>3 DEF Raise

\* A task that is over, with nothing more to be done.
LEMMA DoneRisk ==
  ASSUME ExecutionInv, Moves, DOMAIN journal' = DOMAIN journal, NEW p \in Processes,
         proc[p].plan # <<>>, SessionRisk(p),
         proc'[p].plan = Tail(proc[p].plan), proc'[p].stage = "begin",
         Head(proc[p].plan) = "cancelEntries" /\ Withdrawing(proc[p].plan) => EntriesGone'
  PROVE  SessionRisk(p)'
<1> DEFINE plan == proc[p].plan
           new == Tail(plan)
<1>1. PlanOK(plan) /\ RiskPlan(p, plan)
  BY DEF ExecutionInv, SessionInv, SessionRisk
<1>2. /\ RiskPlan(p, new)
      /\ Withdrawing(new) =>
           /\ Withdrawing(plan) /\ Head(plan) \in {"reconcile", "cancelEntries"}
           /\ new # <<>> /\ Head(new) # "cancelEntries"
  BY <1>1, TailRisk
<1>3. new # <<>> => Head(new) # "submit"
  <2>1. /\ new \in Seq(Tasks) /\ DOMAIN new = 1 .. Len(plan) - 1 /\ Len(plan) \in Nat \ {0}
        /\ \A k \in DOMAIN new : new[k] # "submit"
    BY <1>1, PlanParts
  <2> HIDE DEF new
  <2> QED
    BY <2>1
<1>4. EntryGoes(p)'
  BY <1>3 DEF EntryGoes, Working
<1>5. Withdrawing(new) => EntriesGone'
  <2>1. Withdrawing(plan) /\ Head(plan) = "reconcile" => EntriesGone
    BY DEF SessionRisk, WithdrawInv, Working
  <2> QED
    BY <1>2, <2>1, GoneStays
<1> HIDE DEF new
<1>6. Begins(p, new)
  BY <1>2, <1>5 DEF Begins, new
<1> QED
  BY <1>4, <1>6, BeginsRisk

-----------------------------------------------------------------------------
(* Entry risk goes first: the tasks                                        *)

\* An order with a booked fill that may execute again is live at the venue.
LEMMA FilledIsLive ==
  ASSUME JournalInv, NEW j \in DOMAIN journal, journal[j].filled # 0, Pending(j)
  PROVE  venue[j].state = "live"
<1>1. /\ journal[j].filled \in Nat /\ venue[j].executed \in Nat
      /\ journal[j].filled <= venue[j].executed /\ RowBounded(j)
  BY RowFacts DEF JournalInv, RowTypes, RowSound
<1> QED
  BY <1>1 DEF Pending, RowBounded

\* cancel_all faces every entry that may still execute beside a stop.
LEMMA FacesAll ==
  ASSUME JournalInv, EntriesInv, NEW i \in DOMAIN journal, NEW j \in DOMAIN journal,
         PendingStop(i), PendingEntry(j)
  PROVE  /\ venue[j].state = "live" /\ journal[j].known /\ journal[j].status = "open"
         /\ j \in ActiveOrders \ ActiveStops
<1>1. i # j /\ Pending(i) /\ Pending(j)
  BY DEF PendingStop, PendingEntry
<1>2. journal[j].filled # 0
  BY <1>1 DEF EntriesInv
<1>3. venue[j].state = "live"
  BY <1>1, <1>2, FilledIsLive
<1>4. journal[j].known /\ journal[j].status = "open"
  BY <1>2 DEF EntriesInv
<1> QED
  BY <1>3, <1>4 DEF ActiveOrders, ActiveStops, PendingEntry

\* cancel_all and manage_makers.
LEMMA CancelRisk ==
  ASSUME RiskInv, Kept, NEW p \in Processes, Cancel(p)
  PROVE  RiskStep(p)
<1>1. PICK task \in {"cancelEntries", "cancelAll", "makers"} :
        \/ ListOrders(p, task) \/ CancelsEnd(p, task)
        \/ \E i \in DOMAIN journal :
             Looked(p, task, i) \/ Requested(p, task, i) \/ Confirmed(p, task, i)
               \/ CancelFails(p, task, i)
  BY DEF Cancel, Cancels
<1>2. /\ ExecutionInv /\ JournalInv /\ ProcShape /\ EntriesInv /\ Moves /\ SessionRisk(p) /\ RowTypes
      /\ PlanOK(proc[p].plan)
  BY RowFacts DEF RiskInv, ExecutionInv, SessionInv, Kept, JournalInv
<1>3. Working(p, task)
  BY <1>1 DEF ListOrders, CancelsEnd, Looked, Requested, Confirmed, CancelFails, Cancelling, At
<1>4. /\ proc[p].plan # <<>> /\ Head(proc[p].plan) = task
      /\ proc[p].todo \subseteq DOMAIN journal
      /\ \A other : Working(p, other) <=> other = task
  BY <1>2, <1>3 DEF Working, ProcShape
<1>5. DOMAIN journal' = DOMAIN journal
  <2>1. CASE ListOrders(p, task) \/ CancelsEnd(p, task)
    BY <2>1 DEF ListOrders, CancelsEnd, store
  <2>2. CASE \E i \in DOMAIN journal : Looked(p, task, i) \/ Confirmed(p, task, i)
    BY <2>2 DEF Looked, Confirmed, Applied
  <2>3. CASE \E i \in DOMAIN journal : Requested(p, task, i) \/ CancelFails(p, task, i)
    BY <2>3 DEF Requested, CancelFails, store
  <2> QED
    BY <1>1, <2>1, <2>2, <2>3
<1>6. \A i \in DOMAIN journal : /\ journal'[i].kind = journal[i].kind
                                /\ PendingStop(i)' => PendingStop(i)
                                /\ PendingEntry(i)' => PendingEntry(i)
  BY <1>2 DEF Moves, PendingStop, PendingEntry
\* The task goes on.
<1>7. ASSUME proc'[p].plan = proc[p].plan,
             \A q \in Processes \ {p} : proc'[q] = proc[q],
             proc'[p].todo \subseteq proc[p].todo,
             task = "cancelEntries" /\ Withdrawing(proc[p].plan) =>
               proc'[p].failed \/ (Facing(p) => Facing(p)'),
             proc[p].failed => proc'[p].failed, proc[p].stage # "begin"
      PROVE  RiskStep(p)
  <2>1. \A other : Working(p, other)' <=> other = task
    BY <1>4, <1>7 DEF Working
  <2>2. EntryGoes(p)'
    BY <2>1 DEF EntryGoes
  <2>3. WithdrawInv(p)'
    <3>1. CASE task = "cancelEntries"
      BY <1>2, <1>4, <1>7, <2>1, <3>1 DEF SessionRisk, WithdrawInv
    <3>2. CASE task # "cancelEntries"
      <4>1. Withdrawing(proc[p].plan) => EntriesGone
        BY <1>2, <1>4, <3>2 DEF SessionRisk, WithdrawInv
      <4> QED
        BY <1>2, <1>5, <1>7, <2>1, <3>2, <4>1, GoneStays DEF WithdrawInv
    <3> QED
      BY <3>1, <3>2
  <2>4. TodoInv(p)'
    BY <1>2, <1>4, <1>6, <1>7, <2>1 DEF SessionRisk, TodoInv
  <2> QED
    BY <1>2, <1>7, <2>2, <2>3, <2>4 DEF RiskStep, SessionRisk
<1>8. CASE ListOrders(p, task)
  <2>1. PICK chosen \in SUBSET ActiveOrders :
          /\ Targets(task, chosen)
          /\ proc' = [proc EXCEPT ![p].stage = "next", ![p].todo = chosen,
                        ![p].blind = {i \in chosen : journal[i].known /\ journal[i].status # "open"}]
    BY <1>8 DEF ListOrders
  <2>2. /\ proc'[p].plan = proc[p].plan /\ proc'[p].stage = "next" /\ proc'[p].todo = chosen
        /\ proc'[p].blind = {i \in chosen : journal[i].known /\ journal[i].status # "open"}
        /\ \A q \in Processes \ {p} : proc'[q] = proc[q]
    BY <1>2, <2>1 DEF ProcShape, Fields
  <2>3. \A other : Working(p, other)' <=> other = task
    BY <1>4, <2>2 DEF Working
  <2>4. EntryGoes(p)'
    BY <2>3 DEF EntryGoes
  <2>5. WithdrawInv(p)'
    <3>1. CASE task = "cancelEntries"
      <4>1. chosen = ActiveOrders \ ActiveStops
        BY <2>1, <3>1 DEF Targets
      <4>2. ASSUME NEW i \in DOMAIN journal, NEW j \in DOMAIN journal, PendingStop(i), PendingEntry(j)
            PROVE  j \in proc'[p].todo /\ j \notin proc'[p].blind
        BY <1>2, <2>2, <4>1, <4>2, FacesAll
      <4>3. Facing(p)'
        BY <1>5, <1>6, <2>2, <4>2 DEF Facing
      <4> QED
        BY <2>3, <3>1, <4>3 DEF WithdrawInv
    <3>2. CASE task # "cancelEntries"
      <4>1. Withdrawing(proc[p].plan) => EntriesGone
        BY <1>2, <1>4, <3>2 DEF SessionRisk, WithdrawInv
      <4> QED
        BY <1>2, <1>5, <2>2, <2>3, <3>2, <4>1, GoneStays DEF WithdrawInv
    <3> QED
      BY <3>1, <3>2
  <2>6. TodoInv(p)'
    <3> SUFFICES ASSUME task \in {"cancelEntries", "makers"}, NEW i \in chosen
                 PROVE  journal'[i].kind # "stop"
      BY <2>2, <2>3 DEF TodoInv
    <3>1. journal[i].kind # "stop" /\ i \in DOMAIN journal
      BY <2>1 DEF Targets, ActiveOrders, ActiveStops, ActiveSells
    <3> QED
      BY <1>6, <3>1
  <2> QED
    BY <1>2, <2>2, <2>4, <2>5, <2>6 DEF RiskStep, SessionRisk
<1>9. ASSUME NEW i \in DOMAIN journal, Looked(p, task, i)
      PROVE  RiskStep(p)
  <2>1. /\ i \in proc[p].todo /\ (\A j \in proc[p].todo : i <= j) /\ proc[p].stage # "begin"
        /\ Here(i) /\ UNCHANGED venue
        /\ proc' = [proc EXCEPT ![p].stage = IF venue[i].state = "live" THEN "request" ELSE "confirm"]
    BY <1>9 DEF Looked, Cancelling, exchange
  <2>2. /\ proc'[p].plan = proc[p].plan /\ proc'[p].todo = proc[p].todo /\ proc'[p].blind = proc[p].blind
        /\ proc'[p].stage = (IF venue[i].state = "live" THEN "request" ELSE "confirm")
        /\ proc'[p].failed = proc[p].failed
        /\ \A q \in Processes \ {p} : proc'[q] = proc[q]
    BY <1>2, <2>1 DEF ProcShape, Fields
  <2>3. ASSUME Facing(p)
        PROVE  Facing(p)'
    <3> SUFFICES ASSUME NEW s \in DOMAIN journal, NEW j \in DOMAIN journal,
                        PendingStop(s), PendingEntry(j)
                 PROVE  /\ j \in proc[p].todo /\ j \notin proc[p].blind
                        /\ proc'[p].stage = "confirm" => \E k \in proc[p].todo : k < j
      BY <1>5, <1>6, <2>2 DEF Facing
    <3>1. j \in proc[p].todo /\ j \notin proc[p].blind
      BY <2>3 DEF Facing
    <3>2. ASSUME proc'[p].stage = "confirm"
          PROVE  i < j
      <4>1. venue[i].state # "live"
        BY <2>2, <3>2
      <4>2. venue[j].state = "live"
        BY <1>2, FacesAll
      <4>3. i <= j /\ i # j /\ i \in Int /\ j \in Int
        BY <1>2, <2>1, <3>1, <4>1, <4>2 DEF RowTypes
      <4> QED
        BY <4>3
    <3> QED
      BY <2>1, <3>1, <3>2
  <2> QED
    BY <1>7, <2>1, <2>2, <2>3
<1>10. ASSUME NEW i \in DOMAIN journal, Requested(p, task, i)
       PROVE  RiskStep(p)
  <2>1. /\ i \in proc[p].todo /\ (\A j \in proc[p].todo : i <= j) /\ proc[p].stage # "begin"
        /\ venue' = Ended(i)
        /\ proc' = [proc EXCEPT ![p].stage = "confirm"]
    BY <1>10 DEF Requested, Cancelling
  <2>2. /\ proc'[p].plan = proc[p].plan /\ proc'[p].todo = proc[p].todo /\ proc'[p].blind = proc[p].blind
        /\ proc'[p].failed = proc[p].failed
        /\ \A q \in Processes \ {p} : proc'[q] = proc[q]
    BY <1>2, <2>1 DEF ProcShape, Fields
  <2>3. ASSUME Facing(p)
        PROVE  Facing(p)'
    <3> SUFFICES ASSUME NEW s \in DOMAIN journal, NEW j \in DOMAIN journal,
                        PendingStop(s)', PendingEntry(j)'
                 PROVE  /\ j \in proc[p].todo /\ j \notin proc[p].blind
                        /\ \E k \in proc[p].todo : k < j
      BY <1>5, <2>2 DEF Facing
    <3>1. PendingStop(s) /\ PendingEntry(j)
      BY <1>6
    <3>2. j \in proc[p].todo /\ j \notin proc[p].blind
      BY <2>3, <3>1 DEF Facing
    <3>3. i # j
      <4> SUFFICES ASSUME i = j
                   PROVE  FALSE
        OBVIOUS
      <4>1. venue[j].state = "live"
        BY <1>2, <3>1, FacesAll
      <4>2. venue' = [venue EXCEPT ![j].state = "ended"] /\ j \in DOMAIN venue /\ venue[j] \in VenueRow
        BY <1>2, <2>1, <4>1 DEF Ended, RowTypes
      <4>3. venue'[j].state = "ended"
        BY <4>2 DEF VenueRow
      <4> QED
        BY <4>3 DEF PendingEntry, Pending
    <3>4. i <= j /\ i \in Int /\ j \in Int
      BY <1>2, <2>1, <3>2 DEF RowTypes
    <3> QED
      BY <2>1, <3>2, <3>3, <3>4
  <2> QED
    BY <1>7, <2>1, <2>2, <2>3
<1>11. ASSUME NEW i \in DOMAIN journal, Confirmed(p, task, i)
       PROVE  RiskStep(p)
  <2>1. /\ i \in proc[p].todo /\ (\A j \in proc[p].todo : i <= j) /\ proc[p].stage # "begin"
        /\ proc[p].stage = "next" => i \in proc[p].blind
        /\ proc[p].stage # "next" => proc[p].stage = "confirm"
        /\ proc' = [proc EXCEPT ![p].stage = "next", ![p].todo = @ \ {i}]
    BY <1>11 DEF Confirmed, Cancelling
  <2>2. /\ proc'[p].plan = proc[p].plan /\ proc'[p].todo = proc[p].todo \ {i}
        /\ proc'[p].blind = proc[p].blind /\ proc'[p].stage = "next" /\ proc'[p].failed = proc[p].failed
        /\ \A q \in Processes \ {p} : proc'[q] = proc[q]
    BY <1>2, <2>1 DEF ProcShape, Fields
  <2>3. ASSUME Facing(p)
        PROVE  Facing(p)'
    <3> SUFFICES ASSUME NEW s \in DOMAIN journal, NEW j \in DOMAIN journal,
                        PendingStop(s), PendingEntry(j)
                 PROVE  j \in proc[p].todo \ {i} /\ j \notin proc[p].blind
      BY <1>5, <1>6, <2>2 DEF Facing
    <3>1. /\ j \in proc[p].todo /\ j \notin proc[p].blind
          /\ proc[p].stage = "confirm" => \E k \in proc[p].todo : k < j
      BY <2>3 DEF Facing
    <3>2. CASE proc[p].stage = "next"
      BY <2>1, <3>1, <3>2
    <3>3. CASE proc[p].stage = "confirm"
      <4>1. PICK k \in proc[p].todo : k < j
        BY <3>1, <3>3
      <4>2. i <= k /\ i \in Int /\ k \in Int /\ j \in Int
        BY <1>2, <1>4, <2>1 DEF RowTypes
      <4> QED
        BY <3>1, <4>1, <4>2
    <3> QED
      BY <2>1, <3>2, <3>3
  <2> QED
    BY <1>7, <2>1, <2>2, <2>3
<1>12. ASSUME NEW i \in DOMAIN journal, CancelFails(p, task, i)
       PROVE  RiskStep(p)
  <2>1. CASE task = "makers"
    <3>1. Raise(p, FALSE)
      BY <1>12, <2>1 DEF CancelFails
    <3> QED
      BY <1>2, <1>4, <3>1, RaiseRisk
  <2>2. CASE task # "makers"
    <3>1. /\ proc[p].stage # "begin"
          /\ proc' = [proc EXCEPT ![p].stage = "next", ![p].todo = @ \ {i}, ![p].failed = TRUE]
      BY <1>12, <2>2 DEF CancelFails, Cancelling
    <3>2. /\ proc'[p].plan = proc[p].plan /\ proc'[p].todo = proc[p].todo \ {i} /\ proc'[p].failed
          /\ \A q \in Processes \ {p} : proc'[q] = proc[q]
      BY <1>2, <3>1 DEF ProcShape, Fields
    <3> QED
      BY <1>7, <3>1, <3>2
  <2> QED
    BY <2>1, <2>2
<1>13. CASE CancelsEnd(p, task)
  <2>1. CASE proc[p].failed
    <3>1. Raise(p, FALSE)
      BY <1>13, <2>1 DEF CancelsEnd
    <3> QED
      BY <1>2, <1>4, <3>1, RaiseRisk
  <2>2. CASE ~proc[p].failed
    <3>1. proc' = Done(p) /\ proc[p].todo = {} /\ proc[p].stage = "next"
      BY <1>13, <2>2 DEF CancelsEnd, At
    <3>2. /\ proc'[p].plan = Tail(proc[p].plan) /\ proc'[p].stage = "begin"
          /\ \A q \in Processes \ {p} : proc'[q] = proc[q]
      BY <1>2, <3>1 DEF ProcShape, Fields, Done, Becomes
    <3>3. ASSUME task = "cancelEntries", Withdrawing(proc[p].plan)
          PROVE  EntriesGone
      <4>1. Facing(p)
        BY <1>2, <1>3, <2>2, <3>1, <3>3 DEF SessionRisk, WithdrawInv
      <4> QED
        BY <3>1, <4>1 DEF Facing, EntriesGone
    <3>4. SessionRisk(p)'
      BY <1>2, <1>4, <1>5, <3>2, <3>3, GoneStays, DoneRisk
    <3> QED
      BY <3>2, <3>4 DEF RiskStep
  <2> QED
    BY <2>1, <2>2
<1> QED
  BY <1>1, <1>8, <1>9, <1>10, <1>11, <1>12, <1>13

\* LiveBroker.reconcile.
LEMMA ReconcileRisk ==
  ASSUME RiskInv, Kept, NEW p \in Processes, Reconcile(p)
  PROVE  RiskStep(p)
<1>1. /\ ExecutionInv /\ ProcShape /\ Moves /\ SessionRisk(p)
  BY DEF RiskInv, ExecutionInv, SessionInv, Kept
<1>2. Working(p, "reconcile")
  BY DEF Reconcile, ReadStatus, ReadBalances, ReconcileFails
<1>3. proc[p].plan # <<>> /\ Head(proc[p].plan) = "reconcile"
  BY <1>2 DEF Working
<1>4. DOMAIN journal' = DOMAIN journal
  BY DEF Reconcile, ReadStatus, ReadBalances, ReconcileFails, Applied, store
<1>5. CASE ReadStatus(p)
  <2>1. PICK rest : proc' = [proc EXCEPT ![p].stage = "statuses", ![p].todo = rest]
    BY <1>5 DEF ReadStatus
  <2>2. proc'[p].plan = proc[p].plan /\ \A q \in Processes \ {p} : proc'[q] = proc[q]
    BY <1>1, <2>1 DEF ProcShape, Fields
  <2>3. EntryGoes(p)'
    BY <1>3, <2>2 DEF EntryGoes, Working
  <2> QED
    BY <1>1, <1>3, <1>4, <2>2, <2>3, StaysRisk DEF RiskStep
<1>6. CASE ReadBalances(p)
  <2>1. /\ proc'[p].plan = Tail(proc[p].plan) /\ proc'[p].stage = "begin"
        /\ \A q \in Processes \ {p} : proc'[q] = proc[q]
    BY <1>1, <1>6 DEF ReadBalances, ProcShape, Done, Becomes, Fields
  <2>2. SessionRisk(p)'
    BY <1>1, <1>3, <1>4, <2>1, DoneRisk
  <2> QED
    BY <2>1, <2>2 DEF RiskStep
<1>7. CASE ReconcileFails(p)
  <2>1. Raise(p, FALSE)
    BY <1>7 DEF ReconcileFails
  <2> QED
    BY <1>1, <1>3, <2>1, RaiseRisk
<1> QED
  BY <1>5, <1>6, <1>7 DEF Reconcile

\* LiveBroker.submit.
LEMMA SubmitRisk ==
  ASSUME RiskInv, Kept, NEW p \in Processes, Submit(p)
  PROVE  RiskStep(p)
<1>1. /\ ExecutionInv /\ ProcShape /\ Moves /\ SessionRisk(p) /\ Rows /\ SubmitOf(p)
  BY DEF RiskInv, ExecutionInv, SessionInv, Kept, JournalInv
<1>2. PICK i \in DOMAIN journal :
        Submitted(p, i) \/ SubmitConfirmed(p, i) \/ SubmitRejected(p, i) \/ SubmitLost(p, i)
          \/ SubmitUnconfirmed(p, i)
  BY DEF Submit
<1>3. Working(p, "submit") /\ i = proc[p].current
  BY <1>2 DEF Submitted, SubmitConfirmed, SubmitRejected, SubmitLost, SubmitUnconfirmed, At
<1>4. proc[p].plan # <<>> /\ Head(proc[p].plan) = "submit"
  BY <1>3 DEF Working
<1>5. DOMAIN journal' = DOMAIN journal
  BY <1>2 DEF Submitted, SubmitConfirmed, SubmitRejected, SubmitLost, SubmitUnconfirmed, Applied
<1>6. CASE Submitted(p, i)
  <2>1. /\ proc' = [proc EXCEPT ![p].stage = "status"]
        /\ RowBecomes(i, TRUE, journal[i].filled, journal[i].status)
    BY <1>6 DEF Submitted, RowBecomes
  <2>2. /\ proc'[p].plan = proc[p].plan /\ proc'[p].current = i
        /\ \A q \in Processes \ {p} : proc'[q] = proc[q]
    BY <1>1, <1>3, <2>1 DEF ProcShape, Fields
  <2>3. journal'[i].filled = journal[i].filled /\ journal'[i].kind = journal[i].kind
    <3>1. journal[i].filled \in Nat /\ journal[i].status \in Statuses /\ TRUE \in BOOLEAN
      BY <1>1, RowFacts DEF RowTypes
    <3> QED
      BY <1>1, <2>1, <3>1, RowSet
  <2>4. EntryGoes(p)'
    BY <1>1, <1>3, <2>2, <2>3 DEF SessionRisk, EntryGoes
  <2> QED
    BY <1>1, <1>4, <1>5, <2>2, <2>4, StaysRisk DEF RiskStep
<1>7. CASE SubmitConfirmed(p, i)
  <2>1. proc' = Done(p)
    BY <1>7 DEF SubmitConfirmed
  <2>2. /\ proc'[p].plan = Tail(proc[p].plan) /\ proc'[p].stage = "begin"
        /\ \A q \in Processes \ {p} : proc'[q] = proc[q]
    BY <1>1, <2>1 DEF ProcShape, Done, Becomes, Fields
  <2>3. SessionRisk(p)'
    BY <1>1, <1>4, <1>5, <2>2, DoneRisk
  <2> QED
    BY <2>2, <2>3 DEF RiskStep
<1>8. CASE SubmitRejected(p, i) \/ SubmitLost(p, i) \/ SubmitUnconfirmed(p, i)
  <2>1. PICK kills : Raise(p, kills)
    BY <1>8 DEF SubmitRejected, SubmitLost, SubmitUnconfirmed
  <2> QED
    BY <1>1, <1>4, <2>1, RaiseRisk
<1> QED
  BY <1>2, <1>6, <1>7, <1>8

\* What may come before the rest of any plan.
Harmless(p, more) == more \in Seq(Tasks) /\ RiskPlan(p, more) /\ ~Withdrawing(more)

\* What the tasks put before the rest of their plan, and whether they withdraw protection.
LEMMA ControlRisks ==
  ASSUME NEW p
  PROVE  /\ Harmless(p, <<>>) /\ Harmless(p, <<"protect">>) /\ Harmless(p, <<"flatten">>)
         /\ Harmless(p, FlattenPlan(FALSE))
         /\ Harmless(p, <<"submit">> \o <<>>) /\ Harmless(p, <<"submit">> \o <<"reconcile">>)
         /\ Harmless(p, <<"submit">> \o <<"reconcile", "protect">>)
         /\ \A more \in {FlattenPlan(TRUE), <<"cancelAll", "reconcile", "exit">>} :
              more \in Seq(Tasks) /\ RiskPlan(p, more)
<1> USE DEF Harmless, RiskPlan, Withdrawing, Withdraws, Tasks, Finals, Range
<1>1. Harmless(p, <<>>) /\ Harmless(p, <<"protect">>) /\ Harmless(p, <<"flatten">>)
  OBVIOUS
<1>2. Harmless(p, <<"cancelEntries", "reconcile", "protect", "endFlatten">>)
  OBVIOUS
<1>3. ASSUME NEW then \in Seq({"reconcile", "protect"})
      PROVE  Harmless(p, <<"submit">> \o then)
  <2> DEFINE new == <<"submit">> \o then
  <2>1. /\ Len(then) \in Nat /\ DOMAIN new = 1 .. Len(then) + 1 /\ new \in Seq(Tasks)
        /\ new[1] = "submit"
        /\ \A k \in DOMAIN new : k # 1 => k - 1 \in 1 .. Len(then) /\ new[k] = then[k - 1]
    OBVIOUS
  <2> HIDE DEF new
  <2>2. \A k \in DOMAIN new : new[k] \in {"submit", "reconcile", "protect"}
    BY <2>1
  <2>3. Harmless(p, new)
    BY <2>1, <2>2
  <2> QED
    BY <2>3 DEF new
<1>4. /\ <<>> \in Seq({"reconcile", "protect"}) /\ <<"reconcile">> \in Seq({"reconcile", "protect"})
      /\ <<"reconcile", "protect">> \in Seq({"reconcile", "protect"})
  OBVIOUS
<1>5. ASSUME NEW more, more = <<"cancelEntries", "reconcile", "recheck", "endFlatten">>
      PROVE  more \in Seq(Tasks) /\ RiskPlan(p, more)
  BY <1>5
<1>6. ASSUME NEW more, more = <<"cancelAll", "reconcile", "exit">>
      PROVE  more \in Seq(Tasks) /\ RiskPlan(p, more)
  BY <1>6
<1> HIDE DEF Harmless, RiskPlan, Withdrawing, Withdraws, Tasks, Finals, Range
<1>7. Harmless(p, FlattenPlan(FALSE))
  BY <1>2 DEF FlattenPlan
<1>8. FlattenPlan(TRUE) \in Seq(Tasks) /\ RiskPlan(p, FlattenPlan(TRUE))
  BY <1>5 DEF FlattenPlan
<1> QED
  BY <1>1, <1>3, <1>4, <1>6, <1>7, <1>8, Zenon

\* A task that calls nothing and is over: what comes before the rest withdraws nothing, or
\* begins with the entries, or the entries are gone.
LEMMA PlainRisk ==
  ASSUME RiskInv, Kept, DOMAIN journal' = DOMAIN journal, NEW p \in Processes, proc[p].plan # <<>>,
         Head(proc[p].plan) \notin {"reconcile", "cancelEntries"},
         NEW more, more \in Seq(Tasks), RiskPlan(p, more), proc' = DoneThen(p, more),
         more = <<>> \/ more[1] # "submit",
         Withdrawing(more) => more[1] = "cancelEntries" \/ EntriesGone
  PROVE  RiskStep(p)
<1> DEFINE plan == proc[p].plan
           new == more \o Tail(plan)
<1>1. /\ ProcShape /\ PlanOK(plan) /\ RiskPlan(p, plan) /\ Moves
  BY DEF RiskInv, ExecutionInv, SessionInv, SessionRisk, Kept
<1>2. /\ RiskPlan(p, new)
      /\ Withdrawing(new) => Withdrawing(more) /\ new # <<>> /\ Head(new) = more[1]
  BY <1>1, MoreRisk
<1>3. /\ proc'[p].plan = new /\ proc'[p].stage = "begin"
      /\ \A q \in Processes \ {p} : proc'[q] = proc[q]
  <2> DEFINE next == new
  <2>1. proc' = Becomes(p, next)
    BY DEF DoneThen
  <2> HIDE DEF next
  <2>2. /\ proc'[p].plan = next /\ proc'[p].stage = "begin"
        /\ \A q \in Processes \ {p} : proc'[q] = proc[q]
    BY <1>1, <2>1 DEF ProcShape, Becomes, Fields
  <2> QED
    BY <2>2 DEF next
<1>4. new # <<>> => Head(new) # "submit"
  <2>1. /\ Tail(plan) \in Seq(Tasks) /\ \A k \in DOMAIN Tail(plan) : Tail(plan)[k] # "submit"
    BY <1>1, PlanParts
  <2> DEFINE tail == Tail(plan)
  <2>2. CASE more = <<>>
    <3>1. new = tail
      BY <2>1, <2>2
    <3> HIDE DEF tail, new
    <3>2. tail # <<>> => 1 \in DOMAIN tail /\ Head(tail) = tail[1]
      BY <2>1 DEF tail
    <3> QED
      BY <2>1, <3>1, <3>2 DEF tail
  <2>3. CASE more # <<>>
    <3>1. Head(new) = more[1]
      BY <2>1, <2>3
    <3> QED
      BY <2>3, <3>1
  <2> QED
    BY <2>2, <2>3
<1> HIDE DEF new
<1>5. EntryGoes(p)'
  BY <1>3, <1>4 DEF EntryGoes, Working
<1>6. Begins(p, new)
  BY <1>1, <1>2, <1>3, GoneStays DEF Begins
<1>7. SessionRisk(p)'
  BY <1>5, <1>6, BeginsRisk
<1> QED
  BY <1>3, <1>7 DEF RiskStep

\* An order is journaled, and its creation comes next.
LEMMA CreateRisk ==
  ASSUME RiskInv, Kept, NEW p \in Processes, proc[p].plan # <<>>,
         Head(proc[p].plan) \in {"protect", "exit", "decide"},
         NEW kind, NEW quantity, NEW then, Create(p, kind, quantity, then),
         kind = "maker" => Head(proc[p].plan) = "decide",
         then \in {<<>>, <<"reconcile">>, <<"reconcile", "protect">>}
  PROVE  RiskStep(p)
<1> DEFINE plan == proc[p].plan
           more == <<"submit">> \o then
           new == more \o Tail(plan)
           n == Len(journal) + 1
<1>1. /\ ProcShape /\ PlanOK(plan) /\ RiskPlan(p, plan) /\ Rows
  BY DEF RiskInv, ExecutionInv, SessionInv, SessionRisk, Kept, JournalInv
<1>2. more \in Seq(Tasks) /\ RiskPlan(p, more) /\ ~Withdrawing(more)
  <2>1. Harmless(p, more)
    BY ControlRisks, Zenon
  <2> QED
    BY <2>1 DEF Harmless
<1> HIDE DEF more
<1>3. RiskPlan(p, new) /\ ~Withdrawing(new)
  BY <1>1, <1>2, MoreRisk
<1>4. /\ proc'[p].plan = new /\ proc'[p].stage = "begin" /\ proc'[p].current = n
      /\ \A q \in Processes \ {p} : proc'[q] = proc[q]
  <2> DEFINE next == new
  <2>1. proc' = [Becomes(p, next) EXCEPT ![p].current = n, ![p].retry = (@ \/ kind = "ioc")]
    BY DEF Create, DoneThen, more
  <2> HIDE DEF next, n
  <2>2. /\ proc'[p].plan = next /\ proc'[p].stage = "begin" /\ proc'[p].current = n
        /\ \A q \in Processes \ {p} : proc'[q] = proc[q]
    BY <1>1, <2>1 DEF ProcShape, Becomes, Fields
  <2> QED
    BY <2>2 DEF next
<1>5. journal'[n].kind = kind /\ journal'[n].filled = 0
  <2> DEFINE row == [kind |-> kind, quantity |-> quantity, status |-> "intent",
                     known |-> FALSE, filled |-> 0]
  <2>1. journal' = Append(journal, row) /\ row.kind = kind /\ row.filled = 0
    BY DEF Create, Journaled
  <2> HIDE DEF row
  <2>2. journal'[n] = row
    BY <1>1, <2>1 DEF Rows
  <2> QED
    BY <2>1, <2>2
<1>6. EntryGoes(p)'
  <2> SUFFICES ASSUME kind = "maker"
               PROVE  p = "runtime"
    BY <1>4, <1>5 DEF EntryGoes
  <2>1. plan[1] = "decide" /\ 1 \in DOMAIN plan
    BY <1>1, PlanParts
  <2>2. "decide" \in Range(plan)
    BY <2>1 DEF Range
  <2> QED
    BY <1>1, <2>2 DEF RiskPlan, Processes
<1> HIDE DEF new, n
<1>7. SessionRisk(p)'
  <2>1. Begins(p, new)
    BY <1>3, <1>4 DEF Begins
  <2> QED
    BY <1>6, <2>1, BeginsRisk
<1> QED
  BY <1>4, <1>7 DEF RiskStep

\* The controller.
LEMMA ControlRisk ==
  ASSUME RiskInv, Kept, NEW p \in Processes, Control(p)
  PROVE  RiskStep(p)
<1>1. /\ ExecutionInv /\ ProcShape /\ SessionRisk(p)
  BY DEF RiskInv, ExecutionInv, SessionInv
<1>2. ASSUME proc[p].plan # <<>>, Head(proc[p].plan) \notin {"reconcile", "cancelEntries"},
             proc' = Done(p), DOMAIN journal' = DOMAIN journal
      PROVE  RiskStep(p)
  <2>1. proc[p].plan \in Seq(Tasks)
    BY <1>1 DEF ExecutionInv, SessionInv, PlanOK
  <2>2. <<>> \o Tail(proc[p].plan) = Tail(proc[p].plan)
    BY <1>2, <2>1
  <2>3. proc' = DoneThen(p, <<>>)
    BY <1>2, <2>2 DEF Done, DoneThen
  <2> QED
    BY <1>2, <2>3, ControlRisks, PlainRisk DEF Harmless
<1>3. ASSUME proc[p].plan # <<>>, Head(proc[p].plan) \notin {"reconcile", "cancelEntries"},
             NEW more \in {<<>>, <<"protect">>, <<"flatten">>, FlattenPlan(FALSE)},
             proc' = DoneThen(p, more), DOMAIN journal' = DOMAIN journal
      PROVE  RiskStep(p)
  <2>1. Harmless(p, more)
    BY ControlRisks, Zenon
  <2>2. more = <<>> \/ more[1] # "submit"
    BY DEF FlattenPlan
  <2> QED
    BY <1>3, <2>1, <2>2, PlainRisk DEF Harmless
<1>4. CASE ProtectIdle(p) \/ ExitIdle(p) \/ EndFlatten(p) \/ KillFlatten(p) \/ DecideNothing(p) \/ Reset(p)
  <2>1. DOMAIN journal' = DOMAIN journal
    BY <1>4 DEF ProtectIdle, ExitIdle, EndFlatten, KillFlatten, DecideNothing, Reset, Plain
  <2>2. /\ proc[p].plan # <<>>
        /\ Head(proc[p].plan) \in {"protect", "exit", "endFlatten", "killFlatten", "decide", "reset"}
    BY <1>4 DEF ProtectIdle, ExitIdle, EndFlatten, KillFlatten, DecideNothing, Reset, At, Working
  <2>3. proc' = Done(p) \/ \E more \in {<<>>, <<"protect">>, <<"flatten">>} : proc' = DoneThen(p, more)
    BY <1>4 DEF ProtectIdle, ExitIdle, EndFlatten, KillFlatten, DecideNothing, Reset
  <2> QED
    BY <1>2, <1>3, <2>1, <2>2, <2>3
<1>5. CASE BeginFlatten(p)
  <2>1. /\ DOMAIN journal' = DOMAIN journal
        /\ proc[p].plan # <<>> /\ Head(proc[p].plan) = "flatten"
    BY <1>5 DEF BeginFlatten, Plain, At, Working
  <2>2. CASE proc' = DoneThen(p, FlattenPlan(TRUE))
    <3>1. FlattenPlan(TRUE)[1] = "cancelEntries"
      BY DEF FlattenPlan
    <3> QED
      BY <2>1, <2>2, <3>1, ControlRisks, PlainRisk
  <2>3. proc' = Done(p) \/ proc' = DoneThen(p, FlattenPlan(FALSE)) \/ proc' = DoneThen(p, FlattenPlan(TRUE))
    BY <1>5 DEF BeginFlatten
  <2> QED
    BY <1>2, <1>3, <2>1, <2>2, <2>3
<1>6. CASE Recheck(p)
  <2>1. /\ DOMAIN journal' = DOMAIN journal
        /\ proc[p].plan # <<>> /\ Head(proc[p].plan) = "recheck"
    BY <1>6 DEF Recheck, Plain, At, Working
  <2>2. CASE proc' = DoneThen(p, <<"cancelAll", "reconcile", "exit">>)
    <3>1. Withdrawing(proc[p].plan) /\ ~Working(p, "cancelEntries")
      <4>1. 1 \in DOMAIN proc[p].plan /\ proc[p].plan[1] = "recheck"
        BY <1>1, <2>1, PlanParts DEF ExecutionInv, SessionInv
      <4> QED
        BY <2>1, <4>1 DEF Withdrawing, Withdraws, Working
    <3>2. EntriesGone
      BY <1>1, <3>1 DEF SessionRisk, WithdrawInv
    <3>3. <<"cancelAll", "reconcile", "exit">>[1] # "submit"
      OBVIOUS
    <3> QED
      BY <2>1, <2>2, <3>2, <3>3, ControlRisks, PlainRisk
  <2>3. CASE proc' = DoneThen(p, <<"protect">>)
    BY <1>3, <2>1, <2>3
  <2> QED
    BY <1>6, <2>2, <2>3 DEF Recheck
<1>7. CASE ProtectRefused(p) \/ ExitRefused(p)
  <2>1. Raise(p, FALSE) /\ proc[p].plan # <<>>
    BY <1>7 DEF ProtectRefused, ExitRefused, At, Working
  <2> QED
    BY <1>1, <2>1, RaiseRisk
<1>8. CASE Verdict(p) \/ EndSession(p)
  <2>1. proc' = Becomes(p, <<>>)
    BY <1>8 DEF Verdict, EndSession, Leave
  <2>2. /\ (proc[p].plan = <<>>)'
        /\ \A q \in Processes \ {p} : proc'[q] = proc[q]
    BY <1>1, <2>1 DEF ProcShape, Fields, Becomes
  <2>3. (proc[p].plan = <<>>)' => SessionRisk(p)'
    BY DEF SessionRisk, RiskPlan, EntryGoes, WithdrawInv, TodoInv, Withdrawing, Working, Range
  <2> QED
    BY <2>2, <2>3 DEF RiskStep
<1>9. CASE ProtectPlaces(p) \/ ExitPlaces(p) \/ DecideEntry(p)
  BY <1>9, CreateRisk DEF ProtectPlaces, ExitPlaces, DecideEntry, At, Working
<1> QED
  BY <1>4, <1>5, <1>6, <1>7, <1>8, <1>9 DEF Control

-----------------------------------------------------------------------------
(* Entry risk goes first: the journal                                      *)

\* What the invariant says of the booked fills and of the orders that may still execute.
RowsTrue ==
  \A i \in DOMAIN journal : /\ journal[i].filled \in Nat /\ venue[i].executed \in Nat
                            /\ journal[i].filled <= venue[i].executed
                            /\ Pending(i) => journal[i].status \in {"intent", "unknown", "open"}

\* It does so in every state.
LEMMA RowsAreTrue == ExecutionInv => RowsTrue
BY RowFacts DEF ExecutionInv, JournalInv, RowTypes, RowSound, Pending, ActiveOrders, RowsTrue

\* The rows before and after a step.
LEMMA RowsKept ==
  ASSUME ExecutionInv, Kept, NEW i \in DOMAIN journal
  PROVE  /\ i \in DOMAIN journal' /\ journal'[i].kind = journal[i].kind
         /\ journal[i].filled \in Nat /\ journal'[i].filled \in Nat
         /\ journal[i].filled <= venue[i].executed
         /\ journal[i].filled <= journal'[i].filled /\ journal'[i].filled <= venue'[i].executed
         /\ venue[i].executed \in Nat /\ (~Pending(i) => venue'[i].executed = venue[i].executed)
         /\ Pending(i)' => /\ Pending(i) /\ i \in ActiveOrders
                           /\ journal'[i].status \in {"intent", "unknown", "open"}
<1>1. Moves /\ RowsTrue /\ RowsTrue'
  BY RowsAreTrue, PTL DEF Kept
<1>2. i \in DOMAIN journal'
  BY <1>1 DEF Moves
<1> QED
  BY <1>1, <1>2 DEF Moves, RowsTrue, Pending, ActiveOrders

\* Who writes the journal keeps what is known of the entries.
LEMMA EntriesKept ==
  ASSUME RiskInv, Kept, [Next]_vars
  PROVE  EntriesInv'
<1>1. ExecutionInv /\ JournalInv /\ EntriesInv /\ JournalWrite /\ Moves
  BY JournalWrites DEF RiskInv, ExecutionInv, Kept
<1>2. SUFFICES ASSUME NEW j \in DOMAIN journal', PendingEntry(j)'
               PROVE  IF journal'[j].filled = 0
                      THEN /\ ledger' = 0
                           /\ \A i \in DOMAIN journal' \ {j} :
                                ~Pending(i)' /\ journal'[i].filled = venue'[i].executed
                      ELSE journal'[j].known /\ journal'[j].status = "open"
  BY DEF EntriesInv
<1>3. ASSUME NEW kind, NEW quantity, NewOrder(kind, quantity),
             IF kind = "maker" THEN EntryAuthorized ELSE quantity <= ledger
      PROVE  IF j \in DOMAIN journal
             THEN ledger # 0 /\ journal'[j] = journal[j]
             ELSE /\ ledger' = 0 /\ journal'[j].filled = 0
                  /\ \A i \in DOMAIN journal' \ {j} :
                       ~Pending(i)' /\ journal'[i].filled = venue'[i].executed
  <2>1. /\ UNCHANGED ledger /\ DOMAIN journal' = DOMAIN journal \cup {Len(journal')}
        /\ \A i \in DOMAIN journal : journal'[i] = journal[i] /\ venue'[i] = venue[i]
        /\ journal'[Len(journal')].kind = kind /\ journal'[Len(journal')].filled = 0
    BY <1>1, <1>3, NewRow
  <2>2. CASE j \in DOMAIN journal
    <3>1. j \in ActiveOrders
      BY <1>1, <1>2, <2>2, RowsKept DEF RiskInv, PendingEntry
    <3>2. kind # "maker"
      BY <1>3, <3>1 DEF EntryAuthorized
    <3>3. quantity \in Nat \ {0} /\ quantity <= ledger
      BY <1>3, <3>2 DEF NewOrder
    <3>4. ledger # 0
      BY <3>3
    <3> QED
      BY <2>1, <2>2, <3>4
  <2>3. CASE j \notin DOMAIN journal
    <3>1. j = Len(journal') /\ DOMAIN journal' \ {j} = DOMAIN journal
      BY <2>1, <2>3
    <3>2. EntryAuthorized
      BY <1>2, <1>3, <2>1, <3>1 DEF PendingEntry
    <3>3. \A i \in DOMAIN journal : ~Pending(i) /\ journal[i].filled = venue[i].executed
      BY <1>1, <3>2, IdleIsFlat DEF EntryAuthorized
    <3> QED
      BY <2>1, <2>3, <3>1, <3>2, <3>3 DEF EntryAuthorized, Pending
  <2> QED
    BY <2>2, <2>3
<1>4. CASE j \notin DOMAIN journal
  BY <1>1, <1>3, <1>4, OldRow DEF JournalWrite
<1>5. CASE j \in DOMAIN journal
  <2>1. /\ PendingEntry(j) /\ journal[j].filled \in Nat /\ journal'[j].filled \in Nat
        /\ journal[j].filled <= journal'[j].filled
        /\ journal'[j].status \in {"intent", "unknown", "open"}
    BY <1>1, <1>2, <1>5, RowsKept DEF RiskInv, PendingEntry
  <2>2. \/ journal'[j] = journal[j]
        \/ journal'[j].known /\ journal'[j].status = "open"
        \/ journal'[j].filled = 0
    <3>1. ASSUME NEW i \in DOMAIN journal, NEW live, NEW executed, Applied(i, live, executed), i = j
          PROVE  journal'[j].known /\ journal'[j].status = "open"
      <4>1. /\ journal'[j].known = TRUE /\ journal'[j].status = IF live THEN "open" ELSE "done"
        <5>1. journal[i] \in JournalRow /\ i \in DOMAIN journal
          BY <1>1 DEF JournalInv, Rows
        <5> QED
          BY <3>1, <5>1 DEF Applied, JournalRow
      <4> QED
        BY <2>1, <4>1
    <3>2. ASSUME NEW p \in Processes, NEW i \in DOMAIN journal, NEW k \in BOOLEAN, NEW s \in Statuses,
                 Working(p, "submit"), i = proc[p].current, RowBecomes(i, k, journal[i].filled, s), i = j
          PROVE  journal'[j].filled = 0
      <4>1. journal[i].filled = 0
        BY <2>1, <3>2 DEF RiskInv, SessionRisk, EntryGoes, PendingEntry
      <4> QED
        BY <1>1, <2>1, <3>2, <4>1, RowSet DEF JournalInv
    <3> QED
      BY <1>1, <1>3, <1>5, <3>1, <3>2, OldRow DEF JournalWrite
  <2>3. CASE journal[j].filled # 0
    BY <1>1, <1>5, <2>1, <2>2, <2>3 DEF EntriesInv
  <2>4. CASE journal[j].filled = 0 /\ journal'[j].filled # 0
    BY <2>2, <2>4
  <2>5. CASE journal[j].filled = 0 /\ journal'[j].filled = 0
    <3>1. ledger = 0 /\ \A i \in DOMAIN journal \ {j} : ~Pending(i) /\ journal[i].filled = venue[i].executed
      BY <1>1, <1>5, <2>1, <2>5 DEF EntriesInv
    <3>2. DOMAIN journal' = DOMAIN journal
      BY <1>1, <1>3, <1>5, <3>1, OldRow DEF JournalWrite
    <3>3. \A i \in DOMAIN journal \ {j} : ~Pending(i)' /\ journal'[i].filled = venue'[i].executed
                                          /\ journal'[i].filled = journal[i].filled
      <4> TAKE i \in DOMAIN journal \ {j}
      <4>1. ~Pending(i)' /\ venue'[i].executed = journal[i].filled
        BY <1>1, <3>1, RowsKept DEF RiskInv
      <4>2. /\ journal[i].filled \in Nat /\ journal'[i].filled \in Nat
            /\ journal[i].filled <= journal'[i].filled /\ journal'[i].filled <= venue'[i].executed
        BY <1>1, RowsKept
      <4> QED
        BY <4>1, <4>2
    <3>4. \A i \in DOMAIN journal : Booked'[i] = Booked[i] /\ Booked[i] \in Int
      <4>1. \A i \in DOMAIN journal : Booked[i] \in Int
        BY <1>1, WeightsAreInt DEF JournalInv, WeightTypes
      <4>2. \A i \in DOMAIN journal : /\ journal'[i].filled = journal[i].filled
                                      /\ journal'[i].kind = journal[i].kind
        BY <1>1, <2>5, <3>3 DEF Moves
      <4> QED
        BY <3>2, <4>1, <4>2 DEF Booked
    <3>5. Sum(Booked', DOMAIN journal) = Sum(Booked, DOMAIN journal)
      BY <1>1, <3>4, RowFacts, SumSame DEF JournalInv, RowTypes
    <3>6. ledger' = Sum(Booked', DOMAIN journal') /\ ledger = Sum(Booked, DOMAIN journal)
      BY <1>1 DEF Kept, ExecutionInv, JournalInv, Accounts
    <3> QED
      BY <2>5, <3>1, <3>2, <3>3, <3>5, <3>6
  <2> QED
    BY <2>3, <2>4, <2>5
<1> QED
  BY <1>4, <1>5

\* A cancellation without an answer is of an order that its caller, or a process that dies,
\* was cancelling.
LEMMA UnansweredGrows ==
  [Next]_vars => unanswered' = unanswered \/ \E p \in Processes : unanswered' = unanswered \cup InFlight(p)
<1> DEFINE Grows == unanswered' = unanswered \/ \E p \in Processes : unanswered' = unanswered \cup InFlight(p)
<1> SUFFICES ASSUME [Next]_vars PROVE Grows
  OBVIOUS
<1> HIDE DEF Grows
<1>1. UNCHANGED faults => Grows
  BY DEF faults, Grows
<1>2. Fault => Grows
  BY DEF Fault, Grows
<1>3. ASSUME NEW p \in Processes, Cancel(p)
      PROVE  Grows
  <2>1. PICK task \in Cancels :
          \/ ListOrders(p, task) \/ CancelsEnd(p, task)
          \/ \E i \in DOMAIN journal :
               Looked(p, task, i) \/ Requested(p, task, i) \/ Confirmed(p, task, i) \/ CancelFails(p, task, i)
    BY <1>3 DEF Cancel
  <2>2. ASSUME NEW i \in DOMAIN journal, CancelFails(p, task, i)
        PROVE  Grows
    BY <1>1, <1>2, <2>2 DEF CancelFails, NoStatus, RequestLost, Grows
  <2> QED
    BY <1>1, <2>1, <2>2 DEF ListOrders, CancelsEnd, Looked, Requested, Confirmed
<1>4. ASSUME NEW p \in Processes, Reconcile(p)
      PROVE  Grows
  BY <1>1, <1>2, <1>4 DEF Reconcile, ReadStatus, ReadBalances, ReconcileFails, NoStatus
<1>5. ASSUME NEW p \in Processes, Submit(p)
      PROVE  Grows
  BY <1>1, <1>2, <1>5 DEF Submit, Submitted, SubmitConfirmed, SubmitRejected, SubmitLost, SubmitUnconfirmed
<1>6. ASSUME NEW p \in Processes, Control(p)
      PROVE  Grows
  BY <1>1, <1>2, <1>6 DEF Control, ProtectIdle, ProtectRefused, ProtectPlaces, BeginFlatten, Recheck,
              ExitIdle, ExitPlaces, ExitRefused, EndFlatten, Verdict, KillFlatten, DecideNothing, DecideEntry,
              Reset, EndSession, Create, Plain
<1>7. CASE Sessions
  BY <1>1, <1>7 DEF Sessions, ReconcileSession, CommandSession, BookLost, MarketEvent, KilledSession,
              GuardianSession, Open
<1>8. CASE Booting
  BY <1>1, <1>2, <1>8 DEF Booting, Boot, BootAsks, BootFails, BootApplies, BootCompletes
<1>9. CASE Environment
  BY <1>1, <1>9 DEF Environment, VenueFills, VenueCancels, LateArrival, Crash, RetryElapses, Grows
<1>10. CASE UNCHANGED vars
  BY <1>1, <1>10 DEF vars
<1> QED
  BY <1>3, <1>4, <1>5, <1>6, <1>7, <1>8, <1>9, <1>10 DEF Next, Step, Sessions

\* A stop is being cancelled only after the entries are gone, and an entry is created only
\* after the stops are.
LEMMA UnansweredKept ==
  ASSUME RiskInv, Kept, [Next]_vars
  PROVE  UnansweredInv'
<1>1. ExecutionInv /\ JournalInv /\ UnansweredInv /\ Moves /\ DOMAIN journal \subseteq DOMAIN journal'
  BY DEF RiskInv, ExecutionInv, Kept, Moves
<1>2. ASSUME NEW p \in Processes, NEW i \in InFlight(p)
      PROVE  i \in DOMAIN journal /\ EntriesGone
  <2>1. PICK task \in Cancels : Cancelling(p, task, i, "request")
    BY <1>2 DEF InFlight
  <2>2. /\ i \in proc[p].todo /\ journal[i].kind = "stop" /\ i \in DOMAIN journal
        /\ Working(p, task) /\ proc[p].stage # "begin"
    BY <1>1, <1>2, <2>1 DEF InFlight, Cancelling, ExecutionInv, SessionInv, ProcShape
  <2>3. task = "cancelAll"
    BY <2>2 DEF Cancels, RiskInv, SessionRisk, TodoInv
  <2>4. /\ PlanOK(proc[p].plan) /\ proc[p].plan # <<>> /\ Head(proc[p].plan) = "cancelAll"
    BY <1>1, <2>2, <2>3 DEF ExecutionInv, SessionInv, Working
  <2>5. Withdrawing(proc[p].plan)
    BY <2>4, PlanParts DEF Withdrawing, Withdraws
  <2> QED
    BY <2>2, <2>4, <2>5 DEF RiskInv, SessionRisk, WithdrawInv, Working
<1>3. ASSUME NEW i \in unanswered'
      PROVE  i \in DOMAIN journal /\ \A j \in DOMAIN journal : PendingStop(i) => ~PendingEntry(j)
  BY <1>1, <1>2, <1>3, UnansweredGrows DEF UnansweredInv, EntriesGone
<1>4. ASSUME NEW i \in unanswered', NEW j \in DOMAIN journal', PendingStop(i)', PendingEntry(j)'
      PROVE  FALSE
  <2>1. i \in DOMAIN journal /\ PendingStop(i) /\ i \in ActiveOrders
    BY <1>1, <1>3, <1>4, RowsKept DEF PendingStop
  <2>2. CASE j \in DOMAIN journal
    <3>1. PendingEntry(j)
      BY <1>1, <1>4, <2>2, RowsKept DEF PendingEntry
    <3> QED
      BY <1>3, <2>1, <2>2, <3>1
  <2>3. CASE j \notin DOMAIN journal
    <3>1. PICK kind, quantity : NewOrder(kind, quantity) /\ (kind = "maker" => EntryAuthorized)
      BY <1>1, <2>3, JournalWrites, OldRow DEF JournalWrite
    <3>2. j = Len(journal') /\ journal'[j].kind = kind
      BY <1>1, <2>3, <3>1, NewRow
    <3> QED
      BY <1>4, <2>1, <3>1, <3>2 DEF EntryAuthorized, PendingEntry
  <2> QED
    BY <2>2, <2>3
<1> QED
  BY <1>1, <1>3, <1>4 DEF UnansweredInv

-----------------------------------------------------------------------------
(* Entry risk goes first: the steps, and the theorem                       *)

\* A session begins with protection in place.
LEMMA OpenRisk ==
  ASSUME RiskInv, NEW p \in Processes, NEW plan, Opened(p, plan)
  PROVE  \A q \in Processes : SessionRisk(q)'
<1>1. /\ ExecutionInv /\ ProcShape /\ lock = "free" /\ proc' = Becomes(p, plan)
      /\ StartOK(plan) /\ (p = "guardian" => "decide" \notin Range(plan))
  BY DEF RiskInv, ExecutionInv, SessionInv, Opened, Open
<1>2. /\ proc'[p].plan = plan /\ proc'[p].stage = "begin"
      /\ \A q \in Processes \ {p} : proc'[q] = proc[q]
  BY <1>1 DEF ProcShape, Becomes, Fields
<1>3. EntryGoes(p)' /\ ~Withdrawing(plan) /\ RiskPlan(p, plan)
  BY <1>1, <1>2 DEF StartOK, EntryGoes, Working, Withdrawing, RiskPlan
<1>4. SessionRisk(p)'
  BY <1>2, <1>3, BeginsRisk DEF Begins
<1> QED
  BY <1>1, <1>2, <1>4, OthersRisk

\* What happens beside a session, or ends it.
LEMMA AsideRisk ==
  ASSUME RiskInv, Kept, NEW p \in Processes, DOMAIN journal' = DOMAIN journal,
         \/ proc'[p].plan = <<>>
         \/ proc'[p] = proc[p] /\ (p = "guardian" \/ UNCHANGED journal)
  PROVE  SessionRisk(p)'
<1>1. CASE proc'[p].plan = <<>>
  <2>1. (proc[p].plan = <<>>)' => SessionRisk(p)'
    BY DEF SessionRisk, RiskPlan, EntryGoes, WithdrawInv, TodoInv, Withdrawing, Working, Range
  <2> QED
    BY <1>1, <2>1
<1>2. CASE proc'[p] = proc[p] /\ (p = "guardian" \/ UNCHANGED journal)
  BY <1>2, BesideRisk DEF RiskInv, Kept
<1> QED
  BY <1>1, <1>2

\* The start of the runtime, the deaths, the pauses and the venue.
LEMMA OutsideRisk ==
  ASSUME RiskInv, Kept, Booting \/ Environment \/ UNCHANGED vars
  PROVE  \A p \in Processes : SessionRisk(p)'
<1>1. /\ ExecutionInv /\ ProcShape /\ "runtime" \in Processes
      /\ \A p \in Processes : SessionRisk(p)
      /\ \A p \in Processes : p = "runtime" \/ p = "guardian"
  BY DEF RiskInv, ExecutionInv, SessionInv, Processes
<1>2. CASE Booting
  <2>1. DOMAIN journal' = DOMAIN journal
    BY <1>2 DEF Booting, Boot, BootAsks, BootFails, BootApplies, BootCompletes, Applied, store
  <2>2. proc["runtime"].plan = <<>>
    BY <1>1, <1>2 DEF ExecutionInv, SessionInv, Booting, Boot, BootAsks, BootFails, BootApplies,
                      BootCompletes
  <2>3. /\ proc'["guardian"] = proc["guardian"]
        /\ proc'["runtime"].plan = <<>>
    <3>1. DOMAIN proc = Processes /\ DOMAIN proc["runtime"] = Fields /\ "guardian" # "runtime"
      BY <1>1 DEF ProcShape
    <3>2. CASE Boot
      BY <1>1, <3>1, <3>2 DEF Boot, Fresh
    <3>3. CASE BootFails
      BY <1>1, <3>1, <3>3 DEF BootFails, Fresh
    <3>4. ASSUME NEW answer \in reply, BootApplies(answer)
          PROVE  proc'["guardian"] = proc["guardian"] /\ proc'["runtime"].plan = <<>>
      <4>1. \E t : proc' = [proc EXCEPT !["runtime"].todo = t]
        BY <3>4 DEF BootApplies
      <4> QED
        BY <1>1, <2>2, <3>1, <4>1 DEF Fields
    <3>5. ASSUME NEW answer \in reply, BootCompletes(answer)
          PROVE  proc'["guardian"] = proc["guardian"] /\ proc'["runtime"].plan = <<>>
      BY <1>1, <2>2, <3>1, <3>5 DEF BootCompletes, Fields
    <3>6. CASE BootAsks
      BY <2>2, <3>6 DEF BootAsks
    <3> QED
      BY <1>2, <3>2, <3>3, <3>4, <3>5, <3>6 DEF Booting
  <2> QED
    BY <1>1, <2>1, <2>3, AsideRisk
<1>3. ASSUME NEW p \in Processes, RetryElapses(p)
      PROVE  \A q \in Processes : SessionRisk(q)'
  <2>1. /\ UNCHANGED journal
        /\ \A q \in Processes :
             /\ proc'[q].plan = proc[q].plan
             /\ proc'[q].stage = proc[q].stage /\ proc'[q].todo = proc[q].todo
             /\ proc'[q].blind = proc[q].blind /\ proc'[q].failed = proc[q].failed
             /\ proc'[q].current = proc[q].current
    BY <1>1, <1>3 DEF RetryElapses, store, ProcShape, Fields
  <2> QED
    BY <1>1, <2>1, BesideRisk DEF Kept
<1>4. ASSUME NEW p \in Processes, Crash(p)
      PROVE  \A q \in Processes : SessionRisk(q)'
  <2>1. /\ UNCHANGED journal /\ proc'[p].plan = <<>>
        /\ \A q \in Processes \ {p} : proc'[q] = proc[q]
    BY <1>1, <1>4 DEF Crash, store, ProcShape, Fresh
  <2> QED
    BY <2>1, AsideRisk
<1>5. CASE (\E i \in DOMAIN venue : VenueFills(i) \/ VenueCancels(i) \/ LateArrival(i)) \/ UNCHANGED vars
  <2>1. UNCHANGED <<journal, proc>>
    BY <1>5 DEF VenueFills, VenueCancels, LateArrival, store, vars
  <2> QED
    BY <2>1, AsideRisk
<1> QED
  BY <1>2, <1>3, <1>4, <1>5 DEF Environment

\* Before anything is journaled or protected nothing is at risk ...
LEMMA InitRisk == Init => RiskInv
<1> SUFFICES ASSUME Init PROVE RiskInv
  OBVIOUS
<1>1. ExecutionInv /\ EntriesInv /\ UnansweredInv
  BY InitHolds DEF Init, EntriesInv, UnansweredInv
<1>2. \A p \in Processes : SessionRisk(p)
  BY IdleRisk DEF Init, Fresh
<1> QED
  BY <1>1, <1>2 DEF RiskInv

\* ... and every step keeps it so.
LEMMA NextRisk == RiskInv /\ [Next]_vars => RiskInv'
<1> SUFFICES ASSUME RiskInv, [Next]_vars PROVE RiskInv'
  OBVIOUS
<1>1. Kept /\ ExecutionInv
  BY NextKeeps DEF RiskInv
<1>2. EntriesInv' /\ UnansweredInv'
  BY <1>1, EntriesKept, UnansweredKept
<1>3. ASSUME NEW p \in Processes, Step(p)
      PROVE  \A q \in Processes : SessionRisk(q)'
  <2>1. RiskStep(p)
    BY <1>1, <1>3, CancelRisk, ReconcileRisk, SubmitRisk, ControlRisk DEF Step
  <2>2. proc[p].plan # <<>>
    BY <1>3 DEF Step, Cancel, ListOrders, CancelsEnd, Looked, Requested, Confirmed, CancelFails, Cancelling,
                Reconcile, ReadStatus, ReadBalances, ReconcileFails,
                Submit, Submitted, SubmitConfirmed, SubmitRejected, SubmitLost, SubmitUnconfirmed,
                Control, ProtectIdle, ProtectRefused, ProtectPlaces, BeginFlatten, Recheck,
                ExitIdle, ExitPlaces, ExitRefused, EndFlatten, Verdict, KillFlatten, DecideNothing, DecideEntry,
                Reset, EndSession, At, Working
  <2> QED
    BY <1>1, <2>1, <2>2, OthersRisk DEF RiskStep
<1>4. ASSUME Sessions
      PROVE  \A q \in Processes : SessionRisk(q)'
  BY <1>1, <1>4, SessionsOpen, OpenRisk
<1>5. ASSUME Booting \/ Environment \/ UNCHANGED vars
      PROVE  \A q \in Processes : SessionRisk(q)'
  BY <1>1, <1>5, OutsideRisk
<1>6. \A p \in Processes : SessionRisk(p)'
  BY <1>3, <1>4, <1>5 DEF Next, Sessions
<1> QED
  BY <1>1, <1>2, <1>6 DEF RiskInv, Kept

\* Only cancel_all ends a stop that has not executed, or the venue one whose cancellation has
\* no answer: when cancel_all does, the entries are gone.
LEMMA StopsWithdrawn ==
  ASSUME RiskInv, [Next]_vars, NEW i \in DOMAIN venue, journal[i].kind = "stop",
         venue[i].state = "live", venue'[i].state = "ended", venue'[i].executed = venue[i].executed
  PROVE  EntriesGone \/ i \in unanswered
<1>1. /\ ExecutionInv /\ JournalInv /\ RowTypes /\ i \in DOMAIN journal /\ venue'[i] # venue[i]
      /\ UNCHANGED venue => FALSE
  BY RowFacts DEF RiskInv, ExecutionInv, JournalInv, RowTypes
<1>2. ASSUME NEW k \in DOMAIN venue, NEW r, venue' = [venue EXCEPT ![k] = r]
      PROVE  k = i /\ venue'[i] = r
  BY <1>1, <1>2
<1>3. ASSUME NEW p \in Processes, Cancel(p)
      PROVE  EntriesGone
  <2>1. PICK task \in {"cancelEntries", "cancelAll", "makers"} :
          \/ ListOrders(p, task) \/ CancelsEnd(p, task)
          \/ \E k \in DOMAIN journal : Looked(p, task, k) \/ Requested(p, task, k)
                                      \/ Confirmed(p, task, k) \/ CancelFails(p, task, k)
    BY <1>3 DEF Cancel, Cancels
  <2>2. PICK k \in DOMAIN journal : Requested(p, task, k)
    BY <1>1, <2>1 DEF ListOrders, CancelsEnd, Looked, Confirmed, CancelFails, exchange
  <2>3. Cancelling(p, task, k, "request") /\ venue' = Ended(k)
    BY <1>1, <2>2 DEF Requested
  <2>4. k = i
    BY <1>1, <1>2, <2>3 DEF Ended, RowTypes
  <2>5. Working(p, task) /\ proc[p].stage # "begin" /\ i \in proc[p].todo
    BY <2>3, <2>4 DEF Cancelling
  <2>6. task = "cancelAll"
    BY <2>5 DEF RiskInv, SessionRisk, TodoInv
  <2>7. /\ PlanOK(proc[p].plan) /\ proc[p].plan # <<>> /\ Head(proc[p].plan) = "cancelAll"
    BY <1>1, <2>5, <2>6 DEF ExecutionInv, SessionInv, Working
  <2>8. Withdrawing(proc[p].plan)
    BY <2>7, PlanParts DEF Withdrawing, Withdraws
  <2> QED
    BY <2>7, <2>8 DEF RiskInv, SessionRisk, WithdrawInv, Working
<1>4. ASSUME NEW p \in Processes, Submit(p)
      PROVE  FALSE
  <2>1. PICK k \in DOMAIN journal :
          Submitted(p, k) \/ SubmitConfirmed(p, k) \/ SubmitRejected(p, k) \/ SubmitLost(p, k)
            \/ SubmitUnconfirmed(p, k)
    BY <1>4 DEF Submit
  <2>2. CASE Submitted(p, k) \/ SubmitRejected(p, k) \/ SubmitLost(p, k)
    <3>1. /\ Answered(k) /\ At(p, "submit", "begin") /\ k = proc[p].current
      BY <2>2 DEF Submitted, SubmitRejected, SubmitLost, Answered, OnItsWay
    <3>2. venue[k].state = "unsent"
      BY <1>1, <3>1 DEF ExecutionInv, SubmitOf, At
    <3> QED
      BY <1>1, <1>2, <3>1, <3>2 DEF Answered, Accept, Refuse, OnItsWay, RowTypes
  <2> QED
    BY <1>1, <2>1, <2>2 DEF SubmitConfirmed, SubmitUnconfirmed, exchange
<1>5. ASSUME NEW p \in Processes, Reconcile(p) \/ Control(p)
      PROVE  FALSE
  <2>1. CASE Reconcile(p)
    BY <1>1, <2>1 DEF Reconcile, ReadStatus, ReadBalances, ReconcileFails, exchange
  <2>2. CASE ProtectPlaces(p) \/ ExitPlaces(p) \/ DecideEntry(p)
    BY <1>1, <2>2, SalesAreNew, SizeAssumption, NewRow DEF DecideEntry, Create, NewOrder
  <2>3. CASE /\ Control(p)
             /\ ~ProtectPlaces(p) /\ ~ExitPlaces(p) /\ ~DecideEntry(p)
    BY <1>1, <2>3 DEF Control, ProtectIdle, ProtectRefused, BeginFlatten, Recheck, ExitIdle, ExitRefused,
                      EndFlatten, Verdict, KillFlatten, DecideNothing, Reset, EndSession, Plain, exchange
  <2> QED
    BY <1>5, <2>1, <2>2, <2>3
<1>6. CASE Sessions
  BY <1>1, <1>6, SessionsOpen DEF Opened, Open, exchange
<1>7. CASE Booting
  BY <1>1, <1>7 DEF Booting, Boot, BootAsks, BootFails, BootApplies, BootCompletes, exchange
<1>8. CASE Environment \/ UNCHANGED vars
  <2>1. ASSUME NEW k \in DOMAIN venue, VenueFills(k)
        PROVE  FALSE
    <3>1. PICK s : venue' = [venue EXCEPT ![k] = [state |-> s, executed |-> venue[k].executed + 1]]
      BY <2>1 DEF VenueFills
    <3>2. venue'[i].executed = venue[i].executed + 1
      BY <1>2, <3>1
    <3>3. venue[i].executed \in Nat
      BY <1>1 DEF RowTypes
    <3> QED
      BY <3>2, <3>3
  <2>2. ASSUME NEW k \in DOMAIN venue, VenueCancels(k)
        PROVE  i \in unanswered
    <3>1. \E r : venue' = [venue EXCEPT ![k] = r]
      BY <2>2 DEF VenueCancels
    <3>2. k = i
      BY <1>2, <3>1
    <3> QED
      BY <1>1, <2>2, <3>2 DEF VenueCancels
  <2>3. ASSUME NEW k \in DOMAIN venue, LateArrival(k)
        PROVE  FALSE
    BY <1>1, <1>2, <2>3 DEF LateArrival, Accept, Refuse
  <2>4. ASSUME NEW p \in Processes, Crash(p)
        PROVE  FALSE
    <3>1. CASE At(p, "submit", "begin")
      <4>1. PICK k \in DOMAIN journal : k = proc[p].current /\ venue[k].state = "unsent"
        BY <1>1, <3>1 DEF ExecutionInv, SubmitOf, At
      <4>2. Answered(k)
        BY <2>4, <3>1, <4>1 DEF Crash, Answered, OnItsWay
      <4> QED
        BY <1>1, <1>2, <4>1, <4>2 DEF Answered, Accept, Refuse, OnItsWay, RowTypes
    <3> QED
      BY <1>1, <2>4, <3>1 DEF Crash, exchange
  <2>5. CASE UNCHANGED vars
    BY <1>1, <2>5 DEF vars, exchange
  <2>6. ASSUME NEW p \in Processes, RetryElapses(p)
        PROVE  FALSE
    BY <1>1, <2>6 DEF RetryElapses, exchange
  <2> QED
    BY <1>8, <2>1, <2>2, <2>3, <2>4, <2>5, <2>6 DEF Environment
<1> QED
  BY <1>3, <1>4, <1>5, <1>6, <1>7, <1>8 DEF Next, Step, Sessions

\* Protection is withdrawn only once no entry can add inventory any more (Controller._flatten:
\* "Cancel entry risk before removing protection").
THEOREM EntriesGoFirst == Spec => EntryRiskGoesFirst
<1>1. ASSUME RiskInv, [Next]_vars, NEW i \in DOMAIN venue, journal[i].kind = "stop",
             venue[i].state = "live", venue'[i].state = "ended", venue'[i].executed = venue[i].executed,
             NEW j \in DOMAIN venue, journal[j].kind = "maker"
      PROVE  venue[j].state \in {"ended", "never"}
  <2>1. RowTypes
    BY <1>1, RowFacts DEF RiskInv, ExecutionInv, JournalInv, RowTypes
  <2>2. /\ EntriesGone \/ i \in unanswered
        /\ PendingStop(i) /\ i \in DOMAIN journal /\ j \in DOMAIN journal
    BY <1>1, <2>1, StopsWithdrawn DEF PendingStop, Pending, RowTypes
  <2>3. ~PendingEntry(j)
    BY <1>1, <2>2 DEF EntriesGone, RiskInv, UnansweredInv
  <2> QED
    BY <1>1, <2>1, <2>3 DEF PendingEntry, Pending, RowTypes, VenueRow
<1>2. RiskInv /\ [Next]_vars =>
        \A i \in DOMAIN venue :
          journal[i].kind = "stop" /\ venue[i].state = "live" /\ venue'[i].state = "ended"
            /\ venue'[i].executed = venue[i].executed
            => \A j \in DOMAIN venue : journal[j].kind = "maker" => venue[j].state \in {"ended", "never"}
  BY <1>1
<1>3. RiskInv /\ [Next]_vars => RiskInv'
  BY NextRisk
<1> QED
  BY <1>2, <1>3, InitRisk, PTL DEF Spec, EntryRiskGoesFirst

-----------------------------------------------------------------------------
(* The verdict of a recovery: the stops it counts                          *)

\* A stop that the journal takes for open is live, was executed in full, or is being cancelled
\* without an answer.
StopTrue(i) ==
  journal[i].kind = "stop" /\ journal[i].status = "open" =>
    venue[i].state = "live" \/ venue[i].executed = journal[i].quantity \/ i \in unanswered
StopsTrue == \A i \in DOMAIN journal : StopTrue(i)

\* In a recovery this is so of the orders that have been read, and of all from then on; an
\* order that is placed is read again.
Checked(p) ==
  "verdict" \in Range(proc[p].plan) =>
    /\ Working(p, "submit") => Len(proc[p].plan) > 1 /\ proc[p].plan[2] = "reconcile"
    /\ Working(p, "protect") \/ Working(p, "verdict") => StopsTrue
    /\ Working(p, "reconcile") /\ proc[p].stage # "begin" =>
         \A i \in DOMAIN journal \ proc[p].todo : StopTrue(i)
VerdictInv == RiskInv /\ crashes \in Nat /\ \A p \in Processes : Checked(p)

\* No start of the runtime applies an answer to an order while the guardian has a session.
StartsApart == up = "booting" /\ journal # <<>> => lock = "free"

\* A task that begins has what the recovery needs of it.
LEMMA BeginsChecked ==
  ASSUME NEW p, NEW plan, proc'[p].plan = plan, proc'[p].stage = "begin",
         "verdict" \in Range(plan) =>
           /\ Head(plan) = "submit" => Len(plan) > 1 /\ plan[2] = "reconcile"
           /\ Head(plan) \in {"protect", "verdict"} => StopsTrue'
  PROVE  Checked(p)'
BY DEF Checked, Working

\* An exception leads to a recovery that has read nothing yet, or ends the session.
LEMMA RaiseChecked ==
  ASSUME ExecutionInv, NEW p \in Processes, NEW kills, Raise(p, kills)
  PROVE  Checked(p)'
<1>1. ProcShape /\ PlanOK(proc[p].plan)
  BY DEF ExecutionInv, SessionInv
<1>2. CASE RaiseInFlatten(p)
  <2> DEFINE new == Recovery(proc[p].plan)
  <2>1. Head(new) = "reconcile"
    BY <1>1, <1>2, RecoveryPlan DEF RaiseInFlatten, Inside
  <2>2. proc' = Becomes(p, new)
    BY <1>2 DEF RaiseInFlatten, Recovery
  <2> HIDE DEF new
  <2>3. proc'[p].plan = new /\ proc'[p].stage = "begin"
    BY <1>1, <2>2 DEF ProcShape, Fields, Becomes
  <2> QED
    BY <2>1, <2>3, BeginsChecked
<1>3. CASE RaiseInRecovery(p) \/ RaiseOutside(p, kills)
  <2>1. proc' = Becomes(p, <<>>)
    BY <1>3 DEF RaiseInRecovery, RaiseOutside, Leave
  <2>2. (proc[p].plan = <<>>)'
    BY <1>1, <2>1 DEF ProcShape, Fields, Becomes
  <2> QED
    BY <2>2 DEF Checked, Range
<1> QED
  BY <1>2, <1>3 DEF Raise

\* A task of a recovery that is over with every stop true, or the creation of one.
LEMMA DoneChecked ==
  ASSUME ExecutionInv, NEW p \in Processes, Checked(p), proc[p].plan # <<>>,
         proc' = Done(p) \/ (\E r : proc' = [Done(p) EXCEPT ![p].available = r]),
         Head(proc[p].plan) \in {"reconcile", "protect"} /\ "verdict" \in Range(proc[p].plan)
           => StopsTrue'
  PROVE  Checked(p)'
<1> DEFINE plan == proc[p].plan
           new == Tail(plan)
<1>1. ProcShape /\ PlanOK(plan)
  BY DEF ExecutionInv, SessionInv
<1>2. proc'[p].plan = new /\ proc'[p].stage = "begin"
  <2> DEFINE next == new
  <2>1. proc' = Becomes(p, next) \/ \E r : proc' = [Becomes(p, next) EXCEPT ![p].available = r]
    BY DEF Done
  <2> HIDE DEF next
  <2>2. proc'[p].plan = next /\ proc'[p].stage = "begin"
    BY <1>1, <2>1 DEF ProcShape, Becomes, Fields
  <2> QED
    BY <2>2 DEF next
<1>3. /\ DOMAIN plan = 1 .. Len(plan) /\ Len(plan) \in Nat \ {0} /\ Head(plan) = plan[1]
      /\ new \in Seq(Tasks) /\ DOMAIN new = 1 .. Len(plan) - 1
      /\ \A k \in DOMAIN new : new[k] = plan[k + 1] /\ k + 1 \in DOMAIN plan /\ new[k] # "submit"
  BY <1>1, PlanParts
<1>4. ASSUME "verdict" \in Range(new)
      PROVE  "verdict" \in Range(plan) /\ new # <<>> /\ Head(new) = plan[2] /\ Head(new) # "submit"
  <2>1. PICK k \in DOMAIN new : new[k] = "verdict"
    BY <1>4 DEF Range
  <2>2. 1 \in DOMAIN new
    BY <1>3, <2>1
  <2> HIDE DEF new
  <2>3. new # <<>> /\ Head(new) = new[1]
    BY <1>3, <2>2
  <2>4. new[1] = plan[2] /\ new[1] # "submit"
    BY <1>3, <2>2
  <2>5. plan[k + 1] = "verdict" /\ k + 1 \in DOMAIN plan
    BY <1>3, <2>1
  <2> QED
    BY <2>3, <2>4, <2>5 DEF Range
<1>5. ASSUME "verdict" \in Range(new)
      PROVE  /\ Head(new) # "submit"
             /\ Head(new) \in {"protect", "verdict"} => StopsTrue'
  <2>1. Head(plan) \in {"submit", "reconcile", "protect"}
    BY <1>1, <1>4, <1>5, RecoveryHead DEF Recovering
  <2>2. Head(plan) = "submit" => plan[2] = "reconcile"
    BY <1>4, <1>5 DEF Checked, Working
  <2> QED
    BY <1>4, <1>5, <2>1, <2>2
<1> QED
  BY <1>2, <1>5, BeginsChecked

-----------------------------------------------------------------------------
(* The verdict of a recovery: the steps                                    *)

\* What a task of a session leaves: its plan, or one that no recovery has entered.
LEMMA NoVerdict ==
  ASSUME ExecutionInv, NEW p \in Processes, proc[p].plan # <<>>,
         Head(proc[p].plan) \notin Recovering \cup {"verdict"},
         \/ proc'[p].plan = proc[p].plan
         \/ \E more : MoreOK(Head(proc[p].plan), more) /\ proc'[p].plan = more \o Tail(proc[p].plan)
  PROVE  Checked(p)'
<1>1. PlanOK(proc[p].plan)
  BY DEF ExecutionInv, SessionInv
<1>2. "verdict" \notin Range(proc[p].plan)
  BY <1>1, RecoveryHead
<1>3. "verdict" \notin Range(proc'[p].plan)
  BY <1>1, <1>2, MorePlan
<1> QED
  BY <1>3 DEF Checked

\* cancel_all and manage_makers.
LEMMA CancelChecked ==
  ASSUME RiskInv, NEW p \in Processes, Cancel(p)
  PROVE  Checked(p)'
<1>1. PICK task \in {"cancelEntries", "cancelAll", "makers"} :
        \/ ListOrders(p, task) \/ CancelsEnd(p, task)
        \/ \E i \in DOMAIN journal :
             Looked(p, task, i) \/ Requested(p, task, i) \/ Confirmed(p, task, i)
               \/ CancelFails(p, task, i)
  BY DEF Cancel, Cancels
<1>2. ExecutionInv /\ ProcShape /\ PlanOK(proc[p].plan)
  BY DEF RiskInv, ExecutionInv, SessionInv
<1>3. proc[p].plan # <<>> /\ Head(proc[p].plan) = task
  BY <1>1 DEF ListOrders, CancelsEnd, Looked, Requested, Confirmed, CancelFails, Cancelling, At, Working
<1>4. Head(proc[p].plan) \notin Recovering \cup {"verdict"}
  BY <1>3 DEF Recovering
<1>5. ASSUME NEW s, NEW t, StaysAs(p, s, t), t \subseteq DOMAIN journal
      PROVE  Checked(p)'
  <2>1. proc'[p].plan = proc[p].plan
    BY <1>2, <1>5, StaysTurns DEF Turns
  <2> QED
    BY <1>2, <1>3, <1>4, <2>1, NoVerdict
<1>6. ASSUME proc' = Done(p)
      PROVE  Checked(p)'
  <2>1. proc'[p].plan = Tail(proc[p].plan)
    BY <1>2, <1>6, BecomesIs DEF Done, Turns
  <2>2. Tail(proc[p].plan) = <<>> \o Tail(proc[p].plan)
    BY <1>2, <1>3 DEF PlanOK
  <2> QED
    BY <1>2, <1>3, <1>4, <2>1, <2>2, NoMore, NoVerdict
<1>7. proc[p].todo \subseteq DOMAIN journal
  BY <1>2 DEF ProcShape
<1>8. CASE ListOrders(p, task)
  <2>1. PICK chosen \in SUBSET ActiveOrders :
          proc' = [proc EXCEPT ![p].stage = "next", ![p].todo = chosen,
                     ![p].blind = {i \in chosen : journal[i].known /\ journal[i].status # "open"}]
    BY <1>8 DEF ListOrders
  <2>2. chosen \subseteq DOMAIN journal
    BY DEF ActiveOrders
  <2> QED
    BY <1>5, <2>1, <2>2 DEF StaysAs
<1>9. CASE CancelsEnd(p, task)
  BY <1>2, <1>6, <1>9, RaiseChecked DEF CancelsEnd
<1>10. ASSUME NEW i \in DOMAIN journal, Looked(p, task, i) \/ Requested(p, task, i)
       PROVE  Checked(p)'
  BY <1>5, <1>7, <1>10 DEF Looked, Requested, StaysAs
<1>11. ASSUME NEW i \in DOMAIN journal, Confirmed(p, task, i) \/ CancelFails(p, task, i)
       PROVE  Checked(p)'
  <2>1. CASE CancelFails(p, task, i) /\ task = "makers"
    BY <1>2, <2>1, RaiseChecked DEF CancelFails
  <2>2. CASE Confirmed(p, task, i) \/ task # "makers"
    <3>1. StaysAs(p, "next", proc[p].todo \ {i})
      BY <1>2, <1>11, <2>2 DEF Confirmed, CancelFails, StaysAs, ProcShape, Fields
    <3> QED
      BY <1>5, <1>7, <3>1
  <2> QED
    BY <1>11, <2>1, <2>2
<1> QED
  BY <1>1, <1>8, <1>9, <1>10, <1>11

\* An answer that is applied as it comes makes the row true.
LEMMA AppliedTrue ==
  ASSUME ExecutionInv, NEW i \in DOMAIN journal, Here(i),
         Applied(i, venue[i].state = "live", venue[i].executed), UNCHANGED <<venue, unanswered>>
  PROVE  /\ StopTrue(i)' /\ DOMAIN journal' = DOMAIN journal
         /\ \A j \in DOMAIN journal \ {i} : StopTrue(j) => StopTrue(j)'
<1>1. Rows /\ RowTypes
  BY RowFacts DEF ExecutionInv, JournalInv
<1> DEFINE s == IF venue[i].state = "live" THEN "open" ELSE "done"
<1>2. PICK k \in BOOLEAN : RowBecomes(i, k, venue[i].executed, s)
  BY DEF Applied, RowBecomes
<1>3. venue[i].executed \in Nat /\ s \in Statuses
  BY <1>1 DEF RowTypes, Statuses
<1> HIDE DEF s
<1>4. /\ DOMAIN journal' = DOMAIN journal
      /\ \A j \in DOMAIN journal : j # i => journal'[j] = journal[j]
      /\ journal'[i].status = s
  BY <1>1, <1>2, <1>3, RowSet
<1>5. StopTrue(i)'
  BY <1>4 DEF StopTrue, s
<1>6. \A j \in DOMAIN journal \ {i} : StopTrue(j) => StopTrue(j)'
  BY <1>4 DEF StopTrue
<1> QED
  BY <1>4, <1>5, <1>6

\* LiveBroker.reconcile reads every order that is not over.
LEMMA ReconcileChecked ==
  ASSUME RiskInv, NEW p \in Processes, Checked(p), Reconcile(p)
  PROVE  Checked(p)'
<1>1. /\ ExecutionInv /\ JournalInv /\ ProcShape /\ PlanOK(proc[p].plan)
      /\ Working(p, "reconcile") /\ proc[p].plan # <<>> /\ Head(proc[p].plan) = "reconcile"
  BY DEF RiskInv, ExecutionInv, SessionInv, Reconcile, ReadStatus, ReadBalances, ReconcileFails, Working
<1>2. "verdict" \in Range(proc[p].plan) => \A i \in DOMAIN journal \ Unread(p) : StopTrue(i)
  <2>1. CASE proc[p].stage = "begin"
    BY <2>1 DEF Unread, ActiveOrders, StopTrue
  <2>2. CASE proc[p].stage # "begin"
    BY <1>1, <2>2 DEF Unread, Checked
  <2> QED
    BY <2>1, <2>2
<1>3. CASE ReadStatus(p)
  <2>1. PICK i \in DOMAIN journal : i = Min(Unread(p))
    BY <1>1, <1>3, LeastIsRow DEF ReadStatus, Unread, ProcShape, ActiveOrders
  <2>2. PICK rest : rest = Unread(p) \ {i}
    OBVIOUS
  <2>3. /\ Here(i) /\ Applied(i, venue[i].state = "live", venue[i].executed)
        /\ UNCHANGED <<venue, unanswered>>
        /\ proc' = [proc EXCEPT ![p].stage = "statuses", ![p].todo = rest]
    BY <1>3, <2>1, <2>2 DEF ReadStatus, exchange, faults
  <2>4. /\ StopTrue(i)' /\ DOMAIN journal' = DOMAIN journal
        /\ \A j \in DOMAIN journal \ {i} : StopTrue(j) => StopTrue(j)'
    BY <1>1, <2>3, AppliedTrue
  <2>5. proc'[p].plan = proc[p].plan /\ proc'[p].todo = rest
    BY <1>1, <2>3 DEF ProcShape, Fields
  <2>6. ASSUME "verdict" \in Range(proc[p].plan), NEW j \in DOMAIN journal \ rest
        PROVE  StopTrue(j)'
    <3>1. j = i \/ j \in DOMAIN journal \ Unread(p)
      BY <2>2
    <3>2. CASE j # i
      BY <1>2, <2>4, <2>6, <3>1, <3>2
    <3> QED
      BY <2>4, <3>2
  <2>7. \A task : Working(p, task)' <=> task = "reconcile"
    BY <1>1, <2>5 DEF Working
  <2> QED
    BY <2>4, <2>5, <2>6, <2>7 DEF Checked
<1>4. CASE ReadBalances(p)
  <2>1. /\ Unread(p) = {} /\ UNCHANGED <<journal, venue, unanswered>>
        /\ proc' = [Done(p) EXCEPT ![p].available = Max({0, inventory - VenueReserved})]
    BY <1>4 DEF ReadBalances, store, exchange, faults
  <2>2. "verdict" \in Range(proc[p].plan) => StopsTrue'
    BY <1>2, <2>1 DEF StopTrue, StopsTrue
  <2> QED
    BY <1>1, <2>1, <2>2, DoneChecked
<1>5. CASE ReconcileFails(p)
  BY <1>1, <1>5, RaiseChecked DEF ReconcileFails
<1> QED
  BY <1>3, <1>4, <1>5 DEF Reconcile

\* LiveBroker.submit; the reconciliation comes next.
LEMMA SubmitChecked ==
  ASSUME RiskInv, NEW p \in Processes, Checked(p), Submit(p)
  PROVE  Checked(p)'
<1>1. PICK i \in DOMAIN journal :
        Submitted(p, i) \/ SubmitConfirmed(p, i) \/ SubmitRejected(p, i) \/ SubmitLost(p, i)
          \/ SubmitUnconfirmed(p, i)
  BY DEF Submit
<1>2. ExecutionInv /\ ProcShape /\ Working(p, "submit") /\ proc[p].plan # <<>> /\ Head(proc[p].plan) = "submit"
  BY <1>1 DEF RiskInv, ExecutionInv, SessionInv, Submitted, SubmitConfirmed, SubmitRejected, SubmitLost,
              SubmitUnconfirmed, At, Working
<1>3. CASE Submitted(p, i)
  <2>1. proc' = [proc EXCEPT ![p].stage = "status"]
    BY <1>3 DEF Submitted
  <2>2. proc'[p].plan = proc[p].plan
    BY <1>2, <2>1 DEF ProcShape, Fields
  <2>3. \A task : Working(p, task)' <=> task = "submit"
    BY <1>2, <2>2 DEF Working
  <2> QED
    BY <1>2, <2>2, <2>3 DEF Checked
<1>4. CASE SubmitConfirmed(p, i)
  BY <1>2, <1>4, DoneChecked DEF SubmitConfirmed
<1>5. CASE SubmitRejected(p, i) \/ SubmitLost(p, i) \/ SubmitUnconfirmed(p, i)
  BY <1>2, <1>5, RaiseChecked DEF SubmitRejected, SubmitLost, SubmitUnconfirmed
<1> QED
  BY <1>1, <1>3, <1>4, <1>5

\* The controller: a stop that is placed is read again before the verdict.
LEMMA ControlChecked ==
  ASSUME RiskInv, NEW p \in Processes, Checked(p), Control(p)
  PROVE  Checked(p)'
<1>1. ExecutionInv /\ ProcShape /\ PlanOK(proc[p].plan)
  BY DEF RiskInv, ExecutionInv, SessionInv
<1>2. ASSUME NEW kind, NEW quantity, NEW then, Create(p, kind, quantity, then)
      PROVE  /\ proc'[p].plan = (<<"submit">> \o then) \o Tail(proc[p].plan)
             /\ proc'[p].stage = "begin"
  <2> DEFINE next == (<<"submit">> \o then) \o Tail(proc[p].plan)
             n == Len(journal) + 1
  <2>1. proc' = [Becomes(p, next) EXCEPT ![p].current = n, ![p].retry = (@ \/ kind = "ioc")]
    BY <1>2 DEF Create, DoneThen
  <2> HIDE DEF next, n
  <2>2. proc'[p].plan = next /\ proc'[p].stage = "begin"
    BY <1>1, <2>1 DEF ProcShape, Becomes, Fields
  <2> QED
    BY <2>2 DEF next
<1>3. CASE ProtectIdle(p)
  <2>1. Working(p, "protect") /\ proc' = Done(p) /\ UNCHANGED <<journal, venue, unanswered>>
    BY <1>3 DEF ProtectIdle, At, Plain, exchange, faults
  <2>2. proc[p].plan # <<>>
    BY <2>1 DEF Working
  <2>3. "verdict" \in Range(proc[p].plan) => StopsTrue'
    BY <2>1 DEF Checked, StopsTrue, StopTrue
  <2> QED
    BY <1>1, <2>1, <2>2, <2>3, DoneChecked
<1>4. CASE ProtectRefused(p) \/ ExitRefused(p)
  BY <1>1, <1>4, RaiseChecked DEF ProtectRefused, ExitRefused
<1>5. CASE ProtectPlaces(p)
  <2> DEFINE rest == Tail(proc[p].plan)
             new == (<<"submit">> \o <<"reconcile">>) \o rest
  <2>1. proc[p].plan # <<>>
    BY <1>5 DEF ProtectPlaces, At, Working
  <2>2. rest \in Seq(Tasks)
    BY <1>1, <2>1, PlanParts
  <2>3. proc'[p].plan = new /\ proc'[p].stage = "begin"
    BY <1>2, <1>5 DEF ProtectPlaces
  <2> HIDE DEF rest
  <2>4. Head(new) = "submit" /\ Len(new) > 1 /\ new[2] = "reconcile"
    BY <2>2
  <2> HIDE DEF new
  <2> QED
    BY <2>3, <2>4, BeginsChecked
<1>6. CASE Verdict(p) \/ EndSession(p)
  <2>1. proc' = Becomes(p, <<>>)
    BY <1>6 DEF Verdict, EndSession, Leave
  <2>2. (proc[p].plan = <<>>)'
    BY <1>1, <2>1 DEF ProcShape, Fields, Becomes
  <2> QED
    BY <2>2 DEF Checked, Range
<1>7. ASSUME proc[p].plan # <<>>, Head(proc[p].plan) \notin Recovering \cup {"verdict"},
             NEW more, MoreOK(Head(proc[p].plan), more),
             proc' = DoneThen(p, more) \/ proc'[p].plan = more \o Tail(proc[p].plan)
      PROVE  Checked(p)'
  <2>1. proc'[p].plan = more \o Tail(proc[p].plan)
    BY <1>1, <1>7, BecomesIs DEF DoneThen, Turns
  <2> QED
    BY <1>1, <1>7, <2>1, NoVerdict
<1>8. ASSUME proc[p].plan # <<>>, Head(proc[p].plan) \notin Recovering \cup {"verdict"}, proc' = Done(p)
      PROVE  Checked(p)'
  <2>1. proc'[p].plan = Tail(proc[p].plan)
    BY <1>1, <1>8, BecomesIs DEF Done, Turns
  <2>2. Tail(proc[p].plan) = <<>> \o Tail(proc[p].plan)
    BY <1>1, <1>8 DEF PlanOK
  <2> QED
    BY <1>1, <1>8, <2>1, <2>2, NoMore, NoVerdict
<1>9. CASE BeginFlatten(p) \/ Recheck(p) \/ EndFlatten(p) \/ KillFlatten(p) \/ DecideNothing(p)
             \/ Reset(p) \/ ExitIdle(p)
  <2>1. /\ proc[p].plan # <<>>
        /\ Head(proc[p].plan) \in {"flatten", "recheck", "endFlatten", "killFlatten", "decide", "reset", "exit"}
    BY <1>9 DEF BeginFlatten, Recheck, EndFlatten, KillFlatten, DecideNothing, Reset, ExitIdle, At, Working
  <2>2. Head(proc[p].plan) \notin Recovering \cup {"verdict"}
    BY <2>1 DEF Recovering
  <2>3. proc' = Done(p) \/ \E more : MoreOK(Head(proc[p].plan), more) /\ proc' = DoneThen(p, more)
    <3>1. CASE BeginFlatten(p)
      BY <3>1, ControlPlans DEF BeginFlatten, At, Working
    <3>2. CASE Recheck(p)
      BY <3>2, ControlPlans DEF Recheck, At, Working
    <3>3. CASE KillFlatten(p)
      BY <3>3, ControlPlans, NoMore DEF KillFlatten, At, Working
    <3>4. CASE DecideNothing(p)
      BY <3>4, ControlPlans, NoMore DEF DecideNothing, At, Working
    <3>5. CASE ExitIdle(p)
      BY <3>5, ControlPlans DEF ExitIdle, At, Working
    <3>6. CASE EndFlatten(p) \/ Reset(p)
      BY <3>6 DEF EndFlatten, Reset
    <3> QED
      BY <1>9, <3>1, <3>2, <3>3, <3>4, <3>5, <3>6
  <2> QED
    BY <1>7, <1>8, <2>1, <2>2, <2>3
<1>10. CASE ExitPlaces(p)
  <2>1. proc[p].plan # <<>> /\ Head(proc[p].plan) = "exit"
    BY <1>10 DEF ExitPlaces, At, Working
  <2>2. proc'[p].plan = (<<"submit">> \o <<"reconcile", "protect">>) \o Tail(proc[p].plan)
    BY <1>2, <1>10 DEF ExitPlaces
  <2> QED
    BY <1>7, <2>1, <2>2, ControlPlans DEF Recovering
<1>11. CASE DecideEntry(p)
  <2>1. proc[p].plan # <<>> /\ Head(proc[p].plan) = "decide"
    BY <1>11 DEF DecideEntry, At, Working
  <2>2. proc'[p].plan = (<<"submit">> \o <<>>) \o Tail(proc[p].plan)
    BY <1>2, <1>11 DEF DecideEntry
  <2> QED
    BY <1>7, <2>1, <2>2, ControlPlans DEF Recovering
<1> QED
  BY <1>3, <1>4, <1>5, <1>6, <1>9, <1>10, <1>11 DEF Control

\* What a step of a session does to the other process: nothing.
LEMMA StepsAlone ==
  ASSUME RiskInv, Kept, NEW p \in Processes, Step(p)
  PROVE  /\ proc[p].plan # <<>> /\ lock = p
         /\ \A q \in Processes \ {p} : proc'[q] = proc[q] /\ proc[q].plan = <<>>
<1>1. RiskStep(p)
  BY CancelRisk, ReconcileRisk, SubmitRisk, ControlRisk DEF Step
<1>2. proc[p].plan # <<>>
  BY DEF Step, Cancel, ListOrders, CancelsEnd, Looked, Requested, Confirmed, CancelFails, Cancelling,
         Reconcile, ReadStatus, ReadBalances, ReconcileFails,
         Submit, Submitted, SubmitConfirmed, SubmitRejected, SubmitLost, SubmitUnconfirmed,
         Control, ProtectIdle, ProtectRefused, ProtectPlaces, BeginFlatten, Recheck,
         ExitIdle, ExitPlaces, ExitRefused, EndFlatten, Verdict, KillFlatten, DecideNothing, DecideEntry,
         Reset, EndSession, At, Working
<1> QED
  BY <1>1, <1>2 DEF RiskStep, RiskInv, ExecutionInv, SessionInv

\* A start has no session and leaves the guardian's alone.
LEMMA BootsAlone ==
  ASSUME ExecutionInv, Booting
  PROVE  /\ proc["runtime"].plan = <<>> /\ proc'["runtime"].plan = <<>>
         /\ proc'["guardian"] = proc["guardian"]
<1>1. ProcShape /\ "runtime" \in Processes /\ "guardian" \in Processes
  BY DEF ExecutionInv, SessionInv, Processes
<1>2. proc["runtime"].plan = <<>>
  BY DEF ExecutionInv, SessionInv, Booting, Boot, BootAsks, BootFails, BootApplies, BootCompletes
<1>3. DOMAIN proc = Processes /\ DOMAIN proc["runtime"] = Fields /\ "guardian" # "runtime"
  BY <1>1 DEF ProcShape
<1>4. CASE Boot
  BY <1>1, <1>2, <1>3, <1>4 DEF Boot, Fresh
<1>5. CASE BootFails
  BY <1>1, <1>2, <1>3, <1>5 DEF BootFails, Fresh
<1>6. ASSUME NEW answer \in reply, BootApplies(answer)
      PROVE  proc'["guardian"] = proc["guardian"] /\ proc'["runtime"].plan = <<>>
  <2>1. \E t : proc' = [proc EXCEPT !["runtime"].todo = t]
    BY <1>6 DEF BootApplies
  <2> QED
    BY <1>1, <1>2, <1>3, <2>1 DEF Fields
<1>7. ASSUME NEW answer \in reply, BootCompletes(answer)
      PROVE  proc'["guardian"] = proc["guardian"] /\ proc'["runtime"].plan = <<>>
  BY <1>1, <1>2, <1>3, <1>7 DEF BootCompletes, Fields
<1>8. CASE BootAsks
  BY <1>2, <1>8 DEF BootAsks
<1> QED
  BY <1>2, <1>4, <1>5, <1>6, <1>7, <1>8 DEF Booting

-----------------------------------------------------------------------------
(* The verdict of a recovery: what happens beside it                       *)

\* What happens beside a session leaves it what it has checked.
StopsStay ==
  /\ DOMAIN journal' = DOMAIN journal
  /\ \A i \in DOMAIN journal : StopTrue(i) => StopTrue(i)'

\* So it stays checked.
LEMMA BesideChecked ==
  ASSUME NEW p, Checked(p), StopsStay,
         proc'[p].plan = proc[p].plan, proc'[p].stage = proc[p].stage, proc'[p].todo = proc[p].todo
  PROVE  Checked(p)'
<1>1. \A task : Working(p, task)' <=> Working(p, task)
  BY DEF Working
<1>2. StopsTrue => StopsTrue'
  BY DEF StopsStay, StopsTrue
<1> QED
  BY <1>1, <1>2 DEF Checked, StopsStay

\* Without a plan nothing has been checked.
LEMMA IdleChecked ==
  ASSUME NEW p, proc'[p].plan = <<>>
  PROVE  Checked(p)'
<1>1. (proc[p].plan = <<>>)' => Checked(p)'
  BY DEF Checked, Range
<1> QED
  BY <1>1

\* A session begins outside a recovery.
LEMMA OpenChecked ==
  ASSUME RiskInv, NEW p \in Processes, NEW plan, Opened(p, plan), NEW q \in Processes
  PROVE  Checked(q)'
<1>1. /\ ExecutionInv /\ SessionInv /\ ProcShape /\ lock = "free" /\ proc' = Becomes(p, plan)
      /\ "verdict" \notin Range(plan)
  BY DEF RiskInv, ExecutionInv, SessionInv, Opened, Open, StartOK
<1>2. Turns(p, plan)
  BY <1>1, BecomesIs
<1>3. CASE q = p
  <2>1. proc'[q].plan = plan
    BY <1>2, <1>3 DEF Turns
  <2> QED
    BY <1>1, <2>1 DEF Checked
<1>4. CASE q # p
  <2>1. proc'[q] = proc[q] /\ proc[q].plan = <<>>
    BY <1>1, <1>2, <1>4 DEF Turns, SessionInv, Processes
  <2> QED
    BY <2>1, IdleChecked
<1> QED
  BY <1>3, <1>4

\* A start that applies answers is not beside a session.
LEMMA BootChecked ==
  ASSUME RiskInv, StartsApart, Booting, NEW p \in Processes, Checked(p)
  PROVE  Checked(p)'
<1>1. /\ ExecutionInv /\ ProcShape /\ p \in {"runtime", "guardian"} /\ "runtime" \in Processes
      /\ proc'["runtime"].plan = <<>> /\ proc'["guardian"] = proc["guardian"]
  BY BootsAlone DEF RiskInv, ExecutionInv, SessionInv, Processes
<1>2. CASE p = "runtime" \/ proc[p].plan = <<>>
  BY <1>1, <1>2, IdleChecked
<1>3. CASE p = "guardian" /\ proc[p].plan # <<>>
  <2>1. lock # "free"
    BY <1>1, <1>3 DEF ExecutionInv, SessionInv, Processes
  <2>2. ASSUME NEW answer, BootApplies(answer)
        PROVE  FALSE
    <3>1. up = "booting" /\ proc["runtime"].todo # {} /\ proc["runtime"].todo \subseteq DOMAIN journal
      BY <1>1, <2>2 DEF BootApplies, ProcShape
    <3>2. journal = <<>>
      BY <2>1, <3>1 DEF StartsApart
    <3> QED
      BY <3>1, <3>2
  <2>3. UNCHANGED <<journal, venue>>
    BY <2>2 DEF Booting, Boot, BootAsks, BootFails, BootCompletes, store, exchange
  <2>4. UNCHANGED unanswered
    BY <2>2 DEF Booting, Boot, BootAsks, BootFails, BootCompletes, Fault, faults
  <2>5. StopsStay
    BY <2>3, <2>4 DEF StopsStay, StopTrue
  <2> QED
    BY <1>1, <1>3, <2>5, BesideChecked
<1> QED
  BY <1>1, <1>2, <1>3

\* The venue executes stops and cancels those alone that it was asked to, and a session that
\* dies has no verdict.
LEMMA VenueChecked ==
  ASSUME RiskInv, NEW i \in DOMAIN venue, VenueFills(i) \/ VenueCancels(i) \/ LateArrival(i)
  PROVE  StopsStay
<1>1. RowTypes /\ \A j \in DOMAIN journal : RowBounded(j)
  BY RowFacts DEF RiskInv, ExecutionInv, JournalInv
<1>2. i \in DOMAIN journal /\ UNCHANGED <<journal, unanswered>>
  BY <1>1 DEF RowTypes, VenueFills, VenueCancels, LateArrival, store, faults
<1>3. ASSUME NEW r, venue' = [venue EXCEPT ![i] = r], StopTrue(i) => StopTrue(i)'
      PROVE  StopsStay
  <2>1. \A j \in DOMAIN journal : j # i => venue'[j] = venue[j]
    BY <1>1, <1>3 DEF RowTypes
  <2> QED
    BY <1>2, <1>3, <2>1 DEF StopsStay, StopTrue
<1>4. CASE VenueFills(i)
  <2> DEFINE e == venue[i].executed + 1
             s == IF e = journal[i].quantity THEN "ended" ELSE "live"
  <2>1. PICK r : r = [state |-> s, executed |-> e]
    OBVIOUS
  <2>2. venue' = [venue EXCEPT ![i] = r]
    BY <1>4, <2>1 DEF VenueFills
  <2>3. r.state = s /\ r.executed = e
    BY <2>1
  <2> HIDE DEF e
  <2>4. venue'[i] = r
    BY <1>1, <1>2, <2>2 DEF RowTypes
  <2>5. StopTrue(i)'
    BY <1>2, <2>3, <2>4 DEF StopTrue
  <2> QED
    BY <1>3, <2>2, <2>5
<1>5. CASE VenueCancels(i)
  <2>1. /\ venue' = [venue EXCEPT ![i].state = "ended"]
        /\ journal'[i].kind = "maker" \/ i \in unanswered
    BY <1>2, <1>5 DEF VenueCancels
  <2>2. StopTrue(i)'
    BY <1>2, <2>1 DEF StopTrue
  <2>3. \A j \in DOMAIN journal : j # i => venue'[j] = venue[j]
    BY <1>1, <2>1 DEF RowTypes
  <2> QED
    BY <1>2, <2>2, <2>3 DEF StopsStay, StopTrue
<1>6. CASE LateArrival(i)
  <2>1. venue[i].executed = 0 /\ journal[i].quantity > 0 /\ venue[i].state = "wire"
        /\ journal[i].quantity \in Nat
    BY <1>1, <1>2, <1>6 DEF LateArrival, RowBounded, RowTypes
  <2>2. StopTrue(i) => StopTrue(i)'
    BY <1>2, <2>1 DEF StopTrue
  <2>3. \A j \in DOMAIN journal : j # i => venue'[j] = venue[j]
    BY <1>1, <1>6 DEF LateArrival, Accept, Refuse, RowTypes
  <2> QED
    BY <1>2, <2>2, <2>3 DEF StopsStay, StopTrue
<1> QED
  BY <1>4, <1>5, <1>6

\* Everything that happens outside the sessions.
LEMMA OutsideChecked ==
  ASSUME RiskInv, Environment \/ UNCHANGED vars, NEW p \in Processes, Checked(p)
  PROVE  Checked(p)'
<1>1. ExecutionInv /\ SessionInv /\ ProcShape
  BY DEF RiskInv, ExecutionInv, SessionInv
<1>2. ASSUME NEW i \in DOMAIN venue, VenueFills(i) \/ VenueCancels(i) \/ LateArrival(i)
      PROVE  Checked(p)'
  <2>1. StopsStay /\ proc' = proc
    BY <1>2, VenueChecked DEF VenueFills, VenueCancels, LateArrival
  <2> QED
    BY <2>1, BesideChecked
<1>3. ASSUME NEW q \in Processes, Crash(q)
      PROVE  Checked(p)'
  <2>1. /\ proc'[q].plan = <<>> /\ UNCHANGED journal
        /\ \A o \in Processes \ {q} : proc'[o] = proc[o]
    BY <1>1, <1>3 DEF Crash, store, ProcShape, Fresh
  <2>2. CASE p = q \/ proc[p].plan = <<>>
    BY <2>1, <2>2, IdleChecked
  <2>3. CASE p # q /\ proc[p].plan # <<>>
    <3>1. proc[q].plan = <<>>
      BY <1>1, <2>3 DEF SessionInv
    <3>2. UNCHANGED venue /\ unanswered \subseteq unanswered'
      BY <1>3, <3>1 DEF Crash, At, Working, exchange
    <3>3. StopsStay
      BY <2>1, <3>2 DEF StopsStay, StopTrue
    <3> QED
      BY <2>1, <2>3, <3>3, BesideChecked
  <2> QED
    BY <2>2, <2>3
<1>4. ASSUME NEW q \in Processes, RetryElapses(q)
      PROVE  Checked(p)'
  <2>1. /\ UNCHANGED <<journal, venue, unanswered>>
        /\ proc'[p].plan = proc[p].plan /\ proc'[p].stage = proc[p].stage /\ proc'[p].todo = proc[p].todo
    BY <1>1, <1>4 DEF RetryElapses, store, exchange, faults, ProcShape, Fields
  <2>2. StopsStay
    BY <2>1 DEF StopsStay, StopTrue
  <2> QED
    BY <2>1, <2>2, BesideChecked
<1>5. CASE UNCHANGED vars
  <2>1. UNCHANGED <<journal, venue, proc, unanswered>>
    BY <1>5 DEF vars, store, exchange, faults
  <2>2. StopsStay
    BY <2>1 DEF StopsStay, StopTrue
  <2> QED
    BY <2>1, <2>2, BesideChecked
<1> QED
  BY <1>2, <1>3, <1>4, <1>5 DEF Environment

\* No process dies, and the runtime goes on.
Lives == crashes' = crashes /\ (up = "up" => up' = "up")

\* Deaths are counted one by one, and nothing else ends the runtime.
LEMMA DeathsCount == [Next]_vars => Lives \/ (crashes < MaxCrashes /\ crashes' = crashes + 1)
<1> SUFFICES ASSUME [Next]_vars PROVE Lives \/ (crashes < MaxCrashes /\ crashes' = crashes + 1)
  OBVIOUS
<1>1. ASSUME NEW p \in Processes, Cancel(p)
      PROVE  Lives
  BY <1>1 DEF Cancel, ListOrders, CancelsEnd, Looked, Requested, Confirmed, CancelFails, RequestLost,
              NoStatus, Fault, faults, Elsewhere, Lives
<1>2. ASSUME NEW p \in Processes, Reconcile(p)
      PROVE  Lives
  BY <1>2 DEF Reconcile, ReadStatus, ReadBalances, ReconcileFails, NoStatus, Fault, faults, Elsewhere, Lives
<1>3. ASSUME NEW p \in Processes, Submit(p)
      PROVE  Lives
  BY <1>3 DEF Submit, Submitted, SubmitConfirmed, SubmitRejected, SubmitLost, SubmitUnconfirmed, Fault, faults, Elsewhere, Lives
<1>4. ASSUME NEW p \in Processes, Control(p)
      PROVE  Lives
  BY <1>4 DEF Control, ProtectIdle, ProtectRefused, ProtectPlaces, BeginFlatten, Recheck,
              ExitIdle, ExitPlaces, ExitRefused, EndFlatten, Verdict, KillFlatten, DecideNothing, DecideEntry,
              Reset, EndSession, Create, Plain, Fault, faults, Elsewhere, Lives
<1>5. CASE Sessions
  BY <1>5 DEF Sessions, ReconcileSession, CommandSession, BookLost, MarketEvent, KilledSession,
              GuardianSession, Open, faults, Elsewhere, Lives
<1>6. CASE Booting
  BY <1>6 DEF Booting, Boot, BootAsks, BootFails, BootApplies, BootCompletes, Fault, faults, Elsewhere, Lives
<1>7. CASE Environment
  BY <1>7 DEF Environment, VenueFills, VenueCancels, LateArrival, Crash, RetryElapses, faults, Elsewhere, Lives
<1>8. CASE UNCHANGED vars
  BY <1>8 DEF vars, faults, Elsewhere, Lives
<1> QED
  BY <1>1, <1>2, <1>3, <1>4, <1>5, <1>6, <1>7, <1>8 DEF Next, Step, Sessions

-----------------------------------------------------------------------------
(* The verdict of a recovery: the invariant, the accounts and the theorem  *)

\* Nothing is checked at first ...
LEMMA InitVerdict == Init => VerdictInv
<1> SUFFICES ASSUME Init PROVE VerdictInv
  OBVIOUS
<1>1. RiskInv /\ crashes \in Nat
  BY InitRisk DEF Init
<1>2. ASSUME NEW p \in Processes
      PROVE  Checked(p)
  <2>1. proc[p].plan = <<>>
    BY <1>2 DEF Init, Fresh
  <2> QED
    BY <2>1 DEF Checked, Range
<1> QED
  BY <1>1, <1>2 DEF VerdictInv

\* ... and every step keeps what is, where starts are apart.
LEMMA NextVerdict == VerdictInv /\ StartsApart /\ [Next]_vars => VerdictInv'
<1> SUFFICES ASSUME VerdictInv, StartsApart, [Next]_vars PROVE VerdictInv'
  OBVIOUS
<1>1. RiskInv /\ Kept /\ ExecutionInv /\ \A p \in Processes : Checked(p)
  BY NextKeeps DEF VerdictInv, RiskInv
<1>2. RiskInv'
  BY <1>1, NextRisk
<1>3. crashes' \in Nat
  BY DeathsCount DEF VerdictInv, Lives
<1>4. ASSUME NEW p \in Processes, Step(p), NEW q \in Processes
      PROVE  Checked(q)'
  <2>1. CASE q = p
    BY <1>1, <1>4, <2>1, CancelChecked, ReconcileChecked, SubmitChecked, ControlChecked DEF Step
  <2>2. CASE q # p
    <3>1. proc'[q].plan = <<>>
      BY <1>1, <1>4, <2>2, StepsAlone
    <3> QED
      BY <3>1, IdleChecked
  <2> QED
    BY <2>1, <2>2
<1>5. ASSUME Sessions, NEW q \in Processes
      PROVE  Checked(q)'
  BY <1>1, <1>5, SessionsOpen, OpenChecked
<1>6. ASSUME Booting \/ Environment \/ UNCHANGED vars, NEW q \in Processes
      PROVE  Checked(q)'
  BY <1>1, <1>6, BootChecked, OutsideChecked
<1>7. \A q \in Processes : Checked(q)'
  BY <1>4, <1>5, <1>6 DEF Next, Sessions
<1> QED
  BY <1>2, <1>3, <1>7 DEF VerdictInv

\* With every entry over, what the venue holds is what the ledger has without the fills of
\* sales that are not booked: nothing if it is flat, and no more than the open stops cover if
\* they are true.
LEMMA VerdictHolds ==
  ASSUME JournalInv, ActiveOrders = ActiveSells, StopsTrue
  PROVE  /\ ledger = 0 => inventory = 0
         /\ OpenCover >= ledger =>
              MapThenSumSet(LAMBDA i : journal[i].quantity - venue[i].executed, StandingStops) >= inventory
<1>1. /\ RowTypes /\ WeightTypes /\ Accounts /\ NeverOversold /\ ledger \in Nat /\ inventory \in Int
      /\ \A i \in DOMAIN journal : RowSound(i) /\ RowBounded(i)
  BY RowFacts, WeightsAreInt, InvNeverOversold, InventoryInt DEF JournalInv
<1> DEFINE D == DOMAIN journal
           opens == {i \in ActiveStops : journal[i].status = "open"}
           lives == StandingStops
           sells == {i \in DOMAIN journal : journal[i].kind # "maker"
                                              /\ venue[i].state \in {"unsent", "wire", "live"}}
           open == [i \in D |-> IF i \in opens THEN Unfilled[i] ELSE 0]
           live == [i \in D |-> IF i \in lives THEN Unexecuted[i] ELSE 0]
<1>2. /\ IsFiniteSet(D) /\ \A i \in D : Unexecuted[i] \in Int /\ Unfilled[i] \in Int
      /\ opens \in SUBSET D /\ lives \in SUBSET D /\ sells \in SUBSET D
  BY <1>1 DEF RowTypes, StandingStops, Unexecuted, Unfilled, Remaining, ActiveStops, ActiveOrders
<1>3. IsFiniteSet(opens) /\ Sum(Unfilled, opens) = Sum(open, D)
  BY <1>2, PartSum
<1>4. IsFiniteSet(lives) /\ Sum(Unexecuted, lives) = Sum(live, D)
  BY <1>2, PartSum
<1>5. IsFiniteSet(sells)
  BY <1>2, FS_Subset
<1>6. OpenCover = Sum(open, D)
  BY <1>2, <1>3, RemainingSum DEF OpenCover
<1>7. MapThenSumSet(LAMBDA i : journal[i].quantity - venue[i].executed, StandingStops) = Sum(live, D)
  <2>1. MapThenSumSet(LAMBDA i : journal[i].quantity - venue[i].executed, lives) = Sum(Unexecuted, lives)
    BY <1>2, <1>4, UnexecutedSum
  <2> QED
    BY <1>4, <2>1
<1>8. ASSUME NEW i \in D
      PROVE  /\ Executed[i] \in Int /\ Booked[i] \in Int /\ open[i] \in Int /\ live[i] \in Int
             /\ Executed[i] <= Booked[i]
             /\ open[i] <= live[i] + Booked[i] - Executed[i]
  <2>1. /\ journal[i].quantity \in Nat /\ journal[i].filled \in Nat /\ venue[i].executed \in Nat
        /\ journal[i].filled <= venue[i].executed /\ venue[i].executed <= journal[i].quantity
        /\ journal[i].status \in Statuses /\ i \in DOMAIN venue
    BY <1>1 DEF RowTypes, RowSound, RowBounded
  <2>2. /\ Executed[i] = (IF journal[i].kind = "maker" THEN venue[i].executed ELSE -venue[i].executed)
        /\ Booked[i] = (IF journal[i].kind = "maker" THEN journal[i].filled ELSE -journal[i].filled)
    BY <1>1 DEF WeightTypes
  <2>3. ASSUME journal[i].kind = "maker"
        PROVE  venue[i].executed = journal[i].filled
    <3>1. i \notin ActiveOrders
      BY <2>3 DEF ActiveSells
    <3>2. journal[i].status \in {"done", "rejected"}
      BY <2>1, <3>1 DEF ActiveOrders, Statuses
    <3> QED
      BY <1>1, <2>1, <3>2 DEF RowSound, RowBounded
  <2>4. /\ open[i] = IF i \in opens THEN journal[i].quantity - journal[i].filled ELSE 0
        /\ live[i] = IF i \in lives THEN journal[i].quantity - venue[i].executed ELSE 0
    BY DEF Unfilled, Unexecuted, Remaining
  <2>5. i \in opens => /\ journal[i].kind = "stop"
                       /\ i \in lives \/ venue[i].executed = journal[i].quantity
    BY <2>1 DEF ActiveStops, StopsTrue, StopTrue, StandingStops
  <2>6. i \in lives => journal[i].kind = "stop"
    BY DEF StandingStops
  <2> HIDE DEF open, live, opens, lives
  <2>7. Executed[i] <= Booked[i] /\ Executed[i] \in Int /\ Booked[i] \in Int
    BY <2>1, <2>2, <2>3
  <2>8. CASE i \in opens
    BY <2>1, <2>2, <2>4, <2>5, <2>7, <2>8
  <2>9. CASE i \notin opens
    BY <2>1, <2>2, <2>3, <2>4, <2>6, <2>7, <2>9
  <2> QED
    BY <2>1, <2>4, <2>7, <2>8, <2>9
<1> HIDE DEF open, live, opens, lives
<1>9. inventory <= ledger
  <2>1. Sum(Executed, D) <= Sum(Booked, D)
    BY <1>2, <1>8, SumLeq
  <2> QED
    BY <1>1, <2>1 DEF Accounts
<1>10. inventory >= 0
  <2>1. \A i \in sells : Unexecuted[i] \in Nat
    BY <1>1 DEF RowTypes, RowBounded, Unexecuted
  <2>2. Sum(Unexecuted, sells) \in Nat
    BY <1>5, <2>1, SumNat
  <2>3. MapThenSumSet(LAMBDA i : journal[i].quantity - venue[i].executed, sells) = Sum(Unexecuted, sells)
    BY <1>2, <1>5, UnexecutedSum
  <2>4. Sum(Unexecuted, sells) <= inventory
    BY <1>1, <2>3 DEF NeverOversold
  <2> QED
    BY <1>1, <2>2, <2>4
<1>11. Sum(open, D) <= Sum(live, D) + Sum(Booked, D) - Sum(Executed, D)
  <2>1. \A i \in D : /\ open[i] \in Int /\ live[i] \in Int /\ Booked[i] \in Int /\ Executed[i] \in Int
                     /\ open[i] <= live[i] + Booked[i] - Executed[i]
    BY <1>8
  <2> QED
    BY <1>2, <2>1, SumBound
<1>12. Sum(open, D) \in Int /\ Sum(live, D) \in Int
  BY <1>2, <1>8, SumInt
<1>13. ledger = Sum(Booked, D) /\ inventory = Sum(Executed, D)
  BY <1>1 DEF Accounts
<1>14. OpenCover >= ledger => Sum(live, D) >= inventory
  BY <1>1, <1>6, <1>11, <1>12, <1>13
<1>15. ledger = 0 => inventory = 0
  BY <1>1, <1>9, <1>10
<1> QED
  BY <1>7, <1>14, <1>15

\* Nothing but its verdict ends a recovery that has come to it, except death.
LEMMA VerdictEnds ==
  ASSUME VerdictInv, [Next]_vars, NEW p \in Processes, At(p, "verdict", "begin"),
         proc'[p].plan = <<>>, UNCHANGED crashes
  PROVE  Verdict(p)
<1>1. /\ RiskInv /\ ExecutionInv /\ SessionInv /\ ProcShape /\ Kept /\ crashes \in Nat
      /\ proc[p].plan # <<>> /\ Head(proc[p].plan) = "verdict" /\ lock = p
  BY NextKeeps DEF VerdictInv, RiskInv, ExecutionInv, SessionInv, At, Working
<1>2. p # "free"
  BY DEF Processes
<1>3. ASSUME NEW q \in Processes, Step(q)
      PROVE  Verdict(p)
  <2>1. q = p
    BY <1>1, <1>3, StepsAlone
  <2>2. ~Cancel(p) /\ ~Reconcile(p) /\ ~Submit(p)
    BY <1>1 DEF Cancel, Cancels, ListOrders, CancelsEnd, Looked, Requested, Confirmed, CancelFails,
                Cancelling, Reconcile, ReadStatus, ReadBalances, ReconcileFails,
                Submit, Submitted, SubmitConfirmed, SubmitRejected, SubmitLost, SubmitUnconfirmed, At, Working
  <2>3. Control(p)
    BY <1>3, <2>1, <2>2 DEF Step
  <2> QED
    BY <1>1, <2>3 DEF Control, ProtectIdle, ProtectRefused, ProtectPlaces, BeginFlatten, Recheck,
              ExitIdle, ExitPlaces, ExitRefused, EndFlatten, KillFlatten, DecideNothing, DecideEntry,
              Reset, EndSession, At, Working
<1>4. ~Sessions
  BY <1>1, <1>2 DEF Sessions, ReconcileSession, CommandSession, BookLost, MarketEvent, KilledSession,
                    GuardianSession, Open
<1>5. ~Booting
  BY <1>1, BootsAlone DEF Processes
<1>6. ASSUME NEW q \in Processes, Crash(q)
      PROVE  FALSE
  BY <1>1, <1>6 DEF Crash
<1>7. ASSUME NEW q \in Processes, RetryElapses(q)
      PROVE  FALSE
  BY <1>1, <1>7 DEF RetryElapses, ProcShape, Fields
<1>8. ASSUME (\E i \in DOMAIN venue : VenueFills(i) \/ VenueCancels(i) \/ LateArrival(i)) \/ UNCHANGED vars
      PROVE  FALSE
  BY <1>1, <1>8 DEF VenueFills, VenueCancels, LateArrival, vars
<1> QED
  BY <1>3, <1>4, <1>5, <1>6, <1>7, <1>8 DEF Next, Sessions, Environment

\* What is recorded is what the open stops and the ledger say, of a venue they are true of.
LEMMA VerdictStep ==
  VerdictInv /\ [Next]_vars =>
    \A p \in Processes :
       At(p, "verdict", "begin") /\ proc'[p].plan = <<>> /\ UNCHANGED crashes
       /\ ActiveOrders = ActiveSells
         => /\ recovery' = "protected" =>
                    MapThenSumSet(LAMBDA i : journal[i].quantity - venue[i].executed, StandingStops) >= inventory
            /\ recovery' = "flat" => inventory = 0
<1> SUFFICES ASSUME VerdictInv, [Next]_vars, NEW p \in Processes, At(p, "verdict", "begin"),
                    proc'[p].plan = <<>>, UNCHANGED crashes, ActiveOrders = ActiveSells
             PROVE  /\ recovery' = "protected" =>
                         MapThenSumSet(LAMBDA i : journal[i].quantity - venue[i].executed, StandingStops) >= inventory
                    /\ recovery' = "flat" => inventory = 0
  OBVIOUS
<1>1. recovery' = VerdictStatus
  BY VerdictEnds DEF Verdict
<1>2. StopsTrue
  <2>1. /\ PlanOK(proc[p].plan) /\ proc[p].plan # <<>> /\ Head(proc[p].plan) = "verdict"
    BY DEF VerdictInv, RiskInv, ExecutionInv, SessionInv, At, Working
  <2>2. 1 \in DOMAIN proc[p].plan /\ proc[p].plan[1] = "verdict"
    BY <2>1, PlanParts
  <2>3. "verdict" \in Range(proc[p].plan)
    BY <2>2 DEF Range
  <2> QED
    BY <2>3 DEF VerdictInv, Checked, At
<1>3. JournalInv
  BY DEF VerdictInv, RiskInv, ExecutionInv
<1> QED
  BY <1>1, <1>2, <1>3, VerdictHolds DEF VerdictStatus

\* The recorded recovery tells what holds at the venue (Controller.recover_protection), after
\* any deaths, where no start of the runtime applies an answer to an order of the journal while
\* the guardian has a session: LiveBroker.reconcile at the start is outside the lock.
THEOREM VerdictsAreTrue == Spec /\ []StartsApart => VerdictIsTrue
<1>1. Init => VerdictInv
  BY InitVerdict
<1>2. VerdictInv /\ StartsApart /\ [Next]_vars => VerdictInv'
  BY NextVerdict
<1>3. Spec /\ []StartsApart => []VerdictInv
  BY <1>1, <1>2, PTL DEF Spec
<1>4. []VerdictInv /\ [][Next]_vars => VerdictIsTrue
  BY VerdictStep, PTL DEF VerdictIsTrue
<1> QED
  BY <1>3, <1>4, PTL DEF Spec

-----------------------------------------------------------------------------
(* The verdict while no process dies                                       *)

\* The first start is over before there is an order, and there is no other.
FirstStart ==
  /\ crashes = 0
  /\ up # "up" => journal = <<>> /\ proc["guardian"].plan = <<>>

\* An empty journal has no orders and no position.
LEMMA EmptyJournal ==
  ASSUME JournalInv, journal = <<>>
  PROVE  ledger = 0 /\ ActiveOrders = {} /\ DOMAIN journal = {}
<1>1. DOMAIN journal = {}
  OBVIOUS
<1>2. ledger = 0
  BY <1>1, SumEmpty DEF JournalInv, Accounts
<1> QED
  BY <1>1, <1>2 DEF ActiveOrders

\* Without deaths it stays so.
LEMMA FirstStays ==
  ASSUME MaxCrashes = 0, RiskInv, FirstStart, [Next]_vars
  PROVE  FirstStart'
<1>1. /\ ExecutionInv /\ SessionInv /\ JournalInv /\ ProcShape /\ Kept
      /\ \A q \in Processes : q = "runtime" \/ q = "guardian"
  BY NextKeeps DEF RiskInv, ExecutionInv, SessionInv, Processes
<1>2. Lives
  BY DeathsCount DEF FirstStart
<1>3. SUFFICES ASSUME up # "up"
               PROVE  journal' = <<>> /\ proc'["guardian"].plan = <<>>
  BY <1>2 DEF FirstStart, Lives
<1>4. /\ journal = <<>> /\ ledger = 0 /\ ActiveOrders = {} /\ DOMAIN journal = {}
      /\ \A q \in Processes : proc[q].plan = <<>>
  BY <1>1, <1>3, EmptyJournal DEF FirstStart, SessionInv
<1>5. \A q \in Processes : ~Step(q)
  BY <1>1, <1>4, StepsAlone
<1>6. ~Sessions
  <2>1. ~(ledger > 0) /\ ~(ActiveOrders # {})
    BY <1>4
  <2>2. ~GuardianSession
    BY <2>1, Zenon DEF GuardianSession
  <2>3. ~ReconcileSession /\ ~CommandSession /\ ~BookLost /\ ~MarketEvent /\ ~KilledSession
    BY <1>3, Zenon DEF ReconcileSession, CommandSession, BookLost, MarketEvent, KilledSession
  <2> QED
    BY <2>2, <2>3 DEF Sessions
<1>7. CASE Booting
  <2>1. proc'["guardian"] = proc["guardian"] /\ proc["runtime"].todo = {} /\ "guardian" \in Processes
    BY <1>1, <1>4, <1>7, BootsAlone DEF ProcShape, Processes
  <2>2. UNCHANGED journal
    BY <1>7, <2>1 DEF Booting, Boot, BootAsks, BootFails, BootApplies, BootCompletes, store
  <2> QED
    BY <1>4, <2>1, <2>2
<1>8. CASE Environment
  <2>1. ASSUME NEW q \in Processes, Crash(q)
        PROVE  FALSE
    BY <2>1 DEF Crash, FirstStart
  <2>2. "guardian" \in Processes
    BY DEF Processes
  <2>3. ASSUME NEW q \in Processes, RetryElapses(q)
        PROVE  journal' = <<>> /\ proc'["guardian"].plan = <<>>
    BY <1>1, <1>4, <2>2, <2>3 DEF RetryElapses, store, ProcShape, Fields
  <2>4. ASSUME NEW i \in DOMAIN venue, VenueFills(i) \/ VenueCancels(i) \/ LateArrival(i)
        PROVE  journal' = <<>> /\ proc'["guardian"].plan = <<>>
    BY <1>4, <2>2, <2>4 DEF VenueFills, VenueCancels, LateArrival, store
  <2> QED
    BY <1>8, <2>1, <2>3, <2>4 DEF Environment
<1>9. CASE UNCHANGED vars
  BY <1>4, <1>9 DEF vars, store, Processes
<1> QED
  BY <1>5, <1>6, <1>7, <1>8, <1>9 DEF Next, Sessions

\* The recorded recovery tells what holds at the venue, as long as no process dies: the first
\* start finds no orders, and so the guardian has no session while it reconciles.
THEOREM VerdictsWithoutDeaths == MaxCrashes = 0 /\ Spec => VerdictIsTrue
<1> SUFFICES ASSUME MaxCrashes = 0
             PROVE  Spec => VerdictIsTrue
  OBVIOUS
<1>1. Init => FirstStart
  BY DEF Init, FirstStart, Fresh, Processes
<1>2. FirstStart /\ RiskInv /\ [Next]_vars => FirstStart'
  BY FirstStays
<1>3. Spec => []RiskInv
  BY InitRisk, NextRisk, PTL DEF Spec
<1>4. FirstStart => StartsApart
  BY DEF FirstStart, StartsApart
<1>5. Spec => []StartsApart
  BY <1>1, <1>2, <1>3, <1>4, PTL DEF Spec
<1> QED
  BY <1>5, VerdictsAreTrue, PTL

=============================================================================
