--------------------------- MODULE SupportProofs ---------------------------
(***************************************************************************)
(* Theorems about the components around the trading loop that have no      *)
(* module of proofs of their own (RestAdapter, EvidenceGate, Lifecycle),   *)
(* and about the instance in which all of them are checked (MCSupport).    *)
(***************************************************************************)
EXTENDS MCSupport, TradeRulesProofs, PortfolioProofs

-----------------------------------------------------------------------------
(* The REST adapter                                                        *)
(*                                                                         *)
(* For any number of clients, keys, retries and calls.  What a caller is   *)
(* told of a creation is true because a creation is sent once: its request *)
(* is at most in one of wire, effective and a refusal (RestInv).           *)

\* No request was signed with a nonce beyond the row of the store.
NonceBound == \A k \in Keys : highest[k] <= nonces[k]

Busy(c) == call[c].phase # "idle"

Calls == [phase : {"idle", "waiting", "signed", "sent", "backoff"},
          id : 0 .. MaxCalls, attempt : 0 .. Retries]

\* A call that is being made has a number that was given out; a creation has one attempt.
CallInv ==
  \A c \in Clients :
    /\ Busy(c) => call[c].id \in 1 .. calls
    /\ ~Busy(c) => call[c].id = 0
    /\ call[c].phase = "backoff" => call[c].attempt < Retries /\ call[c].id \notin creations
    /\ call[c].id \in creations => call[c].attempt = 0

\* A call has one caller.
OneCaller == \A c, d \in Clients : Busy(c) /\ Busy(d) /\ call[c].id = call[d].id => c = d

\* Requests belong to calls, and to attempts that were sent.
RequestInv ==
  \A r \in wire \union effective :
    /\ r[1] \in 1 .. calls
    /\ r[1] \in creations => r[2] = 0
    /\ \A c \in Clients : r[1] = call[c].id =>
         /\ r[2] <= call[c].attempt
         /\ call[c].phase \in {"waiting", "signed"} => r[2] < call[c].attempt

\* A request is on its way or has arrived, and its reply tells what it did.
ReplyInv ==
  /\ wire \intersect effective = {}
  /\ \A p \in replies :
       /\ \E c \in Clients : call[c].phase = "sent" /\ p[1] = Request(c)
       /\ p[1] \notin wire
       /\ p[2] = "ok" => p[1] \in effective
       /\ p[2] = "refused" => p[1] \notin effective
  /\ \A p, q \in replies : p[1] = q[1] => p = q

\* A call that has ended is not being made.
OutcomeInv ==
  \A i \in 1 .. MaxCalls : outcome[i] # "none" => i <= calls /\ \A c \in Clients : call[c].id # i

RestInv ==
  RestTypeOK /\ NonceBound /\ CallInv /\ OneCaller /\ RequestInv /\ ReplyInv /\ OutcomeInv
    /\ CreationOutcomeIsTrue

-----------------------------------------------------------------------------
\* A step of one client.
LEMMA CallStep ==
  ASSUME RestTypeOK, NEW c \in Clients, NEW x \in Calls, call' = [call EXCEPT ![c] = x]
  PROVE  /\ call' \in [Clients -> Calls] /\ call'[c] = x
         /\ \A d \in Clients : d # c => call'[d] = call[d]
<1>1. call \in [Clients -> Calls]
  BY DEF RestTypeOK, Calls
<1> QED
  BY <1>1

LEMMA PhaseStep ==
  ASSUME RestTypeOK, NEW c \in Clients, NEW p \in {"idle", "waiting", "signed", "sent", "backoff"},
         call' = [call EXCEPT ![c].phase = p]
  PROVE  /\ call' \in [Clients -> Calls]
         /\ call'[c].phase = p /\ call'[c].id = call[c].id /\ call'[c].attempt = call[c].attempt
         /\ \A d \in Clients : d # c => call'[d] = call[d]
<1>1. call \in [Clients -> Calls]
  BY DEF RestTypeOK, Calls
<1>2. call[c] \in Calls /\ [call[c] EXCEPT !.phase = p] \in Calls
  BY <1>1 DEF Calls
<1>3. call' = [call EXCEPT ![c] = [call[c] EXCEPT !.phase = p]]
  BY <1>1
<1> QED
  BY <1>1, <1>2, <1>3 DEF Calls

\* The store gives out a nonce that is higher than its row.
LEMMA NonceIsHigher ==
  ASSUME RestTypeOK, NEW k \in Keys
  PROVE  NextNonce(k) \in Nat /\ NextNonce(k) > nonces[k]
BY RestBoundsAssumption DEF RestTypeOK, NextNonce, Larger

LEMMA RequestType ==
  ASSUME RestTypeOK, CallInv, NEW c \in Clients, Busy(c)
  PROVE  Request(c) \in Requests /\ Request(c)[1] = call[c].id /\ Request(c)[2] = call[c].attempt
<1>1. call[c].id \in 1 .. calls /\ calls \in 0 .. MaxCalls /\ call[c].attempt \in 0 .. Retries
  BY DEF RestTypeOK, CallInv
<1>2. call[c].id \in 1 .. MaxCalls
  BY <1>1, RestBoundsAssumption
<1> QED
  BY <1>1, <1>2 DEF Request, Requests

\* A creation that reaches the venue has one request.
LEMMA OneRequestPerCreation ==
  ASSUME RestTypeOK, RequestInv
  PROVE  CreatedAtMostOnce
<1> SUFFICES ASSUME NEW r \in wire \union effective, NEW s \in wire \union effective,
                    r[1] = s[1], r[1] \in creations
             PROVE  r = s
  BY DEF CreatedAtMostOnce
<1>1. r \in Requests /\ s \in Requests /\ r[2] = 0 /\ s[2] = 0
  BY DEF RestTypeOK, RequestInv
<1> QED
  BY <1>1 DEF Requests

-----------------------------------------------------------------------------
LEMMA InitRest == RestInit => RestInv
<1> SUFFICES ASSUME RestInit PROVE RestInv
  OBVIOUS
<1> USE RestBoundsAssumption DEF RestInit, Idle
<1>1. RestTypeOK
  BY DEF RestTypeOK, Requests
<1>2. NonceBound /\ CallInv /\ OneCaller /\ RequestInv /\ ReplyInv /\ OutcomeInv
  BY DEF NonceBound, CallInv, OneCaller, RequestInv, ReplyInv, OutcomeInv, Busy
<1>3. CreationOutcomeIsTrue
  BY DEF CreationOutcomeIsTrue
<1> QED
  BY <1>1, <1>2, <1>3 DEF RestInv

\* A new call has a new number: nothing at the venue carries it.
LEMMA BeginKeeps ==
  ASSUME RestInv, NEW c \in Clients, Begin(c)
  PROVE  RestInv'
<1> USE RestBoundsAssumption DEF RestInv, venueVars
<1>1. /\ calls' = calls + 1 /\ calls \in 0 .. MaxCalls /\ calls < MaxCalls
      /\ creations \subseteq 1 .. calls
      /\ creations' = creations \/ creations' = creations \union {calls + 1}
      /\ UNCHANGED <<millis, nonces, highest, wire, effective, replies, outcome>>
  BY DEF Begin, RestTypeOK
<1> DEFINE x == [phase |-> "waiting", id |-> calls + 1, attempt |-> 0]
<1>2. /\ ~Busy(c) /\ call' \in [Clients -> Calls] /\ call'[c] = x
      /\ \A d \in Clients : d # c => call'[d] = call[d]
  <2>1. x \in Calls
    BY <1>1 DEF Calls
  <2> QED
    BY <2>1, CallStep DEF Begin, Busy
<1>3. /\ call'[c].phase = "waiting" /\ call'[c].id = calls + 1 /\ call'[c].attempt = 0
  BY <1>2
<1> HIDE DEF x
<1>4. RestTypeOK'
  <2>1. calls' \in 0 .. MaxCalls /\ creations' \subseteq 1 .. calls'
    <3>1. calls' \in 0 .. MaxCalls
      BY <1>1
    <3>2. ASSUME NEW i \in creations'
          PROVE  i \in 1 .. calls'
      <4>1. CASE i \in creations
        BY <1>1, <4>1
      <4>2. CASE i = calls + 1
        BY <1>1, <4>2
      <4> QED
        BY <1>1, <3>2, <4>1, <4>2
    <3> QED
      BY <3>1, <3>2
  <2> QED
    BY <1>1, <1>2, <2>1 DEF RestTypeOK, Calls
<1>5. CallInv'
  <2> SUFFICES ASSUME NEW d \in Clients
               PROVE  /\ Busy(d)' => call'[d].id \in 1 .. calls'
                      /\ ~Busy(d)' => call'[d].id = 0
                      /\ call'[d].phase = "backoff" =>
                           call'[d].attempt < Retries /\ call'[d].id \notin creations'
                      /\ call'[d].id \in creations' => call'[d].attempt = 0
    BY DEF CallInv
  <2>1. CASE d = c
    BY <1>1, <1>3, <2>1 DEF Busy
  <2>2. CASE d # c
    <3>1. call'[d] = call[d] /\ call[d].id \in 0 .. calls
      BY <1>1, <1>2, <2>2 DEF CallInv
    <3> QED
      BY <1>1, <3>1 DEF CallInv, Busy
  <2> QED
    BY <2>1, <2>2
<1>6. OneCaller'
  BY <1>1, <1>2, <1>3 DEF OneCaller, CallInv, Busy
<1>7. RequestInv'
  <2>1. \A r \in wire \union effective :
          /\ r[1] \in 1 .. calls + 1 /\ r[1] # calls + 1
          /\ r[1] \in creations' => r[1] \in creations
    BY <1>1 DEF RequestInv
  <2> QED
    BY <1>1, <1>2, <1>3, <2>1 DEF RequestInv
<1>8. ReplyInv'
  <2>1. \A d \in Clients : call[d].phase = "sent" =>
          call'[d].phase = "sent" /\ Request(d)' = Request(d)
    BY <1>2 DEF Request, Busy
  <2> QED
    BY <1>1, <2>1 DEF ReplyInv
<1>9. OutcomeInv' /\ NonceBound'
  BY <1>1, <1>2, <1>3 DEF OutcomeInv, NonceBound
<1>10. CreationOutcomeIsTrue'
  <2>1. \A i \in creations' : outcome[i] # "none" => i \in creations
    <3>1. calls + 1 \in 1 .. MaxCalls /\ ~(calls + 1 <= calls)
      BY <1>1
    <3>2. outcome[calls + 1] = "none"
      BY <3>1 DEF OutcomeInv
    <3> QED
      BY <1>1, <3>2
  <2> QED
    BY <1>1, <2>1 DEF CreationOutcomeIsTrue
<1> QED
  BY <1>4, <1>5, <1>6, <1>7, <1>8, <1>9, <1>10

\* A step of a call that has not ended: the call keeps its number, and the venue is left
\* alone.
LEMMA SignKeeps ==
  ASSUME RestInv, NEW c \in Clients, Sign(c)
  PROVE  RestInv'
<1> USE RestBoundsAssumption DEF RestInv, venueVars
<1> DEFINE k == KeyOf[c]
<1>1. k \in Keys
  BY KeyAssumption
<1>2. /\ nonces' = [nonces EXCEPT ![k] = NextNonce(k)]
      /\ highest' = [highest EXCEPT ![k] = Larger(@, NextNonce(k))]
      /\ UNCHANGED <<millis, calls, creations, wire, effective, replies, outcome>>
  BY DEF Sign
<1>3. NextNonce(k) \in Nat /\ NextNonce(k) > nonces[k]
  BY <1>1, NonceIsHigher
<1>4. /\ call[c].phase = "waiting" /\ call' \in [Clients -> Calls]
      /\ call'[c].phase = "signed" /\ call'[c].id = call[c].id
      /\ call'[c].attempt = call[c].attempt
      /\ \A d \in Clients : d # c => call'[d] = call[d]
  BY PhaseStep DEF Sign
<1>5. RestTypeOK'
  <2>1. nonces' \in [Keys -> Nat] /\ highest' \in [Keys -> Nat]
    BY <1>1, <1>2, <1>3 DEF RestTypeOK, Larger
  <2> QED
    BY <1>2, <1>4, <2>1 DEF RestTypeOK, Calls
<1>6. NonceBound'
  BY <1>1, <1>2, <1>3 DEF NonceBound, RestTypeOK, Larger
<1>7. CallInv'
  <2>1. \A d \in Clients : /\ Busy(d)' = Busy(d) /\ call'[d].id = call[d].id
                           /\ call'[d].attempt = call[d].attempt
                           /\ call'[d].phase = "backoff" => call[d].phase = "backoff"
    BY <1>4 DEF Busy
  <2> QED
    BY <1>2, <2>1 DEF CallInv
<1>8. OneCaller'
  <2>1. \A d \in Clients : Busy(d)' = Busy(d) /\ call'[d].id = call[d].id
    BY <1>4 DEF Busy
  <2> QED
    BY <2>1 DEF OneCaller
<1>9. RequestInv'
  BY <1>2, <1>4 DEF RequestInv
<1>10. ReplyInv'
  <2>1. \A d \in Clients : call[d].phase = "sent" =>
          call'[d].phase = "sent" /\ Request(d)' = Request(d)
    BY <1>4 DEF Request
  <2> QED
    BY <1>2, <2>1 DEF ReplyInv
<1>11. OutcomeInv' /\ CreationOutcomeIsTrue'
  BY <1>2, <1>4 DEF OutcomeInv, CreationOutcomeIsTrue
<1> QED
  BY <1>5, <1>6, <1>7, <1>8, <1>9, <1>10, <1>11

LEMMA SendKeeps ==
  ASSUME RestInv, NEW c \in Clients, Send(c)
  PROVE  RestInv'
<1> USE RestBoundsAssumption DEF RestInv, venueVars
<1>1. /\ wire' = wire \union {Request(c)}
      /\ UNCHANGED <<millis, nonces, highest, calls, creations, effective, replies, outcome>>
  BY DEF Send
<1>2. /\ call[c].phase = "signed" /\ call' \in [Clients -> Calls]
      /\ call'[c].phase = "sent" /\ call'[c].id = call[c].id
      /\ call'[c].attempt = call[c].attempt
      /\ \A d \in Clients : d # c => call'[d] = call[d]
  BY PhaseStep DEF Send
<1>3. /\ Request(c) \in Requests /\ call[c].id \in 1 .. calls
      /\ Request(c)[1] = call[c].id /\ Request(c)[2] = call[c].attempt
  BY <1>2, RequestType DEF Busy, CallInv
<1>4. /\ Request(c) \notin wire \union effective
      /\ \A p \in replies : p[1] # Request(c)
  <2>1. Request(c) \notin wire \union effective
    BY <1>2, <1>3 DEF RequestInv, RestTypeOK
  <2>2. ASSUME NEW p \in replies, p[1] = Request(c)
        PROVE  FALSE
    <3>1. PICK d \in Clients : call[d].phase = "sent" /\ p[1] = Request(d)
      BY DEF ReplyInv
    <3>2. Request(d)[1] = call[d].id
      BY DEF Request
    <3>3. d = c
      BY <1>2, <1>3, <2>2, <3>1, <3>2 DEF OneCaller, Busy
    <3> QED
      BY <1>2, <3>1, <3>3
  <2> QED
    BY <2>1, <2>2
<1>5. RestTypeOK'
  BY <1>1, <1>2, <1>3 DEF RestTypeOK, Calls
<1>6. NonceBound'
  BY <1>1 DEF NonceBound
<1>7. CallInv' /\ OneCaller'
  <2>1. \A d \in Clients : /\ Busy(d)' = Busy(d) /\ call'[d].id = call[d].id
                           /\ call'[d].attempt = call[d].attempt
                           /\ call'[d].phase = "backoff" => call[d].phase = "backoff"
    BY <1>2 DEF Busy
  <2> QED
    BY <1>1, <2>1 DEF CallInv, OneCaller
<1>8. RequestInv'
  <2>1. ASSUME NEW r \in (wire \union effective)'
        PROVE  /\ r[1] \in 1 .. calls'
               /\ r[1] \in creations' => r[2] = 0
               /\ \A d \in Clients : r[1] = call'[d].id =>
                    /\ r[2] <= call'[d].attempt
                    /\ call'[d].phase \in {"waiting", "signed"} => r[2] < call'[d].attempt
    <3>1. CASE r \in wire \union effective
      BY <1>1, <1>2, <3>1 DEF RequestInv
    <3>2. CASE r = Request(c)
      <4>1. \A d \in Clients : call[d].id = call[c].id => d = c
        BY <1>2, <1>3 DEF OneCaller, CallInv, Busy
      <4> QED
        BY <1>1, <1>2, <1>3, <3>2, <4>1 DEF CallInv, Calls
    <3> QED
      BY <1>1, <3>1, <3>2
  <2> QED
    BY <2>1 DEF RequestInv
<1>9. ReplyInv'
  <2>1. \A d \in Clients : call[d].phase = "sent" =>
          call'[d].phase = "sent" /\ Request(d)' = Request(d)
    BY <1>2 DEF Request
  <2> QED
    BY <1>1, <1>4, <2>1 DEF ReplyInv
<1>10. OutcomeInv' /\ CreationOutcomeIsTrue'
  <2>1. OutcomeInv'
    BY <1>1, <1>2 DEF OutcomeInv
  <2>2. creations \subseteq 1 .. MaxCalls
    BY DEF RestTypeOK
  <2>3. \A i \in creations : outcome[i] # "none" => Request(c)[1] # i
    BY <1>3, <2>2 DEF OutcomeInv
  <2> QED
    BY <1>1, <2>1, <2>3 DEF CreationOutcomeIsTrue
<1> QED
  BY <1>5, <1>6, <1>7, <1>8, <1>9, <1>10

\* A client that gives up its call, whether with an outcome or because it dies.
LEMMA IdleKeeps ==
  ASSUME RestInv, NEW c \in Clients, Busy(c), call' = [call EXCEPT ![c] = Idle],
         UNCHANGED <<millis, nonces, highest, calls, creations, wire, effective>>,
         replies' \subseteq replies, \A p \in replies' : p[1] # Request(c)
  PROVE  /\ call' \in [Clients -> Calls] /\ call'[c].id = 0
         /\ \A d \in Clients : d # c => call'[d] = call[d]
         /\ NonceBound' /\ CallInv' /\ OneCaller' /\ RequestInv' /\ ReplyInv'
<1> USE RestBoundsAssumption DEF RestInv
<1>1. /\ call' \in [Clients -> Calls] /\ call'[c] = Idle
      /\ \A d \in Clients : d # c => call'[d] = call[d]
  <2>1. Idle \in Calls
    BY DEF Idle, Calls
  <2> QED
    BY <2>1, CallStep
<1>2. call'[c].phase = "idle" /\ call'[c].id = 0 /\ call'[c].attempt = 0
  BY <1>1 DEF Idle
<1>3. calls \in Nat /\ creations \subseteq 1 .. calls
  BY DEF RestTypeOK
<1>4. NonceBound'
  BY DEF NonceBound
<1>5. CallInv'
  BY <1>1, <1>2, <1>3 DEF CallInv, Busy
<1>6. OneCaller'
  BY <1>1, <1>2 DEF OneCaller, Busy
<1>7. RequestInv'
  <2>1. \A r \in wire \union effective : r[1] \in 1 .. calls /\ r[1] # 0
    BY <1>3 DEF RequestInv
  <2> QED
    BY <1>1, <1>2, <2>1 DEF RequestInv
<1>8. ReplyInv'
  <2>1. ASSUME NEW p \in replies'
        PROVE  \E d \in Clients : call'[d].phase = "sent" /\ p[1] = Request(d)'
    <3>1. PICK d \in Clients : call[d].phase = "sent" /\ p[1] = Request(d)
      BY DEF ReplyInv
    <3>2. d # c
      BY <3>1
    <3> QED
      BY <1>1, <3>1, <3>2 DEF Request
  <2> QED
    BY <2>1 DEF ReplyInv
<1> QED
  BY <1>1, <1>2, <1>4, <1>5, <1>6, <1>7, <1>8

\* The end of a call with a true outcome.
LEMMA EndsKeep ==
  ASSUME RestInv, NEW c \in Clients, Busy(c),
         NEW result \in {"returned", "rejected", "unknown", "failed"}, Ends(c, result),
         UNCHANGED <<millis, nonces, highest, calls, creations, wire, effective>>,
         replies' \subseteq replies, \A p \in replies' : p[1] # Request(c),
         call[c].id \in creations =>
           /\ result = "rejected" => \A r \in wire \union effective : r[1] # call[c].id
           /\ result = "returned" => \E r \in effective : r[1] = call[c].id
  PROVE  RestInv'
<1> USE RestBoundsAssumption DEF RestInv
<1>1. /\ call' \in [Clients -> Calls] /\ call'[c].id = 0
      /\ \A d \in Clients : d # c => call'[d] = call[d]
      /\ NonceBound' /\ CallInv' /\ OneCaller' /\ RequestInv' /\ ReplyInv'
  BY IdleKeeps DEF Ends
<1>2. call[c].id \in 1 .. calls /\ call[c].id \in 1 .. MaxCalls /\ calls \in 0 .. MaxCalls
  BY DEF CallInv, RestTypeOK
<1>3. /\ outcome' \in [1 .. MaxCalls -> {"none", "returned", "rejected", "unknown", "failed"}]
      /\ outcome'[call[c].id] = result
      /\ \A i \in 1 .. MaxCalls : i # call[c].id => outcome'[i] = outcome[i]
  BY <1>2 DEF Ends, RestTypeOK
<1>4. RestTypeOK'
  <2>1. replies' \subseteq Requests \X ReplyKinds
    BY DEF RestTypeOK
  <2> QED
    BY <1>1, <1>3, <2>1 DEF RestTypeOK, Calls
<1>5. OutcomeInv'
  <2>1. \A d \in Clients : call[d].id = call[c].id => d = c
    BY <1>2 DEF OneCaller, CallInv
  <2>2. ASSUME NEW i \in 1 .. MaxCalls, outcome'[i] # "none"
        PROVE  i <= calls' /\ \A d \in Clients : call'[d].id # i
    <3>1. CASE i = call[c].id
      BY <1>1, <1>2, <2>1, <3>1
    <3>2. CASE i # call[c].id
      BY <1>1, <1>3, <2>2, <3>2 DEF OutcomeInv
    <3> QED
      BY <3>1, <3>2
  <2> QED
    BY <2>2 DEF OutcomeInv
<1>6. CreationOutcomeIsTrue'
  <2>1. creations \subseteq 1 .. MaxCalls
    BY DEF RestTypeOK
  <2>2. ASSUME NEW i \in creations
        PROVE  /\ outcome'[i] = "rejected" => \A r \in wire \union effective : r[1] # i
               /\ outcome'[i] = "returned" => \E r \in effective : r[1] = i
    <3>1. CASE i = call[c].id
      BY <1>3, <3>1
    <3>2. CASE i # call[c].id
      BY <1>3, <2>1, <3>2 DEF CreationOutcomeIsTrue
    <3> QED
      BY <3>1, <3>2
  <2> QED
    BY <2>2 DEF CreationOutcomeIsTrue
<1> QED
  BY <1>1, <1>4, <1>5, <1>6

\* Another attempt after a delay: not of a creation, and not beyond the last.
LEMMA BackoffKeeps ==
  ASSUME RestInv, NEW c \in Clients, Busy(c), call' = [call EXCEPT ![c].phase = "backoff"],
         call[c].id \notin creations, call[c].attempt < Retries,
         UNCHANGED <<millis, nonces, highest, calls, creations, wire, effective, outcome>>,
         replies' \subseteq replies, \A p \in replies' : p[1] # Request(c)
  PROVE  RestInv'
<1> USE RestBoundsAssumption DEF RestInv
<1>1. /\ call' \in [Clients -> Calls]
      /\ call'[c].phase = "backoff" /\ call'[c].id = call[c].id
      /\ call'[c].attempt = call[c].attempt
      /\ \A d \in Clients : d # c => call'[d] = call[d]
  BY PhaseStep
<1>2. RestTypeOK'
  <2>1. replies' \subseteq Requests \X ReplyKinds
    BY DEF RestTypeOK
  <2> QED
    BY <1>1, <2>1 DEF RestTypeOK, Calls
<1>3. NonceBound'
  BY DEF NonceBound
<1>4. CallInv' /\ OneCaller'
  BY <1>1 DEF CallInv, OneCaller, Busy
<1>5. RequestInv'
  BY <1>1 DEF RequestInv
<1>6. ReplyInv'
  <2>1. ASSUME NEW p \in replies'
        PROVE  \E d \in Clients : call'[d].phase = "sent" /\ p[1] = Request(d)'
    <3>1. PICK d \in Clients : call[d].phase = "sent" /\ p[1] = Request(d)
      BY DEF ReplyInv
    <3>2. d # c
      BY <3>1
    <3> QED
      BY <1>1, <3>1, <3>2 DEF Request
  <2> QED
    BY <2>1 DEF ReplyInv
<1>7. OutcomeInv' /\ CreationOutcomeIsTrue'
  BY <1>1 DEF OutcomeInv, CreationOutcomeIsTrue
<1> QED
  BY <1>2, <1>3, <1>4, <1>5, <1>6, <1>7

\* Silence, an overloaded venue: unknown, failed, or another attempt.
LEMMA NoAnswerKeeps ==
  ASSUME RestInv, NEW c \in Clients, call[c].phase = "sent", NoAnswer(c),
         UNCHANGED <<millis, nonces, highest, calls, creations, wire, effective>>,
         replies' \subseteq replies, \A p \in replies' : p[1] # Request(c)
  PROVE  RestInv'
<1>1. Busy(c)
  BY DEF Busy
<1>2. CASE Ends(c, "unknown") \/ Ends(c, "failed")
  BY <1>1, <1>2, EndsKeep
<1>3. CASE /\ call[c].id \notin creations /\ ~LastAttempt(c)
           /\ call' = [call EXCEPT ![c].phase = "backoff"] /\ UNCHANGED outcome
  <2>1. call[c].attempt < Retries
    BY <1>3, RestBoundsAssumption DEF LastAttempt, Attempts, RestInv, RestTypeOK
  <2> QED
    BY <1>1, <1>3, <2>1, BackoffKeeps
<1> QED
  BY <1>2, <1>3 DEF NoAnswer

LEMMA TimeOutKeeps ==
  ASSUME RestInv, NEW c \in Clients, TimeOut(c)
  PROVE  RestInv'
BY NoAnswerKeeps DEF TimeOut

LEMMA ReceiveKeeps ==
  ASSUME RestInv, NEW c \in Clients, Receive(c)
  PROVE  RestInv'
<1>1. PICK kind \in ReplyKinds :
        /\ <<Request(c), kind>> \in replies
        /\ replies' = replies \ {<<Request(c), kind>>}
        /\ CASE kind = "ok"      -> Ends(c, "returned")
             [] kind = "refused" -> Ends(c, "rejected")
             [] kind = "busy"    -> NoAnswer(c)
             [] kind = "garbled" ->
                  Ends(c, IF call[c].id \in creations THEN "unknown" ELSE "failed")
  BY DEF Receive
<1>2. /\ call[c].phase = "sent" /\ Busy(c)
      /\ UNCHANGED <<millis, nonces, highest, calls, creations, wire, effective>>
  BY DEF Receive, Busy
<1>3. /\ Request(c) \notin wire
      /\ kind = "ok" => Request(c) \in effective
      /\ kind = "refused" => Request(c) \notin effective
  BY <1>1 DEF RestInv, ReplyInv
<1>4. replies' \subseteq replies /\ \A p \in replies' : p[1] # Request(c)
  BY <1>1 DEF RestInv, ReplyInv
<1>5. Request(c)[1] = call[c].id /\ Request(c)[2] = call[c].attempt /\ Request(c) \in Requests
  BY <1>2, RequestType DEF RestInv
<1>6. CASE kind = "ok"
  BY <1>1, <1>2, <1>3, <1>4, <1>5, <1>6, EndsKeep
<1>7. CASE kind = "refused"
  <2>1. ASSUME call[c].id \in creations, NEW r \in wire \union effective, r[1] = call[c].id
        PROVE  FALSE
    <3>1. r \in Requests /\ r[2] = 0 /\ call[c].attempt = 0
      BY <2>1 DEF RestInv, RestTypeOK, RequestInv, CallInv
    <3>2. r = Request(c)
      BY <1>5, <2>1, <3>1 DEF Requests
    <3> QED
      BY <1>3, <1>7, <3>2
  <2>2. Ends(c, "rejected")
    BY <1>1, <1>7
  <2> QED
    BY <1>2, <1>4, <2>1, <2>2, EndsKeep
<1>8. CASE kind = "busy"
  BY <1>1, <1>2, <1>4, <1>8, NoAnswerKeeps
<1>9. CASE kind = "garbled"
  <2>1. Ends(c, "unknown") \/ Ends(c, "failed")
    BY <1>1, <1>9
  <2> QED
    BY <1>2, <1>4, <2>1, EndsKeep
<1> QED
  BY <1>6, <1>7, <1>8, <1>9 DEF ReplyKinds

LEMMA RetryKeeps ==
  ASSUME RestInv, NEW c \in Clients, Retry(c)
  PROVE  RestInv'
<1> USE RestBoundsAssumption DEF RestInv, venueVars
<1>1. /\ UNCHANGED <<millis, nonces, highest, calls, creations, wire, effective, replies, outcome>>
      /\ call[c].phase = "backoff" /\ call[c] \in Calls
  BY DEF Retry, RestTypeOK, Calls
<1> DEFINE x == [phase |-> "waiting", id |-> call[c].id, attempt |-> call[c].attempt + 1]
<1>2. x \in Calls
  BY <1>1 DEF CallInv, Calls
<1>3. call' = [call EXCEPT ![c] = x]
  BY <1>1 DEF Retry, RestTypeOK, Calls
<1>4. /\ call' \in [Clients -> Calls] /\ call'[c] = x
      /\ \A d \in Clients : d # c => call'[d] = call[d]
  <2> HIDE DEF x
  <2> QED
    BY <1>2, <1>3, CallStep
<1>5. /\ call'[c].phase = "waiting" /\ call'[c].id = call[c].id
      /\ call'[c].attempt = call[c].attempt + 1
  BY <1>4
<1> HIDE DEF x
<1>6. RestTypeOK' /\ NonceBound'
  BY <1>1, <1>4 DEF RestTypeOK, NonceBound, Calls
<1>7. CallInv' /\ OneCaller'
  BY <1>1, <1>4, <1>5 DEF CallInv, OneCaller, Busy
<1>8. RequestInv'
  <2>1. \A r \in wire \union effective : r[2] \in Nat
    BY DEF RestTypeOK, Requests
  <2>2. call[c].attempt \in Nat
    BY <1>1 DEF Calls
  <2> QED
    BY <1>1, <1>4, <1>5, <2>1, <2>2 DEF RequestInv
<1>9. ReplyInv'
  <2>1. \A d \in Clients : call[d].phase = "sent" =>
          call'[d].phase = "sent" /\ Request(d)' = Request(d)
    BY <1>1, <1>4 DEF Request
  <2> QED
    BY <1>1, <2>1 DEF ReplyInv
<1>10. OutcomeInv' /\ CreationOutcomeIsTrue'
  BY <1>1, <1>4, <1>5 DEF OutcomeInv, CreationOutcomeIsTrue
<1> QED
  BY <1>6, <1>7, <1>8, <1>9, <1>10

LEMMA DieKeeps ==
  ASSUME RestInv, NEW c \in Clients, Die(c)
  PROVE  RestInv'
<1>1. /\ Busy(c) /\ call' = [call EXCEPT ![c] = Idle]
      /\ UNCHANGED <<millis, nonces, highest, calls, creations, wire, effective, outcome>>
      /\ replies' \subseteq replies /\ \A p \in replies' : p[1] # Request(c)
  BY DEF Die, Busy
<1>2. /\ call' \in [Clients -> Calls] /\ call'[c].id = 0
      /\ \A d \in Clients : d # c => call'[d] = call[d]
      /\ NonceBound' /\ CallInv' /\ OneCaller' /\ RequestInv' /\ ReplyInv'
  BY <1>1, IdleKeeps
<1>3. RestTypeOK'
  <2>1. replies' \subseteq Requests \X ReplyKinds
    BY <1>1 DEF RestInv, RestTypeOK
  <2> QED
    BY <1>1, <1>2, <2>1 DEF RestInv, RestTypeOK, Calls
<1>4. OutcomeInv' /\ CreationOutcomeIsTrue'
  BY <1>1, <1>2 DEF RestInv, OutcomeInv, CreationOutcomeIsTrue
<1> QED
  BY <1>2, <1>3, <1>4 DEF RestInv

\* A request arrives once: what its reply says stays true.
LEMMA ArriveKeeps ==
  ASSUME RestInv, Arrive
  PROVE  RestInv'
<1> USE DEF RestInv
<1>1. PICK r \in wire, kind \in ReplyKinds, effect \in BOOLEAN :
        /\ kind = "ok" => effect
        /\ kind = "refused" => ~effect
        /\ wire' = wire \ {r}
        /\ effective' = IF effect THEN effective \union {r} ELSE effective
        /\ replies' = IF \E c \in Clients : call[c].phase = "sent" /\ Request(c) = r
                      THEN replies \union {<<r, kind>>} ELSE replies
        /\ UNCHANGED <<millis, nonces, highest, call, calls, creations, outcome>>
  BY DEF Arrive
<1>2. r \in Requests /\ r \notin effective /\ \A p \in replies : p[1] # r
  BY DEF RestTypeOK, ReplyInv
<1>3. wire' \union effective' \subseteq wire \union effective /\ effective \subseteq effective'
  BY <1>1
<1>4. RestTypeOK'
  BY <1>1, <1>2 DEF RestTypeOK
<1>5. NonceBound' /\ CallInv' /\ OneCaller'
  BY <1>1 DEF NonceBound, CallInv, OneCaller, Busy
<1>6. RequestInv'
  BY <1>1, <1>3 DEF RequestInv
<1>7. ReplyInv'
  <2>1. wire' \intersect effective' = {}
    BY <1>1 DEF ReplyInv
  <2>2. ASSUME NEW p \in replies'
        PROVE  /\ \E c \in Clients : call'[c].phase = "sent" /\ p[1] = Request(c)'
               /\ p[1] \notin wire'
               /\ p[2] = "ok" => p[1] \in effective'
               /\ p[2] = "refused" => p[1] \notin effective'
    <3>1. CASE p \in replies
      BY <1>1, <1>2, <3>1 DEF ReplyInv, Request
    <3>2. CASE p \notin replies
      <4>1. p = <<r, kind>> /\ \E c \in Clients : call[c].phase = "sent" /\ Request(c) = r
        BY <1>1, <3>2
      <4> QED
        BY <1>1, <1>2, <4>1 DEF Request
    <3> QED
      BY <3>1, <3>2
  <2>3. \A p, q \in replies' : p[1] = q[1] => p = q
    <3>1. \A p \in replies' : p \in replies \/ p = <<r, kind>>
      BY <1>1
    <3> QED
      BY <1>2, <3>1 DEF ReplyInv
  <2> QED
    BY <2>1, <2>2, <2>3 DEF ReplyInv
<1>8. OutcomeInv' /\ CreationOutcomeIsTrue'
  BY <1>1, <1>3 DEF OutcomeInv, CreationOutcomeIsTrue
<1> QED
  BY <1>4, <1>5, <1>6, <1>7, <1>8

LEMMA HostKeeps ==
  ASSUME RestInv, Lose \/ SetClock \/ UNCHANGED restVars
  PROVE  RestInv'
<1> USE DEF RestInv, venueVars
<1>1. /\ wire' \subseteq wire /\ millis' \in 0 .. MaxMillis
      /\ UNCHANGED <<nonces, highest, call, calls, creations, effective, replies, outcome>>
  BY DEF Lose, SetClock, restVars, RestTypeOK
<1>2. RestTypeOK' /\ NonceBound' /\ CallInv' /\ OneCaller'
  BY <1>1 DEF RestTypeOK, NonceBound, CallInv, OneCaller, Busy
<1>3. RequestInv' /\ OutcomeInv' /\ CreationOutcomeIsTrue'
  BY <1>1 DEF RequestInv, OutcomeInv, CreationOutcomeIsTrue
<1>4. ReplyInv'
  BY <1>1 DEF ReplyInv, Request
<1> QED
  BY <1>2, <1>3, <1>4

LEMMA NextKeepsRest == RestInv /\ [RestNext]_restVars => RestInv'
BY BeginKeeps, SignKeeps, SendKeeps, TimeOutKeeps, ReceiveKeeps, RetryKeeps, DieKeeps,
   ArriveKeeps, HostKeeps DEF RestNext, ClientStep

-----------------------------------------------------------------------------
\* The invariant that the theorems rest on.
THEOREM RestSafe == RestSpec => []RestInv
BY InitRest, NextKeepsRest, PTL DEF RestSpec

\* Whatever becomes of the answers of a creation, one request of it reaches the venue at
\* most: CreatedAtMostOnce (gemini.py:60).
THEOREM CreationsAreSingle == RestSpec => []CreatedAtMostOnce
<1>1. RestInv => CreatedAtMostOnce
  BY OneRequestPerCreation DEF RestInv
<1> QED
  BY RestSafe, <1>1, PTL

\* What Gemini.request tells of a creation stays true: CreationOutcomeIsTrue (gemini.py:100).
THEOREM OutcomesAreTrue == RestSpec => []CreationOutcomeIsTrue
<1>1. RestInv => CreationOutcomeIsTrue
  BY DEF RestInv
<1> QED
  BY RestSafe, <1>1, PTL

\* No request is signed with a nonce that is not above all before it: NoncesIncrease
\* (db.py:55).
LEMMA SignedHigher ==
  ASSUME RestInv, RestNext, NEW c \in Clients, call[c].phase = "waiting", call'[c].phase = "signed"
  PROVE  nonces'[KeyOf[c]] > highest[KeyOf[c]]
<1> USE DEF RestInv
<1>1. call \in [Clients -> Calls]
  BY DEF RestTypeOK, Calls
<1>2. ~(Begin(c) \/ Send(c) \/ TimeOut(c) \/ Receive(c) \/ Retry(c) \/ Die(c))
  BY <1>1 DEF Begin, Send, TimeOut, Receive, Retry, Die, Idle
<1>3. ASSUME NEW d \in Clients, d # c, Begin(d) \/ ClientStep(d) \/ Die(d)
      PROVE  call'[c] = call[c]
  <2>1. CASE Begin(d) \/ Sign(d) \/ Send(d) \/ Retry(d) \/ Die(d)
    BY <1>1, <1>3, <2>1 DEF Begin, Sign, Send, Retry, Die
  <2>2. NoAnswer(d) => call'[c] = call[c]
    BY <1>1, <1>3 DEF NoAnswer, Ends
  <2>3. CASE TimeOut(d)
    BY <2>2, <2>3 DEF TimeOut
  <2>4. CASE Receive(d)
    <3>1. NoAnswer(d) \/ \E result : Ends(d, result)
      BY <2>4 DEF Receive, ReplyKinds
    <3> QED
      BY <1>1, <1>3, <2>2, <3>1 DEF Ends
  <2> QED
    BY <1>3, <2>1, <2>3, <2>4 DEF ClientStep
<1>4. ~(Arrive \/ Lose \/ SetClock)
  BY DEF Arrive, Lose, SetClock
<1>5. Sign(c)
  BY <1>2, <1>3, <1>4 DEF RestNext, ClientStep
<1>6. KeyOf[c] \in Keys
  BY KeyAssumption
<1>7. nonces'[KeyOf[c]] = NextNonce(KeyOf[c])
  BY <1>5, <1>6 DEF Sign, RestTypeOK
<1> QED
  BY <1>6, <1>7, NonceIsHigher DEF NonceBound, RestTypeOK

\* Whichever clients share a key and whatever the clock does, the nonce that a request is
\* signed with is higher than all before it: NoncesIncrease (db.py:55).
THEOREM NoncesAreHigher == RestSpec => NoncesIncrease
<1>1. RestInv /\ [RestNext]_restVars =>
        [\A c \in Clients : call[c].phase = "waiting" /\ call'[c].phase = "signed"
           => nonces'[KeyOf[c]] > highest[KeyOf[c]]]_restVars
  BY SignedHigher
<1> QED
  BY RestSafe, <1>1, PTL DEF RestSpec, NoncesIncrease

\* A creation is made once at most and what is said of it is true: CreationsAreSafe.
THEOREM CreationsStaySafe == RestSpec => []CreationsAreSafe
BY CreationsAreSingle, OutcomesAreTrue, PTL DEF CreationsAreSafe

-----------------------------------------------------------------------------
(* The evidence gate                                                       *)
(*                                                                         *)
(* For any versions, fees and number of changes.  What was approved and    *)
(* what is labelled is fixed when a process starts; PaperInv and LiveInv   *)
(* carry it to the point where a fill or an entry can be made.             *)

LiveRuns == live.phase \in {"running", "refused"}

\* The label under a paper process is the one its start has written.
PaperInv ==
  /\ paper.phase \in {"bound", "running"} =>
       label.bound /\ paper.code = label.code /\ paper.config = label.config
  /\ paper.phase = "bound" => swapped \/ disk.model = label.model
  /\ paper.phase = "running" => swapped \/ paper.model = label.model

\* What a live process was started with has been approved together.
ApprovedStart(code, config, model) ==
  \E a \in approved : a.code = code /\ a.config = config /\ (swapped \/ a.model = model)

ApprovedFee(config, fee) == \E a \in approved : a.config = config /\ fee <= a.fee

LiveInv ==
  /\ approval.fresh => approval \in approved
  /\ live.phase \in {"checked", "authorized"} => ApprovedStart(live.code, live.config, disk.model)
  /\ LiveRuns => ApprovedStart(live.code, live.config, live.model)
  /\ live.phase \in {"authorized", "running"} => ApprovedFee(live.config, live.fee)

\* The types that the steps need.
Running == [phase : {"running", "refused"}, code : Codes, config : Configs, model : Models,
            fee : Rates]
ShapeInv ==
  /\ disk \in Installations /\ swapped \in BOOLEAN
  /\ LiveRuns => live \in Running
  /\ live.phase \in {"checked", "authorized"} => live.code \in Codes /\ live.config \in Configs
  /\ live.phase = "authorized" => live.fee \in Rates

GateInv == ShapeInv /\ FillsMatchLabel /\ PaperInv /\ LiveInv

-----------------------------------------------------------------------------
LEMMA InitGate == GateInit => GateInv
<1> SUFFICES ASSUME GateInit PROVE GateInv
  OBVIOUS
<1>1. filled = {} /\ paper.phase = "down" /\ live.phase = "down" /\ ~approval.fresh
  BY DEF GateInit, Down, NoApproval
<1>2. disk \in Installations /\ swapped \in BOOLEAN
  BY InstallationAssumption DEF GateInit
<1> QED
  BY <1>1, <1>2 DEF GateInv, ShapeInv, FillsMatchLabel, PaperInv, LiveInv, LiveRuns

\* An installation under a process that has not yet loaded its model is recorded in swapped;
\* nothing else of a process changes.
LEMMA ChangeKeeps ==
  ASSUME GateInv, NEW next \in Installations, Change(next),
         UNCHANGED <<label, filled, paper, approval, approved, live>>
  PROVE  GateInv'
<1>1. /\ disk' = next
      /\ swapped' = (swapped \/ (Starting /\ next.model # disk.model))
  BY DEF Change
<1>2. swapped' \in BOOLEAN /\ (swapped => swapped')
  BY <1>1 DEF GateInv, ShapeInv
<1>3. Starting => swapped' \/ disk'.model = disk.model
  BY <1>1 DEF GateInv, ShapeInv
<1>4. ShapeInv'
  BY <1>1, <1>2 DEF GateInv, ShapeInv, LiveRuns
<1>5. FillsMatchLabel'
  BY <1>2 DEF GateInv, FillsMatchLabel
<1>6. PaperInv'
  BY <1>2, <1>3 DEF GateInv, PaperInv, Starting
<1>7. LiveInv'
  <2>1. live.phase \in {"checked", "authorized"} =>
          ApprovedStart(live.code, live.config, disk.model)'
    BY <1>2, <1>3 DEF GateInv, LiveInv, ApprovedStart, Starting
  <2> QED
    BY <1>2, <2>1 DEF GateInv, LiveInv, LiveRuns, ApprovedStart, ApprovedFee
<1> QED
  BY <1>4, <1>5, <1>6, <1>7 DEF GateInv

LEMMA OperatorsKeep ==
  ASSUME GateInv, Install \/ Validate \/ NewDatabase
  PROVE  GateInv'
<1>1. disk \in Installations
  BY DEF GateInv, ShapeInv
<1>2. CASE Install
  <2>1. \E next \in Installations : Change(next)
    BY <1>1, <1>2 DEF Install, Installations
  <2> QED
    BY <1>2, <2>1, ChangeKeeps DEF Install, database
<1>3. CASE Validate
  <2>1. \E next \in Installations : Change(next)
    BY <1>1, <1>3 DEF Validate, Installations
  <2> QED
    BY <1>3, <2>1, ChangeKeeps DEF Validate, database
<1>4. CASE NewDatabase
  BY <1>4 DEF NewDatabase, GateInv, ShapeInv, FillsMatchLabel, PaperInv, LiveInv, LiveRuns, Down,
     ApprovedStart, ApprovedFee
<1> QED
  BY <1>2, <1>3, <1>4

\* Steps that leave the live process and the approvals alone.
LEMMA PaperKeepsLive ==
  ASSUME GateInv, UNCHANGED <<disk, swapped, approval, approved, live>>
  PROVE  ShapeInv' /\ LiveInv'
BY DEF GateInv, ShapeInv, LiveInv, LiveRuns, ApprovedStart, ApprovedFee

LEMMA PaperKeeps ==
  ASSUME GateInv,
         \/ StartPaper \/ LoadPaper \/ PaperOrder \/ PaperFill \/ PaperFees \/ PaperKill
         \/ StopPaper
  PROVE  GateInv'
<1>1. ShapeInv' /\ LiveInv'
  BY PaperKeepsLive DEF StartPaper, LoadPaper, PaperOrder, PaperFill, PaperFees, PaperKill,
     StopPaper
<1>2. FillsMatchLabel' /\ PaperInv'
  <2> USE DEF GateInv, FillsMatchLabel, PaperInv
  <2>1. CASE StartPaper
    BY <2>1 DEF StartPaper, MayBind, Label
  <2>2. CASE LoadPaper
    BY <2>2 DEF LoadPaper
  <2>3. CASE PaperFill
    BY <2>3 DEF PaperFill
  <2>4. CASE PaperOrder \/ PaperFees \/ PaperKill
    BY <2>4 DEF PaperOrder, PaperFees, PaperKill
  <2>5. CASE StopPaper
    BY <2>5 DEF StopPaper, Down
  <2> QED
    BY <2>1, <2>2, <2>3, <2>4, <2>5
<1> QED
  BY <1>1, <1>2 DEF GateInv

LEMMA ApprovalKeeps ==
  ASSUME GateInv, Approve \/ Expire
  PROVE  GateInv'
<1>1. /\ approved \subseteq approved' /\ (approval'.fresh => approval' \in approved')
      /\ UNCHANGED <<disk, label, filled, paper, live, swapped>>
  BY DEF Approve, Expire, NoApproval, database
<1>2. ShapeInv' /\ FillsMatchLabel' /\ PaperInv'
  BY <1>1 DEF GateInv, ShapeInv, FillsMatchLabel, PaperInv, LiveRuns
<1>3. LiveInv'
  BY <1>1 DEF GateInv, LiveInv, LiveRuns, ApprovedStart, ApprovedFee
<1> QED
  BY <1>2, <1>3 DEF GateInv

LEMMA LiveKeeps ==
  ASSUME GateInv, StartLive \/ AuthorizeFees \/ LoadLive \/ RefreshLive \/ StopLive
  PROVE  GateInv'
<1> USE DEF GateInv
<1>1. UNCHANGED <<disk, label, filled, paper, approval, approved, swapped>>
  BY DEF StartLive, AuthorizeFees, LoadLive, RefreshLive, StopLive, database
<1>2. FillsMatchLabel' /\ PaperInv'
  BY <1>1 DEF FillsMatchLabel, PaperInv
<1>3. CASE StartLive
  <2>1. ApprovedStart(disk.code, disk.config, disk.model)
    BY <1>3 DEF StartLive, Authorized, LiveInv, ApprovedStart
  <2> QED
    BY <1>1, <1>2, <1>3, <2>1 DEF StartLive, ShapeInv, LiveInv, LiveRuns, ApprovedStart,
       ApprovedFee, Installations
<1>4. CASE AuthorizeFees
  <2>1. PICK fee \in Rates :
          live' = IF Authorized(live.config) /\ fee <= approval.fee
                  THEN [phase |-> "authorized", code |-> live.code, config |-> live.config,
                        fee |-> fee]
                  ELSE Down
    BY <1>4 DEF AuthorizeFees
  <2>2. Authorized(live.config) /\ fee <= approval.fee => ApprovedFee(live.config, fee)
    BY DEF Authorized, LiveInv, ApprovedFee
  <2> QED
    BY <1>1, <1>2, <1>4, <2>1, <2>2 DEF AuthorizeFees, ShapeInv, LiveInv, LiveRuns,
       ApprovedStart, ApprovedFee, Down
<1>5. CASE LoadLive
  BY <1>1, <1>2, <1>5 DEF LoadLive, ShapeInv, LiveInv, LiveRuns, ApprovedStart, ApprovedFee,
     Running, Installations
<1>6. CASE RefreshLive
  <2>1. PICK fee \in Rates :
          live' = IF Authorized(live.config) /\ fee <= approval.fee
                  THEN [live EXCEPT !.phase = "running", !.fee = fee]
                  ELSE [live EXCEPT !.phase = "refused"]
    BY <1>6 DEF RefreshLive
  <2>2. Authorized(live.config) /\ fee <= approval.fee => ApprovedFee(live.config, fee)
    BY DEF Authorized, LiveInv, ApprovedFee
  <2>3. LiveRuns /\ live \in Running
    BY <1>6 DEF RefreshLive, ShapeInv, LiveRuns
  <2>4. /\ live' \in Running /\ live'.code = live.code /\ live'.config = live.config
        /\ live'.model = live.model
        /\ live'.phase = "running" => ApprovedFee(live.config, live'.fee)
    BY <2>1, <2>2, <2>3 DEF Running
  <2>5. live'.phase \in {"running", "refused"}
    BY <2>4 DEF Running
  <2> QED
    BY <1>1, <1>2, <2>3, <2>4, <2>5 DEF ShapeInv, LiveInv, LiveRuns, ApprovedStart, ApprovedFee
<1>7. CASE StopLive
  BY <1>1, <1>2, <1>7 DEF StopLive, ShapeInv, LiveInv, LiveRuns, Down
<1> QED
  BY <1>3, <1>4, <1>5, <1>6, <1>7

LEMMA StutterKeepsGate ==
  ASSUME GateInv, UNCHANGED gateVars
  PROVE  GateInv'
BY DEF gateVars, GateInv, ShapeInv, FillsMatchLabel, PaperInv, LiveInv, LiveRuns, ApprovedStart,
   ApprovedFee

LEMMA NextKeepsGate == GateInv /\ [GateNext]_gateVars => GateInv'
BY OperatorsKeep, PaperKeeps, ApprovalKeeps, LiveKeeps, StutterKeepsGate DEF GateNext

-----------------------------------------------------------------------------
\* What GateTypeOK says, part by part.
DiskTypes ==
  /\ disk \in Installations /\ changes \in 0 .. MaxChanges /\ swapped \in BOOLEAN
  /\ research \in {NoReport} \union
       [passed : BOOLEAN, config : Configs, model : Models, fee : Rates]
DatabaseTypes ==
  /\ label \in {NoLabel} \union [bound : {TRUE}, code : Codes, config : Configs, model : Models]
  /\ filled \subseteq Installations
  /\ resting \in BOOLEAN /\ incident \in BOOLEAN /\ rate \in {0} \union Rates
PaperTypes ==
  paper \in {Down} \union [phase : {"bound"}, code : Codes, config : Configs]
              \union [phase : {"running"}, code : Codes, config : Configs, model : Models]
ApprovalTypes == approval \in {NoApproval} \union Approvals /\ approved \subseteq Approvals
LiveTypes ==
  live \in {Down} \union [phase : {"checked"}, code : Codes, config : Configs]
             \union [phase : {"authorized"}, code : Codes, config : Configs, fee : Rates]
             \union Running

LEMMA GateTypeParts ==
  GateTypeOK <=> DiskTypes /\ DatabaseTypes /\ PaperTypes /\ ApprovalTypes /\ LiveTypes
BY DEF GateTypeOK, DiskTypes, DatabaseTypes, PaperTypes, ApprovalTypes, LiveTypes, Running

\* The same of the next state.
LEMMA NextGateTypeParts ==
  ASSUME DiskTypes', DatabaseTypes', PaperTypes', ApprovalTypes', LiveTypes'
  PROVE  GateTypeOK'
BY DEF GateTypeOK, DiskTypes, DatabaseTypes, PaperTypes, ApprovalTypes, LiveTypes, Running

\* The installation that is shipped, and no process, label, report or approval.
LEMMA InitGateTypes == GateInit => GateTypeOK
<1> SUFFICES ASSUME GateInit PROVE GateTypeOK
  OBVIOUS
<1>1. 0 \in 0 .. MaxChanges /\ Shipped \in Installations
  BY InstallationAssumption, RateSetAssumption
<1>2. DiskTypes /\ DatabaseTypes /\ PaperTypes /\ ApprovalTypes /\ LiveTypes
  BY <1>1 DEF GateInit, DiskTypes, DatabaseTypes, PaperTypes, ApprovalTypes, LiveTypes
<1> QED
  BY <1>2, GateTypeParts

\* An installation is counted.
LEMMA ChangeTyped ==
  ASSUME DiskTypes, NEW next \in Installations, Change(next)
  PROVE  disk' \in Installations /\ changes' \in 0 .. MaxChanges /\ swapped' \in BOOLEAN
<1>1. changes' \in 0 .. MaxChanges
  <2>1. MaxChanges \in Nat /\ changes \in 0 .. MaxChanges /\ changes < MaxChanges
        /\ changes' = changes + 1
    BY RateSetAssumption DEF DiskTypes, Change
  <2> QED
    BY <2>1
<1> QED
  BY <1>1 DEF DiskTypes, Change

\* What the operators do to the disk, the report and the database.
LEMMA OperatorsAreTyped ==
  ASSUME GateTypeOK, Install \/ Validate \/ NewDatabase
  PROVE  GateTypeOK'
<1>1. DiskTypes /\ DatabaseTypes /\ PaperTypes /\ ApprovalTypes /\ LiveTypes
  BY GateTypeParts
<1>2. UNCHANGED <<paper, approval, approved, live>>
  BY DEF Install, Validate, NewDatabase
<1>3. PaperTypes' /\ ApprovalTypes' /\ LiveTypes'
  BY <1>1, <1>2 DEF PaperTypes, ApprovalTypes, LiveTypes
<1>4. CASE Install
  <2>1. PICK next \in Installations : Change(next)
    BY <1>1, <1>4 DEF Install, DiskTypes, Installations
  <2>2. disk' \in Installations /\ changes' \in 0 .. MaxChanges /\ swapped' \in BOOLEAN
    BY <1>1, <2>1, ChangeTyped
  <2>3. DiskTypes' /\ DatabaseTypes'
    BY <1>1, <1>4, <2>2 DEF Install, DiskTypes, DatabaseTypes, database
  <2> QED
    BY <1>3, <2>3, NextGateTypeParts
<1>5. CASE Validate
  <2>1. PICK m \in Models, fee \in Rates, passed \in BOOLEAN :
          /\ Change([disk EXCEPT !.model = m])
          /\ research' = [passed |-> passed, config |-> disk.config, model |-> m, fee |-> fee]
    BY <1>5 DEF Validate
  <2>2. [disk EXCEPT !.model = m] \in Installations
    BY <1>1 DEF DiskTypes, Installations
  <2>3. disk' \in Installations /\ changes' \in 0 .. MaxChanges /\ swapped' \in BOOLEAN
    BY <1>1, <2>1, <2>2, ChangeTyped
  <2>4. research' \in [passed : BOOLEAN, config : Configs, model : Models, fee : Rates]
    BY <1>1, <2>1 DEF DiskTypes, Installations
  <2>5. DiskTypes' /\ DatabaseTypes'
    BY <1>1, <1>5, <2>3, <2>4 DEF Validate, DiskTypes, DatabaseTypes, database
  <2> QED
    BY <1>3, <2>5, NextGateTypeParts
<1>6. CASE NewDatabase
  <2>1. DiskTypes' /\ DatabaseTypes'
    BY <1>1, <1>6 DEF NewDatabase, DiskTypes, DatabaseTypes
  <2> QED
    BY <1>3, <2>1, NextGateTypeParts
<1> QED
  BY <1>4, <1>5, <1>6

\* What the paper process does to its database.
LEMMA PaperIsTyped ==
  ASSUME GateTypeOK,
         \/ StartPaper \/ LoadPaper \/ PaperOrder \/ PaperFill \/ PaperFees \/ PaperKill
         \/ StopPaper
  PROVE  GateTypeOK'
<1>1. DiskTypes /\ DatabaseTypes /\ PaperTypes /\ ApprovalTypes /\ LiveTypes
  BY GateTypeParts
<1>2. UNCHANGED <<disk, changes, swapped, research, approval, approved, live>>
  BY DEF StartPaper, LoadPaper, PaperOrder, PaperFill, PaperFees, PaperKill, StopPaper
<1>3. DiskTypes' /\ ApprovalTypes' /\ LiveTypes'
  BY <1>1, <1>2 DEF DiskTypes, ApprovalTypes, LiveTypes
<1>4. DatabaseTypes' /\ PaperTypes'
  <2> USE <1>1 DEF DatabaseTypes, PaperTypes
  <2>1. CASE StartPaper
    <3>1. /\ label' \in [bound : {TRUE}, code : Codes, config : Configs, model : Models]
          /\ paper' \in [phase : {"bound"}, code : Codes, config : Configs]
      BY <2>1 DEF StartPaper, Label, DiskTypes, Installations
    <3> QED
      BY <2>1, <3>1 DEF StartPaper
  <2>2. CASE LoadPaper
    <3>1. paper \in [phase : {"bound"}, code : Codes, config : Configs]
      BY <2>2 DEF LoadPaper, Down
    <3>2. paper' \in [phase : {"running"}, code : Codes, config : Configs, model : Models]
      BY <2>2, <3>1 DEF LoadPaper, DiskTypes, Installations
    <3> QED
      BY <2>2, <3>2 DEF LoadPaper
  <2>3. CASE PaperFill
    <3>1. paper \in [phase : {"running"}, code : Codes, config : Configs, model : Models]
      BY <2>3 DEF PaperFill, Down
    <3>2. filled' \subseteq Installations
      BY <2>3, <3>1 DEF PaperFill, Installations
    <3> QED
      BY <2>3, <3>2 DEF PaperFill
  <2>4. CASE PaperOrder \/ PaperFees \/ PaperKill
    BY <2>4 DEF PaperOrder, PaperFees, PaperKill
  <2>5. CASE StopPaper
    BY <2>5 DEF StopPaper
  <2> QED
    BY <2>1, <2>2, <2>3, <2>4, <2>5
<1> QED
  BY <1>3, <1>4, NextGateTypeParts

\* An approval names what is installed and a fee there is.
LEMMA ApprovalIsTyped ==
  ASSUME GateTypeOK, Approve \/ Expire
  PROVE  GateTypeOK'
<1>1. DiskTypes /\ DatabaseTypes /\ PaperTypes /\ ApprovalTypes /\ LiveTypes
  BY GateTypeParts
<1>2. UNCHANGED <<disk, changes, swapped, research, label, filled, resting, incident, rate, paper,
                  live>>
  BY DEF Approve, Expire, database
<1>3. DiskTypes' /\ DatabaseTypes' /\ PaperTypes' /\ LiveTypes'
  BY <1>1, <1>2 DEF DiskTypes, DatabaseTypes, PaperTypes, LiveTypes
<1>4. CASE Approve
  <2>1. rate \in Rates /\ research.fee \in Rates
    BY <1>1, <1>4 DEF Approve, Deployable, DiskTypes, DatabaseTypes, NoReport
  <2>2. Lower(rate, research.fee) \in Rates
    BY <2>1 DEF Lower
  <2>3. approval' \in Approvals /\ approved' = approved \union {approval'}
    BY <1>1, <1>4, <2>2 DEF Approve, Approvals, DiskTypes, Installations
  <2>4. ApprovalTypes'
    BY <1>1, <2>3 DEF ApprovalTypes
  <2> QED
    BY <1>3, <2>4, NextGateTypeParts
<1>5. CASE Expire
  <2>1. ApprovalTypes'
    BY <1>1, <1>5 DEF Expire, ApprovalTypes
  <2> QED
    BY <1>3, <2>1, NextGateTypeParts
<1> QED
  BY <1>4, <1>5

\* The phases of the live process.
LEMMA LiveIsTyped ==
  ASSUME GateTypeOK, StartLive \/ AuthorizeFees \/ LoadLive \/ RefreshLive \/ StopLive
  PROVE  GateTypeOK'
<1>1. DiskTypes /\ DatabaseTypes /\ PaperTypes /\ ApprovalTypes /\ LiveTypes
  BY GateTypeParts
<1>2. UNCHANGED <<disk, changes, swapped, research, label, filled, resting, incident, rate, paper,
                  approval, approved>>
  BY DEF StartLive, AuthorizeFees, LoadLive, RefreshLive, StopLive, database
<1>3. DiskTypes' /\ DatabaseTypes' /\ PaperTypes' /\ ApprovalTypes'
  BY <1>1, <1>2 DEF DiskTypes, DatabaseTypes, PaperTypes, ApprovalTypes
<1>4. LiveTypes'
  <2>1. disk.code \in Codes /\ disk.config \in Configs /\ disk.model \in Models
    BY <1>1 DEF DiskTypes, Installations
  <2>2. CASE StartLive
    <3>1. live' \in [phase : {"checked"}, code : Codes, config : Configs]
      BY <2>1, <2>2 DEF StartLive
    <3> QED
      BY <3>1 DEF LiveTypes
  <2>3. CASE AuthorizeFees
    <3>1. live.code \in Codes /\ live.config \in Configs
      BY <1>1, <2>3 DEF AuthorizeFees, LiveTypes, Running, Down
    <3>2. live' \in {Down} \union [phase : {"authorized"}, code : Codes, config : Configs, fee : Rates]
      BY <2>3, <3>1 DEF AuthorizeFees
    <3> QED
      BY <3>2 DEF LiveTypes
  <2>4. CASE LoadLive
    <3>1. live.code \in Codes /\ live.config \in Configs /\ live.fee \in Rates
      BY <1>1, <2>4 DEF LoadLive, LiveTypes, Running, Down
    <3>2. live' \in Running
      BY <2>1, <2>4, <3>1 DEF LoadLive, Running
    <3> QED
      BY <3>2 DEF LiveTypes
  <2>5. CASE RefreshLive
    <3>1. live \in Running
      <4>1. live.phase \in {"running", "refused"}
        BY <2>5 DEF RefreshLive
      <4> QED
        BY <1>1, <4>1 DEF LiveTypes, Down
    <3>2. PICK fee \in Rates :
            live' = IF Authorized(live.config) /\ fee <= approval.fee
                    THEN [live EXCEPT !.phase = "running", !.fee = fee]
                    ELSE [live EXCEPT !.phase = "refused"]
      BY <2>5 DEF RefreshLive
    <3>3. live' \in Running
      BY <3>1, <3>2 DEF Running
    <3> QED
      BY <3>3 DEF LiveTypes
  <2>6. CASE StopLive
    BY <2>6 DEF StopLive, LiveTypes
  <2> QED
    BY <2>2, <2>3, <2>4, <2>5, <2>6
<1> QED
  BY <1>3, <1>4, NextGateTypeParts

\* Every step keeps the types.
LEMMA NextKeepsGateTypes == GateTypeOK /\ [GateNext]_gateVars => GateTypeOK'
<1> SUFFICES ASSUME GateTypeOK, [GateNext]_gateVars PROVE GateTypeOK'
  OBVIOUS
<1>1. CASE GateNext
  BY <1>1, OperatorsAreTyped, PaperIsTyped, ApprovalIsTyped, LiveIsTyped DEF GateNext
<1>2. CASE UNCHANGED gateVars
  <2>1. DiskTypes /\ DatabaseTypes /\ PaperTypes /\ ApprovalTypes /\ LiveTypes
    BY GateTypeParts
  <2>2. DiskTypes' /\ DatabaseTypes' /\ PaperTypes' /\ ApprovalTypes' /\ LiveTypes'
    <3>1. /\ disk' = disk /\ changes' = changes /\ swapped' = swapped /\ research' = research
          /\ label' = label /\ filled' = filled /\ resting' = resting /\ incident' = incident
          /\ rate' = rate /\ paper' = paper /\ approval' = approval /\ approved' = approved
          /\ live' = live
      BY <1>2 DEF gateVars
    <3>2. DiskTypes' /\ PaperTypes'
      BY <2>1, <3>1 DEF DiskTypes, PaperTypes
    <3>3. DatabaseTypes'
      BY <2>1, <3>1 DEF DatabaseTypes
    <3>4. ApprovalTypes' /\ LiveTypes'
      BY <2>1, <3>1 DEF ApprovalTypes, LiveTypes
    <3> QED
      BY <3>2, <3>3, <3>4
  <2> QED
    BY <2>2, NextGateTypeParts
<1> QED
  BY <1>1, <1>2

\* The versions and phases of the gate: GateTypeOK.
THEOREM GateTyped == GateSpec => []GateTypeOK
BY InitGateTypes, NextKeepsGateTypes, PTL DEF GateSpec

-----------------------------------------------------------------------------
\* The invariant that the theorems rest on.
THEOREM GateSafe == GateSpec => []GateInv
BY InitGate, NextKeepsGate, PTL DEF GateSpec

\* No fill of a paper database was made by another code, configuration or model than its
\* label says: FillsMatchLabel (runtime.py:76).
THEOREM NoFillIsRelabelled == GateSpec => []FillsMatchLabel
<1>1. GateInv => FillsMatchLabel
  BY DEF GateInv
<1> QED
  BY GateSafe, <1>1, PTL

\* A live process that may trade runs what was approved, at a fee that was approved:
\* RunsWhatWasApproved (safety.py:97).
THEOREM LiveIsApproved == GateSpec => []RunsWhatWasApproved
<1>1. GateInv => RunsWhatWasApproved
  BY DEF GateInv, LiveInv, LiveRuns, ApprovedStart, ApprovedFee, RunsWhatWasApproved
<1> QED
  BY GateSafe, <1>1, PTL

\* Evidence is true of the fills it rests on and of the process it lets start: EvidenceIsTrue.
THEOREM EvidenceStaysTrue == GateSpec => []EvidenceIsTrue
BY NoFillIsRelabelled, LiveIsApproved, PTL DEF EvidenceIsTrue

-----------------------------------------------------------------------------
(* The lifecycle of the processes                                          *)
(*                                                                         *)
(* For every timeout and number of errors.  RiskHasAWatcher is not         *)
(* inductive: that a dead runtime leaves a mark and a heartbeat behind     *)
(* rests on what its loop has done before it could make an entry (LifeInv).*)

\* A runtime in its loop has set its mark and has not used up its errors.
LoopIsMarked ==
  /\ rt \in {"top", "held", "ending"} => mark
  /\ rt \in {"booting", "top", "held"} => errors < MaxErrors

\* Entries come after the first heartbeat.
EntriesAreBeaten == (exposed => beaten) /\ (warm => beaten)

\* An iteration that found the guardian late is under a kill.
UnwatchedIsHalted == rt = "held" /\ begun = "unwatched" => halted

LifeInv ==
  LifeTypeOK /\ LoopIsMarked /\ EntriesAreBeaten /\ UnwatchedIsHalted /\ RiskHasAWatcher

-----------------------------------------------------------------------------
LEMMA InitLife == LifeInit => LifeInv
<1> USE DEF LifeInit
<1>1. ASSUME LifeInit
      PROVE  rtAge \in 0..Timeout + 1 /\ gdAge \in 0..Timeout + 1 /\ errors \in 0..MaxErrors
  BY <1>1, TimeoutAssumption
<1> QED
  BY <1>1, Zenon DEF LifeInv, LifeTypeOK, LoopIsMarked, EntriesAreBeaten, UnwatchedIsHalted,
     RiskHasAWatcher

\* No step of the runtime breaks the invariant.
LEMMA RuntimeKeepsLife ==
  ASSUME LifeInv,
         \/ RuntimeStep \/ StartRuntime \/ TaskFails \/ Recover \/ Expose \/ Shutdown
         \/ RuntimeDies
  PROVE  LifeInv'
<1> USE TimeoutAssumption DEF LifeInv, LifeTypeOK, LoopIsMarked, EntriesAreBeaten,
        UnwatchedIsHalted, RiskHasAWatcher, guardianVars, runtimeLocals
<1>1. CASE StartRuntime
  <2>1. /\ rtAge' \in 0..Timeout + 1 /\ gdAge' \in 0..Timeout + 1 /\ errors' \in 0..MaxErrors
        /\ errors' < MaxErrors
    BY <1>1 DEF StartRuntime
  <2> QED
    BY <1>1, <2>1, Zenon DEF StartRuntime
<1>2. CASE Boot
  BY <1>2 DEF Boot
<1>3. CASE TaskFails
  BY <1>3 DEF TaskFails
<1>4. CASE BeginIteration
  BY <1>4 DEF BeginIteration
<1>5. CASE EndLoop
  BY <1>5 DEF EndLoop
<1>6. CASE Recover
  BY <1>6 DEF Recover
<1>7. CASE Expose
  BY <1>7 DEF Expose
<1>8. CASE EndIteration
  BY <1>8 DEF EndIteration, RiskMayEnd
<1>9. CASE FailIteration
  BY <1>9 DEF FailIteration
<1>10. CASE Shutdown
  BY <1>10 DEF Shutdown
<1>11. CASE Close
  <2>1. /\ rt = "ending" /\ rt' = "down"
        /\ UNCHANGED <<guardianVars, holder, rtAge, beaten, runtimeLocals>>
    BY <1>11 DEF Close
  <2>2. CASE holder = "nobody" /\ RiskMayEnd /\ mark' = exposed' /\ halted' = (halted \/ exposed')
    <3>1. exposed' \in BOOLEAN /\ (exposed' => exposed)
      BY <2>2 DEF RiskMayEnd
    <3>2. mark' \in BOOLEAN /\ (exposed' => mark')
      BY <2>2, <3>1, Zenon
    <3>3. halted' \in BOOLEAN
      BY <2>2, <3>1, Zenon
    <3> QED
      BY <2>1, <3>1, <3>2, <3>3
  <2>3. CASE UNCHANGED <<mark, halted, exposed>>
    BY <2>1, <2>3
  <2> QED
    BY <1>11, <2>2, <2>3 DEF Close
<1>12. CASE RuntimeDies
  BY <1>12 DEF RuntimeDies
<1> QED
  BY <1>1, <1>2, <1>3, <1>4, <1>5, <1>6, <1>7, <1>8, <1>9, <1>10, <1>11, <1>12 DEF RuntimeStep

\* No step of the guardian, and no time, breaks it.
LEMMA GuardianKeepsLife ==
  ASSUME LifeInv, GuardianStep \/ StartGuardian \/ FeedStops \/ GuardianDies \/ Elapse
  PROVE  LifeInv'
<1> USE TimeoutAssumption DEF LifeInv, LifeTypeOK, LoopIsMarked, EntriesAreBeaten,
        UnwatchedIsHalted, RiskHasAWatcher, runtimeLocals
<1>1. CASE StartGuardian
  BY <1>1 DEF StartGuardian
<1>2. CASE Round
  <2>1. rtAge' \in 0..Timeout + 1 /\ gdAge' \in 0..Timeout + 1 /\ errors' \in 0..MaxErrors
    BY <1>2 DEF Round
  <2> QED
    BY <1>2, <2>1, Zenon DEF Round
<1>3. CASE EndHelp
  BY <1>3 DEF EndHelp, RiskMayEnd
<1>4. CASE FeedStops
  BY <1>4 DEF FeedStops
<1>5. CASE GuardianDies
  BY <1>5 DEF GuardianDies
<1>6. CASE Elapse
  BY <1>6 DEF Elapse, Older
<1> QED
  BY <1>1, <1>2, <1>3, <1>4, <1>5, <1>6 DEF GuardianStep

LEMMA StutterKeepsLife ==
  ASSUME LifeInv, UNCHANGED lifeVars
  PROVE  LifeInv'
BY DEF LifeInv, LifeTypeOK, LoopIsMarked, EntriesAreBeaten, UnwatchedIsHalted, RiskHasAWatcher,
   lifeVars

LEMMA NextKeepsLife == LifeInv /\ [LifeNext]_lifeVars => LifeInv'
BY RuntimeKeepsLife, GuardianKeepsLife, StutterKeepsLife DEF LifeNext

\* The invariant that the theorems rest on.
THEOREM LifeSafe == LifeSpec => []LifeInv
BY InitLife, NextKeepsLife, PTL DEF LifeSpec

\* Risk without a runtime in its loop always has a latch, or a mark and a heartbeat, by which
\* the guardian finds it: RiskHasAWatcher (runtime.py:264 and :303).
THEOREM RiskIsWatched == LifeSpec => []RiskHasAWatcher
<1>1. LifeInv => RiskHasAWatcher
  BY DEF LifeInv
<1> QED
  BY LifeSafe, <1>1, PTL

\* The states have their types: LifeTypeOK, with the execution lock held by exactly the
\* process that works under it.
THEOREM LifeTyped == LifeSpec => []LifeTypeOK
<1>1. LifeInv => LifeTypeOK
  BY DEF LifeInv
<1> QED
  BY LifeSafe, <1>1, PTL

\* A step that makes an entry is one of an iteration that found the guardian in time or in
\* which an operator recovered: NoUnwatchedEntry (runtime.py:184).
LEMMA EntryIsWatched ==
  ASSUME LifeInv, LifeNext, ~exposed, exposed'
  PROVE  begun # "unwatched"
<1>1. ~UNCHANGED exposed /\ ~RiskMayEnd
  BY DEF RiskMayEnd, LifeInv, LifeTypeOK
<1>2. ~RuntimeStep
  BY <1>1 DEF RuntimeStep, Boot, BeginIteration, EndLoop, EndIteration, FailIteration, Close
<1>3. ~GuardianStep /\ ~StartGuardian /\ ~FeedStops /\ ~GuardianDies /\ ~Elapse
  BY <1>1 DEF GuardianStep, Round, EndHelp, StartGuardian, FeedStops, GuardianDies, Elapse
<1>4. ~StartRuntime /\ ~TaskFails /\ ~Recover /\ ~Shutdown /\ ~RuntimeDies
  BY <1>1 DEF StartRuntime, TaskFails, Recover, Shutdown, RuntimeDies
<1>5. Expose
  BY <1>2, <1>3, <1>4 DEF LifeNext
<1> QED
  BY <1>5 DEF Expose, LifeInv, UnwatchedIsHalted

\* For every timeout no entry is made in an iteration that found the heartbeat of the guardian
\* late, unless an operator has reset that kill in it: NoUnwatchedEntry (runtime.py:184).
THEOREM NoEntryUnwatched == LifeSpec => NoUnwatchedEntry
<1>1. LifeInv /\ [LifeNext]_lifeVars => [~exposed /\ exposed' => begun # "unwatched"]_lifeVars
  BY EntryIsWatched
<1> QED
  BY LifeSafe, <1>1, PTL DEF LifeSpec, NoUnwatchedEntry

-----------------------------------------------------------------------------
(* All of them                                                             *)
(*                                                                         *)
(* A behaviour of MCSupport is one of every component, most of which rest. *)

\* A step is one of one component, and the others do nothing.
LEMMA ComponentSteps ==
  ASSUME [SupportNext]_supportVars
  PROVE  /\ [RestNext]_restVars /\ [BookNext]_bookVars /\ [LimitNext]_limitVars
         /\ [RateNext]_rateVars /\ [ExitNext]_exitVars /\ [GateNext]_gateVars
         /\ [LabelNext]_labelVars /\ [LifeNext]_lifeVars
BY DEF SupportNext, supportVars, tradeVars, gateAndLabelVars

\* The instance of MCSupport implements each of the eight specifications: what is proved of
\* one of them holds of it.
THEOREM ComponentsRun ==
  SupportSpec =>
    /\ RestSpec /\ BookSpec /\ LimitSpec /\ RateSpec
    /\ ExitSpec /\ GateSpec /\ LabelSpec /\ LifeSpec
<1>1. SupportInit =>
        /\ RestInit /\ BookInit /\ LimitInit /\ RateInit
        /\ ExitInit /\ GateInit /\ LabelInit /\ LifeInit
  BY DEF SupportInit
<1> QED
  BY <1>1, ComponentSteps, PTL
     DEF SupportSpec, RestSpec, BookSpec, LimitSpec, RateSpec, ExitSpec, GateSpec, LabelSpec, LifeSpec

\* The types of the eight components, for all values of their constants: SupportTypeOK.
THEOREM SupportTyped == SupportSpec => []SupportTypeOK
<1>1. RestInv => RestTypeOK
  BY DEF RestInv
<1>2. LimitInv => LimitTypeOK
  BY DEF LimitInv
<1>3. RateInv => RateTypeOK
  BY DEF RateInv
<1>4. ExitInv => ExitTypeOK
  BY DEF ExitInv
<1>5. LabelInv => LabelTypeOK
  BY DEF LabelInv
<1>6. SupportSpec => []RestTypeOK /\ []ExitTypeOK /\ []LabelTypeOK
  BY <1>1, <1>4, <1>5, RestSafe, ExitSafe, LabelSafe, ComponentsRun, PTL
<1>7. LimitSpec => []LimitTypeOK
  BY <1>2, InitLimits, NextKeepsLimits, PTL DEF LimitSpec
<1>8. RateSpec => []RateTypeOK
  BY <1>3, InitRate, NextKeepsRate, PTL DEF RateSpec
<1>9. SupportTypeOK <=>
        /\ RestTypeOK /\ BookTypeOK /\ LimitTypeOK /\ RateTypeOK /\ ExitTypeOK
        /\ GateTypeOK /\ LabelTypeOK /\ LifeTypeOK
  BY DEF SupportTypeOK
<1> QED
  BY <1>6, <1>7, <1>8, <1>9, BookTyped, GateTyped, LifeTyped, ComponentsRun, PTL

\* Everything that MCSupport checks of the eight but what must come (EachIsMissed).
THEOREM SupportSafe ==
  SupportSpec =>
    /\ [](CreationsAreSafe /\ LedgerIsTrue /\ LossesStopEntries /\ EntriesKeepTheirDistance)
    /\ [](DecidesAtTheHighest /\ EvidenceIsTrue /\ SamplesAreSound /\ RiskHasAWatcher)
    /\ NoncesIncrease /\ LosingStreakIsFinal /\ NoUnwatchedEntry
BY ComponentsRun, CreationsStaySafe, LedgerStaysTrue, LossesStayLatched, DistanceIsKept,
   NoGainIsForgotten, EvidenceStaysTrue, SamplesStaySound, RiskIsWatched, NoncesAreHigher,
   StreakIsFinal, NoEntryUnwatched, PTL
=============================================================================
