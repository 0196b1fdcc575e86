---------------------------- MODULE RestAdapter ----------------------------
(***************************************************************************)
(* The signed requests of Gemini.request in trader/exchange/gemini.py and  *)
(* the nonces of trader/storage/db.py: several clients, of more than one   *)
(* process, sign with keys that they may share, over lost, late, garbled   *)
(* and refused answers, deaths of a process and a host clock that is set   *)
(* back.                                                                   *)
(*                                                                         *)
(* A client is one Gemini object; every process awaits its calls one by    *)
(* one, so a client has one call at a time.  A call has a number of its    *)
(* own, and a request is <<call, attempt>>.  Its body is left out: what    *)
(* matters is whether it creates an order and whether it took effect.      *)
(***************************************************************************)
EXTENDS Integers

CONSTANTS
  Clients,   \* the Gemini objects of all processes
  Keys,      \* nonce namespaces
  KeyOf,     \* the API key a client signs with
  Retries,   \* exchange.maximum_retries
  MaxMillis, \* bound: values of the host clock
  MaxCalls   \* bound: calls of all clients together

ASSUME KeyAssumption == KeyOf \in [Clients -> Keys]
ASSUME RestBoundsAssumption == Retries \in Nat /\ MaxMillis \in Nat /\ MaxCalls \in Nat

VARIABLES
  millis,     \* time.time_ns() // 1_000_000 of the host
  nonces,     \* the nonce:<namespace> rows of the store
  highest,    \* history: the highest nonce a request was signed with, per key
  call,       \* what each client is doing
  calls,      \* history: calls so far
  creations,  \* history: the calls that create an order
  wire,       \* requests on their way to the venue
  effective,  \* requests that took effect at the venue
  replies,    \* <<request, kind of reply>> on their way back
  outcome     \* history: how a call ended for its caller

restVars == <<millis, nonces, highest, call, calls, creations, wire, effective, replies, outcome>>
venueVars == <<wire, effective, replies>>

Idle == [phase |-> "idle", id |-> 0, attempt |-> 0]
Request(c) == <<call[c].id, call[c].attempt>>
Requests == (1 .. MaxCalls) \X (0 .. Retries)
Larger(m, n) == IF m >= n THEN m ELSE n

\* "ok" is a result, "refused" any status of 400 to 499 but 429 and a result that says
\* error, "busy" 429 or a status from 500, "garbled" a success that is not JSON.
ReplyKinds == {"ok", "refused", "busy", "garbled"}

RestInit ==
  /\ millis = 0
  /\ nonces = [k \in Keys |-> 0] /\ highest = [k \in Keys |-> 0]
  /\ call = [c \in Clients |-> Idle]
  /\ calls = 0 /\ creations = {} /\ outcome = [i \in 1 .. MaxCalls |-> "none"]
  /\ wire = {} /\ effective = {} /\ replies = {}

-----------------------------------------------------------------------------
\* The steps of a call, from await to await or to the store.

\* attempts of request: a creation has one.
Attempts(creates) == IF creates THEN 1 ELSE Retries + 1
LastAttempt(c) == call[c].attempt + 1 >= Attempts(call[c].id \in creations)

Begin(c) ==
  /\ call[c].phase = "idle" /\ calls < MaxCalls
  /\ \E creates \in BOOLEAN :
       creations' = IF creates THEN creations \union {calls + 1} ELSE creations
  /\ calls' = calls + 1
  /\ call' = [call EXCEPT ![c] = [phase |-> "waiting", id |-> calls + 1, attempt |-> 0]]
  /\ UNCHANGED <<millis, nonces, highest, venueVars, outcome>>

\* Store.nonce, one transaction. (The mutant trusts the clock.)
NextNonceFromClock(k) == millis
NextNonce(k) == Larger(millis, nonces[k] + 1)

\* The rate limiter has let the call pass: headers draws the nonce.
Sign(c) ==
  LET k == KeyOf[c] IN
  /\ call[c].phase = "waiting"
  /\ nonces' = [nonces EXCEPT ![k] = NextNonce(k)]
  /\ highest' = [highest EXCEPT ![k] = Larger(@, NextNonce(k))]
  /\ call' = [call EXCEPT ![c].phase = "signed"]
  /\ UNCHANGED <<millis, calls, creations, venueVars, outcome>>

Send(c) ==
  /\ call[c].phase = "signed"
  /\ wire' = wire \union {Request(c)}
  /\ call' = [call EXCEPT ![c].phase = "sent"]
  /\ UNCHANGED <<millis, nonces, highest, calls, creations, effective, replies, outcome>>

\* The end of a call: its value or its exception.
Ends(c, result) ==
  /\ outcome' = [outcome EXCEPT ![call[c].id] = result]
  /\ call' = [call EXCEPT ![c] = Idle]

\* The mutants take silence for a refusal, or send a creation again.
NoAnswerRefusesCreation(c) ==
  IF LastAttempt(c)
  THEN Ends(c, IF call[c].id \in creations THEN "rejected" ELSE "failed")
  ELSE call' = [call EXCEPT ![c].phase = "backoff"] /\ UNCHANGED outcome
NoAnswerRetriesCreation(c) ==
  IF call[c].attempt = Retries
  THEN Ends(c, IF call[c].id \in creations THEN "unknown" ELSE "failed")
  ELSE call' = [call EXCEPT ![c].phase = "backoff"] /\ UNCHANGED outcome

\* No usable answer to an attempt: a creation is UnknownSubmission, the last attempt of
\* anything else ExchangeError, and there is another attempt after a delay.
NoAnswer(c) ==
  IF call[c].id \in creations THEN Ends(c, "unknown")
  ELSE IF LastAttempt(c) THEN Ends(c, "failed")
  ELSE call' = [call EXCEPT ![c].phase = "backoff"] /\ UNCHANGED outcome

\* TimeoutException or TransportError: the request, or its reply, may still be on its way.
TimeOut(c) ==
  /\ call[c].phase = "sent"
  /\ NoAnswer(c)
  /\ replies' = {r \in replies : r[1] # Request(c)}
  /\ UNCHANGED <<millis, nonces, highest, calls, creations, wire, effective>>

Receive(c) ==
  /\ call[c].phase = "sent"
  /\ \E kind \in ReplyKinds :
       /\ <<Request(c), kind>> \in replies
       /\ replies' = replies \ {<<Request(c), kind>>}
       /\ CASE kind = "ok"      -> Ends(c, "returned")
            [] kind = "refused" -> Ends(c, "rejected")
            [] kind = "busy"    -> NoAnswer(c)
            [] kind = "garbled" -> Ends(c, IF call[c].id \in creations THEN "unknown" ELSE "failed")
  /\ UNCHANGED <<millis, nonces, highest, calls, creations, wire, effective>>

\* The delay is over: min(30, 2^attempt) and a random part, or Retry-After.
Retry(c) ==
  /\ call[c].phase = "backoff"
  /\ call' = [call EXCEPT ![c] = [phase |-> "waiting", id |-> @.id, attempt |-> @.attempt + 1]]
  /\ UNCHANGED <<millis, nonces, highest, calls, creations, venueVars, outcome>>

-----------------------------------------------------------------------------
\* The venue and the host.

\* A request arrives: it takes effect and is answered, or is refused, or neither is
\* sure. A caller that has given up gets no reply.
Arrive ==
  \E r \in wire, kind \in ReplyKinds, effect \in BOOLEAN :
    /\ kind = "ok" => effect
    /\ kind = "refused" => ~effect
    /\ wire' = wire \ {r}
    /\ effective' = IF effect THEN effective \union {r} ELSE effective
    /\ replies' = IF \E c \in Clients : call[c].phase = "sent" /\ Request(c) = r
                  THEN replies \union {<<r, kind>>} ELSE replies
    /\ UNCHANGED <<millis, nonces, highest, call, calls, creations, outcome>>

Lose ==
  \E r \in wire : wire' = wire \ {r}
  /\ UNCHANGED <<millis, nonces, highest, call, calls, creations, effective, replies, outcome>>

\* The process of the client dies in its call; what is on the wire stays there.
Die(c) ==
  /\ call[c].phase # "idle"
  /\ call' = [call EXCEPT ![c] = Idle]
  /\ replies' = {r \in replies : r[1] # Request(c)}
  /\ UNCHANGED <<millis, nonces, highest, calls, creations, wire, effective, outcome>>

\* Time passes, or the host's clock is set to another time, later or earlier.
SetClock ==
  /\ millis' \in (0 .. MaxMillis) \ {millis}
  /\ UNCHANGED <<nonces, highest, call, calls, creations, venueVars, outcome>>

ClientStep(c) == Sign(c) \/ Send(c) \/ TimeOut(c) \/ Receive(c) \/ Retry(c)

RestNext ==
  \/ \E c \in Clients : Begin(c) \/ ClientStep(c) \/ Die(c)
  \/ Arrive \/ Lose \/ SetClock

RestSpec == RestInit /\ [][RestNext]_restVars

-----------------------------------------------------------------------------
RestTypeOK ==
  /\ millis \in 0 .. MaxMillis
  /\ nonces \in [Keys -> Nat] /\ highest \in [Keys -> Nat]
  /\ call \in [Clients -> [phase : {"idle", "waiting", "signed", "sent", "backoff"},
                           id : 0 .. MaxCalls, attempt : 0 .. Retries]]
  /\ calls \in 0 .. MaxCalls /\ creations \subseteq 1 .. calls
  /\ wire \subseteq Requests /\ effective \subseteq Requests
  /\ replies \subseteq Requests \X ReplyKinds
  /\ outcome \in [1 .. MaxCalls -> {"none", "returned", "rejected", "unknown", "failed"}]

\* docs/API_REFERENCES.md:21: the nonce of a key increases, whichever process signs, over
\* restarts and whatever the clock does: no request is signed with a nonce that is not
\* higher than all before it.
NoncesIncrease ==
  [][\A c \in Clients : call[c].phase = "waiting" /\ call'[c].phase = "signed"
       => nonces'[KeyOf[c]] > highest[KeyOf[c]]]_restVars

\* A creation reaches the venue at most once, whatever happens to its answer (gemini.py:60).
CreatedAtMostOnce ==
  \A r, s \in wire \union effective : r[1] = s[1] /\ r[1] \in creations => r = s

\* What the caller of a creation is told is true for ever: a rejected order does not exist
\* and never will, one that was returned exists. Only UnknownSubmission leaves it open.
CreationOutcomeIsTrue ==
  \A i \in creations :
    /\ outcome[i] = "rejected" => \A r \in wire \union effective : r[1] # i
    /\ outcome[i] = "returned" => \E r \in effective : r[1] = i

\* A creation is made once at most, and what Gemini.request says of it is true, over lost
\* answers, retries and deaths (gemini.py:73-109).
CreationsAreSafe == CreatedAtMostOnce /\ CreationOutcomeIsTrue
=============================================================================
