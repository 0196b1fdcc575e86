---------------------------- MODULE ControlLatch ----------------------------
(***************************************************************************)
(* What the control plane of the trader promises, without processes,       *)
(* commands, generations or network waits.                                 *)
(*                                                                         *)
(* Three latches stand between the strategy and a new entry: the kill      *)
(* latch, the pause latch and the pending request to flatten.  Anybody may *)
(* set them at any moment.  They are released only by one recovery attempt *)
(* at a time, and a stop, whoever it comes from, voids the attempt that is *)
(* under way: docs/ARCHITECTURE.md, "Emergency behavior".                  *)
(***************************************************************************)

VARIABLES
  killed,     \* the durable kill latch
  paused,     \* the durable pause latch: no new entry while it is set
  flattening, \* a reduction of the inventory has been asked for
  attempt     \* the recovery under way: "none", "resume" or "reset-kill"

latchVars == <<killed, paused, flattening, attempt>>

LatchTypeOK ==
  /\ killed \in BOOLEAN
  /\ paused \in BOOLEAN
  /\ flattening \in BOOLEAN
  /\ attempt \in {"none", "resume", "reset-kill"}

LatchInit ==
  /\ killed = FALSE
  /\ paused = FALSE
  /\ flattening = FALSE
  /\ attempt = "none"

\* A stop sets the pause latch, may set the others, clears none of them, and
\* voids the recovery under way.
Stop ==
  /\ paused' = TRUE
  /\ killed' \in {killed, TRUE}
  /\ flattening' \in {flattening, TRUE}
  /\ attempt' = "none"

Begin ==
  /\ attempt = "none"
  /\ attempt' \in {"resume", "reset-kill"}
  /\ UNCHANGED <<killed, paused, flattening>>

Abandon ==
  /\ attempt' = "none"
  /\ UNCHANGED <<killed, paused, flattening>>

\* The only step after which entries are allowed again.
Resume ==
  /\ attempt = "resume"
  /\ ~killed
  /\ ~flattening
  /\ paused' = FALSE
  /\ attempt' = "none"
  /\ UNCHANGED <<killed, flattening>>

\* A reset releases the kill latch but leaves the strategy paused.
Reset ==
  /\ attempt = "reset-kill"
  /\ killed' = FALSE
  /\ flattening' = FALSE
  /\ paused' = TRUE
  /\ attempt' = "none"

\* The reduction is complete; the other latches stay.
Flat ==
  /\ flattening' = FALSE
  /\ UNCHANGED <<killed, paused, attempt>>

LatchNext == Stop \/ Begin \/ Abandon \/ Resume \/ Reset \/ Flat

LatchSpec == LatchInit /\ [][LatchNext]_latchVars
=============================================================================
