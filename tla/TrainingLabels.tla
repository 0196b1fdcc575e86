--------------------------- MODULE TrainingLabels ---------------------------
(***************************************************************************)
(* The samples a model is fitted to: labeled_samples of trader/research.py *)
(* over a recorded tape, with the warm-up of trader/features.py, and their *)
(* admission by EdgeModel.fit of trader/strategy.py.  TrainEnd is          *)
(* train_end, or the end of a walk-forward fold.                           *)
(*                                                                         *)
(* An event is a place on the tape and its time of receipt.  Whether the   *)
(* book is valid after an event is a choice, as is the cell of a sample;   *)
(* a BookError ends the fit, and with it the behaviour.                    *)
(***************************************************************************)
EXTENDS Integers, Sequences

CONSTANTS
  Horizon,   \* strategy.label_horizon_seconds
  Slack,     \* what a label may be late: 2 s
  Warmup,    \* strategy.warmup_seconds
  Interval,  \* frequency.signal_interval_ms
  TrainEnd,
  MaxTime, MaxEvents \* bounds: length of the tape

ASSUME LabelAssumption ==
  Horizon \in Nat \ {0} /\ Slack \in Nat /\ Warmup \in Nat /\ Interval \in Nat
ASSUME TapeAssumption == TrainEnd \in Nat /\ MaxTime \in Nat /\ MaxEvents \in Nat

VARIABLES
  tape,       \* history: the events that were read
  valid,      \* book.valid
  since,      \* the time of the first price of the FeatureEngine, or Never
  lastSample, \* the time of the last sample
  pending,    \* places of the samples that wait for their label
  admitted,   \* the samples behind the model: [from, to], the places of sample and label
  lastEnd     \* the time of the last label admitted

labelVars == <<tape, valid, since, lastSample, pending, admitted, lastEnd>>

Never == -1

LabelInit ==
  /\ tape = <<>> /\ valid = FALSE /\ since = Never
  /\ lastSample = -Interval  \* in the code 0, decades before the tape
  /\ pending = {} /\ admitted = {} /\ lastEnd = -1

-----------------------------------------------------------------------------
\* read_events refuses a tape that is not chronological.
Read(kind, at) ==
  /\ Len(tape) < MaxEvents
  /\ tape # <<>> => tape[Len(tape)].at <= at
  /\ tape' = Append(tape, [kind |-> kind, at |-> at])

\* A loss takes the book, the features and what waits for a label with it. (The mutants
\* keep the samples, or the features.)
DisconnectKeepingSamples(at) ==
  /\ Read("disconnect", at)
  /\ valid' = FALSE /\ since' = Never
  /\ UNCHANGED <<pending, lastSample, admitted, lastEnd>>
DisconnectKeepingFeatures(at) ==
  /\ Read("disconnect", at)
  /\ valid' = FALSE /\ pending' = {}
  /\ UNCHANGED <<since, lastSample, admitted, lastEnd>>
Disconnect(at) ==
  /\ Read("disconnect", at)
  /\ valid' = FALSE /\ since' = Never /\ pending' = {}
  /\ UNCHANGED <<lastSample, admitted, lastEnd>>

\* An event that is no sample: the book is not valid, or the last sample is too near.
Pass(at) ==
  /\ Read("market", at)
  /\ valid' \in {valid, TRUE}
  /\ since' = IF valid' /\ since = Never THEN at ELSE since
  /\ valid' => at - lastSample < Interval
  /\ UNCHANGED <<lastSample, pending, admitted, lastEnd>>

Due(at) == {i \in pending : tape[i].at + Horizon <= at}

\* No label across missing data. (The mutant takes any.)
LabelledHoweverLate(at) == Due(at)
Labelled(at) == {i \in Due(at) : at - tape[i].at <= Horizon + Slack}

\* The condition of fit on a sample and the end of its label. (The mutants compare the
\* time of the sample with the cutoff, or let samples overlap.)
AdmissibleByItsTime(i, at) == tape[i].at < TrainEnd /\ tape[i].at > lastEnd
AdmissibleInOverlap(i, at) == at < TrainEnd
Admissible(i, at) == at < TrainEnd /\ tape[i].at > lastEnd

\* The samples that are labelled now go to fit in their order: after the first it takes,
\* the others overlap. The new sample waits if the features are ready, which needs the
\* warm-up, and prices of the last 901 s.
Sample(at) ==
  /\ Read("market", at)
  /\ valid' \in {valid, TRUE} /\ valid'
  /\ since' = IF since = Never THEN at ELSE since
  /\ at - lastSample >= Interval /\ lastSample' = at
  /\ \/ UNCHANGED <<admitted, lastEnd>>
     \/ \E i \in Labelled(at) :
          /\ Admissible(i, at)
          /\ admitted' = admitted \union {[from |-> i, to |-> Len(tape) + 1]}
          /\ lastEnd' = at
  /\ \/ pending' = pending \ Due(at)
     \/ /\ at - since' >= Warmup
        /\ pending' = (pending \ Due(at)) \union {Len(tape) + 1}

LabelNext == \E at \in 0 .. MaxTime : Disconnect(at) \/ Pass(at) \/ Sample(at)
LabelSpec == LabelInit /\ [][LabelNext]_labelVars

-----------------------------------------------------------------------------
Places == 1 .. Len(tape)

LabelTypeOK ==
  /\ tape \in Seq([kind : {"market", "disconnect"}, at : Nat])
  /\ valid \in BOOLEAN /\ since \in Int /\ lastSample \in Int /\ lastEnd \in Int
  /\ pending \subseteq Places /\ admitted \subseteq [from : Places, to : Places]

\* What a model learns from a sample is what the market did: sample and label are a horizon
\* apart, and neither between them nor in the warm-up before was the stream lost, over any
\* number of losses, pauses of the feed and samples that wait (research.py:20 and :38).
LabelsAreClean ==
  \A s \in admitted :
    /\ tape[s.to].at - tape[s.from].at \in Horizon .. Horizon + Slack
    /\ \A i \in 1 .. s.to : tape[i].kind = "disconnect"
         => i < s.from /\ tape[i].at + Warmup <= tape[s.from].at

\* docs/RESEARCH.md:11 and :25: a model knows nothing of what happened at its cutoff or
\* after it, and no two of its samples share a moment of the market.
SamplesArePurged ==
  /\ \A s \in admitted : tape[s.to].at < TrainEnd
  /\ \A s, t \in admitted :
       s # t => tape[s.to].at < tape[t.from].at \/ tape[t.to].at < tape[s.from].at

\* What a model learns from is what the market did before its cutoff, each moment of it
\* once (labeled_samples and EdgeModel.fit).
SamplesAreSound == LabelsAreClean /\ SamplesArePurged
=============================================================================
