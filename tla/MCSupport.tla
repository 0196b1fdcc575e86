----------------------------- MODULE MCSupport -----------------------------
(***************************************************************************)
(* One instance for TLC of the eight components around the trading loop    *)
(* that share no state: a behaviour is one of the component that part      *)
(* names, and the others stay as they begin.                               *)
(***************************************************************************)
EXTENDS RestAdapter, Portfolio, EquityLimits, EntryRate, ExitRules, EvidenceGate,
        TrainingLabels, Lifecycle

VARIABLE part

\* The guard of the runtime and the guardian sign with one key.
OneKey == [c \in Clients |-> "g"]
FirstInstallation == [code |-> 1, config |-> 1, model |-> 1]

tradeVars == <<bookVars, limitVars, rateVars, exitVars>>
gateAndLabelVars == <<gateVars, labelVars>>
supportVars == <<restVars, tradeVars, gateAndLabelVars, lifeVars, part>>

SupportInit ==
  /\ part \in {"rest", "book", "limit", "rate", "exit", "gate", "label", "life"}
  /\ RestInit /\ BookInit /\ LimitInit /\ RateInit /\ ExitInit
  /\ GateInit /\ LabelInit /\ LifeInit

SupportNext ==
  \/ /\ part = "rest" /\ RestNext
     /\ UNCHANGED <<tradeVars, gateAndLabelVars, lifeVars, part>>
  \/ /\ part = "book" /\ BookNext
     /\ UNCHANGED <<restVars, limitVars, rateVars, exitVars, gateAndLabelVars, lifeVars, part>>
  \/ /\ part = "limit" /\ LimitNext
     /\ UNCHANGED <<restVars, bookVars, rateVars, exitVars, gateAndLabelVars, lifeVars, part>>
  \/ /\ part = "rate" /\ RateNext
     /\ UNCHANGED <<restVars, bookVars, limitVars, exitVars, gateAndLabelVars, lifeVars, part>>
  \/ /\ part = "exit" /\ ExitNext
     /\ UNCHANGED <<restVars, bookVars, limitVars, rateVars, gateAndLabelVars, lifeVars, part>>
  \/ /\ part = "gate" /\ GateNext
     /\ UNCHANGED <<restVars, tradeVars, labelVars, lifeVars, part>>
  \/ /\ part = "label" /\ LabelNext
     /\ UNCHANGED <<restVars, tradeVars, gateVars, lifeVars, part>>
  \/ /\ part = "life" /\ LifeNext
     /\ UNCHANGED <<restVars, tradeVars, gateAndLabelVars, part>>

SupportSpec == SupportInit /\ [][SupportNext]_supportVars /\ LifeFairness

\* The type invariants of the eight.
SupportTypeOK ==
  /\ RestTypeOK /\ BookTypeOK /\ LimitTypeOK /\ RateTypeOK /\ ExitTypeOK
  /\ GateTypeOK /\ LabelTypeOK /\ LifeTypeOK
=============================================================================
