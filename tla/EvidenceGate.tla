---------------------------- MODULE EvidenceGate ----------------------------
(***************************************************************************)
(* What stands between a research result and a live process: the paper     *)
(* database bound to code, configuration and model (bind_database of       *)
(* trader/runtime.py), the approval (create_evidence of trader/safety.py)  *)
(* and the checks of a live start and of every refresh of the fees         *)
(* (authorize_start), while operators install code, edit the configuration *)
(* and repeat the research.                                                *)
(*                                                                         *)
(* Code, the fingerprinted part of the configuration and the model file    *)
(* are versions.  A process keeps the code and the configuration it was    *)
(* started with; the code hash and the model hash are read from the disk.  *)
(* One fee stands for maker and taker.  What create_evidence asks of the   *)
(* statistics and the age of the trial is a choice; it cannot be met       *)
(* without fills or after a kill, which is an operational incident.        *)
(* bind_database and create_evidence are one step each: they read their    *)
(* files without an await, and what an interrupted bind_database has       *)
(* written is written again by the next.                                   *)
(***************************************************************************)
EXTENDS Integers

CONSTANTS
  Codes, Configs, Models, \* versions
  Rates,      \* fees
  Shipped,    \* the installation at the beginning
  MaxChanges  \* bound: changes of the installation

Installations == [code : Codes, config : Configs, model : Models]

ASSUME InstallationAssumption == Shipped \in Installations
ASSUME RateSetAssumption == Rates \subseteq Nat \ {0} /\ MaxChanges \in Nat

VARIABLES
  disk,       \* the installed code, configuration and model file
  changes,    \* history: how often it was changed
  research,   \* the research report, or NoReport
  label,      \* code_sha256, config_fingerprint, model_sha256 of the paper database
  filled,     \* its fills, each with what the process that made it ran
  resting,    \* it has an active order
  incident,   \* it has a kill among its events
  rate,       \* its fees row; 0 while there is none
  paper,      \* the paper process
  approval,   \* the evidence file, or NoApproval
  approved,   \* history: every approval that was given
  live,       \* the live process
  swapped     \* history: the model file was replaced while a process was starting

gateVars == <<disk, changes, research, label, filled, resting, incident, rate, paper,
              approval, approved, live, swapped>>
database == <<label, filled, resting, incident, rate>>

Down == [phase |-> "down"]
NoReport == [passed |-> FALSE]
NoLabel == [bound |-> FALSE]
NoApproval == [fresh |-> FALSE]
Lower(a, b) == IF a <= b THEN a ELSE b

GateInit ==
  /\ disk = Shipped /\ changes = 0
  /\ research = NoReport
  /\ label = NoLabel /\ filled = {} /\ resting = FALSE /\ incident = FALSE /\ rate = 0
  /\ paper = Down /\ approval = NoApproval /\ approved = {} /\ live = Down
  /\ swapped = FALSE

-----------------------------------------------------------------------------
\* Operators.

Starting == paper.phase = "bound" \/ live.phase \in {"checked", "authorized"}
Change(next) ==
  /\ changes < MaxChanges /\ changes' = changes + 1
  /\ disk' = next
  /\ swapped' = (swapped \/ (Starting /\ next.model # disk.model))

Install ==
  /\ \/ \E c \in Codes : Change([disk EXCEPT !.code = c])
     \/ \E c \in Configs : Change([disk EXCEPT !.config = c])
     \/ \E m \in Models : Change([disk EXCEPT !.model = m])
  /\ UNCHANGED <<research, database, paper, approval, approved, live>>

\* validate of trader/research.py writes the model and then the report on it.
Validate ==
  /\ \E m \in Models, fee \in Rates, passed \in BOOLEAN :
       /\ Change([disk EXCEPT !.model = m])
       /\ research' = [passed |-> passed, config |-> disk.config, model |-> m, fee |-> fee]
  /\ UNCHANGED <<database, paper, approval, approved, live>>

\* A new paper database, as docs/RUNBOOK.md:64 asks after a change.
NewDatabase ==
  /\ paper = Down
  /\ label' = NoLabel /\ filled' = {} /\ resting' = FALSE /\ incident' = FALSE /\ rate' = 0
  /\ UNCHANGED <<disk, changes, research, paper, approval, approved, live, swapped>>

-----------------------------------------------------------------------------
\* The paper process.

Label == [bound |-> TRUE, code |-> disk.code, config |-> disk.config, model |-> disk.model]

\* bind_database lets a start go on. (The mutant does not ask for the code.)
MayBindAnyCode ==
  /\ label.bound /\ label.config # disk.config => ~resting /\ filled = {}
  /\ filled # {} => label.model = disk.model
MayBind ==
  /\ label.bound /\ label.config # disk.config => ~resting /\ filled = {}
  /\ filled # {} => label.code = disk.code /\ label.model = disk.model

StartPaper ==
  /\ paper = Down /\ MayBind
  /\ label' = Label
  /\ paper' = [phase |-> "bound", code |-> disk.code, config |-> disk.config]
  /\ UNCHANGED <<disk, changes, research, filled, resting, incident, rate, approval, approved,
                 live, swapped>>

\* The fees are known, what the last process left open is cancelled under a kill
\* (PAPER_RESTART_QUEUE_POSITION_UNKNOWN), and EdgeModel.load reads the model file.
LoadPaper ==
  /\ paper.phase = "bound"
  /\ paper' = [phase |-> "running", code |-> paper.code, config |-> paper.config,
               model |-> disk.model]
  /\ rate' \in Rates
  /\ incident' = (incident \/ resting) /\ resting' = FALSE
  /\ UNCHANGED <<disk, changes, research, label, filled, approval, approved, live, swapped>>

PaperOrder ==
  /\ paper.phase = "running" /\ resting' = TRUE
  /\ UNCHANGED <<disk, changes, research, label, filled, incident, rate, paper, approval,
                 approved, live, swapped>>

PaperFill ==
  /\ paper.phase = "running" /\ resting
  /\ filled' = filled \union {[code |-> paper.code, config |-> paper.config,
                               model |-> paper.model]}
  /\ resting' \in BOOLEAN
  /\ UNCHANGED <<disk, changes, research, label, incident, rate, paper, approval, approved,
                 live, swapped>>

\* fees.refresh_seconds: the fees row is replaced.
PaperFees ==
  /\ paper.phase = "running"
  /\ rate' \in Rates
  /\ UNCHANGED <<disk, changes, research, label, filled, resting, incident, paper, approval,
                 approved, live, swapped>>

PaperKill ==
  /\ paper.phase = "running" /\ incident' = TRUE
  /\ UNCHANGED <<disk, changes, research, label, filled, resting, rate, paper, approval,
                 approved, live, swapped>>

\* It ends or dies; a close cancels its orders.
StopPaper ==
  /\ paper # Down /\ paper' = Down
  /\ resting' \in {FALSE, resting}
  /\ UNCHANGED <<disk, changes, research, label, filled, incident, rate, approval, approved,
                 live, swapped>>

-----------------------------------------------------------------------------
\* The approval and the live process.

\* create_evidence finds no reason against it.
Deployable ==
  /\ research.passed /\ label.bound
  /\ research.config = disk.config /\ label.config = disk.config
  /\ research.model = disk.model /\ label.model = research.model
  /\ label.code = disk.code
  /\ filled # {} /\ ~incident /\ ~resting /\ rate # 0

Approve ==
  /\ Deployable
  /\ approval' = [fresh |-> TRUE, code |-> disk.code, config |-> disk.config,
                  model |-> disk.model, fee |-> Lower(rate, research.fee)]
  /\ approved' = approved \union {approval'}
  /\ UNCHANGED <<disk, changes, research, database, paper, live, swapped>>

\* Seven days.
Expire ==
  /\ approval.fresh /\ approval' = NoApproval
  /\ UNCHANGED <<disk, changes, research, database, paper, approved, live, swapped>>

\* authorize_start of a process with this configuration. (The mutant asks for the files
\* only.)
AuthorizedByFiles(config) ==
  /\ approval.fresh
  /\ approval.code = disk.code /\ approval.model = disk.model
Authorized(config) ==
  /\ approval.fresh
  /\ approval.code = disk.code /\ approval.model = disk.model
  /\ approval.config = config

StartLive ==
  /\ live = Down /\ Authorized(disk.config)
  /\ live' = [phase |-> "checked", code |-> disk.code, config |-> disk.config]
  /\ UNCHANGED <<disk, changes, research, database, paper, approval, approved, swapped>>

\* authorize_start again, with the fees of the account.
AuthorizeFees ==
  /\ live.phase = "checked"
  /\ \E fee \in Rates :
       live' = IF Authorized(live.config) /\ fee <= approval.fee
               THEN [phase |-> "authorized", code |-> live.code, config |-> live.config,
                     fee |-> fee]
               ELSE Down
  /\ UNCHANGED <<disk, changes, research, database, paper, approval, approved, swapped>>

\* EdgeModel.load, after the reconciliation.
LoadLive ==
  /\ live.phase = "authorized"
  /\ live' = [phase |-> "running", code |-> live.code, config |-> live.config,
              model |-> disk.model, fee |-> live.fee]
  /\ UNCHANGED <<disk, changes, research, database, paper, approval, approved, swapped>>

\* A refresh of the fees. A refusal raises in every iteration before commands and events
\* are handled and latches: the process does nothing more until one is granted, or ends
\* after maximum_api_errors.
RefreshLive ==
  /\ live.phase \in {"running", "refused"}
  /\ \E fee \in Rates :
       live' = IF Authorized(live.config) /\ fee <= approval.fee
               THEN [live EXCEPT !.phase = "running", !.fee = fee]
               ELSE [live EXCEPT !.phase = "refused"]
  /\ UNCHANGED <<disk, changes, research, database, paper, approval, approved, swapped>>

StopLive ==
  /\ live # Down /\ live' = Down
  /\ UNCHANGED <<disk, changes, research, database, paper, approval, approved, swapped>>

GateNext ==
  \/ Install \/ Validate \/ NewDatabase
  \/ StartPaper \/ LoadPaper \/ PaperOrder \/ PaperFill \/ PaperFees \/ PaperKill \/ StopPaper
  \/ Approve \/ Expire
  \/ StartLive \/ AuthorizeFees \/ LoadLive \/ RefreshLive \/ StopLive

GateSpec == GateInit /\ [][GateNext]_gateVars

-----------------------------------------------------------------------------
Approvals == [fresh : {TRUE}, code : Codes, config : Configs, model : Models, fee : Rates]

GateTypeOK ==
  /\ disk \in Installations /\ changes \in 0 .. MaxChanges
  /\ research \in {NoReport} \union
       [passed : BOOLEAN, config : Configs, model : Models, fee : Rates]
  /\ label \in {NoLabel} \union [bound : {TRUE}, code : Codes, config : Configs, model : Models]
  /\ filled \subseteq Installations
  /\ resting \in BOOLEAN /\ incident \in BOOLEAN /\ rate \in {0} \union Rates
  /\ paper \in {Down} \union [phase : {"bound"}, code : Codes, config : Configs]
                 \union [phase : {"running"}, code : Codes, config : Configs, model : Models]
  /\ approval \in {NoApproval} \union Approvals /\ approved \subseteq Approvals
  /\ live \in {Down} \union [phase : {"checked"}, code : Codes, config : Configs]
                \union [phase : {"authorized"}, code : Codes, config : Configs, fee : Rates]
                \union [phase : {"running", "refused"}, code : Codes, config : Configs,
                         model : Models, fee : Rates]
  /\ swapped \in BOOLEAN

\* docs/RUNBOOK.md:64: no fill is relabelled. Every fill of the paper database was made
\* by the code and configuration in its label, over restarts, orders left open and
\* installations under a running process; and by its model, unless the file was replaced
\* between bind_database and EdgeModel.load.
FillsMatchLabel ==
  \A f \in filled :
    /\ label.bound /\ f.code = label.code /\ f.config = label.config
    /\ swapped \/ f.model = label.model

\* A live process that may trade runs a code, a configuration and a model that were
\* approved together, whatever was installed or approved since its start, and pays no
\* more than an approval of its configuration allows (safety.py:107).
RunsWhatWasApproved ==
  live.phase = "running" =>
    /\ \E a \in approved : /\ a.code = live.code /\ a.config = live.config
                           /\ swapped \/ a.model = live.model
    /\ \E a \in approved : a.config = live.config /\ live.fee <= a.fee

\* What the evidence says is true: of the fills in its database, and of the live process
\* that starts and trades by it (create_evidence, authorize_start).
EvidenceIsTrue == FillsMatchLabel /\ RunsWhatWasApproved
=============================================================================
