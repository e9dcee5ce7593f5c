----------------------------- MODULE ControlPath -----------------------------
(***************************************************************************)
(* The daemon's end of the governed control path: run_proposal drives one  *)
(* proposal through the stages, runs the local effect, and rewrites the    *)
(* command journal, all under the gateway's one lock, so that proposals    *)
(* never interleave; but the process may die between any two steps, and a  *)
(* journal write may fail, which the daemon only logs.                     *)
(*                                                                         *)
(* The daemon's effect never reports failure (execute_locally), so the     *)
(* phase "failed" does not occur.  The audit trail is abstracted.          *)
(***************************************************************************)
EXTENDS ControlStages, Sequences, FiniteSets

CONSTANT MaxFaults      \* bound: kind of failure -> how many in one behaviour

Fault == {"crash",      \* the process dies in the middle of run_proposal
          "ioerror"}    \* a step of journal::store fails

ASSUME PathAssumption == MaxFaults \in [Fault -> Nat]

VARIABLES up,           \* the daemon runs
          phases,       \* memory: GatewayValidator.phases
          charged,      \* memory: SafetySimulator.executed
          receipts,     \* memory: ids of the signed receipts, in order
          pc,           \* the step that run_proposal takes next
          current,      \* the proposal run_proposal works on
          outcome,      \* its verdict, "Ok" for a receipt
          journal,      \* disk: the phases commands.jsonl holds
          tmp,          \* disk: the phases of the temporary file
          effects,      \* history: id -> how often its effect ran
          here,         \* history: <<id, actuator>> of the effects of this life
          faults        \* history: kind -> failures so far

memory == <<up, phases, charged, receipts, pc, current, outcome>>
disk   == <<journal, tmp>>
cvars  == <<memory, disk, effects, here, faults>>

Blank == [i \in Ids |-> "none"]

NoProposal == [id |-> "none"]

TypeOK ==
  /\ up \in BOOLEAN
  /\ phases \in [Ids -> Phase]
  /\ charged \in [Actuators -> 0 .. Budget]
  /\ receipts \in Seq(Ids)
  /\ pc \in {"idle", "execute", "record", "store", "rename", "return"}
  /\ current \in Proposal \cup {NoProposal}
  /\ (pc = "idle") <=> (current = NoProposal)
  /\ outcome \in Verdicts
  /\ journal \in [Ids -> Phase] /\ tmp \in [Ids -> Phase]
  /\ effects \in [Ids -> Nat]
  /\ here \in Seq(Ids \X Actuators)
  /\ faults \in [Fault -> Nat] /\ \A k \in Fault : faults[k] <= MaxFaults[k]

Init ==
  /\ up = TRUE
  /\ phases = Blank /\ charged = [a \in Actuators |-> 0] /\ receipts = <<>>
  /\ pc = "idle" /\ current = NoProposal /\ outcome = "Ok"
  /\ journal = Blank /\ tmp = Blank
  /\ effects = [i \in Ids |-> 0] /\ here = <<>>
  /\ faults = [k \in Fault |-> 0]

-----------------------------------------------------------------------------
(* run_proposal                                                            *)

\* A stage refuses; the journal is rewritten after rejections too.
Refuse(p) ==
  /\ up /\ pc = "idle"
  /\ Verdict(p, charged, phases) # "Ok"
  /\ current' = p /\ outcome' = Verdict(p, charged, phases)
  /\ pc' = "store"
  /\ UNCHANGED <<up, phases, charged, receipts, disk, effects, here, faults>>

\* Every stage accepts, and validate_and_execute records the intent.
Begin(p) ==
  /\ up /\ pc = "idle"
  /\ Verdict(p, charged, phases) = "Ok"
  /\ current' = p /\ outcome' = "Ok"
  /\ phases' = [phases EXCEPT ![p.id] = "executing"]
  /\ pc' = "execute"
  /\ UNCHANGED <<up, charged, receipts, disk, effects, here, faults>>

\* The closure runs: the physical effect.
Execute ==
  /\ pc = "execute"
  /\ effects' = [effects EXCEPT ![current.id] = @ + 1]
  /\ here' = Append(here, <<current.id, current.actuator>>)
  /\ pc' = "record"
  /\ UNCHANGED <<up, phases, charged, receipts, current, outcome, disk, faults>>

\* Fault: the budget is not charged.
RecordExecuted_Uncharged ==
  /\ pc = "record"
  /\ phases' = [phases EXCEPT ![current.id] = "executed"]
  /\ pc' = "store"
  /\ UNCHANGED <<up, charged, receipts, current, outcome, disk, effects, here, faults>>

\* Fault: the intent is withdrawn instead of promoted.
RecordExecuted_Withdrawn ==
  /\ pc = "record"
  /\ phases' = [phases EXCEPT ![current.id] = "none"]
  /\ charged' = [charged EXCEPT ![current.actuator] = @ + 1]
  /\ pc' = "store"
  /\ UNCHANGED <<up, receipts, current, outcome, disk, effects, here, faults>>

\* The intent is promoted, the receipt is built, and drive charges the budget.
RecordExecuted ==
  /\ pc = "record"
  /\ phases' = [phases EXCEPT ![current.id] = "executed"]
  /\ charged' = [charged EXCEPT ![current.actuator] = @ + 1]
  /\ pc' = "store"
  /\ UNCHANGED <<up, receipts, current, outcome, disk, effects, here, faults>>

\* journal::store writes and syncs the temporary file ...
StoreJournal ==
  /\ pc = "store"
  /\ tmp' = phases
  /\ pc' = "rename"
  /\ UNCHANGED <<up, phases, charged, receipts, current, outcome, journal,
                 effects, here, faults>>

\* ... and renames it over the journal.
RenameJournal ==
  /\ pc = "rename"
  /\ journal' = tmp
  /\ pc' = "return"
  /\ UNCHANGED <<up, phases, charged, receipts, current, outcome, tmp,
                 effects, here, faults>>

\* The receipt joins the list if there is one, and the caller gets the outcome.
Return ==
  /\ pc = "return"
  /\ receipts' = IF outcome = "Ok" THEN Append(receipts, current.id) ELSE receipts
  /\ pc' = "idle" /\ current' = NoProposal
  /\ UNCHANGED <<up, phases, charged, outcome, disk, effects, here, faults>>

-----------------------------------------------------------------------------
(* Failures and restarts                                                   *)

Fail(kind) ==
  /\ faults[kind] < MaxFaults[kind]
  /\ faults' = [faults EXCEPT ![kind] = @ + 1]

\* journal::store returns Err, which run_proposal prints and ignores.
JournalFails ==
  /\ pc \in {"store", "rename"}
  /\ Fail("ioerror")
  /\ pc' = "return"
  /\ UNCHANGED <<up, phases, charged, receipts, current, outcome, disk, effects, here>>

LoseMemory ==
  /\ up' = FALSE
  /\ phases' = Blank /\ charged' = [a \in Actuators |-> 0] /\ receipts' = <<>>
  /\ pc' = "idle" /\ current' = NoProposal /\ outcome' = "Ok"

Crash ==
  /\ up /\ pc # "idle"
  /\ Fail("crash")
  /\ LoseMemory
  /\ UNCHANGED <<disk, effects, here>>

\* The daemon ends between two proposals.
Stop ==
  /\ up /\ pc = "idle"
  /\ LoseMemory
  /\ UNCHANGED <<disk, effects, here, faults>>

\* Fault: phases are not restored.
Restart_Forgetful ==
  /\ ~up
  /\ up' = TRUE
  /\ here' = <<>>
  /\ UNCHANGED <<phases, charged, receipts, pc, current, outcome, disk, effects, faults>>

\* Inner::open restores the journaled phases; the budget starts again.
Restart ==
  /\ ~up
  /\ up' = TRUE
  /\ phases' = journal
  /\ here' = <<>>
  /\ UNCHANGED <<charged, receipts, pc, current, outcome, disk, effects, faults>>

Next ==
  \/ \E p \in Proposal : Refuse(p) \/ Begin(p)
  \/ Execute \/ RecordExecuted \/ StoreJournal \/ RenameJournal \/ Return
  \/ JournalFails \/ Crash \/ Stop \/ Restart

Spec == Init /\ [][Next]_cvars

-----------------------------------------------------------------------------

\* In one life of the daemon no command id takes effect twice, whatever fails
\* on the way and whatever is proposed again under the same id.
OncePerLife ==
  \A j, k \in DOMAIN here : here[j][1] = here[k][1] => j = k

\* A command id takes effect again only after a failure: restarts alone, in
\* any number, never re-execute a command.
RerunNeedsFailure ==
  \A i \in Ids : effects[i] <= 1 + faults["crash"] + faults["ioerror"]

\* The effects of this life that an actuator has had, and the ids of them all.
Driven(a) == Cardinality({k \in DOMAIN here : here[k][2] = a})
Done == [k \in DOMAIN here |-> here[k][1]]

\* The budget of an actuator binds in every life, and between calls it has
\* been charged once for each effect of this life and for nothing else; the
\* receipts of this life then attest its effects, one each and in order.
EffectsAccounted ==
  up => \A a \in Actuators :
    /\ Driven(a) <= Budget
    /\ pc = "idle" => charged[a] = Driven(a) /\ receipts = Done

\* No step of the daemon or crash ever takes an id out of the journal.
JournalNeverForgets ==
  [][\A i \in Ids : journal[i] # "none" => journal'[i] = journal[i]]_cvars

\* A command id that has reached the disk never takes effect again.
JournaledNeverAgain ==
  [][\A i \in Ids : journal[i] # "none" => effects'[i] = effects[i]]_cvars

\* The inductive strengthening of OncePerLife and of the two properties of the
\* journal: what is on disk is final and known to the memory, and a command
\* between its intent and its journal entry is new in every respect.
PathInv ==
  /\ TypeOK
  /\ ~up => pc = "idle"
  /\ \A i \in Ids : journal[i] # "none" =>
       journal[i] = "executed" /\ (up => phases[i] = "executed")
  /\ pc = "rename" => tmp = phases
  /\ pc \in {"idle", "store", "rename", "return"} =>
       \A i \in Ids : phases[i] # "executing"
  /\ pc \in {"execute", "record"} =>
       /\ phases[current.id] = "executing"
       /\ \A i \in Ids : phases[i] = "executing" => i = current.id
       /\ charged[current.actuator] < Budget
  /\ pc = "execute" => \A k \in DOMAIN here : here[k][1] # current.id
  /\ up => \A k \in DOMAIN here : phases[here[k][1]] # "none"
  /\ OncePerLife

\* The inductive strengthening of EffectsAccounted: between the effect and its
\* promotion the budget lacks one, and up to the return the receipts do.
AccountInv ==
  /\ pc \in {"execute", "record"} => outcome = "Ok"
  /\ ~up => charged = [a \in Actuators |-> 0] /\ receipts = <<>>
  /\ up => \A a \in Actuators :
       Driven(a) = charged[a] + (IF pc = "record" /\ a = current.actuator THEN 1 ELSE 0)
  /\ up => Done = IF pc = "record" \/ (pc \in {"store", "rename", "return"} /\ outcome = "Ok")
                  THEN Append(receipts, current.id) ELSE receipts

\* The inductive strengthening of RerunNeedsFailure: an id that could still
\* take effect, because neither the disk nor the table of this life holds it,
\* has done so no more often than there were failures.
RerunInv ==
  \A i \in Ids :
    /\ effects[i] <= 1 + faults["crash"] + faults["ioerror"]
    /\ journal[i] = "none" /\ (pc \in {"idle", "execute", "return"} \/ phases[i] = "none")
         => effects[i] <= faults["crash"] + faults["ioerror"]
=============================================================================
