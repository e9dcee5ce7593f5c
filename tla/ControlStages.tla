---------------------------- MODULE ControlStages ----------------------------
(***************************************************************************)
(* The verdicts of the stages of the governed control path (rucelium-      *)
(* policy), as functions of what each stage reads.  Magnitudes are natural *)
(* levels; a magnitude that is not finite is a level above PolicyMax,      *)
(* which is refused in the same place.  Action verbs, justifications and   *)
(* the text of errors are abstracted.                                      *)
(***************************************************************************)
EXTENDS Naturals

CONSTANTS Ids,          \* proposal ids; the command id is "cmd-" and the id
          Agents,       \* agent identities
          Actuators,    \* actuator ids, configured or not
          Magnitudes,   \* magnitude levels a proposal can ask for
          Allowed,      \* PolicyConfig::allowed_actuators
          PolicyMax,    \* PolicyConfig::max_actuator_magnitude
          SafeMax,      \* SafetyConfig::safe_magnitude
          Budget,       \* SafetyConfig::max_commands_per_actuator
          Grants        \* (agent, actuator) pairs the biome owner has granted

ASSUME StagesAssumption ==
  /\ Magnitudes \subseteq Nat
  /\ PolicyMax \in Nat /\ SafeMax \in Nat /\ Budget \in Nat
  /\ Allowed \subseteq Actuators
  /\ Grants \subseteq Agents \X Actuators

\* An actuator proposal; `complete` says that no text field is empty.
Proposal == [id : Ids, agent : Agents, actuator : Actuators,
             magnitude : Magnitudes, complete : BOOLEAN]

Phase == {"none", "executing", "executed"}

\* PolicyEngine::check
PolicyAccepts(p) ==
  /\ p.complete
  /\ p.actuator \in Allowed
  /\ p.magnitude <= PolicyMax

\* SafetySimulator::simulate: the budget is checked, not charged.
SafetyAccepts(p, charged) ==
  /\ p.magnitude <= SafeMax
  /\ charged[p.actuator] < Budget

\* AuthorityRegistry::authorize
AuthorityAccepts(p) == <<p.agent, p.actuator>> \in Grants

\* Fault: only a command in execution is a duplicate.
ValidatorAccepts_ExecutingOnly(p, phases) == phases[p.id] # "executing"

\* GatewayValidator::check for a command signed by the gateway itself at the
\* same instant: the key is trusted, the signature verifies, it has not
\* expired, and the cap is unlimited, which leaves the duplicate check.
ValidatorAccepts(p, phases) == phases[p.id] = "none"

\* The stages in the order of control.rs's drive.
Verdict(p, charged, phases) ==
  IF ~PolicyAccepts(p) THEN "PolicyViolation"
  ELSE IF ~SafetyAccepts(p, charged) THEN "Unsafe"
  ELSE IF ~AuthorityAccepts(p) THEN "NotAuthorized"
  ELSE IF ~ValidatorAccepts(p, phases) THEN "DuplicateCommand"
  ELSE "Ok"

Verdicts == {"PolicyViolation", "Unsafe", "NotAuthorized", "DuplicateCommand", "Ok"}
=============================================================================
