--------------------------- MODULE FinanceControls ---------------------------
(***************************************************************************)
(* B2FFinanceControlService: the policy in force, and the decision every   *)
(* finance command is given after its approval is consumed and before it   *)
(* takes effect.  Commands are SERIALIZABLE transactions with a record of  *)
(* the key they are asked under; the records outlive a behaviour.          *)
(***************************************************************************)
EXTENDS Approvals, CommandRecords

CONSTANTS
  Policy,    \* policy versions
  Given      \* the definitions of those in force from the start: at most one

VARIABLES
  policies,  \* b2f_finance_control_policies: Policy -> row or None
  records,   \* idempotency records
  audit      \* changes that were approved and allowed: approval, resource, version

(* Policies are asked for, and activated, by their identifiers. *)
ASSUME ControlAssumption ==
  \A c \in Call : c.op \in {"policy", "activate"} => c.policy \in Policy

controlVars == <<policies, records, audit>>

Amount == {"small", "large"}  \* of the standard band, and of the highest

Scope ==
  [policy |-> "policy", activate |-> "policy", year |-> "year", transition |-> "period",
   map |-> "mapping", submitMapping |-> "mapping lifecycle", decideMapping |-> "mapping lifecycle",
   prepare |-> "journal", submit |-> "journal lifecycle", withdraw |-> "journal lifecycle",
   post |-> "journal post", provision |-> "control account"]

KeyOf(c) == <<Scope[c.op], c.key>>
ControlKeyOf(c) == <<"control", c.key>>

Recordable == {c \in Call : c.op \in DOMAIN Scope}
RecordKeys == {KeyOf(c) : c \in Recordable} \cup {ControlKeyOf(c) : c \in Recordable}

Fresh(c) == Reservation(records, KeyOf(c), c) = "NEW"

(* The decision's record is kept under a key of its own, which a command   *)
(* of another scope may hold: then the command is rolled back.             *)
Decidable(c) == Reservation(records, ControlKeyOf(c), c) = "NEW"

Complete(c) == records' = Recorded(records, KeyOf(c), c, "OK")
Fail(c) == records' = Failed(Reserved(records, KeyOf(c), c), KeyOf(c), "REFUSED")

-----------------------------------------------------------------------------
(* Policies *)

InForce == {p \in Policy : policies[p] # None /\ policies[p].status = "ACTIVE"}

CreatePolicy(c) ==
  /\ Fresh(c) /\ policies[c.policy] = None
  /\ policies' = [policies EXCEPT ![c.policy] =
       [status |-> "DRAFT", definition |-> c.definition, version |-> 1]]
  /\ Complete(c)
  /\ UNCHANGED <<asked, approvalVars, audit>>

Turned(row, status) == [row EXCEPT !.status = status, !.version = @ + 1]

(* A refused approval refuses the whole command, which leaves nothing. *)
ActivatePolicy(c) ==
  /\ Fresh(c)
  /\ policies[c.policy] # None /\ policies[c.policy].status = "DRAFT"
  /\ policies[c.policy].version = c.expected
  /\ LET intent == Fingerprint("POLICY_ACTIVATE", c.policy, c.expected)
     IN  Consumption(c.approval, c.by, intent) = "APPROVED"
  /\ ConsumeInTransaction(c.approval, "APPROVED")
  /\ policies' = [p \in Policy |->
       CASE p = c.policy -> Turned(policies[p], "ACTIVE")
         [] p \in InForce -> Turned(policies[p], "RETIRED")
         [] OTHER -> policies[p]]
  /\ audit' = audit \cup {[approval |-> c.approval, resource |-> c.policy,
                           version |-> c.expected]}
  /\ Complete(c)
  /\ UNCHANGED asked

-----------------------------------------------------------------------------
(* Decisions *)

(* evaluateInTransaction, of an approval the same transaction has consumed *)
(* for the principal of the command: its approver is the only checker, and *)
(* must execute it.                                                        *)
Allows(c, maker, action, amount) ==
  LET row == approvals[c.approval]
      checkers == {row.by}
  IN  \E p \in InForce : LET d == policies[p].definition IN
        /\ action \in d.actions
        /\ maker # c.by /\ maker \notin checkers
        /\ row.requester \in d.makers
        /\ c.by \in d.checkers
        /\ Cardinality(checkers) >= d.minimum[amount]
        /\ row.by = c.by

Verdict(c, intent, maker, amount) ==
  CASE Consumption(c.approval, c.by, intent) # "APPROVED" -> "UNAPPROVED"
    [] Consumption(c.approval, c.by, intent) = "APPROVED"
         /\ ~ Allows(c, maker, intent.action, amount) -> "DENY"
    [] OTHER -> "ALLOW"

(* The records of a command and of its decision. *)
Answered(c, verdict, effective) ==
  LET decided == IF verdict = "UNAPPROVED" THEN records
                 ELSE Recorded(records, ControlKeyOf(c), c, verdict)
  IN  IF effective
      THEN Recorded(decided, KeyOf(c), c, "OK")
      ELSE Failed(Reserved(decided, KeyOf(c), c), KeyOf(c), "REFUSED")

Audited(c, intent, version) ==
  audit \cup {[approval |-> c.approval, resource |-> intent.resource, version |-> version]}

(* What a command leaves in the tables of approvals, decisions and         *)
(* records, whether it is let through or refused.                          *)
Authorise(c, intent, version, verdict, effective) ==
  /\ verdict # "UNAPPROVED" => Decidable(c)
  /\ ConsumeInTransaction(c.approval, Consumption(c.approval, c.by, intent))
  /\ records' = Answered(c, verdict, effective)
  /\ audit' = IF verdict = "ALLOW" THEN Audited(c, intent, version) ELSE audit

InitControls ==
  /\ policies = [p \in Policy |->
       IF p \in DOMAIN Given
       THEN [status |-> "ACTIVE", definition |-> Given[p], version |-> 2] ELSE None]
  /\ records = [k \in RecordKeys |-> NoRecord]
  /\ audit = {}

ControlStep ==
  \/ \E c \in Asking("policy") : CreatePolicy(c)
  \/ \E c \in Asking("activate") : ActivatePolicy(c)

ControlsTyped ==
  /\ \A p \in Policy : policies[p] # None =>
       policies[p].status \in {"DRAFT", "ACTIVE", "RETIRED"} /\ policies[p].version \in 1..3
  /\ records \in Records(RecordKeys, Recordable, {"OK", "REFUSED", "ALLOW", "DENY"})
  /\ audit \subseteq [approval : Approval, resource : {c.resource : c \in
                        {r \in Call : r.op = "request"}}, version : Nat]

(* Whatever decisions, late saves, refusals and retries an approval goes   *)
(* through, it lets one change happen: the fingerprint names the version   *)
(* it was asked for, and no row comes back to a version.                   *)
OneChangePerApproval == \A e, f \in audit : e.approval = f.approval => e = f
=============================================================================
