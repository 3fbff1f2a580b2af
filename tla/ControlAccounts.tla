--------------------------- MODULE ControlAccounts ---------------------------
(***************************************************************************)
(* A5ArControlAccountProvisioningService: the accounts receivable control  *)
(* account, created in the ledger once, under an approval, or recovered.   *)
(*                                                                         *)
(* provision is one SERIALIZABLE transaction that looks the account up and *)
(* creates it on other connections: the account stays when the transaction *)
(* around it is rolled back.                                               *)
(***************************************************************************)
EXTENDS FinanceControls

VARIABLES
  receivables,   \* the ledger account of the code: its definition, or None
  provisioning,  \* transactions that were let through, and have not ended
  provisioned,   \* audit events: key, outcome and trace
  announced      \* trace of the event A5ArControlAccountProvisioned, or None

(* null is no definition of an account and no trace of a request; an       *)
(* account created by hand is, or is not, as authorized.                   *)
ASSUME AccountAssumption ==
  /\ None \notin {"authorized", "other"}
  /\ \A c \in Call : c.op = "ledgerAccount" => c.definition \in {"authorized", "other"}
  /\ \A c \in Call : c.op = "provision" => c.trace # None

accountVars == <<receivables, provisioning, provisioned, announced>>

InitAccounts ==
  /\ receivables = None
  /\ provisioning = {}
  /\ provisioned = {}
  /\ announced = None

(* Mutant: an account of the code will do. *)
MatchesCode(account) == account # None

Matches(account) == account = "authorized"

(* LedgerService.createAccount, of the code, by anybody *)
CreateByHand(c) ==
  /\ receivables = None
  /\ receivables' = c.definition
  /\ UNCHANGED <<asked, approvalVars, controlVars, provisioning, provisioned, announced>>

-----------------------------------------------------------------------------
(* provision, to the decision *)

(* A transaction that holds the key makes another wait. *)
Reserves(c) == Fresh(c) /\ \A t \in provisioning : t.call.key # c.key

Provisionable(c) ==
  c.definition = "authorized" /\ (receivables # None => Matches(receivables))

RejectDefinition(c) ==
  /\ Reserves(c) /\ ~ Provisionable(c)
  /\ Fail(c)
  /\ UNCHANGED <<asked, approvalVars, policies, audit, accountVars>>

ProvisionIntent == Fingerprint("PROVISION", "receivables", 1)

(* A used approval recovers an account that is there. *)
Accepted(c) ==
  \/ Consumption(c.approval, c.by, ProvisionIntent) = "APPROVED"
  \/ /\ receivables # None
     /\ InStatus(c.approval, "CONSUMED") /\ approvals[c.approval].intent = ProvisionIntent

ProvisionVerdict(c) ==
  CASE ~ Accepted(c) -> "UNAPPROVED"
    [] Accepted(c) /\ ~ Allows(c, approvals[c.approval].requester, "PROVISION", "small") -> "DENY"
    [] OTHER -> "ALLOW"

RejectProvisioning(c) ==
  /\ Reserves(c) /\ Provisionable(c) /\ ProvisionVerdict(c) # "ALLOW"
  /\ Authorise(c, ProvisionIntent, 1, ProvisionVerdict(c), FALSE)
  /\ UNCHANGED <<asked, policies, accountVars>>

LookUp(c) ==
  /\ Reserves(c) /\ Provisionable(c) /\ ProvisionVerdict(c) = "ALLOW"
  /\ provisioning' = provisioning \cup
       {[call |-> c, row |-> approvals[c.approval], account |-> receivables,
         outcome |-> IF receivables = None THEN "PROVISIONED" ELSE "RECOVERED"]}
  /\ UNCHANGED <<asked, approvalVars, controlVars, receivables, provisioned, announced>>

-----------------------------------------------------------------------------
(* provision, from the decision *)

(* The answer of createAccount is received, or lost, or a refusal since    *)
(* the code is taken; without it the account is looked up again.           *)
CreateControlAccount(t) ==
  LET Holding(account, outcome) ==
        provisioning' = (provisioning \ {t})
                          \cup {[t EXCEPT !.account = account, !.outcome = outcome]}
  IN  /\ t.account = None
      /\ \/ receivables = None /\ receivables' = "authorized"
            /\ \/ Holding("authorized", "PROVISIONED")
               \/ Holding("authorized", "RECOVERED")
         \/ receivables # None /\ Holding(receivables, "RECOVERED") /\ UNCHANGED receivables
      /\ UNCHANGED <<asked, approvalVars, controlVars, provisioned, announced>>

(* The event has one key: another request must carry the trace it has. *)
Announce(c) == announced \in {None, c.trace} /\ announced' = c.trace

CommitProvisioning(t) ==
  LET c == t.call IN
  /\ t.account # None /\ Decidable(c)
  /\ t.row.status = "APPROVED" => approvals[c.approval] = t.row
  /\ ConsumeInTransaction(c.approval, t.row.status)
  /\ records' = Answered(c, "ALLOW", Matches(t.account))
  /\ audit' = Audited(c, ProvisionIntent, 1)
  /\ IF Matches(t.account)
     THEN /\ Announce(c)
          /\ provisioned' = provisioned \cup
               {[key |-> c.key, outcome |-> t.outcome, trace |-> c.trace]}
     ELSE UNCHANGED <<provisioned, announced>>
  /\ provisioning' = provisioning \ {t}
  /\ UNCHANGED <<asked, policies, receivables>>

(* An outcome that stays unknown, a crash, a conflict, or an event that    *)
(* was announced under another trace.                                      *)
AbortProvisioning(t) ==
  /\ provisioning' = provisioning \ {t}
  /\ UNCHANGED <<asked, approvalVars, controlVars, receivables, provisioned, announced>>

AccountStep ==
  \/ \E c \in Asking("ledgerAccount") : CreateByHand(c)
  \/ \E c \in Asking("provision") : RejectDefinition(c) \/ RejectProvisioning(c) \/ LookUp(c)
  \/ \E t \in provisioning :
       CreateControlAccount(t) \/ CommitProvisioning(t) \/ AbortProvisioning(t)

AccountsTyped ==
  /\ receivables \in {"authorized", "other", None}
  /\ \A t \in provisioning :
       /\ t.call \in asked /\ t.row \in ApprovalRow
       /\ t.row.status \in {"APPROVED", "CONSUMED"}
       /\ t.account \in {"authorized", "other", None}
       /\ t.outcome \in {"PROVISIONED", "RECOVERED"}
  /\ \A e \in provisioned : e.outcome \in {"PROVISIONED", "RECOVERED"}

(* Whatever is rolled back, lost or raced for around the creation of the   *)
(* account, what is reported as provisioned is the account as authorized,  *)
(* created for one request at most, and it is announced, to everybody, by  *)
(* the one event whose trace the requests carried.                         *)
ControlAccountIsProvisionedOnce ==
  /\ provisioned # {} => receivables = "authorized"
  /\ Cardinality({e \in provisioned : e.outcome = "PROVISIONED"}) <= 1
  /\ announced # None <=> provisioned # {}
  /\ \A e \in provisioned : e.trace = announced
=============================================================================
