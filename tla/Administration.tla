--------------------------- MODULE Administration ---------------------------
(***************************************************************************)
(* Finance governance, the control account of the ledger and the account   *)
(* bindings of customers, over the one table of privileged action          *)
(* approvals all consume.                                                  *)
(***************************************************************************)
EXTENDS FinanceJournals, ControlAccounts, AccountBindings

(* The operations that name an approval. *)
Approving ==
  {"request", "emergency", "approve", "reject", "cancel", "revoke", "consume", "activate",
   "transition", "decideMapping", "post", "provision", "close"}

(* null is no approval; the calls that name one are made by principals, and *)
(* time passes for approvals.                                              *)
ASSUME AgendaAssumption ==
  /\ None \notin ApprovalRow
  /\ \A c \in Call : c.op \in Approving => c.by \in Principal /\ c.approval \in Approval
  /\ \A c \in Call : c.op = "lapse" => c.approval \in Approval

governed == <<calendar, mappingVars, journalVars>>
administrationVars == <<vars, accountVars, customerVars, bindingVars>>

AdministrationInit == Init /\ InitAccounts /\ InitCustomers /\ InitBindings

AdministrationNext ==
  \/ Next /\ UNCHANGED <<accountVars, customerVars, bindingVars>>
  \/ AccountStep /\ UNCHANGED <<governed, customerVars, bindingVars>>
  \/ CustomerStep
       /\ UNCHANGED <<asked, approvalVars, controlVars, governed, accountVars, bindingVars>>
  \/ BindingStep /\ UNCHANGED <<controlVars, governed, accountVars, customerVars>>

AdministrationSpec == AdministrationInit /\ [][AdministrationNext]_administrationVars

(* Every variable holds what its table, or its process, can hold. *)
AdministrationTypeOK == FinanceTypeOK /\ AccountsTyped /\ CustomersTyped /\ BindingsTyped
=============================================================================
