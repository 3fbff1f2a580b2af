--------------------------- MODULE AccountBindings ---------------------------
(***************************************************************************)
(* WalletService, CustomerFinancialAccountBindingService and the repair    *)
(* service: the wallet account a customer has in a currency, the binding   *)
(* of it to a customer wallet, and the closing of a binding that           *)
(* reconciliation finds in error.  There is one currency; a wallet account *)
(* is its customer's, and a binding is its customer wallet's.              *)
(*                                                                         *)
(* Binding and closing are SERIALIZABLE transactions.  Each has a record   *)
(* of its key, under which a command that is repeated is answered; one     *)
(* whose record has expired is refused for the binding, or its end, that   *)
(* is there.  Neither changes anything, so the records are left out.       *)
(***************************************************************************)
EXTENDS Customers

VARIABLES
  accounts,  \* wallet_accounts: customers that have one
  moved,     \* accounts with ledger lines
  bindings,  \* customer_financial_account_bindings: Wallet -> row or None
  reports    \* repairs whose reconciliation report was read, and named the binding

(* Calls name customers and wallets by their identifiers. *)
ASSUME BindingAssumption ==
  /\ \A c \in Call : c.op \in {"account", "funds", "bind"} => c.customer \in Customer
  /\ \A c \in Call : c.op \in {"bind", "close"} => c.wallet \in Wallet

bindingVars == <<accounts, moved, bindings, reports>>

InitBindings ==
  /\ accounts = {}
  /\ moved = {}
  /\ bindings = [w \in Wallet |-> None]
  /\ reports = {}

BoundTo(p) == {w \in Wallet : bindings[w] # None /\ bindings[w].customer = p}

OpenAccount(c) ==
  /\ c.customer \notin accounts
  /\ accounts' = accounts \cup {c.customer}
  /\ UNCHANGED <<moved, bindings, reports>>

(* The ledger posts to the account. *)
MoveFunds(c) ==
  /\ c.customer \in accounts \ moved
  /\ moved' = moved \cup {c.customer}
  /\ UNCHANGED <<accounts, bindings, reports>>

-----------------------------------------------------------------------------
(* Binding *)

SourcesActive(c) ==
  /\ CustomerIs(c.customer, "ACTIVE")
  /\ WalletIs(c.wallet, "ACTIVE") /\ wallets[c.wallet].customer = c.customer

(* No binding of the wallet, whatever its state, and no active one of the  *)
(* customer.                                                               *)
NoExistingMapping(c) ==
  /\ bindings[c.wallet] = None
  /\ \A w \in BoundTo(c.customer) : bindings[w].state # "ACTIVE"

(* Mutant: only active bindings keep an account to themselves. *)
AccountUnboundNow(p) == \A w \in BoundTo(p) : bindings[w].state # "ACTIVE"

(* uq_customer_financial_account_bindings_wallet_account, of the one       *)
(* account a customer has                                                  *)
AccountUnbound(p) == BoundTo(p) = {}

(* An account is provisioned with the binding, or is there and unused. *)
TargetReady(c) ==
  \/ c.mode = "PROVISION_NEW" /\ c.customer \notin accounts
  \/ c.mode = "BIND_EXISTING" /\ c.customer \in accounts \ moved

Bind(c) ==
  /\ SourcesActive(c) /\ NoExistingMapping(c) /\ TargetReady(c) /\ AccountUnbound(c.customer)
  /\ accounts' = accounts \cup {c.customer}
  /\ bindings' = [bindings EXCEPT ![c.wallet] =
       [customer |-> c.customer, state |-> "ACTIVE",
        customerVersion |-> customers[c.customer].version,
        walletVersion |-> wallets[c.wallet].version, version |-> 1]]
  /\ UNCHANGED <<moved, reports>>

-----------------------------------------------------------------------------
(* Reconciliation and repair *)

(* collectSourceDiscrepancies, of an active binding: STALE_BINDING or      *)
(* LIFECYCLE_MISMATCH                                                      *)
InError(w) ==
  LET row == bindings[w] IN
  \/ row.customerVersion # customers[row.customer].version
  \/ row.walletVersion # wallets[w].version
  \/ ~ CustomerIs(row.customer, "ACTIVE")
  \/ ~ WalletIs(w, "ACTIVE")

Active(w) == bindings[w] # None /\ bindings[w].state = "ACTIVE"

(* The report is read before the transaction that closes the binding. *)
ReadReport(c) ==
  /\ Active(c.wallet) /\ InError(c.wallet)
  /\ reports' = reports \cup {c}
  /\ UNCHANGED <<accounts, moved, bindings>>

(* closeBinding *)
Closed(row) == [row EXCEPT !.state = "CLOSED", !.version = @ + 1]

(* A refused approval rolls everything back, its expiry included. *)
Close(c) ==
  /\ c \in reports
  /\ Active(c.wallet) /\ bindings[c.wallet].version = c.expected
  /\ Consumption(c.approval, c.by, Fingerprint("CLOSE", c.wallet, c.expected)) = "APPROVED"
  /\ ConsumeInTransaction(c.approval, "APPROVED")
  /\ bindings' = [bindings EXCEPT ![c.wallet] = Closed(@)]
  /\ reports' = reports \ {c}
  /\ UNCHANGED <<asked, accounts, moved>>

BindingStep ==
  \/ /\ \/ \E c \in Asking("account") : OpenAccount(c)
        \/ \E c \in Asking("funds") : MoveFunds(c)
        \/ \E c \in Asking("bind") : Bind(c)
        \/ \E c \in Asking("close") : ReadReport(c)
     /\ UNCHANGED <<asked, approvalVars>>
  \/ \E c \in Asking("close") : Close(c)

BindingsTyped ==
  /\ moved \subseteq accounts /\ accounts \subseteq Customer
  /\ bindings \in [Wallet -> [customer : Customer, state : {"ACTIVE", "CLOSED"},
                              customerVersion : 1..MaxVersion, walletVersion : 1..MaxVersion,
                              version : 1..2] \cup {None}]
  /\ reports \subseteq {c \in asked : c.op = "close"}

(* An account is bound once: closing its binding does not release it to    *)
(* another wallet of its customer, so a customer has at most one binding,  *)
(* and funds that have moved stay under the wallet they moved under.       *)
CustomersAreBoundOnce == \A p \in Customer : Cardinality(BoundTo(p)) <= 1
=============================================================================
