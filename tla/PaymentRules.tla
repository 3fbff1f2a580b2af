---------------------------- MODULE PaymentRules ----------------------------
(***************************************************************************)
(* The data of deposits, withdrawals and M3 wallet transfers               *)
(* (src/src/deposit, withdrawal, transfer, payment): what a command asks,  *)
(* what posting it does to the balances, and which statuses follow which.  *)
(*                                                                         *)
(* A wallet and its ledger account are one.  Balances are on the normal    *)
(* side of each account, so a deposit raises the settlement asset and the  *)
(* wallet alike.  A command stands for the hash of what it asks; its       *)
(* currency is that of its wallet, which never changes, or, for a          *)
(* transfer, it is in Unpostable.                                          *)
(***************************************************************************)
EXTENDS Integers

CONSTANTS
  Wallet,      \* wallets, and their ledger accounts
  Settlement,  \* the account PAYMENT-SETTLEMENT_ASSET
  Key,         \* idempotency keys
  Command,     \* what clients ask to create
  Unpostable   \* commands for which there is no settlement account, whose
               \* currencies differ, or whose accounts the ledger rejects

Kind == {"deposit", "withdrawal", "transfer"}
Account == Wallet \cup {Settlement}

(* A transfer moves from wallet to peer; SELF_TRANSFER is refused. *)
ASSUME CommandAssumption ==
  /\ Settlement \notin Wallet
  /\ Unpostable \subseteq Command
  /\ \A c \in Command :
       /\ c.kind \in Kind /\ c.key \in Key
       /\ c.wallet \in Wallet /\ c.peer \in Wallet
       /\ c.amount \in Nat \ {0}
       /\ (c.kind = "transfer") <=> (c.wallet # c.peer)

Statuses == {"PENDING", "PROCESSING", "COMPLETED", "FAILED", "CANCELLED"}
Terminal == {"COMPLETED", "FAILED", "CANCELLED"}

(* ALLOWED_TRANSITIONS, CREATED being no row yet. *)
Allowed(status) ==
  CASE status = "PENDING" -> {"PROCESSING", "COMPLETED", "FAILED", "CANCELLED"}
    [] status = "PROCESSING" -> {"COMPLETED", "FAILED", "CANCELLED"}
    [] OTHER -> {}

(* The status a completion starts from; those failing and cancelling do. *)
Due(c) == IF c.kind = "withdrawal" THEN "PROCESSING" ELSE "PENDING"
Unsettled(c) == {"PENDING", Due(c)}

Wallets(c) == {c.wallet, c.peer}

(* The accounts a posting raises, and those it lowers. *)
Raised(c) ==
  CASE c.kind = "deposit" -> {Settlement, c.wallet}
    [] c.kind = "transfer" -> {c.peer}
    [] OTHER -> {}
Lowered(c) ==
  CASE c.kind = "withdrawal" -> {Settlement, c.wallet}
    [] c.kind = "transfer" -> {c.wallet}
    [] OTHER -> {}
Moved(c) == Raised(c) \cup Lowered(c)

Posted(balance, c) ==
  [a \in Account |-> CASE a \in Raised(c) -> balance[a] + c.amount
                       [] a \in Lowered(c) -> balance[a] - c.amount
                       [] OTHER -> balance[a]]

Failures == {"WALLET_NOT_ACTIVE", "REJECTED", "INSUFFICIENT_FUNDS"}

(* Why the command cannot be posted, in the order of the code's checks;    *)
(* no account may be overdrawn, the settlement account included.           *)
Obstacle(c, blocked, balance) ==
  CASE Wallets(c) \cap blocked # {} -> "WALLET_NOT_ACTIVE"
    [] Wallets(c) \cap blocked = {} /\ c \in Unpostable -> "REJECTED"
    [] OTHER -> IF \A a \in Lowered(c) : balance[a] >= c.amount
                  THEN "none" ELSE "INSUFFICIENT_FUNDS"

RowOf(c, status, failure) == [command |-> c, status |-> status, failure |-> failure]
Row == [command : Command, status : Statuses, failure : Failures \cup {"none"}]

=============================================================================
