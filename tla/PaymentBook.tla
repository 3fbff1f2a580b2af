----------------------------- MODULE PaymentBook -----------------------------
(***************************************************************************)
(* What the payment services promise: every payment is opened once under   *)
(* its key and changes status one step at a time, each step judged on the  *)
(* wallets and balances of the instant it is taken, with the money moved   *)
(* in the step that completes it.                                          *)
(***************************************************************************)
EXTENDS PaymentRules

CONSTANTS Payment, None

VARIABLES
  rows,     \* the payments: command and status, or None
  funds,    \* the balances
  blocked   \* the wallets that are not active

vars == <<rows, funds, blocked>>

Init ==
  /\ rows \in [Payment -> Row \cup {None}]
  /\ funds \in [Account -> Nat]
  /\ blocked = {}

Set(p, c, status, failure) == rows' = [rows EXCEPT ![p] = RowOf(c, status, failure)]

KeyFree(c) ==
  \A p \in Payment :
    rows[p] # None => <<rows[p].command.kind, rows[p].command.key>> # <<c.kind, c.key>>

WalletsActive(c) == Wallets(c) \cap blocked = {}

Open(p, c) ==
  /\ rows[p] = None /\ KeyFree(c) /\ WalletsActive(c)
  /\ c.kind # "transfer"
  /\ Set(p, c, "PENDING", "none")
  /\ UNCHANGED <<funds, blocked>>

(* The money moves, or the payment fails because it cannot. *)
Settle(p, c) ==
  LET why == Obstacle(c, blocked, funds)
  IN /\ IF why = "none"
          THEN Set(p, c, "COMPLETED", "none") /\ funds' = Posted(funds, c)
          ELSE Set(p, c, "FAILED", why) /\ UNCHANGED funds
     /\ UNCHANGED blocked

Transfer(p, c) ==
  rows[p] = None /\ KeyFree(c) /\ c.kind = "transfer" /\ Settle(p, c)

Process(p, c, status) ==
  /\ status = "PENDING" /\ c.kind = "withdrawal" /\ WalletsActive(c)
  /\ Set(p, c, "PROCESSING", "none")
  /\ UNCHANGED <<funds, blocked>>

GiveUp(p, c, status) ==
  /\ status \in Unsettled(c)
  /\ Set(p, c, "FAILED", "REJECTED") \/ Set(p, c, "CANCELLED", "none")
  /\ UNCHANGED <<funds, blocked>>

Step(p, c, status) ==
  \/ Process(p, c, status)
  \/ status = Due(c) /\ Settle(p, c)
  \/ GiveUp(p, c, status)

Block == blocked' \in SUBSET Wallet /\ UNCHANGED <<rows, funds>>

Next ==
  \/ \E p \in Payment, c \in Command : Open(p, c) \/ Transfer(p, c)
  \/ \E p \in Payment : rows[p] # None /\ Step(p, rows[p].command, rows[p].status)
  \/ Block

Spec == Init /\ [][Next]_vars

=============================================================================
