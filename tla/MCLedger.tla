------------------------------ MODULE MCLedger ------------------------------
(***************************************************************************)
(* Instances of Ledger for TLC: the cash account (1, a debit-normal asset  *)
(* account) and customers' wallets (2 and 3, credit-normal liabilities).   *)
(***************************************************************************)
EXTENDS Ledger, TLC

CONSTANTS r1, r2, r3

MCUnit == [a \in Account |-> "NGN"]
MCJournalId == Req \X (1..MaxAttempts)

(* n debited to one account and credited to another. *)
Move(from, to, n) ==
  [a \in Account |-> CASE a = to -> n [] a = from -> -n [] OTHER -> 0]

Ask(k, n, lines) ==
  [key |-> k, body |-> [unit |-> "NGN", note |-> n, lines |-> lines, rev |-> NoJournal]]

(* Debiting cash and crediting a wallet raises both. *)
Fund(k, w, n) == Ask(k, "a", Move(w, 1, n))
Spend(k, w, n) == Ask(k, "a", Move(1, w, n))

(* Wallet 2 is funded and requests race to spend the money, under one key  *)
(* or two.  Wallet 3 and cash may go negative, so that balances do not     *)
(* prevent a posting between them from being undone twice.  The last       *)
(* command does not balance.                                               *)
SpendingCommands ==
  {Fund("k1", 2, 1), Spend("k1", 2, 1), Spend("k2", 2, 1), Fund("k1", 3, 1),
   Ask("k3", "a", Move(1, 1, 1))}

Requests == Permutations(Req)

(* Without metrics there is no counter to lose, so that only the conflicts *)
(* of accounts keep the transactions apart.  MCLive has the counter.       *)
SpendNext ==
  \/ \E a \in Account : CreateAccount(a)
  \/ \E r \in Req :
       \/ Submit(r) \/ Fail(r)
       \/ ReverseCheckKey(r) \/ ReverseCheckDuplicate(r)
       \/ BeginTransaction(r) \/ LockAccount(r) \/ Validate(r)
       \/ InsertJournal(r) \/ KeyViolation(r) \/ ReversalViolation(r)
       \/ IncrementCounter(r) \/ Commit(r)
       \/ ReadWinner(r) \/ GetJournal(r)

SpendSpec == Init /\ [][SpendNext]_vars
=============================================================================
