------------------------------ MODULE Journals ------------------------------
(***************************************************************************)
(* The data of the double-entry ledger (src/src/ledger): accounts with a   *)
(* normal side, journals made of lines, and what posting lines does to the *)
(* balance the service computes for an account.                            *)
(*                                                                         *)
(* A journal's lines are abstracted to the net amount each account is      *)
(* debited, a credit being negative: the journal touches the accounts      *)
(* whose net is not zero.  The request hash is injective on what it        *)
(* covers, so two requests have the same hash when they have the same      *)
(* body.                                                                   *)
(***************************************************************************)
EXTENDS Integers, FiniteSets, Functions

CONSTANTS
  Account,        \* account ids, ordered as the sort of uuids orders them
  DebitNormal,    \* the accounts whose normal side is DEBIT
  MayGoNegative,  \* the accounts created with allowNegativeBalance
  UnitOf,         \* currency and accounting unit of each account
  Key,            \* idempotency keys
  Note,           \* descriptions: the part of a body that moves no money
  JournalId,      \* uuids of journals
  NoJournal,      \* "no journal": a null reversal_of_journal_id
  MaxMinor        \* the largest total a BIGINT column holds

ASSUME AccountsAssumption ==
  /\ Account \subseteq Nat /\ IsFiniteSet(Account)
  /\ DebitNormal \subseteq Account
  /\ MayGoNegative \subseteq Account
  /\ NoJournal \notin JournalId
  /\ MaxMinor \in Nat

Lines == [Account -> Int]

Body == [unit  : {UnitOf[a] : a \in Account},
         note  : Note,
         lines : Lines,
         rev   : JournalId \cup {NoJournal}]

Command == [key : Key, body : Body]

Journal == [id : JournalId, key : Key, body : Body]

Touched(lines) == {a \in Account : lines[a] # 0}
Debits(lines) == {a \in Account : lines[a] > 0}

(* Total of the debits, and debits less credits. *)
TotalMinor(lines) == SumFunctionOnSet(lines, Debits(lines))
NetDebit(lines) == SumFunction(lines)

(* Mutant: the totals are not compared. *)
NormalizedUnbalanced(lines) ==
  /\ Touched(lines) # {}
  /\ TotalMinor(lines) <= MaxMinor

(* What normalizeJournal accepts of the lines. *)
Normalized(lines) ==
  /\ Touched(lines) # {}
  /\ NetDebit(lines) = 0
  /\ TotalMinor(lines) <= MaxMinor

(* isNormalDirection: a line on the normal side raises the balance. *)
Effect(a, n) == IF a \in DebitNormal THEN n ELSE -n

(* The balances after the lines, given the balances before them. *)
Projected(balance, lines) ==
  [a \in Account |-> balance[a] + Effect(a, lines[a])]

(* The accounts the service may not leave below zero. *)
Overdrawn(balance, S) == {a \in S \ MayGoNegative : balance[a] < 0}

(* reverseJournal swaps the direction of every line. *)
Swapped(lines) == [a \in Account |-> -lines[a]]

KeyTaken(js, k) == \E j \in js : j.key = k
ByKey(js, k) == CHOOSE j \in js : j.key = k
IdTaken(js, i) == \E j \in js : j.id = i
ById(js, i) == CHOOSE j \in js : j.id = i
ReversalOf(js, i) == {j \in js : j.body.rev = i}

=============================================================================
