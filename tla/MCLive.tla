-------------------------------- MODULE MCLive --------------------------------
(***************************************************************************)
(* That everyone is answered: small instances of Ledger, TransferLifecycle,*)
(* Payments and PolicyDecisions, under the fairness of each.  A behaviour  *)
(* is one of the four, its part; the variables of the others stay as they  *)
(* are.  What is promised of policy decisions is checked here as well.     *)
(***************************************************************************)
EXTENDS PolicyDecisions, TLC

CONSTANTS x, y, w1, w2, Settlement, p1, p3, p4, t1, j, h1, OutcomeKey, PostRecovery, k1, k2

VARIABLES
  part,
  pc, attempt, answer, journals,                        \* of the first three
  accounts, posted, snap, holder, found,                \* of the ledger
  post,                                                 \* of transfers
  blocked, target, held,                                \* of payments
  call,                                                 \* of the ledger and payments
  rows, funds, events, tx                               \* of transfers and payments
  \* those of PolicyDecisions, of which records is also one of transfers

ledgerVars == <<accounts, posted, snap, holder, found>>
postingVars == <<pc, attempt, answer, journals>>
paymentVars == <<blocked, target, held>>
fundVars == <<rows, funds, events, tx>>
decisionVars == <<story, work, active, decisions, snapshots, late, told, failed, expired>>
vars == <<part, postingVars, ledgerVars, post, paymentVars, call, fundVars, records, decisionVars>>

-----------------------------------------------------------------------------
(* Postings in both directions between two accounts, and one to a third    *)
(* account that is kept in another currency.                               *)
LedgerAccount == {1, 2, 4}
Unit == [a \in LedgerAccount |-> IF a > 3 THEN "KES" ELSE "NGN"]
Ids == Handler \X (1..3)
Move(k, from, to) ==
  [key |-> k, body |-> [unit |-> "NGN", note |-> "a", rev |-> None,
     lines |-> [a \in LedgerAccount |-> CASE a = to -> 1 [] a = from -> 0 - 1 [] OTHER -> 0]]]
Postings == {Move("k1", 2, 1), Move("k2", 1, 2), Move("k1", 4, 1)}

Ledgers == INSTANCE Ledger WITH
  Req <- Handler, Nobody <- None, NoJournal <- None, Account <- LedgerAccount,
  DebitNormal <- {1}, MayGoNegative <- {1, 2}, Key <- {"k1", "k2"}, Note <- {"a"},
  MaxMinor <- 10, MaxAttempts <- 2, Metrics <- TRUE, UnitOf <- Unit, JournalId <- Ids,
  Commands <- Postings

(* A transfer that operators start, recover and start again.               *)
Ask(key, next, ref) ==
  [key |-> key, next |-> next, expected |-> 0, journal |-> None, ref |-> ref,
   failure |-> FALSE]
Recovering ==
  {Ask(k1, "PROCESSING", None), Ask(k2, "PENDING_RECOVERY", PostRecovery),
   Ask(k2, "PROCESSING", None)}
From == t1 :> "a"
To == t1 :> "b"
Ones == t1 :> 1
Purses == [a \in {"a", "b"} |-> IF a = "a" THEN 1 ELSE 0]

Transfers == INSTANCE TransferLifecycle WITH
  Transfer <- {t1}, OtherJournal <- {j}, Account <- {"a", "b"}, Source <- From,
  Destination <- To, Amount <- Ones, Unpostable <- {}, Opening <- Purses, Key <- {k1},
  Hash <- {h1}, PostKey <- {k1}, Instruction <- Recovering, MaxAttempts <- 2, MaxVersion <- 3

(* One handler is asked for a transfer, the other for the same transfer or *)
(* the completion of a withdrawal.                                         *)
Pay(kind, peer) == [kind |-> kind, key |-> "k1", wallet |-> w1, peer |-> peer, amount |-> 1]
Commands == {Pay("withdrawal", w1), Pay("transfer", w2)}
Processing ==
  (p1 :> [command |-> Pay("withdrawal", w1), status |-> "PROCESSING", failure |-> "none"])
    @@ [p \in {p3, p4} |-> None]
Meeting ==
  {[op |-> "create", command |-> Pay("transfer", w2)], [op |-> "complete", payment |-> p1]}
Rich == [a \in {w1, w2, Settlement} |-> 1]
Ranks == w1 :> 1 @@ w2 :> 2 @@ Settlement :> 3

Payments == INSTANCE Payments WITH
  Wallet <- {w1, w2}, Key <- {"k1"}, Command <- Commands, Unpostable <- {},
  Payment <- {p1, p3, p4}, Existing <- Processing, Opening <- Rich, Asked <- Meeting,
  Suspendable <- {}, Rank <- Ranks, MaxAttempts <- 2

(* Evaluations of one request on two snapshots; evaluations that put their *)
(* decision over an earlier one; and more at a time than the process takes. *)
Evaluates(k, e) ==
  [op |-> "evaluate", key |-> k, request |-> h1, evidence |-> e, previous |-> None]
Reevaluates(k, e, previous) ==
  [Evaluates(k, e) EXCEPT !.op = "reevaluate", !.previous = previous]
Earlier == [request |-> h1, evidence |-> 1, over |-> None, by |-> None]
Together == [h \in Handler |-> w1]
Apart == x :> w1 @@ y :> w2
Stories ==
  {[calls |-> {Evaluates(k1, 1), Reevaluates(k1, 2, Earlier)}, home |-> Together, late |-> 0],
   [calls |-> {Reevaluates(k1, 1, None), Reevaluates(k2, 1, Earlier)}, home |-> Apart, late |-> 1],
   [calls |-> {Reevaluates(k1, 2, None), Reevaluates(k2, 2, None)}, home |-> Together, late |-> 0]}
Allowed == [e \in {1, 2} |-> "ALLOW"]

-----------------------------------------------------------------------------
NoPostings == pc = None /\ attempt = None /\ answer = None /\ journals = None
NoLedger == accounts = None /\ posted = None /\ snap = None /\ holder = None /\ found = None
NoTransfers == post = None
NoPayments == blocked = None /\ target = None /\ held = None
NoPolicies ==
  /\ story = None /\ work = None /\ active = None /\ decisions = None /\ snapshots = None
  /\ late = {} /\ told = {} /\ failed = {} /\ expired = {}
NoFunds == rows = None /\ funds = None /\ events = None /\ tx = None

Init ==
  \/ /\ part = "ledger" /\ Ledgers!Init
     /\ NoTransfers /\ NoPayments /\ NoFunds /\ NoPolicies /\ records = None
  \/ /\ part = "transfers" /\ Transfers!Init
     /\ NoLedger /\ NoPayments /\ NoPolicies /\ call = None
  \/ /\ part = "payments" /\ Payments!Init
     /\ NoLedger /\ NoTransfers /\ NoPolicies /\ records = None
  \/ /\ part = "policies" /\ InitPolicy
     /\ NoPostings /\ NoLedger /\ NoTransfers /\ NoPayments /\ NoFunds /\ call = None

InLedger(A) ==
  /\ part = "ledger" /\ A
  /\ UNCHANGED <<part, post, paymentVars, fundVars, records, decisionVars>>
InTransfers(A) ==
  part = "transfers" /\ A /\ UNCHANGED <<part, ledgerVars, paymentVars, call, decisionVars>>
InPayments(A) ==
  part = "payments" /\ A /\ UNCHANGED <<part, ledgerVars, post, records, decisionVars>>
InPolicies(A) ==
  /\ part = "policies" /\ A
  /\ UNCHANGED <<part, story, postingVars, ledgerVars, post, paymentVars, call, fundVars>>

Next ==
  \/ InLedger(Ledgers!Next)
  \/ InTransfers(Transfers!Next)
  \/ \E h \in Handler, c \in Meeting :
       (h = x => c.op = "create") /\ InPayments(Payments!Submit(h, c))
  \/ \E h \in Handler : InPayments(Payments!Run(h) \/ Payments!Fail(h))
  \/ InPolicies(Step)

(* A called handler is scheduled, and PostgreSQL aborts a transaction that *)
(* cannot commit; a started posting goes on, and an open transaction ends; *)
(* the handler of a payment goes on when it can, and strongly so: a lock   *)
(* may be free only now and then, and PostgreSQL gives it to those who     *)
(* wait for it in turn.                                                    *)
FairSpec ==
  /\ Init /\ [][Next]_vars
  /\ \A h \in Handler :
       /\ WF_vars(InLedger(Ledgers!Handle(h)))
       /\ WF_vars(InLedger(/\ pc[h] = "commit" /\ Ledgers!Conflicting(h) # {}
                           /\ Ledgers!SerializationFailure(h)))
       /\ WF_vars(InTransfers(Transfers!Run(h)))
       /\ SF_vars(InPayments(Payments!Run(h)))
       /\ WF_vars(InPolicies(Handle(h)))

-----------------------------------------------------------------------------
(* Whoever asks is answered, whatever the others do: a request of the      *)
(* ledger, a posting of a transfer, whose transaction ends as well, a call *)
(* of a payment, and a call for a policy decision, unless its process      *)
(* stops.                                                                  *)
Asks(h) ==
  \/ part = "ledger" /\ pc[h] # "idle"
  \/ part = "transfers" /\ pc[h] = "post"
  \/ part = "payments" /\ pc[h] # "idle"
  \/ part = "policies" /\ work[h] # None
Answered(h) ==
  \/ part = "ledger" /\ answer[h].kind # "pending"
  \/ part = "transfers" /\ pc[h] = "done" /\ tx[h] = None
  \/ part = "payments" /\ pc[h] = "idle"
  \/ part = "policies" /\ work[h] = None

EveryCallIsAnswered == \A h \in Handler : Asks(h) ~> Answered(h)
=============================================================================
