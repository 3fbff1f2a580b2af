--------------------------- MODULE Payments_proofs ---------------------------
(***************************************************************************)
(* Proofs about Payments: PaymentInv is an inductive invariant, the safety *)
(* properties follow from it, and the services implement PaymentBook, for  *)
(* every number of payments, wallets, handlers and attempts.               *)
(*                                                                         *)
(* A step either leaves the database alone, or suspends a wallet that is   *)
(* not locked, or saves one row on a judgement that still holds, since     *)
(* what the judgement rests on is locked.                                  *)
(***************************************************************************)
EXTENDS Payments, FiniteInduction, TLAPS

Snapshot == [rows : [Payment -> Row \cup {None}], funds : [Account -> Int],
             blocked : SUBSET Wallet]

TypesHold ==
  /\ TypeOK
  /\ tx \in [Handler -> Snapshot \cup {None}]
  /\ held = [h \in Handler |-> held[h]]
  /\ answer = [h \in Handler |-> answer[h]]

(* A call is about a payment that exists, or creates one. *)
CallFits(h) ==
  /\ pc[h] = "idle" => target[h] = None
  /\ pc[h] # "idle" =>
       /\ call[h] \in Asked
       /\ call[h].op # "create" =>
            /\ rows[call[h].payment] # None
            /\ rows[call[h].payment].command.kind # "transfer"
            /\ call[h].op = "process" => rows[call[h].payment].command.kind = "withdrawal"
  /\ pc[h] = "winner" => call[h].op = "create"
  /\ pc[h] \in {"run", "lost", "read"} =>
       /\ target[h] \in Payment
       /\ call[h].op # "create" => target[h] = call[h].payment
  /\ pc[h] = "read" /\ call[h].op = "create" /\ rows[target[h]] # None =>
       rows[target[h]].command = call[h].command

(* Payments only come and keep their commands; the one that h is about to  *)
(* insert is not there.                                                    *)
SnapshotFits(h) ==
  tx[h] # None =>
    /\ \A p \in Payment : tx[h].rows[p] # None =>
         rows[p] # None /\ rows[p].command = tx[h].rows[p].command
    /\ call[h].op # "create" => tx[h].rows[target[h]] # None
    /\ call[h].op = "create" =>
         IF Inserts(h) THEN rows[target[h]] = None
                       ELSE tx[h].rows[target[h]] # None

Firm == {"row", "wallet", "key"}

(* What h has locked is as h read it. *)
LocksFit(h) ==
  /\ tx[h] = None => held[h] = {}
  /\ tx[h] # None => held[h] \subseteq Needs(h)
  /\ \A r \in held[h] : r.class \in Firm => Fresh(h, r)

AnswerIsTrue(h) ==
  answer[h].kind = "view" =>
    LET p == answer[h].payment
    IN /\ p \in Payment
       /\ rows[p] # None /\ rows[p].command = answer[h].command
       /\ call[h].op = "create" => answer[h].command = call[h].command
       /\ answer[h].status \in Terminal => rows[p].status = answer[h].status

HandlerFits(h) == CallFits(h) /\ SnapshotFits(h) /\ LocksFit(h) /\ AnswerIsTrue(h)

(* Two handlers never hold one lock, nor insert under one uuid. *)
Apart(g, h) ==
  /\ held[g] \cap held[h] = {}
  /\ target[h] # None /\ target[g] = target[h] => rows[target[h]] # None

DataHolds == OutcomesAreWhole /\ OnePaymentPerKey /\ NobodyOverdrawn

PaymentInv ==
  /\ TypesHold
  /\ DataHolds
  /\ \A h \in Handler : HandlerFits(h)
  /\ \A g, h \in Handler : g # h => Apart(g, h)

-----------------------------------------------------------------------------
(* What a transaction decides *)

(* null is nothing else. *)
LEMMA NullIsNothing ==
  /\ \A row \in Row : row # None
  /\ \A c \in Asked : c # None
  /\ \A p \in Payment : p # None
  /\ \A s \in Snapshot : s # None
BY NullPaymentAssumption, PaymentAssumption DEF Snapshot

(* The shape of a call. *)
LEMMA CallShape ==
  ASSUME NEW c \in Asked
  PROVE  /\ c.op \in {"create", "process", "complete", "fail", "cancel"}
         /\ c.op = "create" => c.command \in Command
         /\ c.op # "create" => c.payment \in Payment
BY PaymentAssumption DEF Calls

(* The statuses a payment can leave. *)
LEMMA UnsettledIsOpen ==
  ASSUME NEW c
  PROVE  /\ Unsettled(c) \subseteq {"PENDING", "PROCESSING"}
         /\ Due(c) \in Unsettled(c)
         /\ \A s \in {"PENDING", "PROCESSING"} :
              {"COMPLETED", "FAILED", "CANCELLED"} \subseteq Allowed(s)
BY DEF Unsettled, Due, Allowed

(* While a transaction is open, what it saw and locks stays the same. *)
LEMMA DecisionStays ==
  ASSUME NEW h \in Handler,
         tx'[h] = tx[h], call'[h] = call[h], target'[h] = target[h]
  PROVE  /\ Subject(h)' = Subject(h)
         /\ Inserts(h)' = Inserts(h)
         /\ Needs(h)' = Needs(h)
<1>1. Subject(h)' = Subject(h) /\ StatusRead(h)' = StatusRead(h)
  BY DEF Subject, StatusRead
<1>2. Inserts(h)' = Inserts(h) /\ Completes(h)' = Completes(h)
  BY <1>1 DEF Inserts, Completes, Under, KeyOf, Due
<1>3. Settles(h)' = Settles(h) /\ WhyNot(h)' = WhyNot(h) /\ Blocked(h)' = Blocked(h)
  BY <1>1, <1>2 DEF Settles, WhyNot, Blocked
<1>4. Settled(h)' = Settled(h)
  BY <1>3 DEF Settled
<1>5. Creation(h)' = Creation(h)
  BY <1>1, <1>2, <1>3, <1>4 DEF Creation
<1>6. ASSUME NEW from, NEW to
      PROVE  Change(h, from, to)' = Change(h, from, to)
  BY <1>1 DEF Change
<1>7. Verdict(h)' = Verdict(h)
  BY <1>1, <1>2, <1>3, <1>4, <1>5 DEF Verdict, Change
<1>8. ChecksWallets(h)' = ChecksWallets(h)
  BY <1>1, <1>2, <1>3 DEF ChecksWallets
<1> QED
  BY <1>1, <1>2, <1>3, <1>7, <1>8 DEF Needs

(* The four ways to change a row. *)
OpensPayment(h) ==
  /\ Inserts(h) /\ ~ Settles(h) /\ ~ Blocked(h)
  /\ Subject(h).kind # "transfer"
  /\ Verdict(h) = "PENDING" /\ Failure(h) = "none"

SettlesPayment(h) ==
  /\ Settles(h) /\ (Inserts(h) \/ Completes(h))
  /\ Verdict(h) = Settled(h) /\ Failure(h) = WhyNot(h)

ProcessesPayment(h) ==
  /\ call[h].op = "process" /\ StatusRead(h) = "PENDING" /\ ~ Blocked(h)
  /\ Verdict(h) = "PROCESSING" /\ Failure(h) = "none"

GivesUpPayment(h) ==
  /\ call[h].op \in {"fail", "cancel"} /\ StatusRead(h) \in Unsettled(Subject(h))
  /\ \/ Verdict(h) = "FAILED" /\ Failure(h) = "REJECTED"
     \/ Verdict(h) = "CANCELLED" /\ Failure(h) = "none"

(* A verdict that changes the row is one of these. *)
LEMMA VerdictCases ==
  ASSUME NEW h \in Handler, call[h] \in Asked, Verdict(h) \in Statuses
  PROVE  \/ OpensPayment(h)
         \/ SettlesPayment(h)
         \/ ProcessesPayment(h)
         \/ GivesUpPayment(h)
<1> USE DEF Statuses
<1>1. CASE call[h].op = "create"
  <2>1. Verdict(h) = Creation(h)
    BY <1>1 DEF Verdict
  <2>2. Inserts(h)
    BY <1>1, <2>1 DEF Creation, Settles, Completes
  <2> QED
    BY <1>1, <2>1, <2>2 DEF Creation, OpensPayment, SettlesPayment, Failure, Settles, Completes, Settled
<1>2. CASE call[h].op = "process"
  BY <1>2 DEF Verdict, Change, ProcessesPayment, Failure, Settles, Completes, Inserts
<1>3. CASE call[h].op = "complete"
  BY <1>3 DEF Verdict, Change, SettlesPayment, Failure, Settles
<1>4. CASE call[h].op = "fail"
  BY <1>4 DEF Verdict, Change, GivesUpPayment, Failure, Settles, Completes, Inserts
<1>5. CASE call[h].op = "cancel"
  BY <1>5 DEF Verdict, Change, GivesUpPayment, Failure, Settles, Completes, Inserts
<1> QED
  BY <1>1, <1>2, <1>3, <1>4, <1>5, CallShape

-----------------------------------------------------------------------------
(* What a lock says *)

(* What each lock protects. *)
LEMMA ValueFacts ==
  ASSUME NEW s, NEW x
  PROVE  /\ Value(Lock("row", x), s) = s.rows[x]
         /\ Value(Lock("wallet", x), s) = (x \in s.blocked)
         /\ Value(Lock("key", x), s) = Under(s, x)
         /\ Value(Lock("account", x), s) = s.funds[x]
BY DEF Value, Lock

(* A fresh lock protects what is there now. *)
LEMMA FreshFacts ==
  ASSUME NEW h, NEW x
  PROVE  /\ Fresh(h, Lock("row", x)) <=> tx[h].rows[x] = rows[x]
         /\ Fresh(h, Lock("wallet", x)) <=> (x \in tx[h].blocked <=> x \in blocked)
         /\ Fresh(h, Lock("key", x)) <=> Under(tx[h], x) = Under(Now, x)
         /\ Fresh(h, Lock("account", x)) <=> tx[h].funds[x] = funds[x]
<1>1. Now.rows = rows /\ Now.funds = funds /\ Now.blocked = blocked
  BY DEF Now
<1> QED
  BY <1>1, ValueFacts DEF Fresh

(* A lock stays fresh while what it protects stays. *)
LEMMA FreshStays ==
  ASSUME NEW h, NEW r, Fresh(h, r), tx'[h] = tx[h], Value(r, Now') = Value(r, Now)
  PROVE  Fresh(h, r)'
BY DEF Fresh

(* The locks of a transaction. *)
LEMMA NeedsFacts ==
  ASSUME NEW h \in Handler
  PROVE  /\ call[h].op # "create" => Lock("row", target[h]) \in Needs(h)
         /\ ChecksWallets(h) => \A w \in Wallets(Subject(h)) : Lock("wallet", w) \in Needs(h)
         /\ Inserts(h) /\ Verdict(h) # "refused" => Lock("key", KeyOf(Subject(h))) \in Needs(h)
         /\ Settles(h) /\ ~ Blocked(h) =>
              \A a \in Moved(Subject(h)) : Lock("account", a) \in Needs(h)
BY DEF Needs

(* The shape of a lock. *)
LEMMA NeedsShape ==
  ASSUME NEW h \in Handler, NEW r \in Needs(h)
  PROVE  /\ r = Lock(r.class, r.name)
         /\ r.class = "row" => r.name = target[h] /\ call[h].op # "create"
         /\ r.class = "key" => Inserts(h)
         /\ r.class = "count" => Verdict(h) \in {"COMPLETED", "FAILED"}
BY DEF Needs, Lock

(* The payments of a key depend on the rows only. *)
LEMMA UnderFacts ==
  ASSUME NEW s, NEW t, s.rows = t.rows, NEW k
  PROVE  Under(s, k) = Under(t, k)
BY DEF Under

-----------------------------------------------------------------------------
(* What a transaction that commits has judged *)

(* The transaction of h is about to change its row. *)
Saving(h) ==
  /\ tx[h] # None /\ call[h] \in Asked /\ target[h] \in Payment
  /\ Needs(h) \subseteq held[h] /\ Serializable(h)
  /\ Verdict(h) \in Statuses

(* The row, the wallets, the key and the balances are what they were. *)
LEMMA SavingIsFresh ==
  ASSUME TypesHold, NEW h \in Handler, HandlerFits(h), Saving(h)
  PROVE  /\ call[h].op # "create" => tx[h].rows[target[h]] = rows[target[h]]
         /\ ChecksWallets(h) =>
              \A w \in Wallets(Subject(h)) : w \in tx[h].blocked <=> w \in blocked
         /\ Inserts(h) => Under(Now, KeyOf(Subject(h))) = {}
         /\ Settles(h) /\ ~ Blocked(h) =>
              \A a \in Moved(Subject(h)) : tx[h].funds[a] = funds[a]
<1>1. ASSUME NEW x, NEW class \in Firm, Lock(class, x) \in Needs(h)
      PROVE  Fresh(h, Lock(class, x))
  BY <1>1 DEF Saving, HandlerFits, LocksFit, Lock
<1>2. Verdict(h) # "refused"
  BY DEF Saving, Statuses
<1>3. call[h].op # "create" => tx[h].rows[target[h]] = rows[target[h]]
  BY <1>1, NeedsFacts, FreshFacts DEF Firm
<1>4. ChecksWallets(h) =>
        \A w \in Wallets(Subject(h)) : w \in tx[h].blocked <=> w \in blocked
  BY <1>1, NeedsFacts, FreshFacts DEF Firm
<1>5. ASSUME Inserts(h)
      PROVE  Under(Now, KeyOf(Subject(h))) = {}
  <2>1. Under(tx[h], KeyOf(Subject(h))) = {}
    BY <1>5 DEF Inserts, Subject
  <2> QED
    BY <1>1, <1>2, <1>5, <2>1, NeedsFacts, FreshFacts DEF Firm
<1>6. ASSUME Settles(h), ~ Blocked(h), NEW a \in Moved(Subject(h))
      PROVE  tx[h].funds[a] = funds[a]
  <2>1. Fresh(h, Lock("account", a))
    BY <1>6, NeedsFacts DEF Saving, Serializable, Lock
  <2> QED
    BY <2>1, FreshFacts
<1> QED
  BY <1>3, <1>4, <1>5, <1>6

(* So an obstacle that the transaction found, or did not, is there, or not. *)
LEMMA ObstacleStands ==
  ASSUME TypesHold, NEW h \in Handler, HandlerFits(h), Saving(h), Settles(h)
  PROVE  WhyNot(h) = Obstacle(Subject(h), blocked, funds)
<1>1. ChecksWallets(h)
  BY DEF ChecksWallets
<1>2. Wallets(Subject(h)) \cap tx[h].blocked = {} <=> Wallets(Subject(h)) \cap blocked = {}
  BY <1>1, SavingIsFresh
<1>3. CASE Blocked(h)
  BY <1>2, <1>3 DEF Blocked, WhyNot, Obstacle
<1>4. CASE ~ Blocked(h)
  <2>1. \A a \in Lowered(Subject(h)) : tx[h].funds[a] = funds[a]
    BY <1>4, SavingIsFresh DEF Moved
  <2>2. (\A a \in Lowered(Subject(h)) : tx[h].funds[a] >= Subject(h).amount)
          <=> (\A a \in Lowered(Subject(h)) : funds[a] >= Subject(h).amount)
    BY <2>1
  <2> QED
    BY <1>2, <1>4, <2>2 DEF Blocked, WhyNot, Obstacle
<1> QED
  BY <1>3, <1>4

-----------------------------------------------------------------------------
(* Steps of one handler *)

(* Only h moves. *)
Own(h) ==
  /\ pc' = [pc EXCEPT ![h] = pc'[h]]
  /\ call' = [call EXCEPT ![h] = call'[h]]
  /\ target' = [target EXCEPT ![h] = target'[h]]
  /\ attempt' = [attempt EXCEPT ![h] = attempt'[h]]
  /\ tx' = [tx EXCEPT ![h] = tx'[h]]
  /\ held' = [held EXCEPT ![h] = held'[h]]
  /\ answer' = [answer EXCEPT ![h] = answer'[h]]

Same(g) ==
  /\ pc'[g] = pc[g] /\ call'[g] = call[g] /\ target'[g] = target[g]
  /\ tx'[g] = tx[g] /\ held'[g] = held[g] /\ answer'[g] = answer[g]

(* The others do not. *)
LEMMA OthersSame ==
  ASSUME TypesHold, NEW h \in Handler, Own(h), NEW g \in Handler, g # h
  PROVE  Same(g)
BY DEF TypesHold, TypeOK, Own, Same

(* The types of h's part and of the database are those of the state. *)
LEMMA OwnTypes ==
  ASSUME TypesHold, NEW h \in Handler, Own(h),
         pc'[h] \in {"idle", "begin", "run", "winner", "read", "lost"},
         call'[h] \in Asked \cup {None},
         target'[h] \in Payment \cup {None},
         attempt'[h] \in 1..MaxAttempts,
         tx'[h] \in Snapshot \cup {None},
         pc'[h] \in {"run", "lost"} <=> tx'[h] # None,
         rows' \in [Payment -> Row \cup {None}],
         journals' \subseteq Payment,
         funds' \in [Account -> Int],
         blocked' \subseteq Wallet,
         events' \in [Payment -> Seq(Statuses)]
  PROVE  TypesHold'
<1>1. /\ pc' \in [Handler -> {"idle", "begin", "run", "winner", "read", "lost"}]
      /\ call' \in [Handler -> Asked \cup {None}]
      /\ target' \in [Handler -> Payment \cup {None}]
      /\ attempt' \in [Handler -> 1..MaxAttempts]
      /\ tx' \in [Handler -> Snapshot \cup {None}]
  BY DEF TypesHold, TypeOK, Own
<1>2. held' = [g \in Handler |-> held'[g]] /\ answer' = [g \in Handler |-> answer'[g]]
  BY DEF TypesHold, Own
<1>3. ASSUME NEW g \in Handler
      PROVE  pc'[g] \in {"run", "lost"} <=> tx'[g] # None
  <2>1. CASE g = h
    BY <2>1
  <2>2. CASE g # h
    <3>1. Same(g)
      BY <2>2, OthersSame
    <3> QED
      BY <3>1 DEF TypesHold, TypeOK, Same
  <2> QED
    BY <2>1, <2>2
<1> QED
  BY <1>1, <1>2, <1>3 DEF TypesHold, TypeOK

(* What the invariant says of a handler, when neither it nor the database  *)
(* changes.                                                                *)
LEMMA IdleFits ==
  ASSUME TypesHold, NEW g \in Handler, HandlerFits(g), Same(g), UNCHANGED db
  PROVE  HandlerFits(g)'
<1>1. Needs(g)' = Needs(g) /\ Inserts(g)' = Inserts(g)
  BY DecisionStays DEF Same
<1>2. \A r : Fresh(g, r)' <=> Fresh(g, r)
  BY DEF Fresh, Value, Under, Now, db, Same
<1>3. CallFits(g)'
  BY DEF HandlerFits, CallFits, Same, db
<1>4. SnapshotFits(g)'
  BY <1>1 DEF HandlerFits, SnapshotFits, Same, db
<1>5. LocksFit(g)'
  BY <1>1, <1>2 DEF HandlerFits, LocksFit, Same
<1>6. AnswerIsTrue(g)'
  BY DEF HandlerFits, AnswerIsTrue, Same, db
<1> QED
  BY <1>3, <1>4, <1>5, <1>6 DEF HandlerFits

(* The database keeps what the invariant says of it. *)
LEMMA IdleData ==
  ASSUME DataHolds, UNCHANGED db
  PROVE  DataHolds'
BY DEF DataHolds, OutcomesAreWhole, Whole, OnePaymentPerKey, NobodyOverdrawn, Has, db

(* What a step of h must show when the database stays. *)
LEMMA QuietStep ==
  ASSUME PaymentInv, NEW h \in Handler, Own(h), UNCHANGED db,
         TypesHold', HandlerFits(h)',
         \A g \in Handler : g # h => Apart(g, h)' /\ Apart(h, g)'
  PROVE  PaymentInv'
<1>1. ASSUME NEW g \in Handler, g # h
      PROVE  Same(g) /\ HandlerFits(g)'
  BY <1>1, OthersSame, IdleFits DEF PaymentInv
<1>2. ASSUME NEW g \in Handler, NEW k \in Handler, g # k
      PROVE  Apart(g, k)'
  <2>1. CASE g = h \/ k = h
    BY <1>2, <2>1
  <2>2. CASE g # h /\ k # h
    BY <1>1, <1>2, <2>2 DEF PaymentInv, Apart, Same, db
  <2> QED
    BY <2>1, <2>2
<1>3. DataHolds'
  BY IdleData DEF PaymentInv
<1> QED
  BY <1>1, <1>2, <1>3 DEF PaymentInv

(* A step after which h has no transaction. *)
Closed(h) ==
  /\ Own(h)
  /\ tx'[h] = None /\ held'[h] = {} /\ call'[h] = call[h]
  /\ attempt'[h] \in 1..MaxAttempts
  /\ \/ pc'[h] = "idle" /\ target'[h] = None
     \/ /\ pc[h] # "idle" /\ pc'[h] \in {"begin", "winner", "read"}
        /\ \/ target'[h] = target[h]
           \/ target'[h] \in Payment /\ rows'[target'[h]] # None
        /\ pc'[h] = "winner" => call[h].op = "create"
        /\ pc'[h] = "read" =>
             /\ target'[h] \in Payment
             /\ call[h].op # "create" => target'[h] = call[h].payment
             /\ call[h].op = "create" /\ rows'[target'[h]] # None =>
                  rows'[target'[h]].command = call[h].command
  /\ AnswerIsTrue(h)'

(* It keeps the invariant when the database stays. *)
LEMMA ClosedKeeps ==
  ASSUME PaymentInv, NEW h \in Handler, Closed(h), UNCHANGED db
  PROVE  PaymentInv'
<1> USE DEF PaymentInv
<1>1. TypesHold'
  <2>1. target'[h] \in Payment \cup {None} /\ call'[h] \in Asked \cup {None}
    BY DEF Closed, TypesHold, TypeOK
  <2>2. pc'[h] \in {"idle", "begin", "winner", "read"}
    BY DEF Closed
  <2> QED
    BY <2>1, <2>2, OwnTypes DEF Closed, TypesHold, TypeOK, db
<1>2. CallFits(h)'
  BY NullIsNothing DEF Closed, HandlerFits, CallFits, db
<1>3. SnapshotFits(h)' /\ LocksFit(h)'
  BY DEF Closed, SnapshotFits, LocksFit
<1>4. HandlerFits(h)'
  BY <1>2, <1>3 DEF HandlerFits, Closed
<1>5. ASSUME NEW g \in Handler, g # h
      PROVE  Apart(g, h)' /\ Apart(h, g)'
  <2>1. Same(g) /\ Apart(g, h) /\ Apart(h, g)
    BY <1>5, OthersSame DEF Closed
  <2> QED
    BY <2>1 DEF Apart, Same, Closed, db
<1> QED
  BY <1>1, <1>4, <1>5, QuietStep DEF Closed

-----------------------------------------------------------------------------
(* The steps that leave the database alone *)

(* Helpers of an action touch h only. *)
LEMMA HelperFacts ==
  ASSUME TypesHold, NEW h \in Handler, NEW a, NEW stage
  PROVE  /\ Goto(h, stage) => pc' = [pc EXCEPT ![h] = pc'[h]] /\ pc'[h] = stage
         /\ Leave(h) => /\ target' = [target EXCEPT ![h] = target'[h]]
                        /\ attempt' = [attempt EXCEPT ![h] = attempt'[h]]
                        /\ target'[h] = None /\ attempt'[h] = 1
         /\ EndTransaction(h) => /\ tx' = [tx EXCEPT ![h] = tx'[h]]
                                 /\ held' = [held EXCEPT ![h] = held'[h]]
                                 /\ tx'[h] = None /\ held'[h] = {}
         /\ Reply(h, a) => /\ answer' = [answer EXCEPT ![h] = answer'[h]]
                           /\ answer'[h] = a
BY DEF TypesHold, TypeOK, Goto, Leave, EndTransaction, Reply

(* What a variable is that does not change. *)
LEMMA UnchangedFacts ==
  ASSUME TypesHold, NEW h \in Handler
  PROVE  /\ pc' = pc => pc' = [pc EXCEPT ![h] = pc'[h]]
         /\ call' = call => call' = [call EXCEPT ![h] = call'[h]]
         /\ target' = target => target' = [target EXCEPT ![h] = target'[h]]
         /\ attempt' = attempt => attempt' = [attempt EXCEPT ![h] = attempt'[h]]
         /\ tx' = tx => tx' = [tx EXCEPT ![h] = tx'[h]]
         /\ held' = held => held' = [held EXCEPT ![h] = held'[h]]
         /\ answer' = answer => answer' = [answer EXCEPT ![h] = answer'[h]]
BY DEF TypesHold, TypeOK

(* A handler without a transaction has no locks, and one that runs has one. *)
LEMMA OpenFacts ==
  ASSUME PaymentInv, NEW h \in Handler
  PROVE  /\ pc[h] \in {"run", "lost"} <=> tx[h] # None
         /\ tx[h] = None => held[h] = {}
         /\ attempt[h] \in 1..MaxAttempts /\ 1 \in 1..MaxAttempts
BY PaymentAssumption DEF PaymentInv, TypesHold, TypeOK, HandlerFits, LocksFit

(* An answer that shows no payment is true of the payments. *)
LEMMA RefusalIsTrue ==
  ASSUME NEW h \in Handler, NEW why \in {"conflict", "error", "not_found"},
         answer'[h] = Refused(why)
  PROVE  AnswerIsTrue(h)'
BY DEF AnswerIsTrue, Refused

(* The old answer is true while the database stays. *)
LEMMA OldAnswerIsTrue ==
  ASSUME PaymentInv, NEW h \in Handler, UNCHANGED db,
         call'[h] = call[h], answer'[h] = answer[h]
  PROVE  AnswerIsTrue(h)'
BY DEF PaymentInv, HandlerFits, AnswerIsTrue, db

(* h gives up with an error. *)
LEMMA RefusalKeeps ==
  ASSUME PaymentInv, NEW h \in Handler, UNCHANGED db, call' = call,
         NEW why \in {"conflict", "error", "not_found"}, Reply(h, Refused(why)),
         EndTransaction(h)
  PROVE  PaymentInv'
<1>1. TypesHold
  BY DEF PaymentInv
<1>2. Goto(h, "idle") /\ Leave(h)
  BY DEF Reply
<1>3. Own(h)
  BY <1>1, <1>2, HelperFacts, UnchangedFacts DEF Own
<1>4. /\ pc'[h] = "idle" /\ target'[h] = None /\ attempt'[h] = 1
      /\ tx'[h] = None /\ held'[h] = {} /\ answer'[h] = Refused(why)
  BY <1>1, <1>2, HelperFacts
<1> QED
  BY <1>3, <1>4, OpenFacts, RefusalIsTrue, ClosedKeeps DEF Closed

(* h goes on without a transaction. *)
LEMMA GoingKeeps ==
  ASSUME PaymentInv, NEW h \in Handler, UNCHANGED <<db, call, target, answer>>,
         NEW stage \in {"begin", "winner", "read"}, Goto(h, stage), pc[h] # "idle",
         EndTransaction(h),
         attempt' = [attempt EXCEPT ![h] = attempt'[h]], attempt'[h] \in 1..MaxAttempts,
         stage = "winner" => call[h].op = "create",
         stage = "read" => /\ target[h] \in Payment
                           /\ call[h].op # "create" => target[h] = call[h].payment
                           /\ call[h].op = "create" /\ rows[target[h]] # None =>
                                rows[target[h]].command = call[h].command
  PROVE  PaymentInv'
<1>1. TypesHold
  BY DEF PaymentInv
<1>2. Own(h)
  BY <1>1, HelperFacts, UnchangedFacts DEF Own
<1>3. pc'[h] = stage /\ tx'[h] = None /\ held'[h] = {}
  BY <1>1, HelperFacts
<1>4. AnswerIsTrue(h)'
  BY OldAnswerIsTrue
<1> QED
  BY <1>2, <1>3, <1>4, ClosedKeeps DEF Closed, db

(* What the invariant says of an open transaction. *)
LEMMA RunFacts ==
  ASSUME PaymentInv, NEW h \in Handler, tx[h] # None
  PROVE  /\ pc[h] \in {"run", "lost"}
         /\ tx[h] \in Snapshot
         /\ call[h] \in Asked /\ target[h] \in Payment
         /\ call[h].op # "create" => target[h] = call[h].payment
         /\ HandlerFits(h)
BY OpenFacts DEF PaymentInv, TypesHold, HandlerFits, CallFits

(* A transaction that met the key goes to look for the winner. *)
LEMMA KeyViolationKeeps ==
  ASSUME PaymentInv, NEW h \in Handler, KeyViolation(h)
  PROVE  PaymentInv'
<1>1. pc[h] = "run"
  BY DEF KeyViolation, Wanted
<1>2. attempt' = [attempt EXCEPT ![h] = attempt'[h]]
  BY UnchangedFacts DEF PaymentInv, KeyViolation
<1>3. attempt'[h] \in 1..MaxAttempts
  BY OpenFacts DEF KeyViolation
<1>4. call[h].op = "create"
  BY NeedsShape DEF KeyViolation, Wanted, Inserts
<1> QED
  BY <1>1, <1>2, <1>3, <1>4, GoingKeeps DEF KeyViolation

(* The winner is the payment of the key. *)
LEMMA ReadWinnerKeeps ==
  ASSUME PaymentInv, NEW h \in Handler, ReadWinner(h)
  PROVE  PaymentInv'
<1>1. tx[h] = None /\ held[h] = {} /\ TypesHold /\ pc[h] # "idle"
  BY OpenFacts DEF ReadWinner, PaymentInv
<1>2. tx'[h] = None /\ held'[h] = {} /\ call' = call
  BY <1>1 DEF ReadWinner
<1>3. PICK p \in Under(Now, KeyOf(call[h].command)) :
        IF rows[p].command = call[h].command
          THEN /\ target' = [target EXCEPT ![h] = p]
               /\ Goto(h, "read")
               /\ UNCHANGED <<attempt, answer>>
          ELSE Reply(h, Refused("conflict"))
  BY DEF ReadWinner
<1>4. p \in Payment /\ rows[p] # None
  BY DEF Under, Now
<1>5. CASE rows[p].command = call[h].command
  <2>1. Goto(h, "read") /\ attempt' = attempt /\ answer' = answer
        /\ target' = [target EXCEPT ![h] = p]
    BY <1>3, <1>5
  <2>2. target'[h] = p /\ target' = [target EXCEPT ![h] = target'[h]]
    BY <1>1, <2>1 DEF TypesHold, TypeOK
  <2>3. Own(h)
    BY <1>1, <2>1, <2>2, HelperFacts, UnchangedFacts DEF ReadWinner, Own
  <2>4. pc'[h] = "read" /\ attempt'[h] \in 1..MaxAttempts
    BY <1>1, <2>1, HelperFacts, OpenFacts
  <2>5. AnswerIsTrue(h)'
    BY <2>1, OldAnswerIsTrue DEF ReadWinner
  <2>6. call[h].op = "create"
    BY DEF PaymentInv, HandlerFits, CallFits, ReadWinner
  <2> QED
    BY <1>1, <1>2, <1>4, <1>5, <2>2, <2>3, <2>4, <2>5, <2>6, ClosedKeeps
       DEF Closed, ReadWinner, db
<1>6. CASE rows[p].command # call[h].command
  <2>1. Reply(h, Refused("conflict"))
    BY <1>3, <1>6
  <2>2. Goto(h, "idle") /\ Leave(h)
    BY <2>1 DEF Reply
  <2>3. Own(h)
    BY <1>1, <2>1, <2>2, HelperFacts, UnchangedFacts DEF Own, ReadWinner
  <2> QED
    BY <1>1, <1>2, <2>1, <2>2, <2>3, HelperFacts, OpenFacts, RefusalIsTrue, ClosedKeeps
       DEF Closed, ReadWinner
<1> QED
  BY <1>5, <1>6

(* A metric is counted after a row was inserted or found. *)
LEMMA LoseCounterKeeps ==
  ASSUME PaymentInv, NEW h \in Handler, LoseCounter(h)
  PROVE  PaymentInv'
<1>1. pc[h] = "run" /\ tx[h] # None /\ EndTransaction(h) /\ UNCHANGED <<db, call>>
  BY OpenFacts DEF LoseCounter, Wanted
<1>2. CASE Reply(h, Refused("error"))
  BY <1>1, <1>2, RefusalKeeps
<1>3. CASE /\ \E r \in Needs(h) : r.class = "count"
           /\ Goto(h, "read") /\ UNCHANGED <<target, attempt, answer>>
  <2>1. Verdict(h) \in {"COMPLETED", "FAILED"}
    BY <1>3, NeedsShape
  <2>2. call[h].op = "create" => Inserts(h)
    BY <1>1, <2>1, RunFacts, VerdictCases
       DEF Statuses, OpensPayment, SettlesPayment, ProcessesPayment, GivesUpPayment, Completes
  <2>3. call[h].op = "create" => rows[target[h]] = None
    BY <1>1, <2>2, RunFacts DEF HandlerFits, SnapshotFits
  <2>4. attempt' = [attempt EXCEPT ![h] = attempt'[h]] /\ attempt'[h] \in 1..MaxAttempts
    BY <1>3, UnchangedFacts, OpenFacts DEF PaymentInv
  <2> QED
    BY <1>1, <1>3, <2>3, <2>4, RunFacts, GoingKeeps
<1> QED
  BY <1>2, <1>3 DEF LoseCounter, Wanted

(* A retry starts from nothing but the count of attempts. *)
LEMMA SerializationFailureKeeps ==
  ASSUME PaymentInv, NEW h \in Handler, SerializationFailure(h)
  PROVE  PaymentInv'
<1>1. pc[h] = "run" /\ EndTransaction(h) /\ UNCHANGED <<db, call>>
  BY DEF SerializationFailure
<1>2. CASE attempt[h] < MaxAttempts
  <2>1. /\ attempt' = [attempt EXCEPT ![h] = @ + 1]
        /\ Goto(h, "begin") /\ UNCHANGED <<target, answer>>
    BY <1>2 DEF SerializationFailure
  <2>2. attempt'[h] = attempt[h] + 1 /\ attempt' = [attempt EXCEPT ![h] = attempt'[h]]
    BY <2>1 DEF PaymentInv, TypesHold, TypeOK
  <2>3. attempt'[h] \in 1..MaxAttempts
    BY <1>2, <2>2, OpenFacts, PaymentAssumption
  <2> QED
    BY <1>1, <2>1, <2>2, <2>3, GoingKeeps
<1>3. CASE ~ (attempt[h] < MaxAttempts)
  BY <1>1, <1>3, RefusalKeeps DEF SerializationFailure
<1> QED
  BY <1>2, <1>3

(* The payment that is shown is as it is shown. *)
LEMMA ReadKeeps ==
  ASSUME PaymentInv, NEW h \in Handler, Read(h)
  PROVE  PaymentInv'
<1>1. pc[h] = "read" /\ tx[h] = None /\ held[h] = {} /\ TypesHold /\ CallFits(h)
  BY OpenFacts DEF Read, PaymentInv, HandlerFits
<1>2. PICK a : /\ a = IF rows[target[h]] = None THEN Refused("not_found")
                      ELSE View(target[h], rows[target[h]])
               /\ Reply(h, a)
  BY DEF Read
<1>3. Goto(h, "idle") /\ Leave(h)
  BY <1>2 DEF Reply
<1>4. Own(h)
  BY <1>1, <1>2, <1>3, HelperFacts, UnchangedFacts DEF Own, Read
<1>5. /\ pc'[h] = "idle" /\ target'[h] = None /\ attempt'[h] = 1 /\ answer'[h] = a
      /\ tx'[h] = None /\ held'[h] = {} /\ call'[h] = call[h] /\ rows' = rows
  BY <1>1, <1>2, <1>3, HelperFacts DEF Read, db
<1>6. AnswerIsTrue(h)'
  <2>1. CASE rows[target[h]] = None
    BY <1>2, <1>5, <2>1, RefusalIsTrue
  <2>2. CASE rows[target[h]] # None
    BY <1>1, <1>2, <1>5, <2>2 DEF AnswerIsTrue, View, CallFits
  <2> QED
    BY <2>1, <2>2
<1> QED
  BY <1>4, <1>5, <1>6, OpenFacts, ClosedKeeps DEF Closed, Read

(* A lost connection leaves nothing behind. *)
LEMMA LoseConnectionKeeps ==
  ASSUME PaymentInv, NEW h \in Handler, LoseConnection(h)
  PROVE  PaymentInv'
BY RefusalKeeps DEF LoseConnection

(* End touches h only. *)
LEMMA EndFacts ==
  ASSUME PaymentInv, NEW h \in Handler, End(h), pc[h] \in {"run", "lost"}
  PROVE  /\ Own(h)
         /\ tx'[h] = None /\ held'[h] = {} /\ call'[h] = call[h] /\ answer'[h] = answer[h]
         /\ attempt'[h] \in 1..MaxAttempts
         /\ \/ pc[h] = "run" /\ pc'[h] = "read" /\ target'[h] = target[h]
            \/ pc[h] = "lost" /\ pc'[h] = "idle" /\ target'[h] = None
<1>1. TypesHold /\ EndTransaction(h) /\ UNCHANGED <<call, answer>>
  BY DEF PaymentInv, End
<1>2. CASE pc[h] = "run"
  <2>1. Goto(h, "read") /\ UNCHANGED <<target, attempt>>
    BY <1>2 DEF End
  <2> QED
    BY <1>1, <1>2, <2>1, HelperFacts, UnchangedFacts, OpenFacts DEF Own
<1>3. CASE pc[h] = "lost"
  <2>1. Goto(h, "idle") /\ Leave(h)
    BY <1>3 DEF End
  <2> QED
    BY <1>1, <1>3, <2>1, HelperFacts, UnchangedFacts, OpenFacts DEF Own
<1> QED
  BY <1>2, <1>3

(* A transaction ends that has changed nothing. *)
LEMMA EndKeeps ==
  ASSUME PaymentInv, NEW h \in Handler, tx[h] # None, End(h), UNCHANGED db,
         pc[h] = "run" /\ call[h].op = "create" /\ rows[target[h]] # None =>
           rows[target[h]].command = call[h].command
  PROVE  PaymentInv'
<1>1. pc[h] \in {"run", "lost"} /\ pc[h] # "idle"
  BY RunFacts
<1>2. AnswerIsTrue(h)'
  BY <1>1, EndFacts, OldAnswerIsTrue
<1>3. Closed(h)
  BY <1>1, <1>2, EndFacts, RunFacts DEF Closed, db
<1> QED
  BY <1>3, ClosedKeeps

(* Nor does a lost COMMIT that fails. *)
LEMMA AbortLostKeeps ==
  ASSUME PaymentInv, NEW h \in Handler, AbortLost(h)
  PROVE  PaymentInv'
BY OpenFacts, EndKeeps DEF AbortLost

(* A repeated call finds the payment it asks for. *)
LEMMA CommitNothingKeeps ==
  ASSUME PaymentInv, NEW h \in Handler, CommitNothing(h)
  PROVE  PaymentInv'
<1>1. tx[h] # None /\ Verdict(h) = "same" /\ End(h) /\ UNCHANGED db
  BY DEF CommitNothing, Committing, Ready
<1>2. ASSUME call[h].op = "create"
      PROVE  ~ Inserts(h) /\ tx[h].rows[target[h]].command = call[h].command
  <2>1. Creation(h) = "same"
    BY <1>1, <1>2 DEF Verdict
  <2> QED
    BY <1>2, <2>1 DEF Creation, Settled
<1>3. call[h].op = "create" => rows[target[h]].command = call[h].command
  BY <1>1, <1>2, RunFacts DEF HandlerFits, SnapshotFits
<1> QED
  BY <1>1, <1>3, EndKeeps

(* A refused call has changed nothing. *)
LEMMA RefuseKeeps ==
  ASSUME PaymentInv, NEW h \in Handler, Refuse(h)
  PROVE  PaymentInv'
BY RefusalKeeps DEF Refuse

(* A call on a payment is a call on a row that is there. *)
LEMMA SubmitKeeps ==
  ASSUME PaymentInv, NEW h \in Handler, NEW c \in Asked, Submit(h, c)
  PROVE  PaymentInv'
<1>1. TypesHold /\ pc[h] = "idle" /\ tx[h] = None /\ held[h] = {} /\ target[h] = None
  BY OpenFacts DEF PaymentInv, Submit, HandlerFits, CallFits
<1>2. Own(h)
  <2>1. call' = [call EXCEPT ![h] = call'[h]] /\ answer' = [answer EXCEPT ![h] = answer'[h]]
    BY <1>1 DEF Submit, TypesHold, TypeOK
  <2> QED
    BY <1>1, <2>1, HelperFacts, UnchangedFacts DEF Submit, Own
<1>3. /\ pc'[h] = "begin" /\ call'[h] = c /\ answer'[h] = Pending
      /\ target'[h] = None /\ attempt'[h] = attempt[h] /\ tx'[h] = None /\ held'[h] = {}
      /\ UNCHANGED db
  BY <1>1, HelperFacts DEF Submit, TypesHold, TypeOK
<1>4. TypesHold'
  BY <1>1, <1>2, <1>3, OpenFacts, OwnTypes DEF TypesHold, TypeOK, db
<1>5. CallFits(h)'
  BY <1>3 DEF CallFits, Submit, db
<1>6. SnapshotFits(h)' /\ LocksFit(h)' /\ AnswerIsTrue(h)'
  BY <1>3 DEF SnapshotFits, LocksFit, AnswerIsTrue, Pending
<1>7. ASSUME NEW g \in Handler, g # h
      PROVE  Apart(g, h)' /\ Apart(h, g)'
  BY <1>1, <1>2, <1>3, <1>7, OthersSame DEF Apart, Same
<1> QED
  BY <1>2, <1>3, <1>4, <1>5, <1>6, <1>7, QuietStep DEF HandlerFits

(* A new transaction is about a payment that is there, or has a uuid of    *)
(* its own.                                                                *)
LEMMA BeginKeeps ==
  ASSUME PaymentInv, NEW h \in Handler, Begin(h)
  PROVE  PaymentInv'
<1>1. /\ TypesHold /\ pc[h] = "begin" /\ tx[h] = None /\ held[h] = {} /\ CallFits(h)
      /\ call[h] \in Asked
  BY OpenFacts DEF PaymentInv, Begin, HandlerFits, CallFits
<1>2. PICK p \in Payment :
        /\ IF call[h].op # "create" THEN p = call[h].payment
           ELSE IF Under(Now, KeyOf(call[h].command)) # {}
             THEN p \in Under(Now, KeyOf(call[h].command))
             ELSE rows[p] = None /\ \A g \in Handler \ {h} : pc[g] # "idle" => target[g] # p
        /\ target' = [target EXCEPT ![h] = p]
  BY DEF Begin
<1>3. Now \in Snapshot /\ Now # None
  BY <1>1, NullIsNothing DEF Now, Snapshot, TypesHold, TypeOK
<1>4. /\ Own(h) /\ tx'[h] = Now /\ target'[h] = p
  <2>1. tx'[h] = Now /\ tx' = [tx EXCEPT ![h] = tx'[h]]
    BY <1>1 DEF Begin, TypesHold
  <2>2. target'[h] = p /\ target' = [target EXCEPT ![h] = target'[h]]
    BY <1>1, <1>2 DEF TypesHold, TypeOK
  <2> QED
    BY <1>1, <2>1, <2>2, HelperFacts, UnchangedFacts DEF Begin, Own
<1>5. /\ pc'[h] = "run" /\ call'[h] = call[h] /\ answer'[h] = answer[h]
      /\ attempt'[h] = attempt[h] /\ held'[h] = {} /\ UNCHANGED db
  BY <1>1, HelperFacts DEF Begin
<1>6. TypesHold'
  BY <1>1, <1>3, <1>4, <1>5, OpenFacts, OwnTypes DEF TypesHold, TypeOK, db
<1>7. CallFits(h)'
  BY <1>1, <1>2, <1>4, <1>5 DEF CallFits, db
<1>8. SnapshotFits(h)'
  <2>1. \A q \in Payment : tx'[h].rows[q] = rows'[q]
    BY <1>4, <1>5 DEF Now, db
  <2>2. ASSUME call[h].op # "create"
        PROVE  tx'[h].rows[target'[h]] # None
    BY <1>1, <1>2, <1>4, <1>5, <2>1, <2>2 DEF CallFits, db
  <2>3. ASSUME call[h].op = "create"
        PROVE  IF Inserts(h)' THEN rows'[target'[h]] = None ELSE tx'[h].rows[target'[h]] # None
    <3>1. Inserts(h)' <=> Under(Now, KeyOf(call[h].command)) = {}
      BY <1>4, <1>5, <2>3 DEF Inserts
    <3>2. \A q \in Under(Now, KeyOf(call[h].command)) : rows[q] # None
      BY DEF Under, Now
    <3> QED
      BY <1>2, <1>4, <1>5, <2>1, <2>3, <3>1, <3>2 DEF db
  <2> QED
    BY <1>5, <2>1, <2>2, <2>3 DEF SnapshotFits
<1>9. LocksFit(h)' /\ AnswerIsTrue(h)'
  BY <1>5, OldAnswerIsTrue DEF LocksFit
<1>10. ASSUME NEW g \in Handler, g # h
       PROVE  Apart(g, h)' /\ Apart(h, g)'
  <2>1. Same(g) /\ CallFits(g)
    BY <1>1, <1>4, <1>10, OthersSame DEF PaymentInv, HandlerFits
  <2>2. ASSUME target[g] = p
        PROVE  rows[p] # None
    <3>1. pc[g] # "idle"
      BY <2>1, <2>2, NullIsNothing DEF CallFits
    <3>2. CASE call[h].op # "create"
      BY <1>1, <1>2, <3>2 DEF CallFits
    <3>3. CASE call[h].op = "create"
      BY <1>2, <1>10, <2>2, <3>1, <3>3 DEF Under, Now
    <3> QED
      BY <3>2, <3>3
  <2> QED
    BY <1>4, <1>5, <2>1, <2>2 DEF Apart, Same, db
<1> QED
  BY <1>4, <1>5, <1>6, <1>7, <1>8, <1>9, <1>10, QuietStep DEF HandlerFits

(* A lock is taken when no one has it and, unless it is an account's, when *)
(* it is fresh.                                                            *)
LEMMA TakeLockKeeps ==
  ASSUME PaymentInv, NEW h \in Handler, TakeLock(h)
  PROVE  PaymentInv'
<1>1. PICK r \in Wanted(h) :
        /\ Free(r)
        /\ r.class = "account" \/ Fresh(h, r)
        /\ held' = [held EXCEPT ![h] = @ \cup {r}]
        /\ UNCHANGED <<db, pc, call, target, attempt, tx, answer>>
  BY DEF TakeLock
<1>2. TypesHold /\ pc[h] = "run" /\ tx[h] # None /\ r \in Needs(h) /\ HandlerFits(h)
  BY OpenFacts DEF Wanted, PaymentInv
<1>3. /\ Own(h) /\ held'[h] = held[h] \cup {r}
      /\ pc'[h] = pc[h] /\ call'[h] = call[h] /\ target'[h] = target[h]
      /\ attempt'[h] = attempt[h] /\ tx'[h] = tx[h] /\ answer'[h] = answer[h]
  <2>1. held'[h] = held[h] \cup {r} /\ held' = [held EXCEPT ![h] = held'[h]]
    BY <1>1, <1>2 DEF TypesHold
  <2> QED
    BY <1>1, <1>2, <2>1, UnchangedFacts DEF Own
<1>4. TypesHold'
  BY <1>1, <1>2, <1>3, OwnTypes DEF TypesHold, TypeOK, db
<1>5. Needs(h)' = Needs(h) /\ Inserts(h)' = Inserts(h)
  BY <1>3, DecisionStays
<1>6. \A q : Fresh(h, q)' <=> Fresh(h, q)
  BY <1>1, <1>3 DEF Fresh, Value, Under, Now, db
<1>7. CallFits(h)' /\ SnapshotFits(h)' /\ AnswerIsTrue(h)'
  BY <1>1, <1>2, <1>3, <1>5, OldAnswerIsTrue DEF HandlerFits, CallFits, SnapshotFits, db
<1>8. LocksFit(h)'
  BY <1>1, <1>2, <1>3, <1>5, <1>6 DEF HandlerFits, LocksFit, Firm
<1>9. ASSUME NEW g \in Handler, g # h
      PROVE  Apart(g, h)' /\ Apart(h, g)'
  <2>1. Same(g) /\ Apart(g, h) /\ Apart(h, g) /\ r \notin held[g]
    BY <1>1, <1>2, <1>3, <1>9, OthersSame DEF PaymentInv, Free
  <2> QED
    BY <1>1, <1>3, <2>1 DEF Apart, Same, db
<1> QED
  BY <1>1, <1>3, <1>4, <1>7, <1>8, <1>9, QuietStep DEF HandlerFits

(* A lost COMMIT keeps its transaction, its snapshot and its locks. *)
LEMMA LoseCommitKeeps ==
  ASSUME PaymentInv, NEW h \in Handler, LoseCommit(h)
  PROVE  PaymentInv'
<1>1. TypesHold /\ pc[h] = "run" /\ tx[h] # None /\ HandlerFits(h)
  BY OpenFacts DEF LoseCommit, PaymentInv
<1>2. /\ Own(h) /\ pc'[h] = "lost" /\ answer'[h] = Refused("error")
      /\ call'[h] = call[h] /\ target'[h] = target[h] /\ attempt'[h] = attempt[h]
      /\ tx'[h] = tx[h] /\ held'[h] = held[h] /\ UNCHANGED db
  <2>1. answer'[h] = Refused("error") /\ answer' = [answer EXCEPT ![h] = answer'[h]]
    BY <1>1 DEF LoseCommit, TypesHold
  <2> QED
    BY <1>1, <2>1, HelperFacts, UnchangedFacts DEF LoseCommit, Own
<1>3. TypesHold'
  BY <1>1, <1>2, OwnTypes DEF TypesHold, TypeOK, db
<1>4. Needs(h)' = Needs(h) /\ Inserts(h)' = Inserts(h)
  BY <1>2, DecisionStays
<1>5. \A q : Fresh(h, q)' <=> Fresh(h, q)
  BY <1>2 DEF Fresh, Value, Under, Now, db
<1>6. CallFits(h)' /\ SnapshotFits(h)' /\ AnswerIsTrue(h)' /\ LocksFit(h)'
  BY <1>1, <1>2, <1>4, <1>5, RefusalIsTrue DEF HandlerFits, CallFits, SnapshotFits, LocksFit, db
<1>7. ASSUME NEW g \in Handler, g # h
      PROVE  Apart(g, h)' /\ Apart(h, g)'
  <2>1. Same(g) /\ Apart(g, h) /\ Apart(h, g)
    BY <1>1, <1>2, <1>7, OthersSame DEF PaymentInv
  <2> QED
    BY <1>2, <2>1 DEF Apart, Same, db
<1> QED
  BY <1>2, <1>3, <1>6, <1>7, QuietStep DEF HandlerFits

-----------------------------------------------------------------------------
(* Saving a row *)

(* What a row may become. *)
Grows ==
  \A p \in Payment : rows[p] # None =>
    /\ rows'[p] # None /\ rows'[p].command = rows[p].command
    /\ rows'[p] # rows[p] => rows'[p].status \in Allowed(rows[p].status)

(* What a transaction writes. *)
NewRow(h) == RowOf(Subject(h), Verdict(h), Failure(h))

Writes(h) ==
  /\ rows' = [rows EXCEPT ![target[h]] = NewRow(h)]
  /\ journals' = IF Verdict(h) = "COMPLETED" THEN journals \cup {target[h]} ELSE journals
  /\ funds' = IF Verdict(h) = "COMPLETED" THEN Posted(funds, Subject(h)) ELSE funds
  /\ events' = IF Verdict(h) \in {"COMPLETED", "FAILED"}
                 THEN [events EXCEPT ![target[h]] = Append(@, Verdict(h))] ELSE events
  /\ blocked' = blocked

(* A row comes to be, or moves along ALLOWED_TRANSITIONS. *)
LEMMA SavingFacts ==
  ASSUME TypesHold, NEW h \in Handler, HandlerFits(h), Saving(h)
  PROVE  /\ Subject(h) \in Command /\ NewRow(h) \in Row
         /\ Verdict(h) = "COMPLETED" =>
              \A a \in Lowered(Subject(h)) : funds[a] >= Subject(h).amount
         /\ call[h].op = "create" =>
              /\ Inserts(h) /\ rows[target[h]] = None
              /\ Subject(h) = call[h].command
              /\ \A q \in Payment :
                   rows[q] # None => KeyOf(rows[q].command) # KeyOf(Subject(h))
         /\ call[h].op # "create" =>
              /\ rows[target[h]] \in Row /\ rows[target[h]].command = Subject(h)
              /\ rows[target[h]].status = StatusRead(h)
              /\ StatusRead(h) \in {"PENDING", "PROCESSING"}
              /\ Verdict(h) \in Allowed(StatusRead(h))
<1>1. call[h] \in Asked /\ target[h] \in Payment /\ tx[h] \in Snapshot /\ Verdict(h) \in Statuses
  BY DEF Saving, TypesHold
<1>2. \/ OpensPayment(h) \/ SettlesPayment(h) \/ ProcessesPayment(h) \/ GivesUpPayment(h)
  BY <1>1, VerdictCases
<1>3. ASSUME call[h].op = "create"
      PROVE  /\ Inserts(h) /\ rows[target[h]] = None
             /\ Subject(h) = call[h].command /\ Subject(h) \in Command
             /\ \A q \in Payment :
                  rows[q] # None => KeyOf(rows[q].command) # KeyOf(Subject(h))
  <2>1. Inserts(h)
    BY <1>2, <1>3
       DEF OpensPayment, SettlesPayment, ProcessesPayment, GivesUpPayment, Completes
  <2>2. Subject(h) = call[h].command /\ Subject(h) \in Command
    BY <1>1, <1>3, CallShape DEF Subject
  <2>3. rows[target[h]] = None
    BY <1>3, <2>1 DEF Saving, HandlerFits, SnapshotFits
  <2>4. \A q \in Payment : rows[q] # None => KeyOf(rows[q].command) # KeyOf(Subject(h))
    BY <2>1, SavingIsFresh DEF Under, Now
  <2> QED
    BY <2>1, <2>2, <2>3, <2>4
<1>4. ASSUME call[h].op # "create"
      PROVE  /\ rows[target[h]] \in Row /\ rows[target[h]].command = Subject(h)
             /\ Subject(h) \in Command
             /\ rows[target[h]].status = StatusRead(h)
             /\ StatusRead(h) \in {"PENDING", "PROCESSING"}
             /\ Verdict(h) \in Allowed(StatusRead(h))
  <2>1. tx[h].rows[target[h]] = rows[target[h]]
    BY <1>4, SavingIsFresh
  <2>2. rows[target[h]] \in Row
    BY <1>1, <1>4, <2>1 DEF Saving, HandlerFits, SnapshotFits, TypesHold, TypeOK
  <2>3. rows[target[h]].command = Subject(h) /\ rows[target[h]].status = StatusRead(h)
    BY <1>4, <2>1 DEF Subject, StatusRead
  <2>4. ASSUME ProcessesPayment(h)
        PROVE  StatusRead(h) = "PENDING" /\ Verdict(h) \in Allowed(StatusRead(h))
    BY <2>4 DEF ProcessesPayment, Allowed
  <2>5. ASSUME SettlesPayment(h)
        PROVE  /\ StatusRead(h) \in {"PENDING", "PROCESSING"}
               /\ Verdict(h) \in Allowed(StatusRead(h))
    <3>1. Completes(h) /\ Verdict(h) \in {"COMPLETED", "FAILED"}
      BY <1>4, <2>5 DEF SettlesPayment, Inserts, Settled
    <3> QED
      BY <3>1, UnsettledIsOpen DEF Completes
  <2>6. ASSUME GivesUpPayment(h)
        PROVE  /\ StatusRead(h) \in {"PENDING", "PROCESSING"}
               /\ Verdict(h) \in Allowed(StatusRead(h))
    BY <2>6, UnsettledIsOpen DEF GivesUpPayment
  <2>7. ~ OpensPayment(h)
    BY <1>4 DEF OpensPayment, Inserts
  <2> QED
    BY <1>2, <2>2, <2>3, <2>4, <2>5, <2>6, <2>7 DEF Row
<1>5. NewRow(h) \in Row
  <2>1. Failure(h) \in Failures \cup {"none"}
    BY <1>2 DEF OpensPayment, SettlesPayment, ProcessesPayment, GivesUpPayment,
                Failures, WhyNot, Obstacle
  <2> QED
    BY <1>1, <1>3, <1>4, <2>1 DEF NewRow, RowOf, Row
<1>6. ASSUME Verdict(h) = "COMPLETED", NEW a \in Lowered(Subject(h))
      PROVE  funds[a] >= Subject(h).amount
  <2>1. Settles(h) /\ WhyNot(h) = "none"
    BY <1>2, <1>6 DEF OpensPayment, SettlesPayment, ProcessesPayment, GivesUpPayment,
                      Settled, Settles
  <2>2. Obstacle(Subject(h), blocked, funds) = "none"
    BY <2>1, ObstacleStands
  <2> QED
    BY <2>2 DEF Obstacle
<1> QED
  BY <1>3, <1>4, <1>5, <1>6

(* Rows grow. *)
LEMMA WritesGrow ==
  ASSUME TypesHold, NEW h \in Handler, HandlerFits(h), Saving(h), Writes(h)
  PROVE  /\ Grows /\ rows'[target[h]] # None /\ rows'[target[h]] = NewRow(h)
         /\ rows'[target[h]].command = Subject(h) /\ rows'[target[h]].status = Verdict(h)
<1>1. rows'[target[h]] = NewRow(h)
  BY DEF TypesHold, TypeOK, Writes, Saving
<1>2. /\ NewRow(h).command = Subject(h) /\ NewRow(h).status = Verdict(h) /\ NewRow(h) # None
  BY SavingFacts, NullIsNothing DEF NewRow, RowOf
<1>3. ASSUME NEW p \in Payment, rows[p] # None
      PROVE  /\ rows'[p] # None /\ rows'[p].command = rows[p].command
             /\ rows'[p] # rows[p] => rows'[p].status \in Allowed(rows[p].status)
  <2>1. CASE p # target[h]
    BY <1>3, <2>1 DEF Writes, TypesHold, TypeOK
  <2>2. CASE p = target[h]
    BY <1>1, <1>2, <1>3, <2>2, SavingFacts
  <2> QED
    BY <2>1, <2>2
<1> QED
  BY <1>1, <1>2, <1>3 DEF Grows

(* The tables stay well typed. *)
LEMMA WritesTypes ==
  ASSUME TypesHold, NEW h \in Handler, HandlerFits(h), Saving(h), Writes(h)
  PROVE  /\ rows' \in [Payment -> Row \cup {None}]
         /\ journals' \subseteq Payment
         /\ funds' \in [Account -> Int]
         /\ blocked' \subseteq Wallet
         /\ events' \in [Payment -> Seq(Statuses)]
<1>1. target[h] \in Payment /\ NewRow(h) \in Row /\ Subject(h) \in Command /\ Verdict(h) \in Statuses
  BY SavingFacts DEF Saving
<1>2. rows' \in [Payment -> Row \cup {None}] /\ journals' \subseteq Payment /\ blocked' \subseteq Wallet
  BY <1>1 DEF Writes, TypesHold, TypeOK
<1>3. funds' \in [Account -> Int]
  <2>1. Subject(h).amount \in Nat
    BY <1>1, CommandAssumption
  <2> QED
    BY <2>1 DEF Writes, TypesHold, TypeOK, Posted
<1>4. events' \in [Payment -> Seq(Statuses)]
  <2>1. Append(events[target[h]], Verdict(h)) \in Seq(Statuses)
    BY <1>1 DEF TypesHold, TypeOK
  <2> QED
    BY <1>1, <2>1 DEF Writes, TypesHold, TypeOK
<1> QED
  BY <1>2, <1>3, <1>4

(* Outcomes stay whole: the row had no outcome before. *)
LEMMA WritesWhole ==
  ASSUME TypesHold, NEW h \in Handler, HandlerFits(h), Saving(h), Writes(h), OutcomesAreWhole
  PROVE  OutcomesAreWhole'
<1>1. target[h] \in Payment /\ Verdict(h) \in Statuses
  BY DEF Saving
<1>2. target[h] \notin journals /\ events[target[h]] = <<>>
  BY <1>1, SavingFacts DEF OutcomesAreWhole, Whole, Has
<1>3. rows'[target[h]] # None /\ rows'[target[h]].status = Verdict(h)
  BY WritesGrow
<1>4. ASSUME NEW p \in Payment
      PROVE  Whole(p)'
  <2>1. CASE p # target[h]
    <3>1. rows'[p] = rows[p] /\ events'[p] = events[p] /\ (p \in journals' <=> p \in journals)
      BY <2>1 DEF Writes, TypesHold, TypeOK
    <3> QED
      BY <3>1 DEF OutcomesAreWhole, Whole, Has
  <2>2. CASE p = target[h]
    <3>1. p \in journals' <=> Verdict(h) = "COMPLETED"
      BY <1>2, <2>2 DEF Writes
    <3>2. events'[p] = IF Verdict(h) \in {"COMPLETED", "FAILED"}
                         THEN Append(events[p], Verdict(h)) ELSE events[p]
      BY <1>1, <2>2 DEF Writes, TypesHold, TypeOK
    <3>3. Append(<<>>, Verdict(h)) = <<Verdict(h)>>
      BY <1>1
    <3>4. events'[p] = IF Verdict(h) \in {"COMPLETED", "FAILED"} THEN <<Verdict(h)>> ELSE <<>>
      BY <1>2, <2>2, <3>2, <3>3
    <3> QED
      BY <1>3, <2>2, <3>1, <3>4 DEF Whole, Has
  <2> QED
    BY <2>1, <2>2
<1> QED
  BY <1>4 DEF OutcomesAreWhole

(* A key stays with one payment. *)
LEMMA WritesKeys ==
  ASSUME TypesHold, NEW h \in Handler, HandlerFits(h), Saving(h), Writes(h), OnePaymentPerKey
  PROVE  OnePaymentPerKey'
<1>1. \A q \in Payment : q # target[h] => rows'[q] = rows[q]
  BY DEF Writes, TypesHold, TypeOK
<1>2. rows'[target[h]].command = Subject(h)
  BY WritesGrow
<1>3. ASSUME NEW q \in Payment, q # target[h], rows[q] # None
      PROVE  KeyOf(rows[q].command) # KeyOf(Subject(h))
  <2>1. CASE call[h].op = "create"
    BY <1>3, <2>1, SavingFacts
  <2>2. CASE call[h].op # "create"
    BY <1>3, <2>2, SavingFacts, NullIsNothing DEF OnePaymentPerKey, Saving
  <2> QED
    BY <2>1, <2>2
<1>4. ASSUME NEW p \in Payment, NEW q \in Payment, rows'[p] # None, rows'[q] # None,
             KeyOf(rows'[p].command) = KeyOf(rows'[q].command)
      PROVE  p = q
  <2>1. CASE p # target[h] /\ q # target[h]
    BY <1>1, <1>4, <2>1 DEF OnePaymentPerKey
  <2>2. CASE p = target[h] \/ q = target[h]
    BY <1>1, <1>2, <1>3, <1>4, <2>2
  <2> QED
    BY <2>1, <2>2
<1> QED
  BY <1>4 DEF OnePaymentPerKey, KeyOf

(* No balance falls below zero: a completion had found enough. *)
LEMMA WritesSolvent ==
  ASSUME TypesHold, NEW h \in Handler, HandlerFits(h), Saving(h), Writes(h), NobodyOverdrawn
  PROVE  NobodyOverdrawn'
<1>1. CASE Verdict(h) # "COMPLETED"
  BY <1>1 DEF Writes, NobodyOverdrawn
<1>2. CASE Verdict(h) = "COMPLETED"
  <2>1. Subject(h).amount \in Nat /\ \A a \in Lowered(Subject(h)) : funds[a] >= Subject(h).amount
    BY <1>2, SavingFacts, CommandAssumption
  <2>2. \A a \in Account : funds[a] \in Int /\ funds[a] >= 0
    BY DEF TypesHold, TypeOK, NobodyOverdrawn
  <2>3. ASSUME NEW a \in Account
        PROVE  Posted(funds, Subject(h))[a] >= 0
    BY <2>1, <2>2 DEF Posted
  <2> QED
    BY <1>2, <2>3 DEF Writes, NobodyOverdrawn
<1> QED
  BY <1>1, <1>2

(* What the invariant says of the other handlers: what they have locked    *)
(* was not written.                                                        *)
LEMMA WritesOthers ==
  ASSUME TypesHold, NEW h \in Handler, HandlerFits(h), Saving(h), Writes(h),
         NEW g \in Handler, g # h, HandlerFits(g), Same(g), Apart(g, h), Apart(h, g)
  PROVE  HandlerFits(g)'
<1>1. /\ Grows /\ target[h] \in Payment /\ target[h] # None
      /\ rows'[target[h]].command = Subject(h)
      /\ \A q \in Payment : q # target[h] => rows'[q] = rows[q]
  BY WritesGrow, NullIsNothing DEF Writes, TypesHold, TypeOK, Saving
<1>2. Needs(g)' = Needs(g) /\ Inserts(g)' = Inserts(g)
  BY DecisionStays DEF Same
<1>3. target[g] = target[h] => rows[target[h]] # None
  BY <1>1 DEF Apart
<1>4. pc[g] # "idle" /\ call[g].op # "create" => call[g].payment \in Payment
  BY CallShape DEF HandlerFits, CallFits
<1>5. CallFits(g)'
  BY <1>1, <1>3, <1>4 DEF HandlerFits, CallFits, Same, Grows
<1>6. SnapshotFits(g)'
  <2>1. ASSUME tx[g] # None, NEW p \in Payment, tx[g].rows[p] # None
        PROVE  rows'[p] # None /\ rows'[p].command = tx[g].rows[p].command
    BY <1>1, <2>1 DEF HandlerFits, SnapshotFits, Grows
  <2>2. ASSUME tx[g] # None, call[g].op = "create", Inserts(g)
        PROVE  rows'[target[g]] = None
    <3>1. rows[target[g]] = None /\ target[g] \in Payment
      BY <2>2 DEF HandlerFits, SnapshotFits, CallFits, TypesHold, TypeOK
    <3> QED
      BY <1>1, <1>3, <3>1
  <2> QED
    BY <1>2, <2>1, <2>2 DEF HandlerFits, SnapshotFits, Same
<1>7. ASSUME NEW r \in held[g], r.class \in Firm
      PROVE  Fresh(g, r)'
  <2>1. tx[g] # None /\ r \in Needs(g) /\ r \notin held[h] /\ Fresh(g, r)
    BY <1>7 DEF HandlerFits, LocksFit, Apart
  <2>2. r = Lock(r.class, r.name)
    BY <2>1, NeedsShape
  <2>3. Now'.rows = rows' /\ Now'.blocked = blocked /\ Now.rows = rows
    BY DEF Now, Writes
  <2>4. CASE r.class = "row"
    <3>1. r = Lock("row", target[g]) /\ call[g].op # "create"
      BY <2>1, <2>2, <2>4, NeedsShape
    <3>2. target[g] \in Payment /\ rows[target[g]] # None
      BY <2>1, <3>1 DEF HandlerFits, CallFits, SnapshotFits, TypesHold, TypeOK
    <3>3. target[g] # target[h]
      BY <2>1, <3>1, <3>2, NeedsFacts, SavingFacts DEF Saving
    <3>4. rows'[target[g]] = rows[target[g]]
      BY <1>1, <3>2, <3>3
    <3>5. Value(r, Now') = Value(r, Now)
      BY <2>3, <3>1, <3>4, ValueFacts
    <3> QED
      BY <2>1, <3>5, FreshStays DEF Same
  <2>5. CASE r.class = "wallet"
    <3>1. Value(r, Now') = Value(r, Now)
      BY <2>2, <2>3, <2>5, ValueFacts DEF Now
    <3> QED
      BY <2>1, <3>1, FreshStays DEF Same
  <2>6. CASE r.class = "key"
    <3>1. r.name # KeyOf(Subject(h)) \/ call[h].op # "create"
      BY <2>1, <2>2, <2>6, NeedsFacts, SavingFacts DEF Saving, Statuses
    <3>2. ASSUME NEW p \in Payment
          PROVE  rows'[p] # None /\ KeyOf(rows'[p].command) = r.name
                   <=> rows[p] # None /\ KeyOf(rows[p].command) = r.name
      <4>1. CASE p # target[h]
        BY <1>1, <4>1
      <4>2. CASE p = target[h] /\ call[h].op # "create"
        BY <1>1, <4>2, SavingFacts, NullIsNothing DEF Grows
      <4>3. CASE p = target[h] /\ call[h].op = "create"
        BY <1>1, <3>1, <4>3, SavingFacts
      <4> QED
        BY <4>1, <4>2, <4>3
    <3>3. Under(Now', r.name) = Under(Now, r.name)
      BY <2>3, <3>2 DEF Under
    <3>4. Value(r, Now') = Value(r, Now)
      BY <2>2, <2>6, <3>3, ValueFacts
    <3> QED
      BY <2>1, <3>4, FreshStays DEF Same
  <2> QED
    BY <1>7, <2>4, <2>5, <2>6 DEF Firm
<1>8. LocksFit(g)'
  BY <1>2, <1>7 DEF HandlerFits, LocksFit, Same
<1>9. AnswerIsTrue(g)'
  <2>1. \A s \in Terminal : Allowed(s) = {}
    BY DEF Terminal, Allowed
  <2> QED
    BY <1>1, <2>1 DEF HandlerFits, AnswerIsTrue, Same, Grows
<1> QED
  BY <1>5, <1>6, <1>8, <1>9 DEF HandlerFits

(* The transaction that changes something ends. *)
LEMMA WritesKeep ==
  ASSUME PaymentInv, NEW h \in Handler, Saving(h), Writes(h), End(h)
  PROVE  PaymentInv'
<1>1. /\ TypesHold /\ DataHolds /\ HandlerFits(h)
      /\ tx[h] # None /\ pc[h] \in {"run", "lost"} /\ pc[h] # "idle"
      /\ call[h] \in Asked /\ target[h] \in Payment
      /\ call[h].op # "create" => target[h] = call[h].payment
  BY RunFacts DEF PaymentInv, Saving
<1>2. Grows /\ rows'[target[h]] # None /\ rows'[target[h]].command = Subject(h)
  BY <1>1, WritesGrow
<1>3. /\ Own(h)
      /\ tx'[h] = None /\ held'[h] = {} /\ call'[h] = call[h] /\ answer'[h] = answer[h]
      /\ attempt'[h] \in 1..MaxAttempts
      /\ \/ pc[h] = "run" /\ pc'[h] = "read" /\ target'[h] = target[h]
         \/ pc[h] = "lost" /\ pc'[h] = "idle" /\ target'[h] = None
  BY <1>1, EndFacts
<1>4. TypesHold'
  <2>1. /\ call'[h] \in Asked \cup {None} /\ target'[h] \in Payment \cup {None}
        /\ pc'[h] \in {"idle", "begin", "run", "winner", "read", "lost"}
        /\ pc'[h] \notin {"run", "lost"}
    BY <1>1, <1>3
  <2> QED
    BY <1>1, <1>3, <2>1, WritesTypes, OwnTypes
<1>5. DataHolds'
  BY <1>1, WritesWhole, WritesKeys, WritesSolvent DEF DataHolds
<1>6. CallFits(h)'
  <2>1. call[h].op = "create" => Subject(h) = call[h].command
    BY <1>1, SavingFacts
  <2> QED
    BY <1>1, <1>2, <1>3, <2>1 DEF HandlerFits, CallFits, Grows
<1>7. SnapshotFits(h)' /\ LocksFit(h)'
  BY <1>3 DEF SnapshotFits, LocksFit
<1>8. AnswerIsTrue(h)'
  <2>1. \A s \in Terminal : Allowed(s) = {}
    BY DEF Terminal, Allowed
  <2> QED
    BY <1>1, <1>2, <1>3, <2>1 DEF HandlerFits, AnswerIsTrue, Grows
<1>9. ASSUME NEW g \in Handler, g # h
      PROVE  Same(g) /\ HandlerFits(g)' /\ Apart(g, h)' /\ Apart(h, g)'
  <2>1. Same(g) /\ HandlerFits(g) /\ Apart(g, h) /\ Apart(h, g)
    BY <1>1, <1>3, <1>9, OthersSame DEF PaymentInv
  <2>2. HandlerFits(g)'
    BY <1>1, <1>9, <2>1, WritesOthers
  <2> QED
    BY <1>2, <1>3, <2>1, <2>2 DEF Apart, Same
<1>10. ASSUME NEW g \in Handler, NEW k \in Handler, g # k
       PROVE  Apart(g, k)'
  <2>1. CASE g = h \/ k = h
    BY <1>9, <1>10, <2>1
  <2>2. CASE g # h /\ k # h
    <3>1. Same(g) /\ Same(k) /\ Apart(g, k) /\ target[k] \in Payment \cup {None}
      BY <1>1, <1>9, <1>10, <2>2 DEF PaymentInv, TypesHold, TypeOK
    <3> QED
      BY <1>2, <3>1 DEF Apart, Same, Grows
  <2> QED
    BY <2>1, <2>2
<1> QED
  BY <1>4, <1>5, <1>6, <1>7, <1>8, <1>9, <1>10 DEF PaymentInv, HandlerFits

(* The five commits that change a row. *)
CommitsRow(h) ==
  \/ CommitOpening(h)
  \/ CommitProcessing(h)
  \/ CommitCompletion(h)
  \/ CommitFailure(h)
  \/ CommitCancellation(h)

(* The five commits write as WritesKeep supposes. *)
LEMMA CommitWrites ==
  ASSUME PaymentInv, NEW h \in Handler, CommitsRow(h)
  PROVE  Saving(h) /\ Writes(h) /\ End(h)
<1>1. Verdict(h) \in Statuses /\ Ready(h) /\ Serializable(h)
  BY DEF CommitsRow, CommitOpening, CommitProcessing, CommitCompletion, CommitFailure,
         CommitCancellation, Committing, Statuses
<1>2. Saving(h)
  BY <1>1, RunFacts DEF Saving, Ready
<1>3. CASE CommitOpening(h) \/ CommitProcessing(h) \/ CommitCancellation(h)
  <2>1. Verdict(h) \in {"PENDING", "PROCESSING", "CANCELLED"} /\ Save(h) /\ End(h)
        /\ UNCHANGED <<journals, funds, blocked, events>>
    BY <1>3 DEF CommitOpening, CommitProcessing, CommitCancellation, Committing
  <2> QED
    BY <1>2, <2>1 DEF Writes, Save, NewRow
<1>4. CASE CommitCompletion(h)
  BY <1>2, <1>4 DEF CommitCompletion, Committing, Writes, Save, NewRow, Announce
<1>5. CASE CommitFailure(h)
  BY <1>2, <1>5 DEF CommitFailure, Committing, Writes, Save, NewRow, Announce
<1> QED
  BY <1>3, <1>4, <1>5 DEF CommitsRow

(* A wallet that an operator suspends is not locked. *)
LEMMA SetWalletStatusKeeps ==
  ASSUME PaymentInv, NEW w \in Suspendable, SetWalletStatus(w)
  PROVE  PaymentInv'
<1>1. /\ UNCHANGED <<rows, journals, funds, events, pc, call, target, attempt, tx, held, answer>>
      /\ Free(Lock("wallet", w))
      /\ \A v : v # w => (v \in blocked' <=> v \in blocked)
  BY DEF SetWalletStatus
<1>2. blocked' \subseteq Wallet
  BY PaymentAssumption DEF SetWalletStatus, PaymentInv, TypesHold, TypeOK
<1>3. TypesHold'
  BY <1>1, <1>2 DEF PaymentInv, TypesHold, TypeOK
<1>4. DataHolds'
  BY <1>1 DEF PaymentInv, DataHolds, OutcomesAreWhole, Whole, OnePaymentPerKey, NobodyOverdrawn, Has
<1>5. ASSUME NEW g \in Handler
      PROVE  HandlerFits(g)'
  <2>1. HandlerFits(g) /\ Needs(g)' = Needs(g) /\ Inserts(g)' = Inserts(g)
    BY <1>1, DecisionStays DEF PaymentInv
  <2>2. CallFits(g)' /\ SnapshotFits(g)' /\ AnswerIsTrue(g)'
    BY <1>1, <2>1 DEF HandlerFits, CallFits, SnapshotFits, AnswerIsTrue
  <2>3. ASSUME NEW r \in held[g], r.class \in Firm
        PROVE  Fresh(g, r)'
    <3>1. r \in Needs(g) /\ Fresh(g, r) /\ r # Lock("wallet", w)
      BY <1>1, <2>1, <2>3 DEF HandlerFits, LocksFit, Free
    <3>2. r = Lock(r.class, r.name)
      BY <3>1, NeedsShape
    <3>3. Now'.rows = Now.rows /\ Now'.blocked = blocked' /\ Now.blocked = blocked
      BY <1>1 DEF Now
    <3>4. Value(r, Now') = Value(r, Now)
      <4>1. CASE r.class = "row"
        BY <3>2, <3>3, <4>1, ValueFacts
      <4>2. CASE r.class = "wallet"
        BY <1>1, <3>1, <3>2, <3>3, <4>2, ValueFacts
      <4>3. CASE r.class = "key"
        BY <3>2, <3>3, <4>3, ValueFacts, UnderFacts
      <4> QED
        BY <2>3, <4>1, <4>2, <4>3 DEF Firm
    <3> QED
      BY <1>1, <3>1, <3>4, FreshStays
  <2>4. LocksFit(g)'
    BY <1>1, <2>1, <2>3 DEF HandlerFits, LocksFit
  <2> QED
    BY <2>2, <2>4 DEF HandlerFits
<1>6. \A g, h \in Handler : g # h => Apart(g, h)'
  BY <1>1 DEF PaymentInv, Apart
<1> QED
  BY <1>3, <1>4, <1>5, <1>6 DEF PaymentInv

-----------------------------------------------------------------------------
(* The invariant *)

(* At the start no call runs, and no payment has an outcome. *)
LEMMA InitHolds == Init => PaymentInv
<1> SUFFICES ASSUME Init PROVE PaymentInv
  OBVIOUS
<1> USE DEF Init
<1>1. TypesHold
  <2>1. events \in [Payment -> Seq(Statuses)]
    OBVIOUS
  <2>2. 1 \in 1..MaxAttempts /\ funds \in [Account -> Int]
    BY PaymentAssumption
  <2> QED
    BY <2>1, <2>2, PaymentAssumption DEF TypesHold, TypeOK
<1>2. OutcomesAreWhole
  <2>1. ASSUME NEW p \in Payment, rows[p] # None
        PROVE  rows[p].status \in {"PENDING", "PROCESSING"}
    BY <2>1, PaymentAssumption, UnsettledIsOpen
  <2> QED
    BY <2>1 DEF OutcomesAreWhole, Whole, Has
<1>3. OnePaymentPerKey
  BY PaymentAssumption DEF OnePaymentPerKey, KeyOf
<1>4. NobodyOverdrawn
  BY PaymentAssumption DEF NobodyOverdrawn
<1>5. \A h \in Handler : HandlerFits(h)
  BY DEF HandlerFits, CallFits, SnapshotFits, LocksFit, AnswerIsTrue, Pending
<1>6. \A g, h \in Handler : g # h => Apart(g, h)
  BY DEF Apart
<1> QED
  BY <1>1, <1>2, <1>3, <1>4, <1>5, <1>6 DEF PaymentInv, DataHolds

(* A step of nobody. *)
LEMMA StutterHolds ==
  ASSUME PaymentInv, UNCHANGED vars
  PROVE  PaymentInv'
<1>1. UNCHANGED db /\ (TypesHold => TypesHold')
  BY DEF vars, db, TypesHold, TypeOK
<1>2. ASSUME NEW g \in Handler
      PROVE  HandlerFits(g)'
  BY IdleFits DEF PaymentInv, vars, Same, db
<1>3. \A g, h \in Handler : g # h => Apart(g, h)'
  BY DEF PaymentInv, Apart, vars
<1> QED
  BY <1>1, <1>2, <1>3, IdleData DEF PaymentInv

(* A step that a handler takes by itself. *)
LEMMA RunHolds ==
  ASSUME PaymentInv, NEW h \in Handler, Run(h)
  PROVE  PaymentInv'
<1>1. CASE CommitsRow(h)
  BY <1>1, CommitWrites, WritesKeep
<1>2. CASE CommitNothing(h) \/ Refuse(h)
  BY <1>2, CommitNothingKeeps, RefuseKeeps
<1>3. CASE Commit(h)
  BY <1>1, <1>2, <1>3 DEF Commit, CommitsRow
<1> QED
  BY <1>3, BeginKeeps, TakeLockKeeps, KeyViolationKeeps, ReadWinnerKeeps, LoseCounterKeeps,
     SerializationFailureKeeps, ReadKeeps, AbortLostKeeps DEF Run

(* Every step keeps the invariant. *)
LEMMA NextHolds == PaymentInv /\ [Next]_vars => PaymentInv'
<1> SUFFICES ASSUME PaymentInv, [Next]_vars PROVE PaymentInv'
  OBVIOUS
<1>1. ASSUME NEW h \in Handler, NEW c \in Asked, Submit(h, c)
      PROVE  PaymentInv'
  BY <1>1, SubmitKeeps
<1>2. ASSUME NEW h \in Handler, Run(h)
      PROVE  PaymentInv'
  BY <1>2, RunHolds
<1>3. ASSUME NEW h \in Handler, Fail(h)
      PROVE  PaymentInv'
  BY <1>3, SerializationFailureKeeps, LoseConnectionKeeps, LoseCommitKeeps DEF Fail
<1>4. ASSUME NEW w \in Suspendable, SetWalletStatus(w)
      PROVE  PaymentInv'
  BY <1>4, SetWalletStatusKeeps
<1>5. CASE UNCHANGED vars
  BY <1>5, StutterHolds
<1> QED
  BY <1>1, <1>2, <1>3, <1>4, <1>5 DEF Next

(* PaymentInv holds in every reachable state: DepositService,              *)
(* WithdrawalService and TransferService keep what their transactions      *)
(* rely on.                                                                *)
THEOREM PaymentInvariant == Spec => []PaymentInv
BY InitHolds, NextHolds, PTL DEF Spec

(* The state of the payment services is well typed; above all, no call     *)
(* runs more than MaxAttempts transactions (runWithSerializationRetry).    *)
THEOREM PaymentTypes == Spec => []TypeOK
<1>1. PaymentInv => TypeOK
  BY DEF PaymentInv, TypesHold
<1> QED
  BY <1>1, PaymentInvariant, PTL

(* A journal, the status COMPLETED and the event of a payment appear       *)
(* together and once (completeWithinTransaction, markFailed).              *)
THEOREM WholeOutcomes == Spec => []OutcomesAreWhole
<1>1. PaymentInv => OutcomesAreWhole
  BY DEF PaymentInv, DataHolds
<1> QED
  BY <1>1, PaymentInvariant, PTL

(* An idempotency key opens one payment (createWithinTransaction and the   *)
(* unique index behind it).                                                *)
THEOREM KeysOpenOne == Spec => []OnePaymentPerKey
<1>1. PaymentInv => OnePaymentPerKey
  BY DEF PaymentInv, DataHolds
<1> QED
  BY <1>1, PaymentInvariant, PTL

(* No payment overdraws an account, whatever meets on it                   *)
(* (completeWithinTransaction, executeWithinTransaction).                  *)
THEOREM NeverOverdrawnByPayments == Spec => []NobodyOverdrawn
<1>1. PaymentInv => NobodyOverdrawn
  BY DEF PaymentInv, DataHolds
<1> QED
  BY <1>1, PaymentInvariant, PTL

(* What createDeposit, completeDeposit and the others answered stays true. *)
THEOREM AnswersRemainTrue == Spec => []AnswersAreTrue
<1>1. PaymentInv => AnswersAreTrue
  BY DEF PaymentInv, HandlerFits, AnswerIsTrue, AnswersAreTrue
<1> QED
  BY <1>1, PaymentInvariant, PTL

-----------------------------------------------------------------------------
(* What a step does to the payments *)

(* It is a commit, or leaves rows and balances alone. *)
LEMMA StepKinds ==
  ASSUME PaymentInv, [Next]_vars
  PROVE  \/ \E h \in Handler : CommitsRow(h)
         \/ UNCHANGED <<rows, funds>> /\ blocked' \in SUBSET Wallet
<1>1. blocked \in SUBSET Wallet
  BY DEF PaymentInv, TypesHold, TypeOK
<1>2. ASSUME NEW h \in Handler, NEW c \in Asked, Submit(h, c)
      PROVE  UNCHANGED <<rows, funds, blocked>>
  BY <1>2 DEF Submit, db
<1>3. ASSUME NEW h \in Handler, Run(h), ~ CommitsRow(h)
      PROVE  UNCHANGED <<rows, funds, blocked>>
  <2>1. CASE Commit(h)
    BY <1>3, <2>1 DEF Commit, CommitsRow, CommitNothing, Refuse, db
  <2>2. CASE Begin(h) \/ TakeLock(h) \/ KeyViolation(h) \/ ReadWinner(h)
    BY <2>2 DEF Begin, TakeLock, KeyViolation, ReadWinner, db
  <2>3. CASE LoseCounter(h) \/ SerializationFailure(h) \/ Read(h) \/ AbortLost(h)
    BY <2>3 DEF LoseCounter, SerializationFailure, Read, AbortLost, db
  <2> QED
    BY <1>3, <2>1, <2>2, <2>3 DEF Run
<1>4. ASSUME NEW h \in Handler, Fail(h)
      PROVE  UNCHANGED <<rows, funds, blocked>>
  BY <1>4 DEF Fail, SerializationFailure, LoseConnection, LoseCommit, db
<1>5. ASSUME NEW w \in Suspendable, SetWalletStatus(w)
      PROVE  UNCHANGED <<rows, funds>> /\ blocked' \in SUBSET Wallet
  BY <1>1, <1>5, PaymentAssumption DEF SetWalletStatus
<1>6. CASE UNCHANGED vars
  BY <1>1, <1>6 DEF vars
<1> QED
  BY <1>1, <1>2, <1>3, <1>4, <1>5, <1>6 DEF Next

(* Payments move along ALLOWED_TRANSITIONS only (assertPaymentTransition), *)
(* and a final status is final.                                            *)
THEOREM TransitionsStayAllowed == Spec => TransitionsAllowed
<1>1. ASSUME PaymentInv, [Next]_vars
      PROVE  Grows
  <2>1. CASE \E h \in Handler : CommitsRow(h)
    BY <1>1, <2>1, CommitWrites, WritesGrow DEF PaymentInv
  <2>2. CASE UNCHANGED rows
    BY <2>2 DEF Grows
  <2> QED
    BY <1>1, <2>1, <2>2, StepKinds
<1>2. ASSUME Grows
      PROVE  \A p \in Payment :
               rows[p] # None /\ rows'[p] # rows[p] =>
                 /\ rows'[p] # None /\ rows'[p].command = rows[p].command
                 /\ rows'[p].status \in Allowed(rows[p].status)
  BY <1>2 DEF Grows
<1> QED
  BY <1>1, <1>2, PaymentInvariant, PTL DEF Spec, TransitionsAllowed

-----------------------------------------------------------------------------
(* The money *)

CompletedPayments == {p \in Payment : Has(p, "COMPLETED")}

(* FundsFollowPayments needs to know that the payments can be summed. *)
MoneyInv == IsFiniteSet(CompletedPayments) /\ FundsFollowPayments

(* An account is on one side of a command, if on any. *)
LEMMA SidesDiffer ==
  ASSUME NEW c \in Command
  PROVE  Raised(c) \cap Lowered(c) = {}
BY CommandAssumption DEF Raised, Lowered

LEMMA AmountType ==
  ASSUME TypesHold, NEW p \in Payment, rows[p] # None
  PROVE  rows[p].command \in Command /\ rows[p].command.amount \in Int
BY CommandAssumption DEF TypesHold, TypeOK, Row

(* The amounts of payments that were there do not change. *)
LEMMA AmountsKept ==
  ASSUME TypesHold, Grows, NEW S \in SUBSET Payment, IsFiniteSet(S),
         \A p \in S : rows[p] # None
  PROVE  Amounts(S) \in Int
         /\ SumFunction([p \in S |-> rows'[p].command.amount]) = Amounts(S)
<1> DEFINE f == [p \in S |-> rows[p].command.amount]
           g == [p \in S |-> rows'[p].command.amount]
<1>1. DOMAIN f = S /\ DOMAIN g = S /\ \A p \in S : f[p] \in Int
  BY AmountType
<1>2. \A p \in S : g[p] = f[p]
  BY DEF Grows
<1> HIDE DEF f, g
<1>3. SumFunction(f) \in Int /\ SumFunction(g) = SumFunction(f)
  BY <1>1, <1>2, WholeSumType, WholeSumSame
<1> QED BY <1>3 DEF f, g, Amounts

(* One more payment counts once. *)
LEMMA AmountsExtended ==
  ASSUME TypesHold, Grows, NEW S \in SUBSET Payment, IsFiniteSet(S),
         \A p \in S : rows[p] # None, NEW q \in Payment, q \notin S,
         rows'[q].command.amount \in Int
  PROVE  SumFunction([p \in S \cup {q} |-> rows'[p].command.amount])
           = rows'[q].command.amount + Amounts(S)
<1> DEFINE f == [p \in S |-> rows[p].command.amount]
           g == [p \in S \cup {q} |-> rows'[p].command.amount]
<1>1. DOMAIN f = S /\ DOMAIN g = S \cup {q} /\ \A p \in S : g[p] = f[p] /\ f[p] \in Int
  BY AmountType DEF Grows
<1>2. g[q] = rows'[q].command.amount
  OBVIOUS
<1> HIDE DEF f, g
<1>3. SumFunction(g) = g[q] + SumFunction(f)
  BY <1>1, <1>2, WholeSumAdd
<1> QED BY <1>2, <1>3 DEF f, g, Amounts

LEMMA MoneyInit == Init => MoneyInv
<1> SUFFICES ASSUME Init PROVE MoneyInv
  OBVIOUS
<1>1. CompletedPayments = {}
  BY PaymentAssumption, UnsettledIsOpen DEF Init, CompletedPayments, Has
<1>2. ASSUME NEW a \in Account PROVE RaisedBy(a) = {} /\ LoweredBy(a) = {}
  BY <1>1 DEF CompletedPayments, RaisedBy, LoweredBy
<1>3. Amounts({}) = 0 /\ IsFiniteSet({})
  <2> DEFINE f == [p \in {} |-> rows[p].command.amount]
  <2>1. DOMAIN f = {} /\ IsFiniteSet({})
    BY FS_EmptySet
  <2> HIDE DEF f
  <2>2. SumFunction(f) = 0
    BY <2>1, WholeSumZero
  <2> QED BY <2>1, <2>2 DEF f, Amounts
<1>4. \A a \in Account : funds[a] = Opening[a] /\ Opening[a] \in Int
  BY PaymentAssumption DEF Init
<1> QED BY <1>1, <1>2, <1>3, <1>4 DEF MoneyInv, FundsFollowPayments

(* What a commit does to the payments that are COMPLETED. *)
LEMMA CommitCompletes ==
  ASSUME PaymentInv, NEW h \in Handler, CommitsRow(h), NEW q, q = target[h]
  PROVE  /\ q \in Payment \ CompletedPayments
         /\ \A p \in Payment : p # q => rows'[p] = rows[p]
         /\ rows'[q] # None /\ rows'[q].command = Subject(h) /\ rows'[q].status = Verdict(h)
         /\ CompletedPayments' = IF Verdict(h) = "COMPLETED" THEN CompletedPayments \cup {q}
                                 ELSE CompletedPayments
<1>1. TypesHold /\ HandlerFits(h) /\ Saving(h) /\ Writes(h) /\ q \in Payment
  BY CommitWrites DEF PaymentInv, Saving
<1>2. q \notin CompletedPayments
  <2>1. rows[q] = None \/ rows[q].status \in {"PENDING", "PROCESSING"}
    BY <1>1, SavingFacts
  <2> QED BY <2>1 DEF CompletedPayments, Has
<1>3. /\ rows'[q] # None /\ rows'[q].command = Subject(h) /\ rows'[q].status = Verdict(h)
      /\ \A p \in Payment : p # q => rows'[p] = rows[p]
  BY <1>1, WritesGrow DEF Writes, TypesHold, TypeOK
<1>4. CompletedPayments' = IF Verdict(h) = "COMPLETED" THEN CompletedPayments \cup {q}
                           ELSE CompletedPayments
  BY <1>1, <1>2, <1>3 DEF CompletedPayments, Has
<1> QED BY <1>1, <1>2, <1>3, <1>4

(* ... and to those that raised, or lowered, an account. *)
LEMMA CommitSides ==
  ASSUME PaymentInv, NEW h \in Handler, CommitsRow(h), NEW q, q = target[h], NEW c,
         c = Subject(h), NEW a \in Account
  PROVE  /\ RaisedBy(a)' = IF Verdict(h) = "COMPLETED" /\ a \in Raised(c)
                             THEN RaisedBy(a) \cup {q} ELSE RaisedBy(a)
         /\ LoweredBy(a)' = IF Verdict(h) = "COMPLETED" /\ a \in Lowered(c)
                              THEN LoweredBy(a) \cup {q} ELSE LoweredBy(a)
<1>1. /\ q \in Payment \ CompletedPayments /\ rows'[q].command = c
      /\ \A p \in Payment : p # q => rows'[p] = rows[p]
      /\ CompletedPayments' = IF Verdict(h) = "COMPLETED" THEN CompletedPayments \cup {q}
                              ELSE CompletedPayments
  BY CommitCompletes
<1>2. /\ RaisedBy(a) = {p \in CompletedPayments : a \in Raised(rows[p].command)}
      /\ LoweredBy(a) = {p \in CompletedPayments : a \in Lowered(rows[p].command)}
      /\ RaisedBy(a)' = {p \in CompletedPayments' : a \in Raised(rows'[p].command)}
      /\ LoweredBy(a)' = {p \in CompletedPayments' : a \in Lowered(rows'[p].command)}
  BY DEF RaisedBy, LoweredBy, CompletedPayments, Raised, Lowered
<1>3. CompletedPayments \subseteq Payment
  BY DEF CompletedPayments
<1> QED BY <1>1, <1>2, <1>3

LEMMA MoneyCommit ==
  ASSUME PaymentInv, MoneyInv, NEW h \in Handler, CommitsRow(h)
  PROVE  MoneyInv'
<1>0. PICK q, c : q = target[h] /\ c = Subject(h)
  OBVIOUS
<1>1. TypesHold /\ HandlerFits(h) /\ Saving(h) /\ Writes(h) /\ c \in Command /\ Grows
      /\ rows'[q].command = c /\ q \in Payment
  BY <1>0, CommitWrites, SavingFacts, WritesGrow DEF PaymentInv, Saving
<1>2. IsFiniteSet(CompletedPayments) /\ IsFiniteSet(CompletedPayments')
  BY <1>0, CommitCompletes, FS_AddElement DEF MoneyInv
<1>3. c.amount \in Int
  BY <1>1, CommandAssumption
<1>4. ASSUME NEW a \in Account
      PROVE  funds'[a] = Opening[a] + Amounts(RaisedBy(a))' - Amounts(LoweredBy(a))'
  <2> DEFINE completed == Verdict(h) = "COMPLETED"
             up == RaisedBy(a)
             down == LoweredBy(a)
  <2>1. /\ up \in SUBSET CompletedPayments /\ down \in SUBSET CompletedPayments
        /\ q \notin up /\ q \notin down
        /\ RaisedBy(a)' = IF completed /\ a \in Raised(c) THEN up \cup {q} ELSE up
        /\ LoweredBy(a)' = IF completed /\ a \in Lowered(c) THEN down \cup {q} ELSE down
    BY <1>0, CommitCompletes, CommitSides DEF RaisedBy, LoweredBy, CompletedPayments
  <2>2. /\ IsFiniteSet(up) /\ IsFiniteSet(down) /\ up \in SUBSET Payment /\ down \in SUBSET Payment
        /\ \A p \in up \cup down : rows[p] # None
    BY <1>2, <2>1, FS_Subset DEF CompletedPayments, Has
  <2>3. /\ Amounts(up) \in Int /\ Amounts(down) \in Int
        /\ SumFunction([p \in up |-> rows'[p].command.amount]) = Amounts(up)
        /\ SumFunction([p \in down |-> rows'[p].command.amount]) = Amounts(down)
        /\ SumFunction([p \in up \cup {q} |-> rows'[p].command.amount]) = c.amount + Amounts(up)
        /\ SumFunction([p \in down \cup {q} |-> rows'[p].command.amount])
             = c.amount + Amounts(down)
    <3> HIDE DEF up, down
    <3> QED BY <1>1, <1>3, <2>1, <2>2, AmountsKept, AmountsExtended
  <2>4. Amounts(RaisedBy(a))' = IF completed /\ a \in Raised(c) THEN c.amount + Amounts(up)
                                ELSE Amounts(up)
    BY <2>1, <2>3 DEF Amounts
  <2>5. Amounts(LoweredBy(a))' = IF completed /\ a \in Lowered(c) THEN c.amount + Amounts(down)
                                 ELSE Amounts(down)
    BY <2>1, <2>3 DEF Amounts
  <2>6. /\ funds[a] = Opening[a] + Amounts(up) - Amounts(down)
        /\ Opening[a] \in Int /\ funds[a] \in Int
    BY <1>1, PaymentAssumption DEF MoneyInv, FundsFollowPayments, TypesHold, TypeOK
  <2>7. ~ (a \in Raised(c) /\ a \in Lowered(c))
    BY <1>1, SidesDiffer
  <2>8. /\ ~ completed => funds'[a] = funds[a]
        /\ completed /\ a \in Raised(c) => funds'[a] = funds[a] + c.amount
        /\ completed /\ a \notin Raised(c) /\ a \in Lowered(c) => funds'[a] = funds[a] - c.amount
        /\ completed /\ a \notin Raised(c) /\ a \notin Lowered(c) => funds'[a] = funds[a]
    <3>1. funds' = IF completed THEN Posted(funds, c) ELSE funds
      BY <1>0, <1>1 DEF Writes
    <3>2. Posted(funds, c)[a] = CASE a \in Raised(c) -> funds[a] + c.amount
                                  [] a \in Lowered(c) -> funds[a] - c.amount
                                  [] OTHER -> funds[a]
      BY DEF Posted
    <3> QED BY <3>1, <3>2, <2>7
  <2> DEFINE u == Amounts(up)
             d == Amounts(down)
  <2>9. u \in Int /\ d \in Int
    BY <2>3
  <2> HIDE DEF up, down, completed, u, d
  <2>10. CASE completed /\ a \in Raised(c)
    BY <1>3, <2>4, <2>5, <2>6, <2>8, <2>7, <2>9, <2>10 DEF u, d
  <2>11. CASE completed /\ a \notin Raised(c) /\ a \in Lowered(c)
    BY <1>3, <2>4, <2>5, <2>6, <2>8, <2>9, <2>11 DEF u, d
  <2>12. CASE ~ completed \/ (a \notin Raised(c) /\ a \notin Lowered(c))
    BY <2>4, <2>5, <2>6, <2>8, <2>9, <2>12 DEF u, d
  <2> QED BY <2>10, <2>11, <2>12
<1> QED BY <1>2, <1>4 DEF MoneyInv, FundsFollowPayments

LEMMA MoneyStep == PaymentInv /\ MoneyInv /\ [Next]_vars => MoneyInv'
<1> SUFFICES ASSUME PaymentInv, MoneyInv, [Next]_vars PROVE MoneyInv'
  OBVIOUS
<1>1. CASE \E h \in Handler : CommitsRow(h)
  BY <1>1, MoneyCommit
<1>2. CASE UNCHANGED <<rows, funds>>
  <2>1. CompletedPayments' = CompletedPayments
    BY <1>2 DEF CompletedPayments, Has
  <2>2. \A a \in Account : RaisedBy(a)' = RaisedBy(a) /\ LoweredBy(a)' = LoweredBy(a)
    BY <1>2 DEF RaisedBy, LoweredBy, Has
  <2>3. \A a \in Account : /\ Amounts(RaisedBy(a))' = Amounts(RaisedBy(a))
                           /\ Amounts(LoweredBy(a))' = Amounts(LoweredBy(a))
    BY <1>2, <2>2 DEF Amounts
  <2> QED BY <1>2, <2>1, <2>3 DEF MoneyInv, FundsFollowPayments
<1> QED BY <1>1, <1>2, StepKinds

(* The balance of every account is its opening balance with what the       *)
(* COMPLETED payments, and no others, moved (completeWithinTransaction,    *)
(* executeWithinTransaction): once each.                                   *)
THEOREM FundsAlwaysFollow == Spec => []FundsFollowPayments
<1>1. MoneyInv => FundsFollowPayments
  BY DEF MoneyInv
<1> QED BY <1>1, MoneyInit, MoneyStep, PaymentInvariant, PTL DEF Spec

-----------------------------------------------------------------------------
(* The locks *)

(* The calls in progress are finitely many, and each has taken its locks   *)
(* in the order of Precedes.                                               *)
InOrder(g) ==
  pc[g] = "run" => \A q \in held[g], r \in Needs(g) \ held[g] : Precedes(q, r)

Busy == {h \in Handler : pc[h] # "idle"}

QueueInv == IsFiniteSet(Busy) /\ \A g \in Handler : InOrder(g)

Still(g) ==
  pc'[g] = pc[g] /\ call'[g] = call[g] /\ target'[g] = target[g] /\ tx'[g] = tx[g]
  /\ held'[g] = held[g]

(* A handler takes a lock, or begins or ends a transaction, or is not in   *)
(* one; all others do nothing.                                             *)
Acts(h) ==
  /\ \A g \in Handler \ {h} : Still(g)
  /\ pc'[h] # "run" \/ held'[h] = {} \/ TakeLock(h)

LEMMA OneActs ==
  ASSUME PaymentInv, [Next]_vars
  PROVE  (\A g \in Handler : Still(g)) \/ (\E h \in Handler : Acts(h))
<1>1. /\ DOMAIN pc = Handler /\ DOMAIN call = Handler /\ DOMAIN target = Handler
      /\ DOMAIN tx = Handler /\ DOMAIN held = Handler
  BY DEF PaymentInv, TypesHold, TypeOK
<1>2. ASSUME NEW h \in Handler, NEW c \in Asked, Submit(h, c)
      PROVE  Acts(h)
  BY <1>1, <1>2 DEF Submit, Acts, Still, Goto
<1>3. ASSUME NEW h \in Handler, Begin(h)
      PROVE  Acts(h)
  <2>1. held[h] = {}
    BY <1>3 DEF Begin, PaymentInv, HandlerFits, LocksFit, TypesHold, TypeOK
  <2> QED
    BY <1>1, <1>3, <2>1 DEF Begin, Acts, Still, Goto
<1>4. ASSUME NEW h \in Handler, TakeLock(h)
      PROVE  Acts(h)
  BY <1>1, <1>4 DEF TakeLock, Acts, Still
<1>5. ASSUME NEW h \in Handler, ReadWinner(h) \/ Read(h) \/ LoseCommit(h)
      PROVE  Acts(h)
  BY <1>1, <1>5 DEF ReadWinner, Read, LoseCommit, Acts, Still, Goto, Leave, Reply
<1>6. ASSUME NEW h \in Handler, Commit(h) \/ AbortLost(h)
      PROVE  Acts(h)
  BY <1>1, <1>6 DEF Commit, CommitOpening, CommitProcessing, CommitCompletion, CommitFailure,
     CommitCancellation, CommitNothing, Refuse, AbortLost, End, EndTransaction, Goto, Leave,
     Reply, Acts, Still
<1>7. ASSUME NEW h \in Handler,
             KeyViolation(h) \/ LoseCounter(h) \/ SerializationFailure(h) \/ LoseConnection(h)
      PROVE  Acts(h)
  BY <1>1, <1>7 DEF KeyViolation, LoseCounter, SerializationFailure, LoseConnection,
     EndTransaction, Goto, Leave, Reply, Acts, Still
<1>8. ASSUME NEW w \in Suspendable, SetWalletStatus(w)
      PROVE  \A g \in Handler : Still(g)
  BY <1>8 DEF SetWalletStatus, Still
<1>9. CASE UNCHANGED vars
  BY <1>9 DEF vars, Still
<1> QED
  BY <1>2, <1>3, <1>4, <1>5, <1>6, <1>7, <1>8, <1>9 DEF Next, Run, Fail

LEMMA StillInOrder ==
  ASSUME NEW g \in Handler, InOrder(g), Still(g)
  PROVE  InOrder(g)'
<1>1. Needs(g)' = Needs(g)
  BY DecisionStays DEF Still
<1> QED BY <1>1 DEF InOrder, Still

(* The lock that is taken precedes those that are still missing. *)
LEMMA TakenInOrder ==
  ASSUME PaymentInv, NEW h \in Handler, InOrder(h), TakeLock(h)
  PROVE  InOrder(h)'
<1>1. PICK r \in Wanted(h) : held' = [held EXCEPT ![h] = @ \cup {r}]
  BY DEF TakeLock
<1>2. DOMAIN held = Handler
  BY DEF PaymentInv, TypesHold
<1>3. held'[h] = held[h] \cup {r} /\ UNCHANGED <<pc, call, target, tx>>
  BY <1>1, <1>2 DEF TakeLock
<1>4. Needs(h)' = Needs(h)
  BY <1>3, DecisionStays
<1>5. pc[h] = "run" /\ \A q \in Needs(h) \ held[h] : r = q \/ Precedes(r, q)
  BY <1>1 DEF Wanted
<1> QED BY <1>3, <1>4, <1>5 DEF InOrder

LEMMA QueueInit == Init => QueueInv
<1> SUFFICES ASSUME Init PROVE QueueInv
  OBVIOUS
<1>1. Busy = {}
  BY DEF Init, Busy
<1> QED BY <1>1, FS_EmptySet DEF QueueInv, Init, InOrder

LEMMA QueueStep == PaymentInv /\ QueueInv /\ [Next]_vars => QueueInv'
<1> SUFFICES ASSUME PaymentInv, QueueInv, [Next]_vars PROVE QueueInv'
  OBVIOUS
<1>1. CASE \A g \in Handler : Still(g)
  <2>1. Busy' = Busy
    BY <1>1 DEF Busy, Still
  <2> QED BY <1>1, <2>1, StillInOrder DEF QueueInv
<1>2. CASE \E h \in Handler : Acts(h)
  <2>1. PICK h \in Handler : Acts(h)
    BY <1>2
  <2>2. IsFiniteSet(Busy')
    <3>1. IsFiniteSet(Busy \cup {h})
      BY FS_AddElement DEF QueueInv
    <3>2. Busy' \in SUBSET (Busy \cup {h})
      BY <2>1 DEF Busy, Acts, Still
    <3> QED BY <3>1, <3>2, FS_Subset
  <2>3. \A g \in Handler \ {h} : InOrder(g)'
    BY <2>1, StillInOrder DEF Acts, QueueInv
  <2>4. InOrder(h)'
    <3>1. CASE pc'[h] # "run" \/ held'[h] = {}
      BY <3>1 DEF InOrder
    <3>2. CASE TakeLock(h)
      BY <3>2, TakenInOrder DEF QueueInv
    <3> QED BY <2>1, <3>1, <3>2 DEF Acts
  <2> QED BY <2>2, <2>3, <2>4 DEF QueueInv
<1> QED BY <1>1, <1>2, OneActs

THEOREM QueueInvariant == Spec => []QueueInv
BY PaymentInvariant, QueueInit, QueueStep, PTL DEF Spec

(* What an open transaction works on. *)
LEMMA SubjectIsAsked ==
  ASSUME PaymentInv, NEW h \in Handler, tx[h] # None
  PROVE  Subject(h) \in Command
<1>1. /\ call[h] \in Asked /\ target[h] \in Payment /\ tx[h] \in Snapshot
      /\ call[h].op # "create" => tx[h].rows[target[h]] # None
  BY DEF PaymentInv, TypesHold, TypeOK, HandlerFits, CallFits, SnapshotFits
<1>2. CASE call[h].op = "create"
  BY <1>1, <1>2, CallShape DEF Subject
<1>3. CASE call[h].op # "create"
  BY <1>1, <1>3 DEF Subject, Snapshot, Row
<1> QED BY <1>2, <1>3

Sorted(r) ==
  /\ r.class \in {"row", "wallet", "key", "account", "journals", "count"}
  /\ r.class \in {"wallet", "account"} => r.name \in Account

(* The locks it can take are nine. *)
LEMMA NeedsAre ==
  ASSUME PaymentInv, NEW h \in Handler, tx[h] # None, NEW c, c = Subject(h)
  PROVE  Needs(h) \subseteq
           {Lock("row", target[h]), Lock("wallet", c.wallet), Lock("wallet", c.peer),
            Lock("key", KeyOf(c)), Lock("account", c.wallet), Lock("account", c.peer),
            Lock("account", Settlement), Lock("journals", None),
            Lock("count", <<c.kind, Verdict(h)>>)}
<1>1. Wallets(c) = {c.wallet, c.peer} /\ Moved(c) \subseteq {Settlement, c.wallet, c.peer}
  BY DEF Wallets, Moved, Raised, Lowered
<1>2. /\ {Lock("wallet", w) : w \in Wallets(c)} = {Lock("wallet", c.wallet), Lock("wallet", c.peer)}
      /\ {Lock("account", a) : a \in Moved(c)} \subseteq
           {Lock("account", c.wallet), Lock("account", c.peer), Lock("account", Settlement)}
  BY <1>1
<1> HIDE DEF Lock
<1> QED BY <1>2, Zenon DEF Needs

LEMMA NeedsFinite ==
  ASSUME PaymentInv, NEW h \in Handler, tx[h] # None
  PROVE  IsFiniteSet(Needs(h))
<1>1. ASSUME NEW a1, NEW a2, NEW a3, NEW a4, NEW a5, NEW a6, NEW a7, NEW a8, NEW a9
      PROVE  IsFiniteSet({a1, a2, a3, a4, a5, a6, a7, a8, a9})
  <2>1. IsFiniteSet({a1} \cup {a2} \cup {a3})
    BY FS_Singleton, FS_AddElement
  <2>2. IsFiniteSet({a1} \cup {a2} \cup {a3} \cup {a4} \cup {a5} \cup {a6})
    BY <2>1, FS_AddElement
  <2>3. IsFiniteSet({a1} \cup {a2} \cup {a3} \cup {a4} \cup {a5} \cup {a6} \cup {a7} \cup {a8} \cup {a9})
    BY <2>2, FS_AddElement
  <2>4. {a1, a2, a3, a4, a5, a6, a7, a8, a9}
          = {a1} \cup {a2} \cup {a3} \cup {a4} \cup {a5} \cup {a6} \cup {a7} \cup {a8} \cup {a9}
    OBVIOUS
  <2> QED BY <2>3, <2>4
<1>2. PICK c : c = Subject(h)
  OBVIOUS
<1> QED BY <1>1, <1>2, NeedsAre, FS_Subset

(* Wallets and accounts have ranks, and the rest is one of each class. *)
LEMMA NeedsSorted ==
  ASSUME PaymentInv, NEW h \in Handler, tx[h] # None
  PROVE  /\ \A r \in Needs(h) : Sorted(r)
         /\ \A q, r \in Needs(h) :
              q # r /\ q.class = r.class =>
                q.class \in {"wallet", "account"} /\ q.name # r.name
<1>1. PICK c : c = Subject(h)
  OBVIOUS
<1>2. c.wallet \in Account /\ c.peer \in Account /\ Settlement \in Account
  BY <1>1, SubjectIsAsked, CommandAssumption DEF Account
<1>3. \A r \in Needs(h) :
        \/ r = Lock("row", target[h]) \/ r = Lock("key", KeyOf(c)) \/ r = Lock("journals", None)
        \/ r = Lock("count", <<c.kind, Verdict(h)>>)
        \/ r = Lock("wallet", r.name) /\ r.name \in Account
        \/ r = Lock("account", r.name) /\ r.name \in Account
  BY <1>1, <1>2, NeedsAre DEF Lock
<1>4. \A r \in Needs(h) : Sorted(r)
  BY <1>3 DEF Sorted, Lock
<1>5. ASSUME NEW q \in Needs(h), NEW r \in Needs(h), q # r, q.class = r.class
      PROVE  q.class \in {"wallet", "account"} /\ q.name # r.name
  BY <1>3, <1>5 DEF Lock
<1> QED BY <1>4, <1>5

(* Precedes is an order of them. *)
LEMMA ClassType ==
  \A class \in {"row", "wallet", "key", "account", "journals", "count"} :
    Class[class] \in Int
BY DEF Class

LEMMA PrecedesIsOrder ==
  ASSUME NEW q, NEW r, NEW s, Sorted(q), Sorted(r), Sorted(s)
  PROVE  /\ Precedes(q, r) /\ Precedes(r, s) => Precedes(q, s)
         /\ ~ Precedes(r, r)
<1>1. Class[q.class] \in Int /\ Class[r.class] \in Int /\ Class[s.class] \in Int
  BY ClassType DEF Sorted
<1>2. \A x \in Account : Rank[x] \in Int
  BY PaymentAssumption
<1> QED BY <1>1, <1>2 DEF Precedes, Sorted

LEMMA ClassesDiffer ==
  \A x, y \in {"row", "wallet", "key", "account", "journals", "count"} :
    x # y => Class[x] # Class[y]
BY DEF Class

LEMMA PrecedesIsTotal ==
  ASSUME PaymentInv, NEW h \in Handler, tx[h] # None,
         NEW q \in Needs(h), NEW r \in Needs(h), q # r
  PROVE  Precedes(q, r) \/ Precedes(r, q)
<1>1. Sorted(q) /\ Sorted(r) /\ Class[q.class] \in Int /\ Class[r.class] \in Int
  BY NeedsSorted, ClassType DEF Sorted
<1>2. CASE q.class = r.class
  <2>1. /\ q.class \in {"wallet", "account"} /\ q.name # r.name
        /\ q.name \in Account /\ r.name \in Account
    BY <1>1, <1>2, NeedsSorted DEF Sorted
  <2>2. Rank[q.name] \in Int /\ Rank[r.name] \in Int /\ Rank[q.name] # Rank[r.name]
    BY <2>1, PaymentAssumption
  <2> QED BY <1>2, <2>1, <2>2 DEF Precedes
<1>3. CASE q.class # r.class
  BY <1>1, <1>3, ClassesDiffer DEF Sorted, Precedes
<1> QED BY <1>2, <1>3

LEMMA WantedFacts ==
  ASSUME PaymentInv, NEW h \in Handler, NEW r \in Wanted(h)
  PROVE  pc[h] = "run" /\ tx[h] # None /\ r \in Needs(h) \ held[h] /\ Sorted(r)
<1>1. pc[h] = "run" /\ r \in Needs(h) \ held[h]
  BY DEF Wanted
<1>2. tx[h] # None
  BY <1>1 DEF PaymentInv, TypesHold, TypeOK
<1> QED BY <1>1, <1>2, NeedsSorted

(* Calls that wait for each other in a circle would have a last lock that  *)
(* one of them waits for; whoever holds it waits for a later one.          *)
LEMMA OrderedNeverLock ==
  PaymentInv /\ QueueInv => NoDeadlock
<1> SUFFICES ASSUME PaymentInv, QueueInv, NEW S \in SUBSET Handler, S # {},
                    \A h \in S : \E g \in S : WaitsFor(h, g)
             PROVE  FALSE
  BY DEF NoDeadlock
<1> DEFINE w == [h \in S |-> CHOOSE r : r \in Wanted(h) /\ \E g \in S : r \in held[g]]
           R == {p \in S \X S : Precedes(w[p[1]], w[p[2]])}
<1>1. \A h \in S : w[h] \in Wanted(h) /\ \E g \in S : w[h] \in held[g]
  BY DEF WaitsFor
<1> HIDE DEF w
<1>2. \A h \in S : Sorted(w[h]) /\ w[h] \in Needs(h) \ held[h] /\ pc[h] = "run"
  BY <1>1, WantedFacts
<1>3. IsFiniteSet(S)
  <2>1. S \in SUBSET Busy
    BY <1>2 DEF Busy
  <2> QED BY <2>1, FS_Subset DEF QueueInv
<1>4. \A g, h \in S : <<g, h>> \in R <=> Precedes(w[g], w[h])
  OBVIOUS
<1> HIDE DEF R
<1>5. \A f, g, h \in S : <<f, g>> \in R /\ <<g, h>> \in R => <<f, h>> \in R
  BY <1>2, <1>4, PrecedesIsOrder
<1>6. \A h \in S : <<h, h>> \notin R
  BY <1>2, <1>4, PrecedesIsOrder
<1>7. PICK h \in S : \A g \in S : <<h, g>> \notin R
  BY <1>3, <1>5, <1>6, HasMaximal
<1>8. PICK g \in S : w[h] \in held[g]
  BY <1>1
<1>9. Precedes(w[h], w[g])
  BY <1>2, <1>8 DEF QueueInv, InOrder
<1> QED BY <1>4, <1>7, <1>9

(* Payments never wait for each other in a circle: the services lock the   *)
(* row, the wallets by id, the key, the accounts by id, and the metrics,   *)
(* in this order.                                                          *)
THEOREM NeverDeadlocked == Spec => []NoDeadlock
BY PaymentInvariant, QueueInvariant, OrderedNeverLock, PTL

(* A transaction that does not have all its locks asks for one. *)
LEMMA AsksForNext ==
  ASSUME PaymentInv, NEW h \in Handler, pc[h] = "run", ~ Ready(h)
  PROVE  Wanted(h) # {}
<1> DEFINE missing == Needs(h) \ held[h]
           R == {p \in missing \X missing : Precedes(p[2], p[1])}
<1>1. tx[h] # None
  BY DEF PaymentInv, TypesHold, TypeOK
<1>2. missing # {}
  BY <1>1 DEF Ready
<1>3. IsFiniteSet(missing)
  BY <1>1, NeedsFinite, FS_Subset
<1>4. \A q, r \in missing : <<q, r>> \in R <=> Precedes(r, q)
  OBVIOUS
<1>5. \A r \in missing : Sorted(r)
  BY <1>1, NeedsSorted
<1> HIDE DEF R
<1>6. \A q, r, s \in missing : <<q, r>> \in R /\ <<r, s>> \in R => <<q, s>> \in R
  BY <1>4, <1>5, PrecedesIsOrder
<1>7. \A r \in missing : <<r, r>> \notin R
  BY <1>4, <1>5, PrecedesIsOrder
<1>8. PICK r \in missing : \A q \in missing : <<r, q>> \notin R
  <2> HIDE DEF missing
  <2> QED BY <1>2, <1>3, <1>6, <1>7, HasMaximal
<1>9. \A q \in missing : q = r \/ Precedes(r, q)
  BY <1>1, <1>4, <1>8, PrecedesIsTotal
<1> QED BY <1>8, <1>9 DEF Wanted

(* Among calls in transactions, however many, there is one that has all    *)
(* its locks or can take the next one as far as the others are concerned:  *)
(* runWithSerializationRetry need not rely on the detection of deadlocks   *)
(* (40P01) to go on.                                                       *)
THEOREM SomeoneGoesOn ==
  Spec => [](\A S \in (SUBSET Handler) \ {{}} : (\A h \in S : pc[h] = "run") =>
               \E h \in S : Ready(h) \/ \E r \in Wanted(h) : \A g \in S : r \notin held[g])
<1>1. PaymentInv /\ NoDeadlock =>
        \A S \in (SUBSET Handler) \ {{}} : (\A h \in S : pc[h] = "run") =>
          \E h \in S : Ready(h) \/ \E r \in Wanted(h) : \A g \in S : r \notin held[g]
  <2> SUFFICES ASSUME PaymentInv, NoDeadlock, NEW S \in (SUBSET Handler) \ {{}},
                      \A h \in S : pc[h] = "run"
               PROVE  \E h \in S : Ready(h) \/ \E r \in Wanted(h) : \A g \in S : r \notin held[g]
    OBVIOUS
  <2>1. PICK h \in S : \A g \in S : ~ WaitsFor(h, g)
    BY DEF NoDeadlock
  <2>2. Ready(h) \/ Wanted(h) # {}
    BY AsksForNext
  <2> QED BY <2>1, <2>2 DEF WaitsFor
<1> QED BY <1>1, PaymentInvariant, NeverDeadlocked, PTL

-----------------------------------------------------------------------------
(* The refinement *)

(* The rules are the same. *)
LEMMA SameRules ==
  ASSUME NEW c, NEW b, NEW f, NEW status, NEW why
  PROVE  /\ Book!Obstacle(c, b, f) = Obstacle(c, b, f)
         /\ Book!Posted(f, c) = Posted(f, c)
         /\ Book!RowOf(c, status, why) = RowOf(c, status, why)
         /\ Book!Due(c) = Due(c) /\ Book!Unsettled(c) = Unsettled(c)
         /\ Book!Wallets(c) = Wallets(c)
<1>1. Book!Wallets(c) = Wallets(c) /\ Book!Due(c) = Due(c)
  BY DEF Book!Wallets, Wallets, Book!Due, Due
<1>2. Book!Lowered(c) = Lowered(c) /\ Book!Raised(c) = Raised(c)
  BY DEF Book!Lowered, Lowered, Book!Raised, Raised
<1>3. Book!Account = Account
  BY DEF Book!Account, Account
<1> QED
  BY <1>1, <1>2, <1>3
     DEF Book!Obstacle, Obstacle, Book!Posted, Posted, Book!RowOf, RowOf, Book!Unsettled, Unsettled

(* The book starts with the same rows and balances. *)
LEMMA BookInit == Init => Book!Init
<1>1. Book!Row = Row /\ Book!Account = Account
  BY DEF Book!Row, Row, Book!Account, Account, Book!Statuses, Statuses, Book!Failures, Failures
<1> QED
  BY <1>1, PaymentAssumption DEF Init, Book!Init

(* A commit is one step of the book. *)
LEMMA CommitIsBooked ==
  ASSUME PaymentInv, NEW h \in Handler, CommitsRow(h)
  PROVE  Book!Next
<1> DEFINE p == target[h]
           c == Subject(h)
<1>1. /\ Saving(h) /\ Writes(h) /\ TypesHold /\ HandlerFits(h)
      /\ p \in Payment /\ c \in Command /\ call[h] \in Asked
  BY CommitWrites, SavingFacts DEF PaymentInv, Saving
<1>2. \/ OpensPayment(h) \/ SettlesPayment(h) \/ ProcessesPayment(h) \/ GivesUpPayment(h)
  BY <1>1, VerdictCases DEF Saving
<1>3. Book!Set(p, c, Verdict(h), Failure(h))
  BY <1>1, SameRules DEF Book!Set, Writes, NewRow
<1>4. ASSUME Inserts(h)
      PROVE  call[h].op = "create" /\ rows[p] = None /\ Book!KeyFree(c)
  <2>1. call[h].op = "create"
    BY <1>4 DEF Inserts
  <2> QED
    BY <1>1, <2>1, SavingFacts DEF Book!KeyFree, KeyOf
<1>5. ASSUME call[h].op # "create"
      PROVE  /\ rows[p] # None /\ rows[p].command = c
             /\ rows[p].status = StatusRead(h)
  BY <1>1, <1>5, SavingFacts, NullIsNothing
<1>6. ASSUME ChecksWallets(h), ~ Blocked(h)
      PROVE  Book!WalletsActive(c)
  <2>1. Wallets(c) \cap blocked = {}
    BY <1>1, <1>6, SavingIsFresh DEF Blocked
  <2> QED
    BY <2>1, SameRules DEF Book!WalletsActive
<1>7. ASSUME Settles(h), SettlesPayment(h)
      PROVE  Book!Settle(p, c)
  <2>1. WhyNot(h) = Book!Obstacle(c, blocked, funds)
    BY <1>1, <1>7, ObstacleStands, SameRules
  <2>2. Failure(h) = WhyNot(h) /\ blocked' = blocked
        /\ Verdict(h) = IF WhyNot(h) = "none" THEN "COMPLETED" ELSE "FAILED"
    BY <1>1, <1>7 DEF SettlesPayment, Settled, Writes
  <2>3. funds' = IF WhyNot(h) = "none" THEN Book!Posted(funds, c) ELSE funds
    BY <1>1, <2>2, SameRules DEF Writes
  <2>4. CASE WhyNot(h) = "none"
    BY <1>3, <2>1, <2>2, <2>3, <2>4 DEF Book!Settle
  <2>5. CASE WhyNot(h) # "none"
    BY <1>3, <2>1, <2>2, <2>3, <2>5 DEF Book!Settle
  <2> QED
    BY <2>4, <2>5
<1>8. CASE OpensPayment(h)
  <2>1. Inserts(h) /\ ~ Blocked(h) /\ Verdict(h) = "PENDING" /\ Failure(h) = "none"
        /\ c.kind # "transfer" /\ ChecksWallets(h)
    BY <1>8 DEF OpensPayment, ChecksWallets
  <2>2. UNCHANGED <<funds, blocked>>
    BY <1>1, <2>1 DEF Writes
  <2>3. Book!Open(p, c)
    BY <1>3, <1>4, <1>6, <2>1, <2>2 DEF Book!Open
  <2> QED
    BY <1>1, <2>3 DEF Book!Next
<1>9. CASE SettlesPayment(h) /\ Inserts(h)
  <2>1. c.kind = "transfer" /\ Settles(h)
    BY <1>4, <1>9 DEF SettlesPayment, Settles, Completes
  <2>2. Book!Transfer(p, c)
    BY <1>4, <1>7, <1>9, <2>1 DEF Book!Transfer
  <2> QED
    BY <1>1, <2>2 DEF Book!Next
<1>10. CASE SettlesPayment(h) /\ Completes(h)
  <2>1. call[h].op # "create" /\ StatusRead(h) = Book!Due(c) /\ Settles(h)
    BY <1>10, SameRules DEF SettlesPayment, Completes
  <2>2. Book!Step(p, rows[p].command, rows[p].status)
    BY <1>5, <1>7, <1>10, <2>1 DEF Book!Step
  <2> QED
    BY <1>1, <1>5, <2>1, <2>2 DEF Book!Next
<1>11. CASE ProcessesPayment(h)
  <2>1. /\ call[h].op = "process" /\ StatusRead(h) = "PENDING" /\ ~ Blocked(h)
        /\ Verdict(h) = "PROCESSING" /\ Failure(h) = "none" /\ ChecksWallets(h)
    BY <1>11 DEF ProcessesPayment, ChecksWallets
  <2>2. UNCHANGED <<funds, blocked>>
    BY <1>1, <2>1 DEF Writes
  <2>3. c.kind = "withdrawal"
    BY <1>1, <1>5, <2>1, RunFacts DEF HandlerFits, CallFits, Saving
  <2>4. Book!Process(p, c, StatusRead(h))
    BY <1>3, <1>6, <2>1, <2>2, <2>3 DEF Book!Process
  <2> QED
    BY <1>1, <1>5, <2>1, <2>4 DEF Book!Next, Book!Step
<1>12. CASE GivesUpPayment(h)
  <2>1. /\ call[h].op # "create" /\ StatusRead(h) \in Book!Unsettled(c)
        /\ \/ Verdict(h) = "FAILED" /\ Failure(h) = "REJECTED"
           \/ Verdict(h) = "CANCELLED" /\ Failure(h) = "none"
    BY <1>12, SameRules DEF GivesUpPayment
  <2>2. UNCHANGED <<funds, blocked>>
    BY <1>1, <2>1 DEF Writes
  <2>3. Book!GiveUp(p, c, StatusRead(h))
    BY <1>3, <2>1, <2>2 DEF Book!GiveUp
  <2> QED
    BY <1>1, <1>5, <2>1, <2>3 DEF Book!Next, Book!Step
<1> QED
  BY <1>2, <1>8, <1>9, <1>10, <1>11, <1>12 DEF SettlesPayment

(* A step of the services is one of the book, or none. *)
LEMMA BookStep == PaymentInv /\ [Next]_vars => [Book!Next]_(Book!vars)
<1> SUFFICES ASSUME PaymentInv, [Next]_vars PROVE [Book!Next]_(Book!vars)
  OBVIOUS
<1>1. CASE \E h \in Handler : CommitsRow(h)
  BY <1>1, CommitIsBooked
<1>2. CASE UNCHANGED <<rows, funds>> /\ blocked' \in SUBSET Wallet
  BY <1>2 DEF Book!Next, Book!Block
<1> QED
  BY <1>1, <1>2, StepKinds

(* The three services, with their locks, snapshots, retries and lost       *)
(* answers, implement a book in which every payment is judged and settled  *)
(* at one instant.                                                         *)
THEOREM PaymentsImplementBook == Spec => ImplementsPaymentBook
BY BookInit, BookStep, PaymentInvariant, PTL DEF Spec, Book!Spec, ImplementsPaymentBook

=============================================================================
