------------------------------ MODULE Payments ------------------------------
(***************************************************************************)
(* DepositService, WithdrawalService and the M3 TransferService over the   *)
(* ledger, the outbox and the metrics.                                     *)
(*                                                                         *)
(* A call runs one SERIALIZABLE transaction per attempt: its first         *)
(* statement takes the snapshot, then it waits for the locks the code      *)
(* takes, in the order it takes them, decides on the snapshot, and         *)
(* commits.  A row that changed after the snapshot cannot be locked; a     *)
(* balance that did lets the transaction be aborted at its COMMIT at the   *)
(* latest.  A metric that changed cannot be counted, and that error is     *)
(* swallowed: the transaction is dead and goes on.                         *)
(***************************************************************************)
EXTENDS PaymentRules, Sequences, Functions

CONSTANTS
  Payment,      \* uuids
  Existing,     \* payments that are there at the start
  Opening,      \* balances at the start
  Asked,        \* the calls clients make
  Suspendable,  \* wallets an operator suspends and reactivates
  Handler, None,
  Rank,         \* the order of wallets' and of accounts' uuids
  MaxAttempts   \* transactions per call

Calls ==
  [op : {"create"}, command : Command]
  \cup [op : {"process", "complete", "fail", "cancel"}, payment : Payment]

ASSUME PaymentAssumption ==
  /\ Asked \subseteq Calls
  /\ Existing \in [Payment -> Row \cup {None}]
  /\ \A p, q \in Payment :
       /\ Existing[p] # None =>
            /\ Existing[p].status \in Unsettled(Existing[p].command)
            /\ Existing[p].command.kind # "transfer"
            /\ Existing[p].failure = "none"
       /\ p # q /\ Existing[p] # None /\ Existing[q] # None =>
            <<Existing[p].command.kind, Existing[p].command.key>>
              # <<Existing[q].command.kind, Existing[q].command.key>>
  /\ Opening \in [Account -> Nat] /\ Suspendable \subseteq Wallet
  /\ Rank \in [Account -> Int]
  /\ \A a, b \in Account : a # b => Rank[a] # Rank[b]
  /\ MaxAttempts \in Nat \ {0}

ASSUME NullPaymentAssumption ==
  /\ None \notin Row \cup Calls \cup Payment
  /\ None \notin [rows : [Payment -> Row \cup {None}], funds : [Account -> Int],
                  blocked : SUBSET Wallet]

VARIABLES
  rows,      \* deposits, withdrawals and transfers, or None
  journals,  \* payments whose journal the ledger has
  funds,     \* balances of the accounts
  blocked,   \* wallets that are not ACTIVE
  events,    \* the outbox events of each payment
  pc, call, target, attempt,  \* the handlers: stage, call, payment, try
  tx,        \* the snapshot of each handler's open transaction, or None
  held,      \* the locks it has
  answer

db == <<rows, journals, funds, blocked, events>>
vars == <<rows, journals, funds, blocked, events, pc, call, target, attempt, tx,
          held, answer>>

Pending == [kind |-> "pending"]
Refused(why) == [kind |-> why]
View(p, row) == [kind |-> "view", payment |-> p, command |-> row.command, status |-> row.status]

Init ==
  /\ rows = Existing
  /\ journals = {}
  /\ funds = Opening
  /\ blocked = {}
  /\ events = [p \in Payment |-> <<>>]
  /\ pc = [h \in Handler |-> "idle"]
  /\ call = [h \in Handler |-> None]
  /\ target = [h \in Handler |-> None]
  /\ attempt = [h \in Handler |-> 1]
  /\ tx = [h \in Handler |-> None]
  /\ held = [h \in Handler |-> {}]
  /\ answer = [h \in Handler |-> Pending]

Goto(h, stage) == pc' = [pc EXCEPT ![h] = stage]
Leave(h) == target' = [target EXCEPT ![h] = None] /\ attempt' = [attempt EXCEPT ![h] = 1]
Reply(h, a) == Goto(h, "idle") /\ Leave(h) /\ answer' = [answer EXCEPT ![h] = a]
EndTransaction(h) == tx' = [tx EXCEPT ![h] = None] /\ held' = [held EXCEPT ![h] = {}]

-----------------------------------------------------------------------------
(* What a transaction locks, and what it comes to *)

Now == [rows |-> rows, funds |-> funds, blocked |-> blocked]

Lock(class, name) == [class |-> class, name |-> name]
KeyOf(c) == <<c.kind, c.key>>
Under(s, key) == {p \in Payment : s.rows[p] # None /\ KeyOf(s.rows[p].command) = key}

(* What a lock protects, as s has it. *)
Value(r, s) ==
  CASE r.class = "row" -> s.rows[r.name]
    [] r.class = "wallet" -> r.name \in s.blocked
    [] r.class = "key" -> Under(s, r.name)
    [] r.class = "account" -> s.funds[r.name]
    [] r.class = "journals" -> {p \in Payment : s.rows[p] # None /\ s.rows[p].status = "COMPLETED"}
    [] r.class = "count" -> {p \in Payment : /\ s.rows[p] # None
                                             /\ s.rows[p].command.kind = r.name[1]
                                             /\ s.rows[p].status = r.name[2]}

(* Mutant: READ COMMITTED. *)
FreshAlways(h, r) == TRUE

Fresh(h, r) == Value(r, tx[h]) = Value(r, Now)

Subject(h) == IF call[h].op = "create" THEN call[h].command ELSE tx[h].rows[target[h]].command
StatusRead(h) == tx[h].rows[target[h]].status

(* Mutant: a completion does not see that it was done before. *)
CompletesAgain(h) ==
  call[h].op = "complete" /\ StatusRead(h) \in {Due(Subject(h)), "COMPLETED"}

(* The row is to be inserted, or to be completed. *)
Inserts(h) == call[h].op = "create" /\ Under(tx[h], KeyOf(call[h].command)) = {}
Completes(h) == call[h].op = "complete" /\ StatusRead(h) = Due(Subject(h))
Settles(h) == Completes(h) \/ (Inserts(h) /\ Subject(h).kind = "transfer")

(* Mutant: only the creation looks at the status of the wallet. *)
WhyNotBlind(h) == Obstacle(Subject(h), {}, tx[h].funds)

WhyNot(h) == Obstacle(Subject(h), tx[h].blocked, tx[h].funds)
Blocked(h) == Wallets(Subject(h)) \cap tx[h].blocked # {}

(* The status the payment will have; or "same", when it has it already, or *)
(* was created by an earlier call; or "refused".                           *)
Settled(h) == IF WhyNot(h) = "none" THEN "COMPLETED" ELSE "FAILED"

Creation(h) ==
  CASE Settles(h) -> Settled(h)
    [] Inserts(h) /\ ~ Settles(h) -> IF Blocked(h) THEN "refused" ELSE "PENDING"
    [] OTHER -> IF tx[h].rows[target[h]].command = call[h].command THEN "same" ELSE "refused"

(* Mutant: the current status is not checked. *)
ChangeUnchecked(h, from, to) == IF StatusRead(h) = to THEN "same" ELSE to

Change(h, from, to) ==
  CASE StatusRead(h) = to -> "same"
    [] StatusRead(h) \in from -> to
    [] OTHER -> "refused"

Verdict(h) ==
  CASE call[h].op = "create" -> Creation(h)
    [] call[h].op = "process" ->
         Change(h, IF Blocked(h) THEN {} ELSE {"PENDING"}, "PROCESSING")
    [] call[h].op = "complete" ->
         IF Completes(h) THEN Settled(h) ELSE Change(h, {}, "COMPLETED")
    [] call[h].op = "fail" -> Change(h, Unsettled(Subject(h)), "FAILED")
    [] call[h].op = "cancel" -> Change(h, Unsettled(Subject(h)), "CANCELLED")

Failure(h) ==
  CASE Settles(h) -> WhyNot(h)
    [] call[h].op = "fail" -> "REJECTED"
    [] OTHER -> "none"

ChecksWallets(h) ==
  Inserts(h) \/ Settles(h) \/ (call[h].op = "process" /\ StatusRead(h) = "PENDING")

(* The locks the transaction takes. *)
Needs(h) ==
  LET c == Subject(h)
      v == Verdict(h)
      count == Lock("count", <<c.kind, v>>)
  IN (IF call[h].op # "create" THEN {Lock("row", target[h])} ELSE {})
     \cup (IF ChecksWallets(h) THEN {Lock("wallet", w) : w \in Wallets(c)} ELSE {})
     \cup (IF Inserts(h) /\ v # "refused" THEN {Lock("key", KeyOf(c))} ELSE {})
     \cup (IF Settles(h) /\ ~ Blocked(h) THEN {Lock("account", a) : a \in Moved(c)} ELSE {})
     \cup (CASE v = "COMPLETED" -> {Lock("journals", None), count}
             [] v = "FAILED" -> {count}
             [] OTHER -> {})

(* The order of the statements, and ORDER BY id. *)
Class == [row |-> 1, wallet |-> 2, key |-> 3, account |-> 4, journals |-> 5, count |-> 6]

(* Mutant: no ORDER BY. *)
PrecedesUnordered(q, r) ==
  \/ Class[q.class] < Class[r.class]
  \/ q.class = r.class /\ q.class \in {"wallet", "account"}

Precedes(q, r) ==
  \/ Class[q.class] < Class[r.class]
  \/ q.class = r.class /\ q.class \in {"wallet", "account"} /\ Rank[q.name] < Rank[r.name]

(* The lock the transaction asks for next. *)
Wanted(h) ==
  IF pc[h] # "run" THEN {}
  ELSE LET missing == Needs(h) \ held[h]
       IN {r \in missing : \A q \in missing : q = r \/ Precedes(r, q)}

Free(r) == \A g \in Handler : r \notin held[g]

(* Every statement before COMMIT has returned. *)
Ready(h) == tx[h] # None /\ Needs(h) \subseteq held[h]

(* The locks and the balances under them are those of the snapshot. *)
Serializable(h) == \A r \in Needs(h) : r.class = "account" => Fresh(h, r)

-----------------------------------------------------------------------------
(* The steps of a call *)

Submit(h, c) ==
  /\ pc[h] = "idle"
  /\ c.op # "create" => rows[c.payment] # None /\ rows[c.payment].command.kind # "transfer"
  /\ c.op = "process" => rows[c.payment].command.kind = "withdrawal"
  /\ call' = [call EXCEPT ![h] = c]
  /\ answer' = [answer EXCEPT ![h] = Pending]
  /\ Goto(h, "begin")
  /\ UNCHANGED <<db, target, attempt, tx, held>>

(* The first statement.  A creation finds the payment of its key, or is    *)
(* given a new uuid.                                                       *)
Begin(h) ==
  /\ pc[h] = "begin"
  /\ tx' = [tx EXCEPT ![h] = Now]
  /\ \E p \in Payment :
       /\ IF call[h].op # "create" THEN p = call[h].payment
          ELSE IF Under(Now, KeyOf(call[h].command)) # {}
            THEN p \in Under(Now, KeyOf(call[h].command))
            ELSE rows[p] = None /\ \A g \in Handler \ {h} : pc[g] # "idle" => target[g] # p
       /\ target' = [target EXCEPT ![h] = p]
  /\ Goto(h, "run")
  /\ UNCHANGED <<db, call, attempt, held, answer>>

(* Mutant: there is no unique index on the key. *)
TakeLockUnindexed(h) ==
  \E r \in Wanted(h) :
    /\ Free(r)
    /\ r.class \in {"account", "key"} \/ Fresh(h, r)
    /\ held' = [held EXCEPT ![h] = @ \cup {r}]
    /\ UNCHANGED <<db, pc, call, target, attempt, tx, answer>>

(* SELECT ... FOR UPDATE, INSERT, or the upsert of a metric. *)
TakeLock(h) ==
  \E r \in Wanted(h) :
    /\ Free(r)
    /\ r.class = "account" \/ Fresh(h, r)
    /\ held' = [held EXCEPT ![h] = @ \cup {r}]
    /\ UNCHANGED <<db, pc, call, target, attempt, tx, answer>>

(* The key was used after the snapshot: 23505, and the transaction ends.   *)
KeyViolation(h) ==
  /\ \E r \in Wanted(h) : Free(r) /\ r.class = "key" /\ ~ Fresh(h, r)
  /\ EndTransaction(h)
  /\ Goto(h, "winner")
  /\ UNCHANGED <<db, call, target, attempt, answer>>

(* Mutant: the hash of the payment that won is not compared. *)
ReadWinnerUnchecked(h) ==
  /\ pc[h] = "winner"
  /\ \E p \in Under(Now, KeyOf(call[h].command)) : target' = [target EXCEPT ![h] = p]
  /\ Goto(h, "read")
  /\ UNCHANGED <<db, call, attempt, tx, held, answer>>

(* The catch of createDeposit reads the payment that won. *)
ReadWinner(h) ==
  /\ pc[h] = "winner"
  /\ \E p \in Under(Now, KeyOf(call[h].command)) :
       IF rows[p].command = call[h].command
         THEN /\ target' = [target EXCEPT ![h] = p]
              /\ Goto(h, "read")
              /\ UNCHANGED <<attempt, answer>>
         ELSE Reply(h, Refused("conflict"))
  /\ UNCHANGED <<db, call, tx, held>>

(* Another transaction counted the metric after the snapshot, so this one  *)
(* is dead and does not know.  It goes on: the save that follows the       *)
(* ledger's metric is refused, but after the last metric comes COMMIT,     *)
(* which rolls back and reports no error.                                  *)
LoseCounter(h) ==
  \E r \in Wanted(h) :
    /\ Free(r) /\ ~ Fresh(h, r)
    /\ \/ r.class = "journals" /\ Reply(h, Refused("error"))
       \/ r.class = "count" /\ Goto(h, "read")
          /\ UNCHANGED <<target, attempt, answer>>
    /\ EndTransaction(h)
    /\ UNCHANGED <<db, call>>

Committing(h, verdict) ==
  /\ pc[h] \in {"run", "lost"}
  /\ Ready(h) /\ Serializable(h)
  /\ Verdict(h) = verdict

(* The transaction is over; a caller that still waits reads the payment.   *)
End(h) ==
  /\ EndTransaction(h)
  /\ IF pc[h] = "run" THEN Goto(h, "read") /\ UNCHANGED <<target, attempt>>
                      ELSE Goto(h, "idle") /\ Leave(h)
  /\ UNCHANGED <<call, answer>>

Save(h) ==
  rows' = [rows EXCEPT ![target[h]] = RowOf(Subject(h), Verdict(h), Failure(h))]

Announce(h) == events' = [events EXCEPT ![target[h]] = Append(@, Verdict(h))]

CommitOpening(h) ==
  /\ Committing(h, "PENDING") /\ Save(h) /\ End(h)
  /\ UNCHANGED <<journals, funds, blocked, events>>

CommitProcessing(h) ==
  /\ Committing(h, "PROCESSING") /\ Save(h) /\ End(h)
  /\ UNCHANGED <<journals, funds, blocked, events>>

CommitCompletion(h) ==
  /\ Committing(h, "COMPLETED") /\ Save(h) /\ Announce(h) /\ End(h)
  /\ journals' = journals \cup {target[h]}
  /\ funds' = Posted(funds, Subject(h))
  /\ UNCHANGED blocked

(* markFailed *)
CommitFailure(h) ==
  /\ Committing(h, "FAILED") /\ Save(h) /\ Announce(h) /\ End(h)
  /\ UNCHANGED <<journals, funds, blocked>>

CommitCancellation(h) ==
  /\ Committing(h, "CANCELLED") /\ Save(h) /\ End(h)
  /\ UNCHANGED <<journals, funds, blocked, events>>

CommitNothing(h) ==
  /\ Committing(h, "same") /\ End(h)
  /\ UNCHANGED db

(* ConflictException *)
Refuse(h) ==
  /\ Committing(h, "refused")
  /\ EndTransaction(h)
  /\ Reply(h, Refused("conflict"))
  /\ UNCHANGED <<db, call>>

(* Mutant: <= for <. *)
SerializationFailureOnceMore(h) ==
  /\ pc[h] = "run"
  /\ EndTransaction(h)
  /\ IF attempt[h] <= MaxAttempts
       THEN /\ attempt' = [attempt EXCEPT ![h] = @ + 1]
            /\ Goto(h, "begin")
            /\ UNCHANGED <<target, answer>>
       ELSE Reply(h, Refused("error"))
  /\ UNCHANGED <<db, call>>

(* 40001 or 40P01: runWithSerializationRetry. *)
SerializationFailure(h) ==
  /\ pc[h] = "run"
  /\ EndTransaction(h)
  /\ IF attempt[h] < MaxAttempts
       THEN /\ attempt' = [attempt EXCEPT ![h] = @ + 1]
            /\ Goto(h, "begin")
            /\ UNCHANGED <<target, answer>>
       ELSE Reply(h, Refused("error"))
  /\ UNCHANGED <<db, call>>

(* getDeposit, getWithdrawal, getTransfer: outside of any transaction.     *)
Read(h) ==
  /\ pc[h] = "read"
  /\ Reply(h, IF rows[target[h]] = None THEN Refused("not_found")
              ELSE View(target[h], rows[target[h]]))
  /\ UNCHANGED <<db, call, tx, held>>

LoseConnection(h) ==
  /\ pc[h] \in {"begin", "run", "winner", "read"}
  /\ Reply(h, Refused("error"))
  /\ EndTransaction(h)
  /\ UNCHANGED <<db, call>>

(* The connection fails while COMMIT is under way: the caller has an       *)
(* error, and the transaction may commit yet.                              *)
LoseCommit(h) ==
  /\ pc[h] = "run" /\ Ready(h) /\ Verdict(h) \in Statuses
  /\ Goto(h, "lost")
  /\ answer' = [answer EXCEPT ![h] = Refused("error")]
  /\ UNCHANGED <<db, call, target, attempt, tx, held>>

AbortLost(h) ==
  /\ pc[h] = "lost"
  /\ End(h)
  /\ UNCHANGED db

(* No code of the services changes the status of a wallet: an operator     *)
(* does, in the database.                                                  *)
SetWalletStatus(w) ==
  /\ Free(Lock("wallet", w))
  /\ blocked' = IF w \in blocked THEN blocked \ {w} ELSE blocked \cup {w}
  /\ UNCHANGED <<rows, journals, funds, events, pc, call, target, attempt, tx, held, answer>>

-----------------------------------------------------------------------------
(* PostgreSQL must abort h: the row it is to lock has changed, or the      *)
(* balances it read have.                                                  *)
Doomed(h) ==
  \/ \E r \in Wanted(h) : Free(r) /\ ~ Fresh(h, r) /\ r.class \in {"row", "wallet"}
  \/ Ready(h) /\ ~ Serializable(h)

Commit(h) ==
  \/ CommitOpening(h)
  \/ CommitProcessing(h)
  \/ CommitCompletion(h)
  \/ CommitFailure(h)
  \/ CommitCancellation(h)
  \/ CommitNothing(h)
  \/ Refuse(h)

Run(h) ==
  \/ Begin(h)
  \/ TakeLock(h)
  \/ KeyViolation(h)
  \/ ReadWinner(h)
  \/ LoseCounter(h)
  \/ Commit(h)
  \/ Doomed(h) /\ SerializationFailure(h)
  \/ Read(h)
  \/ AbortLost(h)

Fail(h) ==
  \/ SerializationFailure(h)
  \/ LoseConnection(h)
  \/ LoseCommit(h)

Next ==
  \/ \E h \in Handler : (\E c \in Asked : Submit(h, c)) \/ Run(h) \/ Fail(h)
  \/ \E w \in Suspendable : SetWalletStatus(w)

Spec == Init /\ [][Next]_vars

-----------------------------------------------------------------------------
(* Correctness *)

(* Types of the variables. *)
TypeOK ==
  /\ rows \in [Payment -> Row \cup {None}]
  /\ journals \subseteq Payment
  /\ funds \in [Account -> Int]
  /\ blocked \subseteq Wallet
  /\ events \in [Payment -> Seq(Statuses)]
  /\ pc \in [Handler -> {"idle", "begin", "run", "winner", "read", "lost"}]
  /\ call \in [Handler -> Asked \cup {None}]
  /\ target \in [Handler -> Payment \cup {None}]
  /\ attempt \in [Handler -> 1..MaxAttempts]
  /\ \A h \in Handler : (pc[h] \in {"run", "lost"}) <=> (tx[h] # None)

Has(p, status) == rows[p] # None /\ rows[p].status = status

Whole(p) ==
  /\ p \in journals <=> Has(p, "COMPLETED")
  /\ events[p] = IF Has(p, "COMPLETED") \/ Has(p, "FAILED")
                   THEN <<rows[p].status>> ELSE <<>>

(* A payment has a journal in the ledger exactly when it is COMPLETED, and *)
(* the outbox announces its outcome exactly once: neither a retry, a lost  *)
(* COMMIT, a repeated call nor a swallowed error tears them apart.         *)
OutcomesAreWhole == \A p \in Payment : Whole(p)

(* Calls that race under one key, or repeat it after an answer was lost,   *)
(* open one payment.                                                       *)
OnePaymentPerKey ==
  \A p, q \in Payment :
    rows[p] # None /\ rows[q] # None /\ KeyOf(rows[p].command) = KeyOf(rows[q].command)
      => p = q

(* What a call was answered stays true: a creation is answered with a      *)
(* payment for what it asked and nothing else, and a final status that was *)
(* shown is the final status.                                              *)
AnswersAreTrue ==
  \A h \in Handler :
    answer[h].kind = "view" =>
      LET p == answer[h].payment
      IN /\ rows[p] # None /\ rows[p].command = answer[h].command
         /\ call[h].op = "create" => answer[h].command = call[h].command
         /\ answer[h].status \in Terminal => rows[p].status = answer[h].status

(* No payment changes against ALLOWED_TRANSITIONS, whoever else works on   *)
(* it, and none is forgotten.                                              *)
TransitionsAllowed ==
  [][\A p \in Payment :
       rows[p] # None /\ rows'[p] # rows[p] =>
         /\ rows'[p] # None /\ rows'[p].command = rows[p].command
         /\ rows'[p].status \in Allowed(rows[p].status)]_vars

(* No account is overdrawn, although payments decide on the balances of    *)
(* their snapshots and wait for locks after that.                          *)
NobodyOverdrawn == \A a \in Account : funds[a] >= 0

(* The balances are what the completed payments say: none moves money      *)
(* twice or in vain.                                                       *)
Amounts(S) == SumFunction([p \in S |-> rows[p].command.amount])
RaisedBy(a) == {p \in Payment : Has(p, "COMPLETED") /\ a \in Raised(rows[p].command)}
LoweredBy(a) == {p \in Payment : Has(p, "COMPLETED") /\ a \in Lowered(rows[p].command)}

FundsFollowPayments ==
  \A a \in Account :
    funds[a] = Opening[a] + Amounts(RaisedBy(a)) - Amounts(LoweredBy(a))

(* The services decide as if each transaction happened at one instant:     *)
(* what they read before they waited is still so when they commit.         *)
Book == INSTANCE PaymentBook
ImplementsPaymentBook == Book!Spec

(* h waits for a lock of g. *)
WaitsFor(h, g) == \E r \in Wanted(h) : r \in held[g]

(* Payments never wait for each other in a circle, although they meet on   *)
(* rows, wallets, keys, accounts and metrics.                              *)
NoDeadlock ==
  \A S \in (SUBSET Handler) \ {{}} : \E h \in S : \A g \in S : ~ WaitsFor(h, g)

(* metrics.service.ts:28: "Observability must not make a financial         *)
(* transaction fail."  A call that is answered with the payment has done   *)
(* what it was asked.                                                      *)
MetricsFailNoPayment ==
  \A h \in Handler :
    pc[h] = "idle" /\ answer[h].kind = "view" =>
      CASE call[h].op = "fail" -> answer[h].status = "FAILED"
        [] call[h].op = "complete" -> answer[h].status \in {"COMPLETED", "FAILED"}
        [] OTHER -> TRUE

=============================================================================
