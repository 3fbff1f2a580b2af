------------------------------- MODULE Ledger -------------------------------
(***************************************************************************)
(* LedgerService over PostgreSQL (src/src/ledger/ledger.service.ts).       *)
(*                                                                         *)
(* Each request is a handler that runs postJournal or reverseJournal one   *)
(* database statement at a time; the handlers interleave.  A posting       *)
(* transaction is SERIALIZABLE: it reads from the snapshot its first       *)
(* statement took, locks the accounts in the order of their ids, waits     *)
(* when a unique index holds an uncommitted equal key, and may be aborted  *)
(* with 40001.  The account rows are never updated, so a transaction that  *)
(* waited for a lock goes on with its old snapshot.                        *)
(*                                                                         *)
(* A journal commit is refused when a journal committed after the snapshot *)
(* wrote lines of an account the transaction read: PostgreSQL's            *)
(* serializable isolation does not let two such transactions both commit.  *)
(***************************************************************************)
EXTENDS Journals

CONSTANTS
  Req,          \* the requests
  Nobody,       \* holder of a free lock
  Commands,     \* the postings clients may ask for: [key, body]
  MaxAttempts,  \* tries of postJournal (3 in the code)
  Metrics       \* whether a MetricsService is injected

ASSUME LedgerAssumption ==
  /\ \A c \in Commands : c \in Command /\ c.body.rev = NoJournal
  /\ MaxAttempts \in Nat \ {0}
  /\ Metrics \in BOOLEAN
  /\ Nobody \notin Req
  /\ Req \X (1..MaxAttempts) \subseteq JournalId
  /\ Note # {}

VARIABLES
  accounts,  \* committed ledger_accounts
  journals,  \* committed ledger_journals, with their lines
  posted,    \* what the committed lines of each account sum to
  pc,        \* where the handler of a request is
  call,      \* the command a request is running
  attempt,   \* number of the current try of postJournal
  snap,      \* the snapshot its transaction reads
  holder,    \* the transaction holding each account's row lock
  found,     \* the journal id postJournal is about to return
  answer     \* the response sent

db == <<accounts, journals, posted>>
vars == <<accounts, journals, posted, pc, call, attempt, snap, holder, found, answer>>

Pending == [kind |-> "pending"]
Granted(j) == [kind |-> "ok", id |-> j.id, key |-> j.key]
Refused(why) == [kind |-> why]

Refusals == {"bad_request", "not_found", "conflict", "insufficient", "error"}

Replies == {Pending} \cup {Refused(w) : w \in Refusals}
           \cup [kind : {"ok"}, id : JournalId, key : Key]

InTransaction == {"lock", "insert", "count", "commit"}
Stages == InTransaction \cup
  {"idle", "rev_key", "rev_dup", "begin", "reread", "fetch", "done"}

Snapshot == [accounts : SUBSET Account, journals : SUBSET Journal,
             posted : [Account -> Int]]

NoSnapshot == [accounts |-> {}, journals |-> {}, posted |-> [a \in Account |-> 0]]

Init ==
  /\ accounts = {}
  /\ journals = {}
  /\ posted = [a \in Account |-> 0]
  /\ pc = [r \in Req |-> "idle"]
  /\ call = [r \in Req |-> NoJournal]
  /\ attempt = [r \in Req |-> 1]
  /\ snap = [r \in Req |-> NoSnapshot]
  /\ holder = [a \in Account |-> Nobody]
  /\ found = [r \in Req |-> NoJournal]
  /\ answer = [r \in Req |-> Pending]

Goto(r, stage) == pc' = [pc EXCEPT ![r] = stage]

Reply(r, a) ==
  /\ Goto(r, "done")
  /\ answer' = [answer EXCEPT ![r] = a]
  /\ UNCHANGED <<call, attempt, found>>

(* COMMIT or ROLLBACK: the row locks are released, the snapshot forgotten. *)
EndTransaction(r) ==
  /\ holder' = [a \in Account |-> IF holder[a] = r THEN Nobody ELSE holder[a]]
  /\ snap' = [snap EXCEPT ![r] = NoSnapshot]

(* postJournal begins: normalizeJournal, then the first try. *)
StartPosting(r, key, body) ==
  /\ call' = [call EXCEPT ![r] = [key |-> key, body |-> body]]
  /\ IF Normalized(body.lines)
       THEN Goto(r, "begin") /\ UNCHANGED answer
       ELSE Goto(r, "done") /\ answer' = [answer EXCEPT ![r] = Refused("bad_request")]

-----------------------------------------------------------------------------
(* createAccount *)
CreateAccount(a) ==
  /\ a \notin accounts
  /\ accounts' = accounts \cup {a}
  /\ UNCHANGED <<journals, posted, pc, call, attempt, snap, holder, found, answer>>

(* A client calls postJournal. *)
PostJournal(r, c) ==
  /\ pc[r] = "idle"
  /\ StartPosting(r, c.key, c.body)
  /\ UNCHANGED <<db, attempt, snap, holder, found>>

(* A client calls reverseJournal: the original journal is read. *)
ReverseJournal(r, target, key, note) ==
  /\ pc[r] = "idle"
  /\ IF IdTaken(journals, target)
       THEN /\ Goto(r, "rev_key")
            /\ LET original == ById(journals, target).body
               IN call' = [call EXCEPT ![r] =
                    [key  |-> key,
                     body |-> [unit  |-> original.unit,
                               note  |-> note,
                               lines |-> Swapped(original.lines),
                               rev   |-> target]]]
            /\ UNCHANGED <<attempt, found, answer>>
       ELSE Reply(r, Refused("not_found"))
  /\ UNCHANGED <<db, snap, holder>>

(* ... then, in statements of their own, the journal under the key ... *)
ReverseCheckKey(r) ==
  /\ pc[r] = "rev_key"
  /\ LET key    == call[r].key
         target == call[r].body.rev
     IN CASE KeyTaken(journals, key) /\ ByKey(journals, key).body.rev = target ->
               /\ Goto(r, "fetch")
               /\ found' = [found EXCEPT ![r] = ByKey(journals, key).id]
               /\ UNCHANGED <<call, attempt, answer>>
          [] KeyTaken(journals, key) /\ ByKey(journals, key).body.rev # target ->
               Reply(r, Refused("conflict"))
          [] ~ KeyTaken(journals, key) /\ ById(journals, target).body.rev # NoJournal ->
               Reply(r, Refused("conflict"))
          [] OTHER ->
               /\ Goto(r, "rev_dup")
               /\ UNCHANGED <<call, attempt, found, answer>>
  /\ UNCHANGED <<db, snap, holder>>

(* ... and an earlier reversal.  What follows is postJournal. *)
ReverseCheckDuplicate(r) ==
  /\ pc[r] = "rev_dup"
  /\ IF ReversalOf(journals, call[r].body.rev) # {}
       THEN Reply(r, Refused("conflict"))
       ELSE /\ StartPosting(r, call[r].key, call[r].body)
            /\ UNCHANGED <<attempt, found>>
  /\ UNCHANGED <<db, snap, holder>>

-----------------------------------------------------------------------------
(* postWithinTransaction *)

Wanted(r) == call[r].body
Accounts(r) == Touched(call[r].body.lines)
Held(r) == {a \in Account : holder[a] = r}

(* The rows SELECT ... FOR UPDATE finds: those of its snapshot. *)
Lockable(r) == Accounts(r) \cap snap[r].accounts
ToLock(r) == Lockable(r) \ Held(r)

(* Mutant: the rows are locked in the order of the lines, debits first. *)
NextLockOfLines(r) ==
  IF ToLock(r) \cap Debits(call[r].body.lines) # {}
    THEN CHOOSE a \in ToLock(r) : a \in Debits(call[r].body.lines)
    ELSE CHOOSE a \in ToLock(r) : TRUE

NextLock(r) == CHOOSE a \in ToLock(r) : \A b \in ToLock(r) : a <= b

(* The transactions whose uncommitted journal is in the unique indexes. *)
Inserted == {r \in Req : pc[r] \in {"count", "commit"}}

(* Another transaction has inserted, and may still take back, an equal key. *)
IndexBlockers(r) ==
  {s \in Inserted \ {r} :
     \/ call[s].key = call[r].key
     \/ Wanted(r).rev # NoJournal /\ Wanted(s).rev = Wanted(r).rev}

(* The transactions that hold the row of the metric 'journals.posted'. *)
CounterBlockers(r) == {s \in Req \ {r} : Metrics /\ pc[s] = "commit"}

(* Whether that row changed after the snapshot: every posting updates it. *)
CounterMoved(r) == Metrics /\ journals # snap[r].journals

(* Mutant: REPEATABLE READ, which lets both of two such transactions commit. *)
ConflictingIgnored(r) == {}

(* A journal the snapshot does not show wrote lines this transaction read. *)
Conflicting(r) ==
  {j \in journals \ snap[r].journals : Touched(j.body.lines) \cap Accounts(r) # {}}

Id(r) == <<r, attempt[r]>>
OwnJournal(r) == [id |-> Id(r), key |-> call[r].key, body |-> Wanted(r)]

(* BEGIN ISOLATION LEVEL SERIALIZABLE, and the read of the key that takes  *)
(* the snapshot.  A transaction that finds the key only reads.             *)
BeginTransaction(r) ==
  /\ pc[r] = "begin"
  /\ LET key == call[r].key
     IN CASE ~ KeyTaken(journals, key) ->
               /\ Goto(r, "lock")
               /\ snap' = [snap EXCEPT ![r] =
                    [accounts |-> accounts, journals |-> journals, posted |-> posted]]
               /\ UNCHANGED <<call, attempt, found, answer>>
          [] KeyTaken(journals, key) /\ ByKey(journals, key).body = Wanted(r) ->
               /\ Goto(r, "fetch")
               /\ found' = [found EXCEPT ![r] = ByKey(journals, key).id]
               /\ UNCHANGED <<call, attempt, snap, answer>>
          [] OTHER -> Reply(r, Refused("conflict")) /\ UNCHANGED snap
  /\ UNCHANGED <<db, holder>>

(* lockAccounts takes the row locks one by one, in the order of the ids. *)
LockAccount(r) ==
  /\ pc[r] = "lock"
  /\ ToLock(r) # {}
  /\ holder[NextLock(r)] = Nobody
  /\ holder' = [holder EXCEPT ![NextLock(r)] = r]
  /\ UNCHANGED <<db, pc, call, attempt, snap, found, answer>>

(* Mutant: the projected balances are not checked. *)
ComplaintBlind(r) ==
  IF ~ Accounts(r) \subseteq snap[r].accounts THEN "not_found"
  ELSE IF \E a \in Accounts(r) : UnitOf[a] # Wanted(r).unit THEN "conflict"
  ELSE "none"

(* The first thing the checks between the locks and the insert object to. *)
Complaint(r) ==
  LET body == Wanted(r)
      view == snap[r]
  IN IF ~ Accounts(r) \subseteq view.accounts THEN "not_found"
     ELSE IF \E a \in Accounts(r) : UnitOf[a] # body.unit THEN "conflict"
     ELSE IF Overdrawn(Projected(view.posted, body.lines), Accounts(r)) # {}
       THEN "insufficient"
     ELSE IF body.rev = NoJournal THEN "none"
     ELSE IF ~ IdTaken(view.journals, body.rev) THEN "not_found"
     ELSE IF ById(view.journals, body.rev).body.rev # NoJournal THEN "conflict"
     ELSE "none"

Validate(r) ==
  /\ pc[r] = "lock"
  /\ ToLock(r) = {}
  /\ IF Complaint(r) = "none"
       THEN /\ Goto(r, "insert")
            /\ UNCHANGED <<db, call, attempt, snap, holder, found, answer>>
       ELSE /\ Reply(r, Refused(Complaint(r)))
            /\ EndTransaction(r)
            /\ UNCHANGED db

(* Mutant: no unique index on reversal_of_journal_id. *)
InsertJournalUnindexed(r) ==
  /\ pc[r] = "insert"
  /\ IndexBlockers(r) = {}
  /\ ~ KeyTaken(journals, call[r].key)
  /\ Goto(r, "count")
  /\ UNCHANGED <<db, call, attempt, snap, holder, found, answer>>

(* The journal and its lines are saved once no other transaction may still *)
(* take back an equal entry of a unique index.                             *)
InsertJournal(r) ==
  /\ pc[r] = "insert"
  /\ IndexBlockers(r) = {}
  /\ ~ KeyTaken(journals, call[r].key)
  /\ Wanted(r).rev # NoJournal => ReversalOf(journals, Wanted(r).rev) = {}
  /\ Goto(r, "count")
  /\ UNCHANGED <<db, call, attempt, snap, holder, found, answer>>

(* 23505 on uq_ledger_journals_idempotency_key: rolled back, then read. *)
KeyViolation(r) ==
  /\ pc[r] = "insert"
  /\ IndexBlockers(r) = {}
  /\ KeyTaken(journals, call[r].key)
  /\ Goto(r, "reread")
  /\ EndTransaction(r)
  /\ UNCHANGED <<db, call, attempt, found, answer>>

(* 23505 on uq_ledger_journals_reversal_of *)
ReversalViolation(r) ==
  /\ pc[r] = "insert"
  /\ IndexBlockers(r) = {}
  /\ Wanted(r).rev # NoJournal
  /\ ReversalOf(journals, Wanted(r).rev) # {}
  /\ Reply(r, Refused("conflict"))
  /\ EndTransaction(r)
  /\ UNCHANGED db

(* metricsService.increment(manager, 'journals.posted'). *)
IncrementCounter(r) ==
  /\ pc[r] = "count"
  /\ CounterBlockers(r) = {}
  /\ ~ CounterMoved(r)
  /\ Goto(r, "commit")
  /\ UNCHANGED <<db, call, attempt, snap, holder, found, answer>>

(* The row changed after the snapshot, so the upsert fails with 40001 and   *)
(* the transaction is aborted.  increment() swallows the error, the COMMIT  *)
(* of the aborted transaction rolls it back and reports no error, and       *)
(* postJournal goes on with the id of a journal that does not exist.        *)
LoseCounter(r) ==
  /\ pc[r] = "count"
  /\ CounterBlockers(r) = {}
  /\ CounterMoved(r)
  /\ found' = [found EXCEPT ![r] = Id(r)]
  /\ Goto(r, "fetch")
  /\ EndTransaction(r)
  /\ UNCHANGED <<db, call, attempt, answer>>

Commit(r) ==
  /\ pc[r] = "commit"
  /\ Conflicting(r) = {}
  /\ journals' = journals \cup {OwnJournal(r)}
  /\ posted' = Projected(posted, Wanted(r).lines)
  /\ found' = [found EXCEPT ![r] = Id(r)]
  /\ Goto(r, "fetch")
  /\ EndTransaction(r)
  /\ UNCHANGED <<accounts, call, attempt, answer>>

(* The connection is lost, or the process stops: what is open rolls back.  *)
(* After the commit ("fetch") the journal stays and the client hears of it *)
(* no more than of a failed one.                                           *)
LoseConnection(r) ==
  /\ pc[r] \notin {"idle", "done"}
  /\ Reply(r, Refused("error"))
  /\ EndTransaction(r)
  /\ UNCHANGED db

(* Mutant: one try too many. *)
SerializationFailureOneMore(r) ==
  /\ pc[r] \in InTransaction
  /\ pc[r] = "count" => ~ Metrics
  /\ EndTransaction(r)
  /\ IF attempt[r] <= MaxAttempts
       THEN /\ attempt' = [attempt EXCEPT ![r] = @ + 1]
            /\ Goto(r, "begin")
            /\ UNCHANGED <<call, found, answer>>
       ELSE Reply(r, Refused("error"))
  /\ UNCHANGED db

(* 40001, or 40P01 for a deadlock victim.  PostgreSQL may always choose to *)
(* abort; the attempt after the last one is never made.  The statement of  *)
(* stage "count" is the metric's, whose errors LoseCounter stands for.     *)
SerializationFailure(r) ==
  /\ pc[r] \in InTransaction
  /\ pc[r] = "count" => ~ Metrics
  /\ EndTransaction(r)
  /\ IF attempt[r] < MaxAttempts
       THEN /\ attempt' = [attempt EXCEPT ![r] = @ + 1]
            /\ Goto(r, "begin")
            /\ UNCHANGED <<call, found, answer>>
       ELSE Reply(r, Refused("error"))
  /\ UNCHANGED db

-----------------------------------------------------------------------------
(* After the transaction *)

(* Mutant: the winner is returned whatever it posted. *)
ReadWinnerUnchecked(r) ==
  /\ pc[r] = "reread"
  /\ found' = [found EXCEPT ![r] = ByKey(journals, call[r].key).id]
  /\ Goto(r, "fetch")
  /\ UNCHANGED <<db, snap, holder, call, attempt, answer>>

(* The winner of the race for the key is read outside any transaction. *)
ReadWinner(r) ==
  /\ pc[r] = "reread"
  /\ LET key == call[r].key
     IN IF KeyTaken(journals, key) /\ ByKey(journals, key).body = Wanted(r)
          THEN /\ found' = [found EXCEPT ![r] = ByKey(journals, key).id]
               /\ Goto(r, "fetch")
               /\ UNCHANGED <<call, attempt, answer>>
          ELSE Reply(r, Refused("conflict"))
  /\ UNCHANGED <<db, snap, holder>>

(* getJournal *)
GetJournal(r) ==
  /\ pc[r] = "fetch"
  /\ IF IdTaken(journals, found[r])
       THEN Reply(r, Granted(ById(journals, found[r])))
       ELSE Reply(r, Refused("not_found"))
  /\ UNCHANGED <<db, snap, holder>>

-----------------------------------------------------------------------------
Submit(r) ==
  \/ \E c \in Commands : PostJournal(r, c)
  \/ \E target \in {j.id : j \in journals} \cup {NoJournal}, key \in Key, note \in Note :
       ReverseJournal(r, target, key, note)

(* The steps a handler takes by itself once it has been called. *)
Handle(r) ==
  \/ ReverseCheckKey(r)
  \/ ReverseCheckDuplicate(r)
  \/ BeginTransaction(r)
  \/ LockAccount(r)
  \/ Validate(r)
  \/ InsertJournal(r)
  \/ KeyViolation(r)
  \/ ReversalViolation(r)
  \/ IncrementCounter(r)
  \/ LoseCounter(r)
  \/ Commit(r)
  \/ ReadWinner(r)
  \/ GetJournal(r)

(* What the database and the network may do to it. *)
Fail(r) ==
  \/ LoseConnection(r)
  \/ SerializationFailure(r)

Next ==
  \/ \E a \in Account : CreateAccount(a)
  \/ \E r \in Req : Submit(r) \/ Handle(r) \/ Fail(r)

Spec == Init /\ [][Next]_vars

-----------------------------------------------------------------------------
(* Correctness *)

(* Types of all variables. *)
TypeOK ==
  /\ accounts \subseteq Account
  /\ journals \subseteq Journal
  /\ posted \in [Account -> Int]
  /\ pc \in [Req -> Stages]
  /\ call \in [Req -> Command \cup {NoJournal}]
  /\ \A r \in Req : pc[r] \notin {"idle", "done"} => call[r] \in Command
  /\ attempt \in [Req -> 1..MaxAttempts]
  /\ snap \in [Req -> Snapshot]
  /\ holder \in [Account -> Req \cup {Nobody}]
  /\ found \in [Req -> JournalId \cup {NoJournal}]
  /\ answer \in [Req -> Replies]

(* The balance the service computes from the lines of an account. *)
SumOfLines(a) ==
  SumFunction([j \in journals |-> Effect(a, j.body.lines[a])])

(* No interleaving of postings leaves an account below zero that may not   *)
(* be: the balance check reads a snapshot that may be older than the lock. *)
NoOverdraft == Overdrawn(posted, Account) = {}

(* What was debited over all accounts was credited: no posting, retry or   *)
(* reversal creates or destroys money, and the sums kept in posted are     *)
(* those of the lines.                                                     *)
BooksBalance ==
  /\ \A a \in Account : posted[a] = SumOfLines(a)
  /\ NetDebit([a \in Account |-> Effect(a, posted[a])]) = 0

(* A journal under one idempotency key at most, and every request that was *)
(* answered with a journal was answered with the committed journal of its  *)
(* own key, and of its own body: concurrent and retried requests of one    *)
(* key see one journal.                                                    *)
OneJournalPerKey ==
  /\ \A i, j \in journals : i.key = j.key \/ i.id = j.id => i = j
  /\ \A r \in Req : answer[r].kind = "ok" =>
       /\ answer[r].key = call[r].key
       /\ \E j \in journals :
            /\ Granted(j) = answer[r]
            /\ j.body.rev = call[r].body.rev
            /\ j.body.rev = NoJournal => j.body = call[r].body

(* A journal is undone once at most, exactly, and the undoing is final. *)
ReversalsUndoOnce ==
  \A j \in journals : j.body.rev # NoJournal =>
    /\ ReversalOf(journals, j.body.rev) = {j}
    /\ \E o \in journals :
         /\ o.id = j.body.rev
         /\ o.body.rev = NoJournal
         /\ j.body.lines = Swapped(o.body.lines)

(* r waits for a lock of s, or for what s does with its index entry or its *)
(* update of the metric.                                                   *)
WaitsFor(r, s) ==
  \/ pc[r] = "lock" /\ ToLock(r) # {} /\ holder[NextLock(r)] = s
  \/ pc[r] = "insert" /\ s \in IndexBlockers(r)
  \/ pc[r] = "count" /\ s \in CounterBlockers(r)

(* Postings never wait for each other in a circle, although they meet on   *)
(* accounts, unique indexes and the metric: lockAccounts takes the rows in *)
(* the order of their ids and nobody inserts before having them all.       *)
NoDeadlock ==
  \A S \in (SUBSET Req) \ {{}} : \E r \in S : \A s \in S : ~ WaitsFor(r, s)

(* What makes the invariants above inductive.                              *)

(* A snapshot is of the past, and what it shows of an account is current    *)
(* as long as no later journal touched the account.                        *)
SnapshotsAgree ==
  \A r \in Req : pc[r] \in InTransaction =>
    /\ snap[r].journals \subseteq journals
    /\ \A a \in Account :
         (\A j \in journals \ snap[r].journals : a \notin Touched(j.body.lines))
           => posted[a] = snap[r].posted[a]

(* What a transaction checked stays checked until it commits. *)
ChecksHold ==
  \A r \in Req :
    /\ pc[r] \in {"begin"} \cup InTransaction => Normalized(Wanted(r).lines)
    /\ pc[r] \in {"insert", "count", "commit"} => Complaint(r) = "none"

(* The unique indexes admit no second entry, committed or not. *)
IndexesHold ==
  \A r \in Inserted :
    /\ ~ KeyTaken(journals, call[r].key)
    /\ Wanted(r).rev # NoJournal => ReversalOf(journals, Wanted(r).rev) = {}
    /\ IndexBlockers(r) = {}

(* An id is drawn by one try of one request, which commits at most once. *)
IdsAreFresh ==
  \A r \in Req : pc[r] \notin {"fetch", "done"} =>
    \A j \in journals : \A n \in 1..MaxAttempts : j.id # <<r, n>>

(* What a reversal asks for is the original with its sides swapped. *)
ReversalsMirror ==
  \A r \in Req :
    /\ pc[r] \in {"rev_key", "rev_dup"} => Wanted(r).rev # NoJournal
    /\ pc[r] \notin {"idle", "done"} /\ Wanted(r).rev # NoJournal =>
         \E o \in journals : o.id = Wanted(r).rev /\ Wanted(r).lines = Swapped(o.body.lines)

(* A handler about to fetch a journal fetches the one it was asked for, or *)
(* one that its own lost transaction never committed.                      *)
FoundIsOwn ==
  \A r \in Req : pc[r] = "fetch" =>
    \/ found[r] = Id(r) /\ ~ IdTaken(journals, found[r])
    \/ \E j \in journals :
         /\ j.id = found[r]
         /\ j.key = call[r].key
         /\ j.body.rev = call[r].body.rev
         /\ j.body.rev = NoJournal => j.body = call[r].body

(* The rows a transaction has come before the ones it is still to lock,    *)
(* and nothing is locked outside of one.                                   *)
LocksOrdered ==
  \A r \in Req :
    /\ pc[r] \notin InTransaction => Held(r) = {}
    /\ pc[r] = "lock" => \A a \in Held(r), b \in ToLock(r) : a < b

Unanswered == \A r \in Req : pc[r] # "done" => answer[r] = Pending

LedgerInv ==
  /\ TypeOK
  /\ NoOverdraft
  /\ OneJournalPerKey
  /\ ReversalsUndoOnce
  /\ SnapshotsAgree
  /\ ChecksHold
  /\ IndexesHold
  /\ IdsAreFresh
  /\ ReversalsMirror
  /\ FoundIsOwn
  /\ Unanswered

(* The ledger is the atomic one: a journal appears at the instant its      *)
(* transaction commits, judged on the balances of that instant.            *)
Atomic == INSTANCE AtomicLedger WITH balance <- posted, reply <- answer

ImplementsAtomicLedger == Atomic!Spec

=============================================================================
