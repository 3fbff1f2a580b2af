--------------------------- MODULE Ledger_proofs ---------------------------
(***************************************************************************)
(* What TLAPS proves of Ledger for every set of requests, accounts, keys   *)
(* and commands.                                                           *)
(***************************************************************************)
EXTENDS Ledger, FiniteInduction, TLAPS

LEMMA OwnIdType ==
  ASSUME TypeOK, NEW r \in Req
  PROVE  Id(r) \in JournalId
BY LedgerAssumption DEF TypeOK, Id

LEMMA RefusedType == \A w \in Refusals : Refused(w) \in Replies
BY DEF Replies

LEMMA SwappedType == \A l \in Lines : Swapped(l) \in Lines
BY DEF Lines, Swapped

LEMMA ProjectedType ==
  \A b \in [Account -> Int], l \in Lines : Projected(b, l) \in [Account -> Int]
BY DEF Lines, Projected, Effect

(* A journal found by its key, or by its id, is one of the journals. *)
LEMMA ByKeyFinds ==
  ASSUME NEW js, NEW k, KeyTaken(js, k)
  PROVE  ByKey(js, k) \in js /\ ByKey(js, k).key = k
BY DEF KeyTaken, ByKey

LEMMA ByIdFinds ==
  ASSUME NEW js, NEW i, IdTaken(js, i)
  PROVE  ById(js, i) \in js /\ ById(js, i).id = i
BY DEF IdTaken, ById

LEMMA ComplaintType == \A r \in Req : Complaint(r) \in Refusals \cup {"none"}
BY DEF Complaint, Refusals

LEMMA ReplyType ==
  ASSUME TypeOK, NEW r \in Req, NEW a \in Replies, Reply(r, a)
  PROVE  /\ pc' \in [Req -> Stages]
         /\ answer' \in [Req -> Replies]
         /\ call' = call /\ attempt' = attempt /\ found' = found
         /\ \A q \in Req : pc'[q] \notin {"idle", "done"} => call'[q] \in Command
BY DEF TypeOK, Reply, Goto, Stages, InTransaction, Replies

LEMMA GotoType ==
  ASSUME TypeOK, NEW r \in Req, NEW stage \in Stages, Goto(r, stage), call' = call,
         call[r] \in Command
  PROVE  /\ pc' \in [Req -> Stages]
         /\ \A q \in Req : pc'[q] \notin {"idle", "done"} => call'[q] \in Command
BY DEF TypeOK, Goto

LEMMA EndTransactionType ==
  ASSUME TypeOK, NEW r \in Req, EndTransaction(r)
  PROVE  holder' \in [Account -> Req \cup {Nobody}] /\ snap' \in [Req -> Snapshot]
<1>1. NoSnapshot \in Snapshot
  BY DEF NoSnapshot, Snapshot
<1>2. QED
  BY <1>1 DEF TypeOK, EndTransaction

LEMMA WantedType ==
  ASSUME TypeOK, NEW r \in Req, pc[r] \notin {"idle", "done"}
  PROVE  /\ call[r] \in Command
         /\ call[r].key \in Key
         /\ Wanted(r) \in Body
         /\ Wanted(r).lines \in Lines
BY DEF TypeOK, Wanted, Command, Body

LEMMA TypeInit == Init => TypeOK
<1> SUFFICES ASSUME Init PROVE TypeOK
  OBVIOUS
<1>1. NoSnapshot \in Snapshot
  BY DEF NoSnapshot, Snapshot
<1>2. /\ accounts \subseteq Account
      /\ journals \subseteq Journal
      /\ posted \in [Account -> Int]
      /\ pc \in [Req -> Stages]
      /\ holder \in [Account -> Req \cup {Nobody}]
      /\ \A r \in Req : pc[r] = "idle"
  BY DEF Init, Stages
<1>3. /\ call \in [Req -> Command \cup {NoJournal}]
      /\ attempt \in [Req -> 1..MaxAttempts]
      /\ snap \in [Req -> Snapshot]
      /\ found \in [Req -> JournalId \cup {NoJournal}]
      /\ answer \in [Req -> Replies]
  BY <1>1, LedgerAssumption DEF Init, Replies
<1>4. QED
  BY <1>2, <1>3 DEF TypeOK, Replies

(* StartPosting leaves a well-typed command that is not started or done. *)
LEMMA StartPostingType ==
  ASSUME TypeOK, NEW r \in Req, NEW key \in Key, NEW body \in Body,
         StartPosting(r, key, body)
  PROVE  /\ pc' \in [Req -> Stages]
         /\ call' \in [Req -> Command \cup {NoJournal}]
         /\ \A q \in Req : pc'[q] \notin {"idle", "done"} => call'[q] \in Command
         /\ answer' \in [Req -> Replies]
<1>1. [key |-> key, body |-> body] \in Command
  BY DEF Command
<1>2. call' \in [Req -> Command \cup {NoJournal}]
  BY <1>1 DEF TypeOK, StartPosting
<1>3. Refused("bad_request") \in Replies /\ answer \in [Req -> Replies]
  BY DEF Replies, Refusals, TypeOK
<1>4. answer' \in [Req -> Replies] /\ pc' \in [Req -> Stages]
  BY <1>3 DEF TypeOK, StartPosting, Goto, Stages
<1>5. call'[r] = [key |-> key, body |-> body]
  BY DEF TypeOK, StartPosting
<1>6. call'[r] \in Command
  BY <1>1, <1>5
<1>7. \A q \in Req \ {r} : call'[q] = call[q] /\ pc'[q] = pc[q]
  BY DEF TypeOK, StartPosting, Goto
<1>8. QED
  BY <1>2, <1>4, <1>6, <1>7 DEF TypeOK

LEMMA TypeStep == TypeOK /\ [Next]_vars => TypeOK'
<1> SUFFICES ASSUME TypeOK, [Next]_vars PROVE TypeOK'
  OBVIOUS
<1>1. ASSUME NEW a \in Account, CreateAccount(a) PROVE TypeOK'
  BY <1>1 DEF TypeOK, CreateAccount
<1>2. ASSUME NEW r \in Req, NEW c \in Commands, PostJournal(r, c) PROVE TypeOK'
  <2>1. c.key \in Key /\ c.body \in Body
    BY LedgerAssumption DEF Command
  <2>2. QED
    BY <1>2, <2>1, StartPostingType DEF PostJournal, TypeOK, db
<1>3. ASSUME NEW r \in Req, NEW target \in JournalId \cup {NoJournal},
             NEW key \in Key, NEW note \in Note, ReverseJournal(r, target, key, note)
      PROVE  TypeOK'
  <2>1. CASE IdTaken(journals, target)
    <3> DEFINE original == ById(journals, target).body
               body == [unit |-> original.unit, note |-> note,
                        lines |-> Swapped(original.lines), rev |-> target]
    <3>1. original \in Body
      BY <2>1, ByIdFinds DEF TypeOK, Journal
    <3>2. Swapped(original.lines) \in Lines
      BY <3>1, SwappedType DEF Body
    <3>3. body \in Body
      BY <3>1, <3>2 DEF Body
    <3>4. call' = [call EXCEPT ![r] = [key |-> key, body |-> body]] /\ Goto(r, "rev_key")
      BY <1>3, <2>1 DEF ReverseJournal
    <3>5. [key |-> key, body |-> body] \in Command
      BY <3>3 DEF Command
    <3> HIDE DEF body, original
    <3>6. /\ call' \in [Req -> Command \cup {NoJournal}]
          /\ pc' \in [Req -> Stages]
          /\ \A q \in Req : pc'[q] \notin {"idle", "done"} => call'[q] \in Command
      BY <3>4, <3>5 DEF TypeOK, Goto, Stages
    <3>7. QED
      BY <1>3, <2>1, <3>6 DEF ReverseJournal, TypeOK, db
  <2>2. CASE ~ IdTaken(journals, target)
    BY <1>3, <2>2, ReplyType, RefusedType DEF ReverseJournal, TypeOK, db, Refusals
  <2>3. QED
    BY <2>1, <2>2
<1>4. ASSUME NEW r \in Req, Handle(r) PROVE TypeOK'
  <2>1. CASE ReverseCheckKey(r)
    <3>1. KeyTaken(journals, call[r].key) => ByKey(journals, call[r].key).id \in JournalId
      BY ByKeyFinds DEF TypeOK, Journal
    <3>2. CASE Reply(r, Refused("conflict"))
      BY <2>1, <3>2, ReplyType, RefusedType DEF ReverseCheckKey, TypeOK, db, Refusals
    <3>3. CASE Goto(r, "rev_dup") /\ UNCHANGED <<call, attempt, found, answer>>
      BY <2>1, <3>3, GotoType DEF ReverseCheckKey, TypeOK, db, Stages
    <3>4. CASE /\ KeyTaken(journals, call[r].key)
               /\ Goto(r, "fetch")
               /\ found' = [found EXCEPT ![r] = ByKey(journals, call[r].key).id]
               /\ UNCHANGED <<call, attempt, answer>>
      BY <2>1, <3>1, <3>4, GotoType DEF ReverseCheckKey, TypeOK, db, Stages
    <3>5. QED
      BY <2>1, <3>2, <3>3, <3>4 DEF ReverseCheckKey
  <2>2. CASE ReverseCheckDuplicate(r)
    <3>1. call[r].key \in Key /\ call[r].body \in Body
      BY <2>2 DEF ReverseCheckDuplicate, TypeOK, Command
    <3>2. CASE Reply(r, Refused("conflict"))
      BY <2>2, <3>2, ReplyType, RefusedType DEF ReverseCheckDuplicate, TypeOK, db, Refusals
    <3>3. CASE StartPosting(r, call[r].key, call[r].body) /\ UNCHANGED <<attempt, found>>
      BY <2>2, <3>1, <3>3, StartPostingType DEF ReverseCheckDuplicate, TypeOK, db
    <3>4. QED
      BY <2>2, <3>2, <3>3 DEF ReverseCheckDuplicate
  <2>3. CASE BeginTransaction(r)
    <3>1. KeyTaken(journals, call[r].key) => ByKey(journals, call[r].key).id \in JournalId
      BY ByKeyFinds DEF TypeOK, Journal
    <3>2. CASE Reply(r, Refused("conflict")) /\ UNCHANGED snap
      BY <2>3, <3>2, ReplyType, RefusedType DEF BeginTransaction, TypeOK, db, Refusals
    <3>3. CASE /\ Goto(r, "lock")
               /\ snap' = [snap EXCEPT ![r] =
                    [accounts |-> accounts, journals |-> journals, posted |-> posted]]
               /\ UNCHANGED <<call, attempt, found, answer>>
      <4>1. snap' \in [Req -> Snapshot]
        BY <3>3 DEF TypeOK, Snapshot
      <4>2. QED
        BY <2>3, <3>3, <4>1, GotoType DEF BeginTransaction, TypeOK, db, Stages, InTransaction
    <3>4. CASE /\ KeyTaken(journals, call[r].key)
               /\ Goto(r, "fetch")
               /\ found' = [found EXCEPT ![r] = ByKey(journals, call[r].key).id]
               /\ UNCHANGED <<call, attempt, snap, answer>>
      BY <2>3, <3>1, <3>4, GotoType DEF BeginTransaction, TypeOK, db, Stages
    <3>5. QED
      BY <2>3, <3>2, <3>3, <3>4 DEF BeginTransaction
  <2>4. CASE LockAccount(r)
    BY <2>4 DEF LockAccount, TypeOK, db
  <2>5. CASE Validate(r)
    <3>1. CASE Complaint(r) = "none"
      BY <2>5, <3>1, GotoType DEF Validate, TypeOK, db, Stages, InTransaction
    <3>2. CASE Complaint(r) # "none"
      BY <2>5, <3>2, ReplyType, RefusedType, ComplaintType, EndTransactionType
         DEF Validate, TypeOK, db
    <3>3. QED
      BY <3>1, <3>2
  <2>6. CASE InsertJournal(r)
    BY <2>6, GotoType DEF InsertJournal, TypeOK, db, Stages, InTransaction
  <2>7. CASE KeyViolation(r)
    BY <2>7, GotoType, EndTransactionType DEF KeyViolation, TypeOK, db, Stages
  <2>8. CASE ReversalViolation(r)
    BY <2>8, ReplyType, RefusedType, EndTransactionType
       DEF ReversalViolation, TypeOK, db, Refusals
  <2>9. CASE IncrementCounter(r)
    BY <2>9, GotoType DEF IncrementCounter, TypeOK, db, Stages, InTransaction
  <2>10. CASE LoseCounter(r)
    BY <2>10, GotoType, EndTransactionType, OwnIdType DEF LoseCounter, TypeOK, db, Stages
  <2>11. CASE Commit(r)
    <3>1. OwnJournal(r) \in Journal
      BY <2>11, OwnIdType, WantedType DEF Commit, OwnJournal, Journal
    <3>2. posted' \in [Account -> Int]
      BY <2>11, WantedType, ProjectedType DEF Commit, TypeOK
    <3>3. QED
      BY <2>11, <3>1, <3>2, GotoType, EndTransactionType, OwnIdType DEF Commit, TypeOK, Stages
  <2>12. CASE ReadWinner(r)
    <3>1. KeyTaken(journals, call[r].key) => ByKey(journals, call[r].key).id \in JournalId
      BY ByKeyFinds DEF TypeOK, Journal
    <3>2. CASE Reply(r, Refused("conflict"))
      BY <2>12, <3>2, ReplyType, RefusedType DEF ReadWinner, TypeOK, db, Refusals
    <3>3. CASE /\ KeyTaken(journals, call[r].key)
               /\ Goto(r, "fetch")
               /\ found' = [found EXCEPT ![r] = ByKey(journals, call[r].key).id]
               /\ UNCHANGED <<call, attempt, answer>>
      BY <2>12, <3>1, <3>3, GotoType DEF ReadWinner, TypeOK, db, Stages
    <3>4. QED
      BY <2>12, <3>2, <3>3 DEF ReadWinner
  <2>13. CASE GetJournal(r)
    <3>1. CASE IdTaken(journals, found[r])
      <4>1. Granted(ById(journals, found[r])) \in Replies
        BY <3>1, ByIdFinds DEF TypeOK, Journal, Granted, Replies
      <4>2. QED
        BY <2>13, <3>1, <4>1, ReplyType DEF GetJournal, TypeOK, db
    <3>2. CASE ~ IdTaken(journals, found[r])
      BY <2>13, <3>2, ReplyType, RefusedType DEF GetJournal, TypeOK, db, Refusals
    <3>3. QED
      BY <3>1, <3>2
  <2>14. QED
    BY <1>4, <2>1, <2>2, <2>3, <2>4, <2>5, <2>6, <2>7, <2>8, <2>9, <2>10, <2>11, <2>12, <2>13
       DEF Handle
<1>5. ASSUME NEW r \in Req, Fail(r) PROVE TypeOK'
  <2>1. CASE LoseConnection(r)
    BY <2>1, ReplyType, RefusedType, EndTransactionType DEF LoseConnection, TypeOK, db, Refusals
  <2>2. CASE SerializationFailure(r)
    <3>1. CASE attempt[r] < MaxAttempts
      <4>1. attempt' \in [Req -> 1..MaxAttempts]
        BY <2>2, <3>1, LedgerAssumption DEF SerializationFailure, TypeOK
      <4>2. QED
        BY <2>2, <3>1, <4>1, GotoType, EndTransactionType
           DEF SerializationFailure, TypeOK, db, Stages, InTransaction
    <3>2. CASE ~ attempt[r] < MaxAttempts
      BY <2>2, <3>2, ReplyType, RefusedType, EndTransactionType
         DEF SerializationFailure, TypeOK, db, Refusals
    <3>3. QED
      BY <3>1, <3>2
  <2>3. QED
    BY <1>5, <2>1, <2>2 DEF Fail
<1>6. CASE UNCHANGED vars
  BY <1>6 DEF TypeOK, vars
<1>7. \A j \in journals : j.id \in JournalId
  BY DEF TypeOK, Journal
<1>8. QED
  BY <1>1, <1>2, <1>3, <1>4, <1>5, <1>6, <1>7 DEF Next, Submit

(* Every variable of the ledger keeps its type: TypeOK is inductive. *)
THEOREM TypeCorrect == Spec => []TypeOK
BY TypeInit, TypeStep, PTL DEF Spec

-----------------------------------------------------------------------------
(* Facts about single steps *)

(* A step of one request changes the handler's state of no other request. *)
OnlyOf(r) ==
  \A q \in Req \ {r} :
    /\ pc'[q] = pc[q]
    /\ call'[q] = call[q]
    /\ attempt'[q] = attempt[q]
    /\ snap'[q] = snap[q]
    /\ found'[q] = found[q]
    /\ answer'[q] = answer[q]

LEMMA StepIsLocal ==
  ASSUME TypeOK, NEW r \in Req, Submit(r) \/ Handle(r) \/ Fail(r)
  PROVE  OnlyOf(r)
<1>1. CASE Submit(r)
  BY <1>1 DEF Submit, PostJournal, ReverseJournal, StartPosting, Reply, Goto, TypeOK, OnlyOf
<1>2. CASE Fail(r)
  BY <1>2 DEF Fail, LoseConnection, SerializationFailure, EndTransaction, Reply, Goto,
              TypeOK, OnlyOf
<1>3. CASE ReverseCheckKey(r)
  BY <1>3 DEF ReverseCheckKey, Reply, Goto, TypeOK, OnlyOf
<1>4. CASE ReverseCheckDuplicate(r)
  BY <1>4 DEF ReverseCheckDuplicate, StartPosting, Reply, Goto, TypeOK, OnlyOf
<1>5. CASE BeginTransaction(r)
  BY <1>5 DEF BeginTransaction, Reply, Goto, TypeOK, OnlyOf
<1>6. CASE LockAccount(r)
  BY <1>6 DEF LockAccount, OnlyOf
<1>7. CASE Validate(r)
  BY <1>7 DEF Validate, EndTransaction, Reply, Goto, TypeOK, OnlyOf
<1>8. CASE InsertJournal(r) \/ IncrementCounter(r)
  BY <1>8 DEF InsertJournal, IncrementCounter, Goto, TypeOK, OnlyOf
<1>9. CASE KeyViolation(r) \/ ReversalViolation(r)
  BY <1>9 DEF KeyViolation, ReversalViolation, EndTransaction, Reply, Goto, TypeOK, OnlyOf
<1>10. CASE LoseCounter(r) \/ Commit(r)
  BY <1>10 DEF LoseCounter, Commit, EndTransaction, Goto, TypeOK, OnlyOf
<1>11. CASE ReadWinner(r)
  BY <1>11 DEF ReadWinner, Reply, Goto, TypeOK, OnlyOf
<1>12. CASE GetJournal(r)
  BY <1>12 DEF GetJournal, Reply, Goto, TypeOK, OnlyOf
<1>13. QED
  BY <1>1, <1>2, <1>3, <1>4, <1>5, <1>6, <1>7, <1>8, <1>9, <1>10, <1>11, <1>12 DEF Handle

(* Only a commit changes the journals and the balances. *)
Quiet == UNCHANGED <<journals, posted>>

LEMMA OnlyCommitPosts ==
  ASSUME TypeOK, NEW r \in Req, Submit(r) \/ Handle(r) \/ Fail(r), ~ Commit(r)
  PROVE  Quiet
<1>1. CASE Submit(r) \/ Fail(r)
  BY <1>1 DEF Submit, PostJournal, ReverseJournal, Fail, LoseConnection,
              SerializationFailure, db, Quiet
<1>2. CASE Handle(r)
  BY <1>2 DEF Handle, ReverseCheckKey, ReverseCheckDuplicate, BeginTransaction, LockAccount,
              Validate, InsertJournal, KeyViolation, ReversalViolation, IncrementCounter,
              LoseCounter, ReadWinner, GetJournal, db, Quiet
<1>3. QED
  BY <1>1, <1>2

(* What the checks read of a request does not change with other requests. *)
LEMMA ComplaintIsLocal ==
  ASSUME NEW r \in Req, call'[r] = call[r], snap'[r] = snap[r]
  PROVE  /\ Complaint(r)' = Complaint(r)
         /\ Wanted(r)' = Wanted(r)
         /\ Accounts(r)' = Accounts(r)
BY DEF Complaint, Wanted, Accounts

-----------------------------------------------------------------------------
(* Each part of LedgerInv is preserved by the steps of one request *)

Step(r) == Submit(r) \/ Handle(r) \/ Fail(r)

(* A transaction goes on from stage to stage with one command and one      *)
(* snapshot, or it is over.                                                *)
LEMMA StageOrder ==
  ASSUME TypeOK, NEW r \in Req, Step(r)
  PROVE  /\ pc'[r] \in InTransaction => /\ call'[r] = call[r]
                                        /\ attempt'[r] = attempt[r]
                                        /\ pc[r] \in InTransaction \cup {"begin"}
         /\ pc'[r] \in InTransaction /\ pc[r] \in InTransaction => snap'[r] = snap[r]
         /\ pc'[r] \in {"count", "commit"} => pc[r] \in {"insert", "count"}
         /\ pc'[r] = "insert" => pc[r] = "lock" /\ Complaint(r) = "none"
         /\ pc'[r] \in InTransaction /\ pc[r] = "begin" => pc'[r] = "lock" /\ Quiet
                  /\ snap'[r] = [accounts |-> accounts, journals |-> journals,
                                 posted |-> posted]
<1>1. CASE Submit(r)
  BY <1>1 DEF Submit, PostJournal, ReverseJournal, StartPosting, Reply, Goto, TypeOK,
              InTransaction
<1>2. CASE Fail(r)
  BY <1>2 DEF Fail, LoseConnection, SerializationFailure, Reply, Goto, TypeOK, InTransaction
<1>3. CASE ReverseCheckKey(r) \/ ReverseCheckDuplicate(r)
  BY <1>3 DEF ReverseCheckKey, ReverseCheckDuplicate, StartPosting, Reply, Goto, TypeOK,
              InTransaction
<1>4. CASE BeginTransaction(r)
  BY <1>4 DEF BeginTransaction, Reply, Goto, TypeOK, InTransaction, Quiet, db
<1>5. CASE LockAccount(r)
  BY <1>5 DEF LockAccount, InTransaction
<1>6. CASE Validate(r)
  BY <1>6 DEF Validate, Reply, Goto, TypeOK, InTransaction
<1>7. CASE InsertJournal(r) \/ IncrementCounter(r)
  BY <1>7 DEF InsertJournal, IncrementCounter, Goto, TypeOK, InTransaction
<1>8. CASE KeyViolation(r) \/ ReversalViolation(r)
  BY <1>8 DEF KeyViolation, ReversalViolation, Reply, Goto, TypeOK, InTransaction
<1>9. CASE LoseCounter(r) \/ Commit(r)
  BY <1>9 DEF LoseCounter, Commit, Goto, TypeOK, InTransaction
<1>10. CASE ReadWinner(r) \/ GetJournal(r)
  BY <1>10 DEF ReadWinner, GetJournal, Reply, Goto, TypeOK, InTransaction
<1>11. QED
  BY <1>1, <1>2, <1>3, <1>4, <1>5, <1>6, <1>7, <1>8, <1>9, <1>10 DEF Handle, Step

LEMMA OwnJournalIsNew ==
  ASSUME TypeOK, IdsAreFresh, NEW r \in Req, Commit(r)
  PROVE  /\ OwnJournal(r) \notin journals
         /\ \A j \in journals : j.id # OwnJournal(r).id
<1>1. attempt[r] \in 1..MaxAttempts /\ pc[r] = "commit"
  BY DEF TypeOK, Commit
<1>2. \A j \in journals : j.id # <<r, attempt[r]>>
  BY <1>1 DEF IdsAreFresh
<1>3. OwnJournal(r).id = <<r, attempt[r]>>
  BY DEF OwnJournal, Id
<1>4. QED
  BY <1>2, <1>3

LEMMA SnapshotsAgreeStep ==
  ASSUME LedgerInv, NEW r \in Req, Step(r)
  PROVE  SnapshotsAgree'
<1> SUFFICES ASSUME NEW q \in Req, pc'[q] \in InTransaction
             PROVE  /\ snap'[q].journals \subseteq journals'
                    /\ \A a \in Account :
                         (\A j \in journals' \ snap'[q].journals : a \notin Touched(j.body.lines))
                           => posted'[a] = snap'[q].posted[a]
  BY DEF SnapshotsAgree
<1>1. CASE q = r /\ pc[q] = "begin"
  BY <1>1, StageOrder DEF LedgerInv, Quiet
<1>2. CASE q # r \/ pc[q] # "begin"
  <2>1. snap'[q] = snap[q] /\ pc[q] \in InTransaction
    BY <1>2, StageOrder, StepIsLocal DEF LedgerInv, OnlyOf, Step
  <2>2. CASE Quiet
    BY <2>1, <2>2 DEF LedgerInv, SnapshotsAgree, Quiet
  <2>3. CASE Commit(r)
    <3>1. journals' = journals \cup {OwnJournal(r)} /\ posted' = Projected(posted, Wanted(r).lines)
      BY <2>3 DEF Commit
    <3>2. OwnJournal(r) \notin snap[q].journals
      BY <2>1, <2>3, OwnJournalIsNew DEF LedgerInv, SnapshotsAgree
    <3>3. OwnJournal(r).body.lines = Wanted(r).lines
      BY DEF OwnJournal
    <3>4. ASSUME NEW a \in Account,
                 \A j \in journals' \ snap'[q].journals : a \notin Touched(j.body.lines)
          PROVE  posted'[a] = snap'[q].posted[a]
      <4>1. a \notin Touched(Wanted(r).lines)
        BY <2>1, <3>1, <3>2, <3>3, <3>4
      <4>2. Wanted(r).lines[a] = 0
        BY <4>1 DEF Touched
      <4>3. posted'[a] = posted[a] + Effect(a, 0)
        BY <3>1, <4>2 DEF Projected
      <4>4. posted'[a] = posted[a]
        BY <4>3 DEF LedgerInv, TypeOK, Effect
      <4>5. posted[a] = snap[q].posted[a]
        BY <2>1, <3>1, <3>4 DEF LedgerInv, SnapshotsAgree
      <4>6. QED
        BY <2>1, <4>4, <4>5
    <3>5. QED
      BY <2>1, <3>1, <3>4 DEF LedgerInv, SnapshotsAgree
  <2>4. QED
    BY <2>2, <2>3, OnlyCommitPosts DEF LedgerInv, Step
<1>3. QED
  BY <1>1, <1>2

LEMMA NoOverdraftStep ==
  ASSUME LedgerInv, NEW r \in Req, Step(r)
  PROVE  NoOverdraft'
<1>1. CASE Quiet
  BY <1>1 DEF LedgerInv, NoOverdraft, Overdrawn, Quiet
<1>2. CASE Commit(r)
  <2> SUFFICES ASSUME NEW a \in Account \ MayGoNegative PROVE ~ posted'[a] < 0
    BY DEF NoOverdraft, Overdrawn
  <2>1. posted'[a] = posted[a] + Effect(a, Wanted(r).lines[a])
    BY <1>2 DEF Commit, Projected
  <2>2. posted[a] \in Int /\ ~ posted[a] < 0
    BY DEF LedgerInv, TypeOK, NoOverdraft, Overdrawn
  <2>3. CASE a \in Accounts(r)
    <3>1. posted[a] = snap[r].posted[a]
      <4>1. \A j \in journals \ snap[r].journals : a \notin Touched(j.body.lines)
        BY <1>2, <2>3 DEF Commit, Conflicting
      <4>2. QED
        BY <1>2, <4>1 DEF LedgerInv, SnapshotsAgree, Commit, InTransaction
    <3>2. Overdrawn(Projected(snap[r].posted, Wanted(r).lines), Accounts(r)) = {}
      BY <1>2 DEF LedgerInv, ChecksHold, Commit, Complaint
    <3>3. ~ Projected(snap[r].posted, Wanted(r).lines)[a] < 0
      BY <2>3, <3>2 DEF Overdrawn
    <3>4. QED
      BY <2>1, <3>1, <3>3 DEF Projected
  <2>4. CASE a \notin Accounts(r)
    <3>1. Wanted(r).lines[a] = 0
      BY <2>4 DEF Accounts, Touched, Wanted
    <3>2. QED
      BY <2>1, <2>2, <3>1 DEF Effect
  <2>5. QED
    BY <2>3, <2>4
<1>3. QED
  BY <1>1, <1>2, OnlyCommitPosts DEF LedgerInv, Step

(* Only normalized lines reach the transaction. *)
LEMMA OnlyNormalizedBegin ==
  ASSUME TypeOK, NEW r \in Req, Step(r), pc'[r] = "begin"
  PROVE  Normalized(Wanted(r)'.lines) \/ (pc[r] \in InTransaction /\ call'[r] = call[r])
<1>1. CASE Submit(r)
  <2>1. ASSUME NEW c \in Commands, PostJournal(r, c)
        PROVE  Normalized(Wanted(r)'.lines)
    BY <2>1 DEF PostJournal, StartPosting, Goto, TypeOK, Wanted
  <2>2. ASSUME NEW target, NEW key, NEW note, ReverseJournal(r, target, key, note)
        PROVE  FALSE
    BY <2>2 DEF ReverseJournal, Reply, Goto, TypeOK
  <2>3. QED
    BY <1>1, <2>1, <2>2 DEF Submit
<1>2. CASE Fail(r)
  BY <1>2 DEF Fail, LoseConnection, SerializationFailure, Reply, Goto, TypeOK
<1>3. CASE ReverseCheckDuplicate(r)
  <2>1. StartPosting(r, call[r].key, call[r].body)
    BY <1>3 DEF ReverseCheckDuplicate, Reply, Goto, TypeOK
  <2>2. QED
    BY <2>1 DEF StartPosting, Goto, TypeOK, Wanted
<1>4. CASE ReverseCheckKey(r) \/ BeginTransaction(r) \/ LockAccount(r) \/ Validate(r)
  BY <1>4 DEF ReverseCheckKey, BeginTransaction, LockAccount, Validate, Reply, Goto, TypeOK
<1>5. CASE InsertJournal(r) \/ KeyViolation(r) \/ ReversalViolation(r) \/ IncrementCounter(r)
  BY <1>5 DEF InsertJournal, KeyViolation, ReversalViolation, IncrementCounter, Reply, Goto, TypeOK
<1>6. CASE LoseCounter(r) \/ Commit(r) \/ ReadWinner(r) \/ GetJournal(r)
  BY <1>6 DEF LoseCounter, Commit, ReadWinner, GetJournal, Reply, Goto, TypeOK
<1>7. QED
  BY <1>1, <1>2, <1>3, <1>4, <1>5, <1>6 DEF Handle, Step

LEMMA ChecksHoldStep ==
  ASSUME LedgerInv, NEW r \in Req, Step(r)
  PROVE  ChecksHold'
<1> SUFFICES ASSUME NEW q \in Req
             PROVE  /\ pc'[q] \in {"begin"} \cup InTransaction => Normalized(Wanted(q)'.lines)
                    /\ pc'[q] \in {"insert", "count", "commit"} => Complaint(q)' = "none"
  BY DEF ChecksHold
<1>1. CASE q # r
  BY <1>1, StepIsLocal, ComplaintIsLocal DEF LedgerInv, ChecksHold, OnlyOf, Step
<1>2. CASE q = r
  <2>1. CASE pc'[r] = "begin"
    BY <1>2, <2>1, OnlyNormalizedBegin DEF LedgerInv, ChecksHold, Wanted, InTransaction
  <2>2. CASE pc'[r] \in InTransaction
    <3>1. call'[r] = call[r] /\ pc[r] \in {"begin"} \cup InTransaction
      BY <2>2, StageOrder DEF LedgerInv
    <3>2. Normalized(Wanted(r)'.lines)
      BY <3>1 DEF LedgerInv, ChecksHold, Wanted
    <3>3. pc'[r] \in {"insert", "count", "commit"} => Complaint(r)' = "none"
      BY <2>2, <3>1, StageOrder, ComplaintIsLocal DEF LedgerInv, ChecksHold, InTransaction
    <3>4. QED
      BY <1>2, <3>2, <3>3
  <2>3. QED
    BY <1>2, <2>1, <2>2 DEF InTransaction
<1>3. QED
  BY <1>1, <1>2

LEMMA IdsAreFreshStep ==
  ASSUME LedgerInv, NEW r \in Req, Step(r)
  PROVE  IdsAreFresh'
<1> SUFFICES ASSUME NEW q \in Req, pc'[q] \notin {"fetch", "done"},
                    NEW j \in journals', NEW n \in 1..MaxAttempts
             PROVE  j.id # <<q, n>>
  BY DEF IdsAreFresh
<1>1. pc[q] \notin {"fetch", "done"}
  <2>1. CASE q # r
    BY <2>1, StepIsLocal DEF LedgerInv, OnlyOf, Step
  <2>2. CASE q = r
    <3>1. pc[r] = "done" => FALSE
      BY DEF Step, Submit, PostJournal, ReverseJournal, Handle, ReverseCheckKey,
             ReverseCheckDuplicate, BeginTransaction, LockAccount, Validate, InsertJournal,
             KeyViolation, ReversalViolation, IncrementCounter, LoseCounter, Commit, ReadWinner,
             GetJournal, Fail, LoseConnection, SerializationFailure, InTransaction
    <3>2. pc[r] = "fetch" => GetJournal(r) \/ LoseConnection(r)
      BY DEF Step, Submit, PostJournal, ReverseJournal, Handle, ReverseCheckKey,
             ReverseCheckDuplicate, BeginTransaction, LockAccount, Validate, InsertJournal,
             KeyViolation, ReversalViolation, IncrementCounter, LoseCounter, Commit, ReadWinner,
             GetJournal, Fail, LoseConnection, SerializationFailure, InTransaction
    <3>3. pc[r] = "fetch" => pc'[r] = "done"
      BY <3>2 DEF GetJournal, LoseConnection, Reply, Goto, LedgerInv, TypeOK
    <3>4. QED
      BY <2>2, <3>1, <3>3
  <2>3. QED
    BY <2>1, <2>2
<1>2. CASE j \in journals
  BY <1>1, <1>2 DEF LedgerInv, IdsAreFresh
<1>3. CASE j \notin journals
  <2>1. Commit(r)
    BY <1>3, OnlyCommitPosts DEF LedgerInv, Step, Quiet
  <2>2. j.id = <<r, attempt[r]>> /\ pc'[r] = "fetch"
    BY <1>3, <2>1 DEF Commit, OwnJournal, Id, Goto, LedgerInv, TypeOK
  <2>3. QED
    BY <2>2
<1>4. QED
  BY <1>2, <1>3

LEMMA IndexesHoldStep ==
  ASSUME LedgerInv, NEW r \in Req, Step(r)
  PROVE  IndexesHold'
<1> SUFFICES ASSUME NEW q \in Req, pc'[q] \in {"count", "commit"}
             PROVE  /\ ~ KeyTaken(journals', call'[q].key)
                    /\ Wanted(q)'.rev # NoJournal => ReversalOf(journals', Wanted(q)'.rev) = {}
                    /\ IndexBlockers(q)' = {}
  BY DEF IndexesHold, Inserted
<1>1. \A s \in Req : pc'[s] \in {"count", "commit"} =>
         /\ call'[s] = call[s]
         /\ Wanted(s)' = Wanted(s)
         /\ pc[s] \in {"insert", "count", "commit"}
         /\ pc[s] = "insert" => s = r /\ InsertJournal(r)
  <2> SUFFICES ASSUME NEW s \in Req, pc'[s] \in {"count", "commit"}
               PROVE  /\ call'[s] = call[s]
                      /\ pc[s] \in {"insert", "count", "commit"}
                      /\ pc[s] = "insert" => s = r /\ InsertJournal(r)
    BY DEF Wanted
  <2>1. CASE s # r
    BY <2>1, StepIsLocal DEF LedgerInv, OnlyOf, Step
  <2>2. CASE s = r
    <3>1. call'[r] = call[r] /\ pc[r] \in {"insert", "count"}
      BY <2>2, StageOrder DEF LedgerInv, InTransaction
    <3>2. pc[r] = "insert" => InsertJournal(r)
      BY <2>2 DEF Step, Submit, PostJournal, ReverseJournal, Handle, ReverseCheckKey,
             ReverseCheckDuplicate, BeginTransaction, LockAccount, Validate,
             KeyViolation, ReversalViolation, IncrementCounter, LoseCounter, Commit, ReadWinner,
             GetJournal, Fail, LoseConnection, SerializationFailure, InTransaction, Goto, Reply,
             LedgerInv, TypeOK
    <3>3. QED
      BY <2>2, <3>1, <3>2
  <2>3. QED
    BY <2>1, <2>2
<1>2. /\ ~ KeyTaken(journals, call[q].key)
      /\ Wanted(q).rev # NoJournal => ReversalOf(journals, Wanted(q).rev) = {}
      /\ IndexBlockers(q) = {}
  <2>1. CASE pc[q] = "insert"
    BY <1>1, <2>1 DEF InsertJournal
  <2>2. CASE pc[q] \in {"count", "commit"}
    BY <2>2 DEF LedgerInv, IndexesHold, Inserted
  <2>3. QED
    BY <1>1, <2>1, <2>2
<1>3. ASSUME NEW s \in Req \ {q}, pc'[s] \in {"count", "commit"}
      PROVE  /\ call[s].key # call[q].key
             /\ Wanted(q).rev # NoJournal => Wanted(s).rev # Wanted(q).rev
  <2>1. CASE pc[s] \in {"count", "commit"}
    BY <1>2, <2>1 DEF IndexBlockers, Inserted
  <2>2. CASE pc[s] = "insert"
    <3>1. q # r /\ IndexBlockers(s) = {}
      BY <1>1, <1>3, <2>2 DEF InsertJournal
    <3>2. pc[q] \in {"count", "commit"}
      BY <1>1, <3>1
    <3>3. QED
      BY <3>1, <3>2 DEF IndexBlockers, Inserted
  <2>3. QED
    BY <1>1, <1>3, <2>1, <2>2
<1>4. IndexBlockers(q)' = {}
  BY <1>1, <1>3 DEF IndexBlockers, Inserted
<1>5. CASE Quiet
  BY <1>1, <1>2, <1>4, <1>5 DEF Quiet
<1>6. CASE Commit(r)
  <2>1. q # r /\ pc[q] \in {"count", "commit"} /\ pc[r] = "commit"
    BY <1>1, <1>6 DEF Commit, Goto, LedgerInv, TypeOK
  <2>2. /\ call[r].key # call[q].key
        /\ Wanted(q).rev # NoJournal => Wanted(r).rev # Wanted(q).rev
    BY <1>2, <2>1 DEF IndexBlockers, Inserted
  <2>3. journals' = journals \cup {OwnJournal(r)} /\ OwnJournal(r).key = call[r].key
          /\ OwnJournal(r).body.rev = Wanted(r).rev
    BY <1>6 DEF Commit, OwnJournal
  <2>4. ~ KeyTaken(journals', call[q].key)
    BY <1>2, <2>2, <2>3 DEF KeyTaken
  <2>5. Wanted(q).rev # NoJournal => ReversalOf(journals', Wanted(q).rev) = {}
    BY <1>2, <2>2, <2>3 DEF ReversalOf
  <2>6. QED
    BY <1>1, <1>4, <2>4, <2>5
<1>7. QED
  BY <1>5, <1>6, OnlyCommitPosts DEF LedgerInv, Step

(* A request runs the command it was called with. *)
LEMMA CallIsKept ==
  ASSUME TypeOK, NEW r \in Req, Handle(r) \/ Fail(r)
  PROVE  call'[r] = call[r] /\ pc[r] \notin {"idle", "done"}
<1>1. CASE ReverseCheckDuplicate(r)
  <2>1. call[r] \in Command
    BY <1>1 DEF ReverseCheckDuplicate, TypeOK
  <2>2. call[r] = [key |-> call[r].key, body |-> call[r].body]
    BY <2>1 DEF Command
  <2>3. QED
    BY <1>1, <2>2 DEF ReverseCheckDuplicate, StartPosting, Reply, TypeOK
<1>2. CASE Fail(r)
  BY <1>2 DEF Fail, LoseConnection, SerializationFailure, Reply, InTransaction
<1>3. CASE Handle(r) /\ ~ ReverseCheckDuplicate(r)
  BY <1>3 DEF Handle, ReverseCheckKey, BeginTransaction, LockAccount, Validate, InsertJournal,
     KeyViolation, ReversalViolation, IncrementCounter, LoseCounter, Commit, ReadWinner,
     GetJournal, Reply
<1>4. QED
  BY <1>1, <1>2, <1>3

LEMMA JournalsGrow ==
  ASSUME TypeOK, NEW r \in Req, Step(r)
  PROVE  journals \subseteq journals'
<1>1. CASE Commit(r)
  BY <1>1 DEF Commit
<1>2. QED
  BY <1>1, OnlyCommitPosts DEF Step, Quiet

LEMMA ReversalsMirrorStep ==
  ASSUME LedgerInv, NEW r \in Req, Step(r)
  PROVE  ReversalsMirror'
<1> SUFFICES ASSUME NEW q \in Req
             PROVE  /\ pc'[q] \in {"rev_key", "rev_dup"} => Wanted(q)'.rev # NoJournal
                    /\ pc'[q] \notin {"idle", "done"} /\ Wanted(q)'.rev # NoJournal =>
                         \E o \in journals' : /\ o.id = Wanted(q)'.rev
                                              /\ Wanted(q)'.lines = Swapped(o.body.lines)
  BY DEF ReversalsMirror
<1>1. CASE q # r
  <2>1. pc'[q] = pc[q] /\ Wanted(q)' = Wanted(q)
    BY <1>1, StepIsLocal DEF LedgerInv, OnlyOf, Wanted, Step
  <2>2. QED
    BY <2>1, JournalsGrow DEF LedgerInv, ReversalsMirror
<1>2. CASE q = r /\ (Handle(r) \/ Fail(r))
  <2>1. Wanted(r)' = Wanted(r) /\ pc[r] \notin {"idle", "done"}
    BY <1>2, CallIsKept DEF LedgerInv, Wanted
  <2>2. pc'[r] \in {"rev_key", "rev_dup"} => pc[r] \in {"rev_key", "rev_dup"}
    BY <1>2 DEF Handle, ReverseCheckKey, ReverseCheckDuplicate, StartPosting, BeginTransaction,
       LockAccount, Validate, InsertJournal, KeyViolation, ReversalViolation, IncrementCounter,
       LoseCounter, Commit, ReadWinner, GetJournal, Reply, Goto, Fail, LoseConnection,
       SerializationFailure, LedgerInv, TypeOK
  <2>3. QED
    BY <1>2, <2>1, <2>2, JournalsGrow DEF LedgerInv, ReversalsMirror
<1>3. CASE q = r /\ Submit(r)
  <2>1. ASSUME NEW c \in Commands, PostJournal(r, c)
        PROVE  Wanted(r)'.rev = NoJournal /\ pc'[r] \notin {"rev_key", "rev_dup"}
    BY <2>1, LedgerAssumption DEF PostJournal, StartPosting, Goto, LedgerInv, TypeOK, Wanted
  <2>2. ASSUME NEW target \in JournalId \cup {NoJournal}, NEW key, NEW note,
               ReverseJournal(r, target, key, note), pc'[r] # "done"
        PROVE  /\ Wanted(r)'.rev # NoJournal
               /\ \E o \in journals' : /\ o.id = Wanted(r)'.rev
                                       /\ Wanted(r)'.lines = Swapped(o.body.lines)
    <3>1. IdTaken(journals, target)
      BY <2>2 DEF ReverseJournal, Reply, Goto, LedgerInv, TypeOK
    <3> DEFINE o == ById(journals, target)
    <3>2. o \in journals /\ o.id = target
      BY <3>1, ByIdFinds
    <3>3. target # NoJournal
      BY <3>2, AccountsAssumption DEF LedgerInv, TypeOK, Journal
    <3>4. Wanted(r)'.rev = target /\ Wanted(r)'.lines = Swapped(o.body.lines)
      BY <2>2, <3>1 DEF ReverseJournal, Wanted, LedgerInv, TypeOK
    <3> HIDE DEF o
    <3>5. QED
      BY <3>2, <3>3, <3>4, JournalsGrow DEF LedgerInv
  <2>3. pc'[r] # "idle"
    BY <1>3 DEF Submit, PostJournal, ReverseJournal, StartPosting, Reply, Goto, LedgerInv, TypeOK
  <2>4. \A j \in journals : j.id \in JournalId
    BY DEF LedgerInv, TypeOK, Journal
  <2>5. QED
    BY <1>3, <2>1, <2>2, <2>3, <2>4 DEF Submit
<1>4. QED
  BY <1>1, <1>2, <1>3 DEF Step

LEMMA ReversalsUndoOnceStep ==
  ASSUME LedgerInv, NEW r \in Req, Step(r)
  PROVE  ReversalsUndoOnce'
<1>1. CASE Quiet
  BY <1>1 DEF LedgerInv, ReversalsUndoOnce, ReversalOf, Quiet
<1>2. CASE Commit(r)
  <2> DEFINE own == OwnJournal(r)
  <2>1. journals' = journals \cup {own} /\ own.body = Wanted(r) /\ pc[r] = "commit"
    BY <1>2 DEF Commit, OwnJournal
  <2> HIDE DEF own
  <2>2. own.body.rev # NoJournal => ReversalOf(journals, own.body.rev) = {}
    BY <2>1 DEF LedgerInv, IndexesHold, Inserted
  <2>3. ASSUME NEW j \in journals, j.body.rev # NoJournal
        PROVE  /\ ReversalOf(journals', j.body.rev) = {j}
               /\ \E o \in journals' : /\ o.id = j.body.rev
                                       /\ o.body.rev = NoJournal
                                       /\ j.body.lines = Swapped(o.body.lines)
    <3>1. own.body.rev # j.body.rev
      BY <2>2, <2>3 DEF ReversalOf
    <3>2. ReversalOf(journals, j.body.rev) = {j}
      BY <2>3 DEF LedgerInv, ReversalsUndoOnce
    <3>3. ReversalOf(journals', j.body.rev) = {j}
      BY <2>1, <3>1, <3>2 DEF ReversalOf
    <3>4. QED
      BY <2>1, <2>3, <3>3 DEF LedgerInv, ReversalsUndoOnce
  <2>4. ASSUME own.body.rev # NoJournal
        PROVE  /\ ReversalOf(journals', own.body.rev) = {own}
               /\ \E o \in journals' : /\ o.id = own.body.rev
                                       /\ o.body.rev = NoJournal
                                       /\ own.body.lines = Swapped(o.body.lines)
    <3>1. ReversalOf(journals', own.body.rev) = {own}
      BY <2>1, <2>2, <2>4 DEF ReversalOf
    <3>2. Complaint(r) = "none"
      BY <2>1 DEF LedgerInv, ChecksHold
    <3>3. /\ IdTaken(snap[r].journals, Wanted(r).rev)
          /\ ById(snap[r].journals, Wanted(r).rev).body.rev = NoJournal
      BY <2>1, <2>4, <3>2 DEF Complaint
    <3>4. snap[r].journals \subseteq journals
      BY <2>1 DEF LedgerInv, SnapshotsAgree, InTransaction
    <3>5. PICK o \in journals : o.id = Wanted(r).rev /\ o.body.rev = NoJournal
      BY <3>3, <3>4, ByIdFinds
    <3>6. PICK p \in journals : p.id = Wanted(r).rev /\ Wanted(r).lines = Swapped(p.body.lines)
      BY <2>1, <2>4 DEF LedgerInv, ReversalsMirror
    <3>7. o = p
      BY <3>5, <3>6 DEF LedgerInv, OneJournalPerKey
    <3>8. QED
      BY <2>1, <3>1, <3>5, <3>6, <3>7
  <2>5. QED
    BY <2>1, <2>3, <2>4 DEF ReversalsUndoOnce
<1>3. QED
  BY <1>1, <1>2, OnlyCommitPosts DEF LedgerInv, Step

(* A request is answered in its last step, and in no other. *)
LEMMA AnsweredLast ==
  ASSUME TypeOK, NEW r \in Req, Step(r)
  PROVE  /\ pc[r] # "done"
         /\ \/ pc'[r] # "done" /\ answer'[r] = answer[r]
            \/ pc'[r] = "done" /\ \E w \in Refusals : answer'[r] = Refused(w)
            \/ /\ GetJournal(r)
               /\ IdTaken(journals, found[r])
               /\ answer'[r] = Granted(ById(journals, found[r]))
               /\ pc'[r] = "done"
<1>1. CASE Submit(r)
  BY <1>1 DEF Submit, PostJournal, ReverseJournal, StartPosting, Reply, Goto, TypeOK, Refusals
<1>2. CASE Fail(r)
  BY <1>2 DEF Fail, LoseConnection, SerializationFailure, InTransaction, Reply, Goto, TypeOK,
              Refusals
<1>3. CASE ReverseCheckKey(r) \/ ReverseCheckDuplicate(r)
  BY <1>3 DEF ReverseCheckKey, ReverseCheckDuplicate, StartPosting, Reply, Goto, TypeOK, Refusals
<1>4. CASE BeginTransaction(r) \/ LockAccount(r)
  BY <1>4 DEF BeginTransaction, LockAccount, Reply, Goto, TypeOK, Refusals
<1>5. CASE Validate(r)
  BY <1>5, ComplaintType DEF Validate, Reply, Goto, TypeOK
<1>6. CASE InsertJournal(r) \/ KeyViolation(r) \/ ReversalViolation(r) \/ IncrementCounter(r)
  BY <1>6 DEF InsertJournal, KeyViolation, ReversalViolation, IncrementCounter, Reply, Goto,
              TypeOK, Refusals
<1>7. CASE LoseCounter(r) \/ Commit(r) \/ ReadWinner(r)
  BY <1>7 DEF LoseCounter, Commit, ReadWinner, Reply, Goto, TypeOK, Refusals
<1>8. CASE GetJournal(r)
  BY <1>8 DEF GetJournal, Reply, Goto, TypeOK, Refusals
<1>9. QED
  BY <1>1, <1>2, <1>3, <1>4, <1>5, <1>6, <1>7, <1>8 DEF Handle, Step

LEMMA UnansweredStep ==
  ASSUME LedgerInv, NEW r \in Req, Step(r)
  PROVE  Unanswered'
<1> SUFFICES ASSUME NEW q \in Req, pc'[q] # "done" PROVE answer'[q] = Pending
  BY DEF Unanswered
<1>1. CASE q = r
  BY <1>1, AnsweredLast DEF LedgerInv, Unanswered
<1>2. CASE q # r
  BY <1>2, StepIsLocal DEF LedgerInv, Unanswered, OnlyOf, Step
<1>3. QED
  BY <1>1, <1>2

(* Journal j is what request q asked for. *)
Answers(j, q) ==
  /\ j.key = call[q].key
  /\ j.body.rev = call[q].body.rev
  /\ j.body.rev = NoJournal => j.body = call[q].body

LEMMA FoundIsOwnStep ==
  ASSUME LedgerInv, NEW r \in Req, Step(r)
  PROVE  FoundIsOwn'
<1> SUFFICES ASSUME NEW q \in Req, pc'[q] = "fetch"
             PROVE  \/ found'[q] = Id(q)' /\ ~ IdTaken(journals', found'[q])
                    \/ \E j \in journals' : j.id = found'[q] /\ Answers(j, q)'
  BY DEF FoundIsOwn, Answers
<1>1. CASE q # r
  <2>1. /\ pc[q] = "fetch" /\ found'[q] = found[q] /\ Id(q)' = Id(q)
        /\ \A j : Answers(j, q)' <=> Answers(j, q)
    BY <1>1, StepIsLocal DEF LedgerInv, OnlyOf, Id, Answers, Step
  <2>2. CASE \E j \in journals : j.id = found[q] /\ Answers(j, q)
    BY <2>1, <2>2, JournalsGrow DEF LedgerInv
  <2>3. CASE found[q] = Id(q) /\ ~ IdTaken(journals, found[q])
    <3>1. CASE Quiet
      BY <2>1, <2>3, <3>1 DEF Quiet
    <3>2. CASE Commit(r)
      <4>1. journals' = journals \cup {OwnJournal(r)} /\ OwnJournal(r).id = <<r, attempt[r]>>
        BY <3>2 DEF Commit, OwnJournal, Id
      <4>2. Id(q) = <<q, attempt[q]>>
        BY DEF Id
      <4>3. ~ IdTaken(journals', Id(q))
        BY <1>1, <2>3, <4>1, <4>2 DEF IdTaken
      <4>4. QED
        BY <2>1, <2>3, <4>3
    <3>3. QED
      BY <3>1, <3>2, OnlyCommitPosts DEF LedgerInv, Step
  <2>4. QED
    BY <2>1, <2>2, <2>3 DEF LedgerInv, FoundIsOwn, Answers
<1>2. CASE q = r
  <2>1. ~ Submit(r)
    BY <1>2 DEF Submit, PostJournal, ReverseJournal, StartPosting, Reply, Goto, LedgerInv, TypeOK
  <2>2. call'[r] = call[r] /\ pc[r] \notin {"idle", "done"}
    BY <2>1, CallIsKept DEF Step, LedgerInv
  <2>3. \A j : Answers(j, r)' <=> Answers(j, r)
    BY <2>2 DEF Answers
  <2>4. CASE \E j \in journals : found'[r] = j.id /\ Answers(j, r)
    BY <1>2, <2>3, <2>4, JournalsGrow DEF LedgerInv
  <2>5. CASE ReverseCheckKey(r)
    <3>1. pc[r] = "rev_key" /\ KeyTaken(journals, call[r].key)
          /\ ByKey(journals, call[r].key).body.rev = call[r].body.rev
          /\ found'[r] = ByKey(journals, call[r].key).id
      BY <1>2, <2>5 DEF ReverseCheckKey, Reply, Goto, LedgerInv, TypeOK
    <3>2. call[r].body.rev # NoJournal
      BY <3>1 DEF LedgerInv, ReversalsMirror, Wanted
    <3>3. QED
      BY <2>4, <3>1, <3>2, ByKeyFinds DEF Answers
  <2>6. CASE BeginTransaction(r) \/ ReadWinner(r)
    <3>1. KeyTaken(journals, call[r].key)
          /\ ByKey(journals, call[r].key).body = call[r].body
          /\ found'[r] = ByKey(journals, call[r].key).id
      BY <1>2, <2>6 DEF BeginTransaction, ReadWinner, Reply, Goto, Wanted, LedgerInv, TypeOK
    <3>2. QED
      BY <2>4, <3>1, ByKeyFinds DEF Answers
  <2>7. CASE LoseCounter(r)
    <3>1. /\ found'[r] = <<r, attempt[r]>>
          /\ attempt'[r] = attempt[r]
          /\ attempt[r] \in 1..MaxAttempts
          /\ pc[r] = "count"
          /\ journals' = journals
      BY <2>7 DEF LoseCounter, Id, LedgerInv, TypeOK, db
    <3>2. ~ IdTaken(journals, <<r, attempt[r]>>)
      BY <3>1 DEF LedgerInv, IdsAreFresh, IdTaken
    <3>3. QED
      BY <1>2, <3>1, <3>2 DEF Id
  <2>8. CASE Commit(r)
    <3>1. /\ found'[r] = OwnJournal(r).id
          /\ OwnJournal(r) \in journals'
          /\ OwnJournal(r).key = call[r].key
          /\ OwnJournal(r).body = call[r].body
      BY <2>8 DEF Commit, OwnJournal, Wanted, LedgerInv, TypeOK
    <3>2. QED
      BY <1>2, <2>3, <3>1 DEF Answers
  <2>9. ReverseCheckKey(r) \/ BeginTransaction(r) \/ ReadWinner(r) \/ LoseCounter(r) \/ Commit(r)
    BY <1>2, <2>1 DEF Step, Handle, ReverseCheckDuplicate, StartPosting, LockAccount, Validate,
       InsertJournal, KeyViolation, ReversalViolation, IncrementCounter, GetJournal, Reply, Goto,
       Fail, LoseConnection, SerializationFailure, InTransaction, LedgerInv, TypeOK
  <2>10. QED
    BY <2>5, <2>6, <2>7, <2>8, <2>9
<1>3. QED
  BY <1>1, <1>2

LEMMA OneJournalPerKeyStep ==
  ASSUME LedgerInv, NEW r \in Req, Step(r)
  PROVE  OneJournalPerKey'
<1>1. \A i, j \in journals' : i.key = j.key \/ i.id = j.id => i = j
  <2>1. CASE Quiet
    BY <2>1 DEF LedgerInv, OneJournalPerKey, Quiet
  <2>2. CASE Commit(r)
    <3>1. /\ journals' = journals \cup {OwnJournal(r)}
          /\ OwnJournal(r).key = call[r].key
          /\ pc[r] = "commit"
      BY <2>2 DEF Commit, OwnJournal
    <3>2. ~ KeyTaken(journals, call[r].key)
      BY <3>1 DEF LedgerInv, IndexesHold, Inserted
    <3>3. \A j \in journals : j.key # OwnJournal(r).key /\ j.id # OwnJournal(r).id
      BY <2>2, <3>1, <3>2, OwnJournalIsNew DEF KeyTaken, LedgerInv
    <3>4. QED
      BY <3>1, <3>3 DEF LedgerInv, OneJournalPerKey
  <2>3. QED
    BY <2>1, <2>2, OnlyCommitPosts DEF LedgerInv, Step
<1>2. ASSUME NEW q \in Req, answer'[q].kind = "ok"
      PROVE  /\ answer'[q].key = call'[q].key
             /\ \E j \in journals' : Granted(j) = answer'[q] /\ Answers(j, q)'
  <2>1. CASE q # r
    <3>1. answer'[q] = answer[q] /\ \A j : Answers(j, q)' <=> Answers(j, q)
      BY <2>1, StepIsLocal DEF LedgerInv, OnlyOf, Answers, Step
    <3>2. call'[q] = call[q]
      BY <2>1, StepIsLocal DEF LedgerInv, OnlyOf, Step
    <3>3. answer[q].kind = "ok"
      BY <1>2, <3>1
    <3>4. /\ answer[q].key = call[q].key
          /\ \E j \in journals : Granted(j) = answer[q] /\ Answers(j, q)
      BY <3>3 DEF LedgerInv, OneJournalPerKey, Answers, Granted
    <3>5. journals \subseteq journals'
      BY JournalsGrow DEF LedgerInv
    <3>6. QED
      BY <3>1, <3>2, <3>4, <3>5
  <2>2. CASE q = r
    <3>1. answer[r] = Pending
      BY AnsweredLast DEF LedgerInv, Unanswered
    <3>2. \A w \in Refusals : Refused(w).kind # "ok"
      BY DEF Refused, Refusals
    <3>3. /\ GetJournal(r)
          /\ IdTaken(journals, found[r])
          /\ answer'[r] = Granted(ById(journals, found[r]))
      BY <1>2, <2>2, <3>1, <3>2, AnsweredLast DEF Pending, LedgerInv
    <3>4. PICK j \in journals : j.id = found[r] /\ Answers(j, r)
      BY <3>3 DEF GetJournal, LedgerInv, FoundIsOwn, Answers
    <3>5. ById(journals, found[r]) = j
      BY <3>3, <3>4, ByIdFinds DEF LedgerInv, OneJournalPerKey
    <3>6. call'[r] = call[r] /\ journals' = journals
      BY <3>3 DEF GetJournal, Reply, db
    <3>7. Answers(j, r)'
      BY <3>4, <3>6 DEF Answers
    <3>8. QED
      BY <2>2, <3>3, <3>4, <3>5, <3>6, <3>7 DEF Granted, Answers
  <2>3. QED
    BY <2>1, <2>2
<1>3. QED
  BY <1>1, <1>2 DEF OneJournalPerKey, Answers

-----------------------------------------------------------------------------
(* The theorems *)

LEMMA LedgerInvInit == Init => LedgerInv
<1> SUFFICES ASSUME Init PROVE LedgerInv
  OBVIOUS
<1>1. TypeOK
  BY TypeInit
<1>2. journals = {} /\ \A r \in Req : pc[r] = "idle" /\ answer[r] = Pending
  BY DEF Init
<1>3. NoOverdraft
  BY DEF Init, NoOverdraft, Overdrawn
<1>4. OneJournalPerKey /\ ReversalsUndoOnce /\ IdsAreFresh /\ Unanswered
  BY <1>2 DEF OneJournalPerKey, ReversalsUndoOnce, IdsAreFresh, Unanswered, Pending
<1>5. SnapshotsAgree /\ ChecksHold /\ IndexesHold /\ ReversalsMirror /\ FoundIsOwn
  BY <1>2 DEF SnapshotsAgree, ChecksHold, IndexesHold, Inserted, ReversalsMirror, FoundIsOwn,
              InTransaction
<1>6. QED
  BY <1>1, <1>3, <1>4, <1>5 DEF LedgerInv

LEMMA LedgerInvStep == LedgerInv /\ [Next]_vars => LedgerInv'
<1> SUFFICES ASSUME LedgerInv, [Next]_vars PROVE LedgerInv'
  OBVIOUS
<1>1. TypeOK'
  BY TypeStep DEF LedgerInv
<1>2. ASSUME NEW r \in Req, Step(r) PROVE LedgerInv'
  <2>1. NoOverdraft' /\ OneJournalPerKey' /\ ReversalsUndoOnce'
    BY <1>2, NoOverdraftStep, OneJournalPerKeyStep, ReversalsUndoOnceStep
  <2>2. SnapshotsAgree' /\ ChecksHold' /\ IndexesHold' /\ IdsAreFresh'
    BY <1>2, SnapshotsAgreeStep, ChecksHoldStep, IndexesHoldStep, IdsAreFreshStep
  <2>3. ReversalsMirror' /\ FoundIsOwn' /\ Unanswered'
    BY <1>2, ReversalsMirrorStep, FoundIsOwnStep, UnansweredStep
  <2>4. QED
    BY <1>1, <2>1, <2>2, <2>3 DEF LedgerInv
<1>3. CASE UNCHANGED <<journals, posted, pc, call, attempt, snap, found, answer>>
  <2>1. \A q \in Req : /\ Complaint(q)' = Complaint(q)
                       /\ Wanted(q)' = Wanted(q)
                       /\ Id(q)' = Id(q)
    BY <1>3, ComplaintIsLocal DEF Id
  <2>2. NoOverdraft' /\ OneJournalPerKey' /\ ReversalsUndoOnce'
    BY <1>3 DEF LedgerInv, NoOverdraft, OneJournalPerKey, ReversalsUndoOnce
  <2>3. SnapshotsAgree' /\ ChecksHold' /\ IdsAreFresh'
    BY <1>3, <2>1 DEF LedgerInv, SnapshotsAgree, ChecksHold, IdsAreFresh
  <2>4. Inserted' = Inserted /\ \A q \in Req : IndexBlockers(q)' = IndexBlockers(q)
    BY <1>3, <2>1 DEF Inserted, IndexBlockers, Wanted
  <2>5. IndexesHold'
    BY <1>3, <2>1, <2>4 DEF LedgerInv, IndexesHold, Inserted
  <2>6. ReversalsMirror' /\ FoundIsOwn' /\ Unanswered'
    BY <1>3, <2>1 DEF LedgerInv, ReversalsMirror, FoundIsOwn, Unanswered
  <2>7. QED
    BY <1>1, <2>2, <2>3, <2>5, <2>6 DEF LedgerInv
<1>4. QED
  BY <1>2, <1>3 DEF Next, CreateAccount, vars, Step

(* LedgerInv is an inductive invariant of the ledger. *)
THEOREM LedgerInvariant == Spec => []LedgerInv
BY LedgerInvInit, LedgerInvStep, PTL DEF Spec

(* No interleaving of any number of postings overdraws an account. *)
THEOREM NeverOverdrawn == Spec => []NoOverdraft
<1>1. LedgerInv => NoOverdraft
  BY DEF LedgerInv
<1>2. QED
  BY <1>1, LedgerInvariant, PTL

(* Requests of one key are answered with one committed journal, their own. *)
THEOREM KeysAreIdempotent == Spec => []OneJournalPerKey
<1>1. LedgerInv => OneJournalPerKey
  BY DEF LedgerInv
<1>2. QED
  BY <1>1, LedgerInvariant, PTL

(* Racing reversals undo a journal once, exactly, and finally. *)
THEOREM ReversedOnce == Spec => []ReversalsUndoOnce
<1>1. LedgerInv => ReversalsUndoOnce
  BY DEF LedgerInv
<1>2. QED
  BY <1>1, LedgerInvariant, PTL

-----------------------------------------------------------------------------
(* The books balance *)

(* The debits of all accounts less their credits. *)
TrialBalance == NetDebit([a \in Account |-> Effect(a, posted[a])])

(* BooksBalance needs to know that the journals can be summed. *)
BooksInv == IsFiniteSet(journals) /\ BooksBalance

LEMMA EffectType == \A a \in Account, n \in Int : Effect(a, n) \in Int
BY DEF Effect

(* An effect counts once on each side: as a debit it is the lines' amount. *)
LEMMA EffectAdds ==
  \A a \in Account, m, n \in Int : Effect(a, m + Effect(a, n)) = Effect(a, m) + n
BY DEF Effect

LEMMA BooksInit == Init => BooksInv
<1> SUFFICES ASSUME Init PROVE BooksInv
  OBVIOUS
<1>1. journals = {} /\ posted = [a \in Account |-> 0] /\ IsFiniteSet({})
  BY FS_EmptySet DEF Init
<1>2. ASSUME NEW a \in Account PROVE posted[a] = SumOfLines(a)
  <2> DEFINE f == [j \in journals |-> Effect(a, j.body.lines[a])]
  <2>1. DOMAIN f = {} /\ \A j \in DOMAIN f : f[j] = 0
    BY <1>1
  <2> HIDE DEF f
  <2>2. SumFunction(f) = 0
    BY <1>1, <2>1, WholeSumZero
  <2> QED BY <1>1, <2>2 DEF f, SumOfLines
<1>3. TrialBalance = 0
  <2> DEFINE f == [a \in Account |-> Effect(a, posted[a])]
  <2>1. \A a \in Account : Effect(a, posted[a]) = 0
    <3>1. \A a \in Account : posted[a] = 0
      BY <1>1
    <3>2. \A a \in Account, n \in Int : n + n = n => Effect(a, n) = 0
      BY DEF Effect
    <3> QED BY <3>1, <3>2
  <2>2. DOMAIN f = Account /\ \A a \in DOMAIN f : f[a] = 0
    BY <2>1
  <2> HIDE DEF f
  <2>3. SumFunction(f) = 0
    BY <2>2, AccountsAssumption, WholeSumZero
  <2> QED BY <2>3 DEF f, TrialBalance, NetDebit
<1> QED BY <1>1, <1>2, <1>3 DEF BooksInv, BooksBalance, TrialBalance

(* A commit adds one journal that nets to nothing. *)
LEMMA BooksCommit ==
  ASSUME LedgerInv, BooksInv, NEW r \in Req, Commit(r)
  PROVE  BooksInv'
<1> DEFINE own == OwnJournal(r)
           lines == Wanted(r).lines
<1>1. /\ journals' = journals \cup {own} /\ own \notin journals
      /\ own.body.lines = lines /\ lines \in Lines
      /\ Normalized(lines)
  <2>1. pc[r] = "commit" /\ journals' = journals \cup {own}
    BY DEF Commit
  <2>2. Wanted(r) \in Body /\ Normalized(lines)
    BY <2>1 DEF LedgerInv, TypeOK, ChecksHold, Command, Wanted, InTransaction
  <2>3. own \notin journals
    BY OwnJournalIsNew DEF LedgerInv
  <2> QED BY <2>1, <2>2, <2>3 DEF OwnJournal, Body
<1>2. posted \in [Account -> Int] /\ posted' = [a \in Account |-> posted[a] + Effect(a, lines[a])]
  BY DEF LedgerInv, TypeOK, Commit, Projected
<1>3. \A j \in journals : j.body.lines \in Lines
  BY DEF LedgerInv, TypeOK, Journal, Body
<1>4. IsFiniteSet(journals) /\ IsFiniteSet(journals')
  BY <1>1, FS_AddElement DEF BooksInv
<1> HIDE DEF own, lines
<1>5. ASSUME NEW a \in Account PROVE posted'[a] = SumOfLines(a)'
  <2> DEFINE f == [j \in journals |-> Effect(a, j.body.lines[a])]
             g == [j \in journals' |-> Effect(a, j.body.lines[a])]
  <2>1. /\ DOMAIN f = journals /\ DOMAIN g = journals \cup {own}
        /\ \A j \in DOMAIN f : g[j] = f[j]
        /\ g[own] = Effect(a, lines[a])
    BY <1>1
  <2>2. \A j \in DOMAIN g : g[j] \in Int
    BY <1>1, <1>3, EffectType DEF Lines
  <2>3. posted[a] = SumFunction(f)
    BY DEF BooksInv, BooksBalance, SumOfLines
  <2>4. SumFunction(g) = SumOfLines(a)'
    BY DEF SumOfLines
  <2>5. posted'[a] = posted[a] + g[own] /\ posted[a] \in Int /\ g[own] \in Int
    BY <1>2, <2>1, <2>2
  <2> HIDE DEF f, g
  <2>6. SumFunction(g) = g[own] + SumFunction(f)
    BY <1>1, <1>4, <2>1, <2>2, WholeSumAdd
  <2> QED BY <2>3, <2>4, <2>5, <2>6
<1>6. TrialBalance' = 0
  <2> DEFINE f == [a \in Account |-> Effect(a, posted[a])]
             h == [a \in Account |-> Effect(a, posted'[a])]
  <2>1. DOMAIN f = Account /\ DOMAIN h = Account /\ DOMAIN lines = Account
    BY <1>1 DEF Lines
  <2>2. \A a \in Account : f[a] \in Int /\ lines[a] \in Int /\ h[a] = f[a] + lines[a]
    BY <1>1, <1>2, EffectType, EffectAdds DEF Lines
  <2>3. SumFunction(f) = 0 /\ SumFunction(lines) = 0
    BY <1>1 DEF BooksInv, BooksBalance, NetDebit, Normalized
  <2> HIDE DEF f, h
  <2>4. SumFunction(h) = SumFunction(f) + SumFunction(lines)
    BY <2>1, <2>2, AccountsAssumption, WholeSumPlus
  <2> QED BY <2>3, <2>4 DEF h, TrialBalance, NetDebit
<1> QED BY <1>4, <1>5, <1>6 DEF BooksInv, BooksBalance, TrialBalance

LEMMA BooksStep == LedgerInv /\ BooksInv /\ [Next]_vars => BooksInv'
<1> SUFFICES ASSUME LedgerInv, BooksInv, [Next]_vars PROVE BooksInv'
  OBVIOUS
<1>1. CASE \E r \in Req : Commit(r)
  BY <1>1, BooksCommit
<1>2. CASE ~ \E r \in Req : Commit(r)
  <2>1. Quiet
    BY <1>2, OnlyCommitPosts DEF Next, CreateAccount, vars, Quiet, LedgerInv
  <2>2. \A a \in Account : SumOfLines(a)' = SumOfLines(a)
    BY <2>1 DEF Quiet, SumOfLines
  <2> QED BY <2>1, <2>2 DEF BooksInv, BooksBalance, Quiet
<1> QED BY <1>1, <1>2

(* Whatever is posted, retried and reversed: the balance of an account is  *)
(* the sum of its lines, and the debits of all accounts equal the credits. *)
THEOREM BooksAlwaysBalance == Spec => []BooksBalance
<1>1. BooksInv => BooksBalance
  BY DEF BooksInv
<1> QED BY <1>1, BooksInit, BooksStep, LedgerInvariant, PTL DEF Spec

-----------------------------------------------------------------------------
(* Nobody waits in a circle *)

(* The account locked next comes before the others. *)
LEMMA NextLockIsFirst ==
  ASSUME NEW r \in Req, ToLock(r) # {}
  PROVE  NextLock(r) \in ToLock(r) /\ \A b \in ToLock(r) : NextLock(r) <= b
<1> DEFINE A == ToLock(r)
           R == {p \in A \X A : p[2] < p[1]}
<1>1. A \subseteq Account /\ IsFiniteSet(A)
  <2>1. A \subseteq Account
    BY DEF ToLock, Lockable, Accounts, Touched
  <2> QED BY <2>1, AccountsAssumption, FS_Subset
<1>2. A # {} /\ A \subseteq Nat
  BY <1>1, AccountsAssumption
<1> HIDE DEF A
<1>3. \A a, b \in A : <<a, b>> \in R <=> b < a
  OBVIOUS
<1> HIDE DEF R
<1>4. /\ \A a, b, c \in A : <<a, b>> \in R /\ <<b, c>> \in R => <<a, c>> \in R
      /\ \A a \in A : <<a, a>> \notin R
  BY <1>2, <1>3
<1>5. \E a \in A : \A b \in A : <<a, b>> \notin R
  BY <1>1, <1>2, <1>4, HasMaximal
<1>6. \E a \in A : \A b \in A : a <= b
  <2>1. PICK a \in A : \A b \in A : <<a, b>> \notin R
    BY <1>5
  <2>2. \A b \in A : ~ (b < a)
    BY <1>3, <2>1
  <2>3. \A b \in A : a <= b
    BY <1>2, <2>2
  <2> QED BY <2>3
<1> QED BY <1>6 DEF A, NextLock

LEMMA LocksInit == Init => LocksOrdered
<1> SUFFICES ASSUME Init, NEW r \in Req PROVE Held(r) = {} /\ pc[r] # "lock"
  BY DEF LocksOrdered
<1> QED BY LedgerAssumption DEF Init, Held

(* Whoever takes or frees locks, the others keep theirs. *)
LEMMA OthersKeepLocks ==
  ASSUME TypeOK, NEW r \in Req, Submit(r) \/ Handle(r) \/ Fail(r), NEW q \in Req \ {r}
  PROVE  /\ pc'[q] = pc[q]
         /\ Held(q)' = Held(q)
         /\ ToLock(q)' = ToLock(q)
<1>1. pc'[q] = pc[q] /\ call'[q] = call[q] /\ snap'[q] = snap[q]
  BY StepIsLocal DEF OnlyOf
<1>2. Held(q)' = Held(q)
  <2>1. CASE holder' = holder
    BY <2>1 DEF Held
  <2>2. CASE EndTransaction(r)
    BY <2>2, LedgerAssumption DEF EndTransaction, Held
  <2>3. CASE LockAccount(r)
    BY <2>3, LedgerAssumption DEF LockAccount, Held, TypeOK
  <2>4. holder' = holder \/ EndTransaction(r) \/ LockAccount(r)
    BY DEF Submit, PostJournal, ReverseJournal, Handle, ReverseCheckKey, ReverseCheckDuplicate,
       BeginTransaction, Validate, InsertJournal, KeyViolation, ReversalViolation,
       IncrementCounter, LoseCounter, Commit, ReadWinner, GetJournal, Fail, LoseConnection,
       SerializationFailure
  <2> QED BY <2>1, <2>2, <2>3, <2>4
<1> QED BY <1>1, <1>2 DEF ToLock, Lockable, Accounts

LEMMA EndFrees ==
  ASSUME TypeOK, NEW r \in Req, EndTransaction(r)
  PROVE  Held(r)' = {}
BY LedgerAssumption DEF EndTransaction, Held

(* A handler that goes elsewhere than to the locks keeps the order. *)
LEMMA LocksOwnStep ==
  ASSUME TypeOK, LocksOrdered, NEW r \in Req, Submit(r) \/ Handle(r) \/ Fail(r)
  PROVE  /\ pc'[r] \notin InTransaction => Held(r)' = {}
         /\ pc'[r] = "lock" => \A a \in Held(r)', b \in ToLock(r)' : a < b
<1> DEFINE Goal == /\ pc'[r] \notin InTransaction => Held(r)' = {}
                   /\ pc'[r] = "lock" => \A a \in Held(r)', b \in ToLock(r)' : a < b
<1>1. ASSUME holder' = holder, pc[r] \notin InTransaction PROVE Held(r)' = {}
  BY <1>1 DEF Held, LocksOrdered
<1>2. ASSUME Held(r)' = {} PROVE Goal
  BY <1>2
<1>3. CASE Submit(r)
  BY <1>1, <1>2, <1>3 DEF Submit, PostJournal, ReverseJournal, InTransaction
<1>4. CASE ReverseCheckKey(r) \/ ReverseCheckDuplicate(r) \/ BeginTransaction(r)
  BY <1>1, <1>2, <1>4 DEF ReverseCheckKey, ReverseCheckDuplicate, BeginTransaction, InTransaction
<1>5. CASE ReadWinner(r) \/ GetJournal(r)
  BY <1>1, <1>2, <1>5 DEF ReadWinner, GetJournal, InTransaction
<1>6. CASE LockAccount(r)
  <2> DEFINE n == NextLock(r)
  <2>1. pc[r] = "lock" /\ pc' = pc /\ n \in ToLock(r) /\ \A b \in ToLock(r) : n <= b
    BY <1>6, NextLockIsFirst DEF LockAccount
  <2>2. n \in Account
    BY <2>1 DEF ToLock, Lockable, Accounts, Touched
  <2>3. Held(r)' = Held(r) \cup {n} /\ ToLock(r)' = ToLock(r) \ {n}
    <3>1. Held(r)' = Held(r) \cup {n}
      BY <1>6, <2>2 DEF LockAccount, Held, TypeOK
    <3>2. Lockable(r)' = Lockable(r)
      BY <1>6 DEF LockAccount, Lockable, Accounts
    <3> QED BY <3>1, <3>2 DEF ToLock
  <2>4. \A a \in Held(r), b \in ToLock(r) : a < b
    BY <2>1 DEF LocksOrdered
  <2>5. n \in Nat /\ ToLock(r) \subseteq Nat
    BY <2>2, AccountsAssumption DEF ToLock, Lockable, Accounts, Touched
  <2> HIDE DEF n
  <2> QED BY <2>1, <2>3, <2>4, <2>5 DEF InTransaction
<1>7. CASE Validate(r)
  <2>1. CASE Complaint(r) = "none"
    BY <1>7, <2>1 DEF Validate, Goto, TypeOK, InTransaction
  <2> QED BY <1>2, <1>7, <2>1, EndFrees DEF Validate
<1>8. CASE InsertJournal(r) \/ IncrementCounter(r)
  BY <1>8 DEF InsertJournal, IncrementCounter, Goto, TypeOK, InTransaction
<1>9. CASE KeyViolation(r) \/ ReversalViolation(r) \/ LoseCounter(r) \/ Commit(r) \/ Fail(r)
  BY <1>2, <1>9, EndFrees DEF KeyViolation, ReversalViolation, LoseCounter, Commit, Fail,
     LoseConnection, SerializationFailure
<1> QED BY <1>3, <1>4, <1>5, <1>6, <1>7, <1>8, <1>9 DEF Handle

LEMMA LocksStep == TypeOK /\ LocksOrdered /\ [Next]_vars => LocksOrdered'
<1> SUFFICES ASSUME TypeOK, LocksOrdered, [Next]_vars PROVE LocksOrdered'
  OBVIOUS
<1>1. CASE UNCHANGED <<pc, call, snap, holder>>
  BY <1>1 DEF LocksOrdered, ToLock, Lockable, Accounts, Held
<1>2. ASSUME NEW r \in Req, Submit(r) \/ Handle(r) \/ Fail(r) PROVE LocksOrdered'
  <2> SUFFICES ASSUME NEW q \in Req
               PROVE  /\ pc'[q] \notin InTransaction => Held(q)' = {}
                      /\ pc'[q] = "lock" => \A a \in Held(q)', b \in ToLock(q)' : a < b
    BY DEF LocksOrdered, InTransaction
  <2>1. CASE q = r
    BY <1>2, <2>1, LocksOwnStep
  <2>2. CASE q # r
    BY <1>2, <2>2, OthersKeepLocks DEF LocksOrdered
  <2> QED BY <2>1, <2>2
<1> QED BY <1>1, <1>2 DEF Next, CreateAccount, vars

(* Postings that wait for each other in a circle would all be locking: a   *)
(* transaction that has its locks waits only for one that has counted its  *)
(* journal, which waits for none.  The last account one of them waits for  *)
(* would be held by one that waits for a later one.                        *)
LEMMA OrderedNeverLock ==
  TypeOK /\ LocksOrdered => NoDeadlock
<1> SUFFICES ASSUME TypeOK, LocksOrdered, NEW S \in SUBSET Req, S # {},
                    \A r \in S : \E s \in S : WaitsFor(r, s)
             PROVE  FALSE
  BY DEF NoDeadlock
<1>1. \A r \in S : pc[r] # "commit"
  BY DEF WaitsFor
<1>2. \A r \in S : pc[r] # "count"
  BY <1>1 DEF WaitsFor, CounterBlockers
<1>3. \A r \in S : pc[r] # "insert"
  BY <1>1, <1>2 DEF WaitsFor, IndexBlockers, Inserted
<1>4. ASSUME NEW r \in S
      PROVE  pc[r] = "lock" /\ ToLock(r) # {} /\ \E s \in S : holder[NextLock(r)] = s
  BY <1>2, <1>3 DEF WaitsFor
<1> DEFINE A == {NextLock(r) : r \in S}
           R == {p \in A \X A : p[1] < p[2]}
<1>5. A # {} /\ A \subseteq Account /\ IsFiniteSet(A) /\ A \subseteq Nat
  <2>1. \A r \in S : NextLock(r) \in Account
    BY <1>4, NextLockIsFirst DEF ToLock, Lockable, Accounts, Touched
  <2>2. A # {} /\ A \subseteq Account
    BY <2>1
  <2> HIDE DEF A
  <2>3. A \in SUBSET Account
    BY <2>2
  <2> QED BY <2>2, <2>3, AccountsAssumption, FS_Subset
<1>6. PICK r \in S : \A s \in S : ~ (NextLock(r) < NextLock(s))
  <2>1. \A r \in S : NextLock(r) \in A
    OBVIOUS
  <2>2. \A a \in A : \E r \in S : a = NextLock(r)
    OBVIOUS
  <2> HIDE DEF A
  <2>3. \A a, b \in A : <<a, b>> \in R <=> a < b
    OBVIOUS
  <2> HIDE DEF R
  <2>4. /\ \A a, b, c \in A : <<a, b>> \in R /\ <<b, c>> \in R => <<a, c>> \in R
        /\ \A a \in A : <<a, a>> \notin R
    BY <1>5, <2>3
  <2>5. \E a \in A : \A b \in A : <<a, b>> \notin R
    BY <1>5, <2>4, HasMaximal
  <2> QED BY <2>1, <2>2, <2>3, <2>5
<1>7. PICK s \in S : holder[NextLock(r)] = s
  BY <1>4
<1>8. NextLock(r) \in Held(s) /\ NextLock(s) \in ToLock(s)
  BY <1>4, <1>5, <1>7, NextLockIsFirst DEF Held
<1>9. NextLock(r) < NextLock(s)
  BY <1>4, <1>8 DEF LocksOrdered
<1> QED BY <1>6, <1>9

(* Postings never wait for each other in a circle, on accounts, unique     *)
(* indexes and the metric: the accounts are locked in the order of their   *)
(* ids, and all before the journal is inserted.                            *)
THEOREM NeverDeadlocked == Spec => []NoDeadlock
BY TypeInit, TypeStep, LocksInit, LocksStep, OrderedNeverLock, PTL DEF Spec

-----------------------------------------------------------------------------
(* The ledger implements the atomic one *)

(* The totals of the two modules are one and the same. *)
LEMMA SameTotals ==
  ASSUME NEW f, NEW S
  PROVE  /\ SumFunctionOnSet(f, S) = Atomic!SumFunctionOnSet(f, S)
         /\ SumFunction(f) = Atomic!SumFunction(f)
<1>1. SumFunctionOnSet(f, S) = Atomic!SumFunctionOnSet(f, S)
  BY Zenon DEF SumFunctionOnSet, Atomic!SumFunctionOnSet, FoldFunctionOnSet,
     Atomic!FoldFunctionOnSet, MapThenFoldSet, Atomic!MapThenFoldSet
<1>2. SumFunctionOnSet(f, DOMAIN f) = Atomic!SumFunctionOnSet(f, DOMAIN f)
  BY Zenon DEF SumFunctionOnSet, Atomic!SumFunctionOnSet, FoldFunctionOnSet,
     Atomic!FoldFunctionOnSet, MapThenFoldSet, Atomic!MapThenFoldSet
<1>3. QED
  BY <1>1, <1>2 DEF SumFunction, Atomic!SumFunction

LEMMA AtomicInit == Init => Atomic!Init
BY DEF Init, Atomic!Init, Pending, Atomic!Pending

(* A commit is an Append: what was checked on the snapshot holds of the    *)
(* balances and journals of the instant of the commit.                     *)
LEMMA CommitAppends ==
  ASSUME LedgerInv, LedgerInv', NEW r \in Req, Commit(r)
  PROVE  Atomic!Next
<1> DEFINE own == OwnJournal(r)
<1>1. /\ journals' = journals \cup {own}
      /\ posted' = Projected(posted, own.body.lines)
      /\ own.key = call[r].key
      /\ own.body = Wanted(r)
      /\ answer' = answer
      /\ pc[r] = "commit"
  BY DEF Commit, OwnJournal
<1>2. own \notin journals /\ \A j \in journals : j.id # own.id
  BY OwnJournalIsNew DEF LedgerInv
<1> HIDE DEF own
<1>3. own \in Atomic!Journal
  BY <1>1 DEF LedgerInv, TypeOK, Journal, Body, Lines, Atomic!Journal, Atomic!Body, Atomic!Lines
<1>4. ~ Atomic!KeyTaken(journals, own.key) /\ ~ Atomic!IdTaken(journals, own.id)
  BY <1>1, <1>2 DEF LedgerInv, IndexesHold, Inserted, KeyTaken, Atomic!KeyTaken, Atomic!IdTaken
<1>5. Atomic!Normalized(own.body.lines)
  <2>1. Normalized(own.body.lines)
    BY <1>1 DEF LedgerInv, ChecksHold, InTransaction
  <2>2. /\ Atomic!Touched(own.body.lines) = Touched(own.body.lines)
        /\ Atomic!NetDebit(own.body.lines) = NetDebit(own.body.lines)
        /\ Atomic!TotalMinor(own.body.lines) = TotalMinor(own.body.lines)
    BY SameTotals DEF Touched, Atomic!Touched, NetDebit, Atomic!NetDebit, TotalMinor,
       Atomic!TotalMinor, Debits, Atomic!Debits
  <2>3. QED
    BY <2>1, <2>2 DEF Normalized, Atomic!Normalized
<1>6. own.body.rev # NoJournal => Atomic!MayReverse(own.body)
  <2> SUFFICES ASSUME own.body.rev # NoJournal
               PROVE  /\ ReversalOf(journals, own.body.rev) = {}
                      /\ \E o \in journals : /\ o.id = own.body.rev
                                             /\ o.body.rev = NoJournal
                                             /\ own.body.lines = Swapped(o.body.lines)
    BY DEF Atomic!MayReverse, Atomic!ReversalOf, ReversalOf, Atomic!Swapped, Swapped
  <2>1. ReversalOf(journals, own.body.rev) = {}
    BY <1>1 DEF LedgerInv, IndexesHold, Inserted
  <2>2. PICK o \in journals' : /\ o.id = own.body.rev
                               /\ o.body.rev = NoJournal
                               /\ own.body.lines = Swapped(o.body.lines)
    BY <1>1 DEF LedgerInv, ReversalsUndoOnce
  <2>3. o \in journals
    BY <1>1, <2>2
  <2>4. QED
    BY <2>1, <2>2, <2>3
<1>7. Atomic!Overdrawn(Atomic!Projected(posted, own.body.lines),
                       Atomic!Touched(own.body.lines)) = {}
  <2>1. NoOverdraft'
    BY DEF LedgerInv
  <2>2. Atomic!Projected(posted, own.body.lines) = posted'
    BY <1>1 DEF Projected, Atomic!Projected, Effect, Atomic!Effect
  <2>3. QED
    BY <2>1, <2>2 DEF NoOverdraft, Overdrawn, Atomic!Overdrawn, Atomic!Touched
<1>8. posted' = Atomic!Projected(posted, own.body.lines)
  BY <1>1 DEF Projected, Atomic!Projected, Effect, Atomic!Effect
<1>9. Atomic!Append(own)
  BY <1>1, <1>4, <1>5, <1>6, <1>7, <1>8 DEF Atomic!Append
<1>10. own \in journals' \ journals
  BY <1>1, <1>2
<1>11. QED
  BY <1>3, <1>9, <1>10 DEF Atomic!Next

(* Any other step is an Answer, or changes nothing a client sees. *)
LEMMA QuietStepAnswers ==
  ASSUME LedgerInv, NEW r \in Req, Step(r), ~ Commit(r)
  PROVE  Atomic!Next \/ UNCHANGED Atomic!vars
<1>1. Quiet
  BY OnlyCommitPosts DEF Step, LedgerInv
<1>2. answer \in [Req -> Replies] /\ answer' \in [Req -> Replies]
  BY TypeStep DEF LedgerInv, TypeOK, Next, Step
<1>3. \A q \in Req \ {r} : answer'[q] = answer[q]
  BY StepIsLocal DEF LedgerInv, OnlyOf, Step
<1>4. answer' = [answer EXCEPT ![r] = answer'[r]]
  BY <1>2, <1>3
<1>5. answer[r] = Pending
  BY AnsweredLast DEF LedgerInv, Unanswered
<1>6. CASE answer'[r] = answer[r]
  BY <1>1, <1>2, <1>3, <1>6 DEF Atomic!vars, Quiet
<1>7. CASE \E w \in Refusals : answer'[r] = Refused(w)
  <2>1. Atomic!Answer(r)
    BY <1>1, <1>4, <1>5, <1>7 DEF Atomic!Answer, Atomic!Refused, Refused, Atomic!Pending, Pending,
       Quiet
  <2>2. QED
    BY <2>1 DEF Atomic!Next
<1>8. CASE IdTaken(journals, found[r]) /\ answer'[r] = Granted(ById(journals, found[r]))
  <2>1. ById(journals, found[r]) \in journals
    BY <1>8, ByIdFinds
  <2>2. Atomic!Answer(r)
    BY <1>1, <1>4, <1>5, <1>8, <2>1 DEF Atomic!Answer, Atomic!Granted, Granted, Atomic!Pending,
       Pending, Quiet
  <2>3. QED
    BY <2>2 DEF Atomic!Next
<1>9. QED
  BY <1>6, <1>7, <1>8, AnsweredLast DEF LedgerInv

LEMMA AtomicStep ==
  LedgerInv /\ LedgerInv' /\ [Next]_vars => [Atomic!Next]_(Atomic!vars)
<1> SUFFICES ASSUME LedgerInv, LedgerInv', [Next]_vars
             PROVE  Atomic!Next \/ UNCHANGED Atomic!vars
  OBVIOUS
<1>1. ASSUME NEW r \in Req, Step(r) PROVE Atomic!Next \/ UNCHANGED Atomic!vars
  BY <1>1, CommitAppends, QuietStepAnswers
<1>2. CASE UNCHANGED <<journals, posted, answer>>
  BY <1>2 DEF Atomic!vars
<1>3. QED
  BY <1>1, <1>2 DEF Next, CreateAccount, vars, Step

(* Every behaviour of the interleaved, retried, failing transactions is a  *)
(* behaviour of the atomic ledger.                                         *)
THEOREM LedgerIsAtomic == Spec => ImplementsAtomicLedger
BY AtomicInit, AtomicStep, LedgerInvariant, PTL DEF Spec, Atomic!Spec, ImplementsAtomicLedger
=============================================================================
