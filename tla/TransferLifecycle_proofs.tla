----------------------- MODULE TransferLifecycle_proofs -----------------------
(***************************************************************************)
(* Proofs about TransferLifecycle: LifecycleInv is an inductive invariant, *)
(* and the safety properties of the A5 transfer follow from it, for every  *)
(* number of transfers, accounts, calls, operators and attempts.           *)
(*                                                                         *)
(* Every change of a row is one of three: it is created, a transition is   *)
(* applied to it, or the transaction that holds its lock saves it.         *)
(***************************************************************************)
EXTENDS TransferLifecycle, FiniteInduction, TLAPS

Asked == Instruction \cup {UnknownInstruction}

(* HistoryStands of one step. *)
Advances ==
  \A t \in Transfer : rows[t] # None =>
    /\ rows'[t] # None
    /\ rows[t].status \in Terminal => rows'[t] = rows[t]
    /\ rows[t].ref # None => rows'[t].ref = rows[t].ref
    /\ rows'[t].version \in {rows[t].version, rows[t].version + 1}

(* What the invariant says of the database and the locks. *)
TablesHold ==
  /\ rows \in [Transfer -> Row \cup {None}]
  /\ journals \subseteq Transfer \cup OtherJournal
  /\ tx \in [Handler -> Lock \cup {None}]
  /\ LocksHeld
  /\ LinksExist
  /\ MoneyMovesWithStatus
  /\ JournalCompletesOneTransfer

-----------------------------------------------------------------------------
(* Rows *)

(* The table of transitions stays within the statuses and never leaves a   *)
(* terminal one.                                                           *)
LEMMA SuccessorTable ==
  \A s \in Statuses :
    /\ Successors(s) \subseteq Statuses \ {"PENDING"}
    /\ s \in Terminal => Successors(s) = {}
BY DEF Statuses, Terminal, Successors

(* What any call may ask of a transition. *)
LEMMA AskedTypes ==
  ASSUME NEW i \in Asked
  PROVE  /\ i.next \in Statuses
         /\ i.ref \in {k.ref : k \in Instruction} \cup {None, PostRecovery}
         /\ i.journal \in Transfer \cup OtherJournal \cup {None}
BY TransferAssumption DEF Asked, UnknownInstruction, Statuses

(* null is no row and no lock. *)
LEMMA RowsAreNotNull ==
  /\ \A row \in Row : row # None
  /\ \A o \in Lock : o # None
  /\ \A c \in Call : c # None
BY NullAssumption

(* A transition that is admitted leads from a row that is not terminal to  *)
(* a row whose journal, if it has one, is a posted journal of nobody.      *)
LEMMA StepFacts ==
  ASSUME TablesHold, NEW t \in Transfer, NEW i \in Asked, Step(t, i)
  PROVE  /\ rows[t] \in Row
         /\ rows[t].status \notin Terminal
         /\ rows[t].journal = None
         /\ Applied(rows[t], i) \in Row
         /\ Applied(rows[t], i).journal # None =>
              /\ Applied(rows[t], i).status = "COMPLETED"
              /\ Applied(rows[t], i).journal \in journals \ Transfer
              /\ \A u \in Transfer :
                   rows[u] # None => rows[u].journal # Applied(rows[t], i).journal
         /\ rows[t].ref # None => Applied(rows[t], i).ref = rows[t].ref
         /\ Applied(rows[t], i).version = rows[t].version + 1
<1>1. rows[t] \in Row /\ Admissible(rows[t], i)
  BY DEF TablesHold, Step
<1>2. i.next \in Successors(rows[t].status) /\ rows[t].status \in Statuses
  BY <1>1 DEF Admissible, Row
<1>3. rows[t].status \notin Terminal /\ i.next \in Statuses
  BY <1>2, SuccessorTable
<1>4. rows[t].journal = None
  BY <1>1, <1>3, RowsAreNotNull DEF TablesHold, MoneyMovesWithStatus, Terminal
<1>5. RefAfter(rows[t], i) \in {k.ref : k \in Instruction} \cup {None, PostRecovery}
  BY <1>1, AskedTypes DEF RefAfter, Row
<1>6. i.journal \in Transfer \cup OtherJournal \cup {None}
  BY AskedTypes
<1>7. rows[t].version + 1 \in Nat \ {0}
  BY <1>1 DEF Row
<1>8. Applied(rows[t], i) \in Row
  BY <1>1, <1>3, <1>5, <1>6, <1>7 DEF Applied, Row
<1>9. /\ Applied(rows[t], i).status = i.next
      /\ Applied(rows[t], i).ref = RefAfter(rows[t], i)
      /\ Applied(rows[t], i).version = rows[t].version + 1
      /\ Applied(rows[t], i).journal = IF i.next = "COMPLETED" THEN i.journal ELSE None
  BY <1>1, <1>4 DEF Applied, Row
<1>10. ASSUME i.next = "COMPLETED"
       PROVE  /\ i.journal \in journals \ Transfer
              /\ \A u \in Transfer : rows[u] # None => rows[u].journal # i.journal
  BY <1>1, <1>10 DEF Admissible, TablesHold, MoneyMovesWithStatus
<1> QED
  BY <1>1, <1>3, <1>4, <1>8, <1>9, <1>10 DEF RefAfter

(* What a posting transaction read is a row that is not terminal when it   *)
(* goes on to post.                                                        *)
LEMMA PostFacts ==
  ASSUME TablesHold, NEW h \in Handler, tx[h] # None, Verdict(h) \in {"complete", "reject"}
  PROVE  /\ tx[h] \in Lock
         /\ tx[h].transfer \in Transfer
         /\ rows[tx[h].transfer] = tx[h].row
         /\ tx[h].row \in Row
         /\ tx[h].row.status = "PROCESSING"
         /\ tx[h].row.journal = None
         /\ tx[h].transfer \notin journals
         /\ Completed(tx[h]) \in Row /\ Rejected(tx[h]) \in Row
<1>1. tx[h] \in Lock /\ tx[h].transfer \in Transfer /\ tx[h].row \in Row
  BY DEF TablesHold, Lock
<1>2. rows[tx[h].transfer] = tx[h].row
  BY DEF TablesHold, LocksHeld
<1>3. tx[h].row.status = "PROCESSING"
  BY DEF Verdict
<1>4. tx[h].row.journal = None /\ tx[h].transfer \notin journals
  BY <1>1, <1>2, <1>3, RowsAreNotNull, TransferAssumption DEF TablesHold, MoneyMovesWithStatus
<1>5. tx[h].row.version + 1 \in Nat \ {0}
  BY <1>1 DEF Row
<1>6. Completed(tx[h]) \in Row /\ Rejected(tx[h]) \in Row
  BY <1>1, <1>5 DEF Completed, Rejected, Row, Statuses
<1> QED
  BY <1>1, <1>2, <1>3, <1>4, <1>6

(* A final view stays true as long as the rows only advance. *)
LEMMA TruthStands ==
  ASSUME Advances, NEW view, view.transfer \in Transfer, Truthful(view)
  PROVE  Truthful(view)'
BY DEF Advances, Truthful, Terminal

(* A view of a saved row is true. *)
LEMMA ViewIsTrue ==
  ASSUME NEW t \in Transfer, NEW row \in Row, rows[t] = row
  PROVE  Truthful(View(t, row)) /\ View(t, row) \in ViewType
BY RowsAreNotNull DEF Truthful, View, ViewType, Row

-----------------------------------------------------------------------------
(* The three changes of a row *)

(* A transition keeps the tables and the locks in order. *)
LEMMA StepTables ==
  ASSUME TablesHold, NEW t \in Transfer, NEW i \in Asked, Step(t, i),
         UNCHANGED <<journals, events, tx, post>>
  PROVE  TablesHold' /\ Advances /\ rows' = [rows EXCEPT ![t] = Applied(rows[t], i)]
<1> DEFINE row == Applied(rows[t], i)
<1>1. rows' = [rows EXCEPT ![t] = row] /\ ~ Locked(t)
  BY DEF Step
<1>2. /\ rows[t] \in Row /\ row \in Row /\ row # None /\ rows[t] # None
      /\ rows[t].status \notin Terminal /\ rows[t].journal = None
      /\ row.journal # None =>
           /\ row.status = "COMPLETED" /\ row.journal \in journals \ Transfer
           /\ \A u \in Transfer : rows[u] # None => rows[u].journal # row.journal
      /\ rows[t].ref # None => row.ref = rows[t].ref
      /\ row.version = rows[t].version + 1
  BY StepFacts, RowsAreNotNull
<1> HIDE DEF row
<1>3. rows \in [Transfer -> Row \cup {None}]
  BY DEF TablesHold
<1>4. rows' \in [Transfer -> Row \cup {None}] /\ rows'[t] = row
      /\ \A u \in Transfer \ {t} : rows'[u] = rows[u]
  BY <1>1, <1>2, <1>3
<1>5. Advances
  BY <1>2, <1>4 DEF Advances
<1>6. LocksHeld'
  BY <1>1, <1>4 DEF TablesHold, LocksHeld, Locked
<1>7. LinksExist'
  BY <1>2, <1>4 DEF TablesHold, LinksExist
<1>8. MoneyMovesWithStatus'
  BY <1>2, <1>4, TransferAssumption DEF TablesHold, MoneyMovesWithStatus
<1>9. JournalCompletesOneTransfer'
  BY <1>2, <1>4 DEF TablesHold, JournalCompletesOneTransfer
<1>10. (journals \subseteq Transfer \cup OtherJournal /\ tx \in [Handler -> Lock \cup {None}])'
  BY DEF TablesHold
<1> QED
  BY <1>1, <1>4, <1>5, <1>6, <1>7, <1>8, <1>9, <1>10 DEF TablesHold, row

(* So does the creation of a transfer. *)
LEMMA CreateTables ==
  ASSUME TablesHold, NEW t \in Transfer, NEW key \in Key, NEW hash \in Hash,
         CreatePending(t, key, hash)
  PROVE  /\ TablesHold' /\ Advances
         /\ \E row \in Row :
              rows'[t] = row /\ records' = Stored(<<"create", None, key>>, hash, View(t, row))
<1>1. CASE rows[t] = None
  <2> DEFINE row == NewRow(key, hash)
  <2>1. rows' = [rows EXCEPT ![t] = row]
        /\ records' = Stored(<<"create", None, key>>, hash, View(t, row))
        /\ UNCHANGED <<journals, events, tx, post>>
    BY <1>1 DEF CreatePending
  <2>2. row \in Row /\ row # None /\ row.journal = None
    <3>1. row \in Row
      BY DEF NewRow, Row, Statuses
    <3> QED
      BY <3>1, RowsAreNotNull DEF NewRow
  <2> HIDE DEF row
  <2>3. rows \in [Transfer -> Row \cup {None}]
    BY DEF TablesHold
  <2>4. rows' \in [Transfer -> Row \cup {None}] /\ rows'[t] = row
        /\ \A u \in Transfer \ {t} : rows'[u] = rows[u]
    BY <2>1, <2>2, <2>3
  <2>5. Advances
    <3>1. \A u \in Transfer : rows[u] # None => rows'[u] = rows[u] /\ rows[u] \in Row
      BY <1>1, <2>3, <2>4
    <3> QED
      BY <3>1 DEF Advances
  <2>6. LocksHeld'
    <3>1. \A h \in Handler : tx[h] # None => tx[h].transfer # t
      BY <1>1, RowsAreNotNull DEF TablesHold, LocksHeld, Lock
    <3> QED
      BY <2>1, <2>4, <3>1 DEF TablesHold, LocksHeld
  <2>7. LinksExist'
    BY <2>1, <2>2, <2>4 DEF TablesHold, LinksExist
  <2>8. MoneyMovesWithStatus'
    BY <1>1, <2>1, <2>2, <2>4, TransferAssumption DEF TablesHold, MoneyMovesWithStatus
  <2>9. JournalCompletesOneTransfer'
    BY <2>1, <2>2, <2>4 DEF TablesHold, JournalCompletesOneTransfer
  <2>10. (journals \subseteq Transfer \cup OtherJournal /\ tx \in [Handler -> Lock \cup {None}])'
    BY <2>1 DEF TablesHold
  <2> QED
    BY <2>1, <2>2, <2>4, <2>5, <2>6, <2>7, <2>8, <2>9, <2>10 DEF TablesHold
<1>2. CASE rows[t] # None
  <2>1. UNCHANGED <<rows, journals, events, tx, post>>
        /\ records' = Stored(<<"create", None, key>>, hash, View(t, rows[t]))
    BY <1>2 DEF CreatePending
  <2>2. rows[t] \in Row
    BY <1>2 DEF TablesHold
  <2>3. Advances
    BY <2>1 DEF Advances
  <2>4. TablesHold'
    BY <2>1 DEF TablesHold, LocksHeld, LinksExist, MoneyMovesWithStatus,
                JournalCompletesOneTransfer
  <2> QED
    BY <2>1, <2>2, <2>3, <2>4
<1> QED
  BY <1>1, <1>2

(* So does the posting transaction that completes the transfer it locked.  *)
LEMMA CommitTables ==
  ASSUME TablesHold, NEW h \in Handler, CommitPost(h)
  PROVE  /\ TablesHold' /\ Advances
         /\ rows'[tx[h].transfer] = Completed(tx[h])
<1> DEFINE t == tx[h].transfer
           row == Completed(tx[h])
<1>1. /\ tx[h] \in Lock /\ t \in Transfer /\ rows[t] = tx[h].row /\ tx[h].row \in Row
      /\ tx[h].row.status = "PROCESSING" /\ tx[h].row.journal = None
      /\ t \notin journals /\ row \in Row /\ row # None /\ rows[t] # None
  BY PostFacts, RowsAreNotNull DEF CommitPost
<1>2. row.status = "COMPLETED" /\ row.journal = t /\ row.ref = rows[t].ref
      /\ row.version = rows[t].version + 1
  BY <1>1 DEF Completed, Row
<1>3. /\ rows' = [rows EXCEPT ![t] = row] /\ tx' = [tx EXCEPT ![h] = None]
      /\ journals' = journals \cup {t} /\ events' = events \cup {t} /\ UNCHANGED post
  BY DEF CommitPost, SaveAndEnd, EndPost
<1> HIDE DEF row
<1>4. rows \in [Transfer -> Row \cup {None}] /\ tx \in [Handler -> Lock \cup {None}]
  BY DEF TablesHold
<1>5. rows' \in [Transfer -> Row \cup {None}] /\ rows'[t] = row
      /\ \A u \in Transfer \ {t} : rows'[u] = rows[u]
  BY <1>1, <1>3, <1>4
<1>6. tx' \in [Handler -> Lock \cup {None}] /\ tx'[h] = None
      /\ \A g \in Handler \ {h} : tx'[g] = tx[g]
  BY <1>3, <1>4
<1>7. Advances
  BY <1>1, <1>2, <1>5 DEF Advances, Terminal
<1>8. LocksHeld'
  BY <1>1, <1>3, <1>4, <1>5, <1>6 DEF TablesHold, LocksHeld, Lock
<1>9. LinksExist'
  BY <1>2, <1>3, <1>5 DEF TablesHold, LinksExist
<1>10. MoneyMovesWithStatus'
  BY <1>1, <1>2, <1>3, <1>5, TransferAssumption DEF TablesHold, MoneyMovesWithStatus, LinksExist
<1>11. JournalCompletesOneTransfer'
  BY <1>1, <1>2, <1>5 DEF TablesHold, JournalCompletesOneTransfer, LinksExist
<1>12. (journals \subseteq Transfer \cup OtherJournal)'
  BY <1>1, <1>3 DEF TablesHold
<1> QED
  BY <1>5, <1>6, <1>7, <1>8, <1>9, <1>10, <1>11, <1>12 DEF TablesHold, row

(* So does the one that fails it because the ledger refused. *)
LEMMA RejectionTables ==
  ASSUME TablesHold, NEW h \in Handler, CommitRejection(h)
  PROVE  /\ TablesHold' /\ Advances
         /\ rows'[tx[h].transfer] = Rejected(tx[h])
<1> DEFINE t == tx[h].transfer
           row == Rejected(tx[h])
<1>1. /\ tx[h] \in Lock /\ t \in Transfer /\ rows[t] = tx[h].row /\ tx[h].row \in Row
      /\ tx[h].row.status = "PROCESSING" /\ tx[h].row.journal = None
      /\ t \notin journals /\ row \in Row /\ row # None /\ rows[t] # None
  BY PostFacts, RowsAreNotNull DEF CommitRejection
<1>2. row.journal = None /\ row.ref = rows[t].ref /\ row.version = rows[t].version + 1
  BY <1>1 DEF Rejected, Row
<1>3. /\ rows' = [rows EXCEPT ![t] = row] /\ tx' = [tx EXCEPT ![h] = None]
      /\ UNCHANGED <<journals, events, post>>
  BY DEF CommitRejection, SaveAndEnd, EndPost
<1> HIDE DEF row
<1>4. rows \in [Transfer -> Row \cup {None}] /\ tx \in [Handler -> Lock \cup {None}]
  BY DEF TablesHold
<1>5. rows' \in [Transfer -> Row \cup {None}] /\ rows'[t] = row
      /\ \A u \in Transfer \ {t} : rows'[u] = rows[u]
  BY <1>1, <1>3, <1>4
<1>6. tx' \in [Handler -> Lock \cup {None}] /\ tx'[h] = None
      /\ \A g \in Handler \ {h} : tx'[g] = tx[g]
  BY <1>3, <1>4
<1>7. Advances
  BY <1>1, <1>2, <1>5 DEF Advances, Terminal
<1>8. LocksHeld'
  BY <1>1, <1>3, <1>4, <1>5, <1>6 DEF TablesHold, LocksHeld, Lock
<1>9. LinksExist'
  BY <1>2, <1>3, <1>5 DEF TablesHold, LinksExist
<1>10. MoneyMovesWithStatus'
  BY <1>1, <1>2, <1>3, <1>5, TransferAssumption DEF TablesHold, MoneyMovesWithStatus
<1>11. JournalCompletesOneTransfer'
  BY <1>1, <1>2, <1>5 DEF TablesHold, JournalCompletesOneTransfer
<1>12. (journals \subseteq Transfer \cup OtherJournal)'
  BY <1>3 DEF TablesHold
<1> QED
  BY <1>5, <1>6, <1>7, <1>8, <1>9, <1>10, <1>11, <1>12 DEF TablesHold, row

-----------------------------------------------------------------------------
(* Steps that change no row *)

(* Where no row, journal or event changes, the tables hold if the locks do. *)
LEMMA TablesStay ==
  ASSUME TablesHold, UNCHANGED <<rows, journals, events>>,
         (tx \in [Handler -> Lock \cup {None}] /\ LocksHeld)'
  PROVE  TablesHold' /\ Advances
<1>1. Advances
  BY DEF Advances
<1> QED
  BY <1>1 DEF TablesHold, LinksExist, MoneyMovesWithStatus, JournalCompletesOneTransfer

(* A transaction that ends gives up its lock. *)
LEMMA EndKeepsLocks ==
  ASSUME TablesHold, NEW h \in Handler, UNCHANGED <<rows, post>>,
         tx' = [tx EXCEPT ![h] = None]
  PROVE  (tx \in [Handler -> Lock \cup {None}] /\ LocksHeld)'
<1>1. tx \in [Handler -> Lock \cup {None}]
  BY DEF TablesHold
<1>2. tx' \in [Handler -> Lock \cup {None}] /\ tx'[h] = None
      /\ \A g \in Handler \ {h} : tx'[g] = tx[g]
  BY <1>1
<1> QED
  BY <1>2 DEF TablesHold, LocksHeld

(* A transaction that starts takes the one lock on the row it reads. *)
LEMMA LockKeepsLocks ==
  ASSUME TablesHold, NEW h \in Handler, LockTransfer(h),
         post[h] # None, post[h].transfer \in Transfer
  PROVE  (tx \in [Handler -> Lock \cup {None}] /\ LocksHeld)'
<1>1. tx \in [Handler -> Lock \cup {None}] /\ rows \in [Transfer -> Row \cup {None}]
  BY DEF TablesHold
<1>2. CASE rows[post[h].transfer] = None
  BY <1>1, <1>2 DEF LockTransfer, db, TablesHold, LocksHeld
<1>3. CASE rows[post[h].transfer] # None
  <2> DEFINE t == post[h].transfer
             lock == [transfer |-> t, row |-> rows[t]]
  <2>1. ~ Locked(t) /\ tx' = [tx EXCEPT ![h] = lock] /\ UNCHANGED <<rows, post>>
    BY <1>3 DEF LockTransfer, db
  <2>2. lock \in Lock /\ lock.transfer = t /\ lock.row = rows[t]
    BY <1>1, <1>3 DEF Lock
  <2> HIDE DEF lock
  <2>3. tx' \in [Handler -> Lock \cup {None}] /\ tx'[h] = lock
        /\ \A g \in Handler \ {h} : tx'[g] = tx[g]
    BY <1>1, <2>1, <2>2
  <2> QED
    BY <2>1, <2>2, <2>3 DEF TablesHold, LocksHeld, Locked
<1> QED
  BY <1>2, <1>3

-----------------------------------------------------------------------------
(* Answers and records *)

(* The view is about a saved row, or it was true before. *)
SaysTruth(view) == view \in ViewType /\ (Truthful(view) \/ Truthful(view)')

(* The answers and the stored responses stay true when rows only advance   *)
(* and what is new is true.                                                *)
LEMMA AnswersKeep ==
  ASSUME LifecycleInv, Advances,
         \A rec \in records' : rec \in records \/ SaysTruth(rec.view),
         \A h \in Handler :
           answer'[h] = answer[h] \/ answer'[h] \in RefusalType
             \/ \E view : answer'[h] = view /\ SaysTruth(view)
  PROVE  AnswersAreTrue' /\ \A rec \in records' : rec.view \in ViewType
<1>1. \A view : SaysTruth(view) => view \in ViewType /\ Truthful(view)'
  <2> SUFFICES ASSUME NEW view, view \in ViewType, Truthful(view)
               PROVE  Truthful(view)'
    BY DEF SaysTruth
  <2> QED
    BY TruthStands DEF ViewType
<1>2. \A rec \in records : SaysTruth(rec.view)
  BY DEF LifecycleInv, TypeOK, AnswersAreTrue, SaysTruth
<1>3. \A h \in Handler : answer[h].kind = "view" => SaysTruth(answer[h])
  BY DEF LifecycleInv, TypeOK, AnswersAreTrue, SaysTruth, RefusalType
<1>4. ASSUME NEW h \in Handler, answer'[h].kind = "view"
      PROVE  \E view : answer'[h] = view /\ SaysTruth(view)
  BY <1>3, <1>4 DEF RefusalType
<1>5. \A h \in Handler : (answer[h].kind = "view" => Truthful(answer[h]))'
  BY <1>1, <1>4
<1> QED
  BY <1>1, <1>2, <1>5 DEF AnswersAreTrue

(* A reply ends the call of h, and answers no one else. *)
LEMMA ReplyFacts ==
  ASSUME TypeOK, NEW h \in Handler, NEW a \in ViewType \cup RefusalType, Reply(h, a)
  PROVE  /\ answer' \in [Handler -> ViewType \cup RefusalType]
         /\ answer'[h] = a /\ \A g \in Handler \ {h} : answer'[g] = answer[g]
         /\ pc' \in [Handler -> {"idle", "post", "posting", "resolve", "record", "done"}]
         /\ pc'[h] = "done" /\ \A g \in Handler \ {h} : pc'[g] = pc[g]
BY DEF TypeOK, Reply, Goto

LEMMA RefusalTypes ==
  \A why \in {"not_found", "conflict", "error", "unknown_outcome"} : Refused(why) \in RefusalType
BY DEF Refused, RefusalType

(* A stored response is a true view. *)
LEMMA RecordFacts ==
  ASSUME LifecycleInv, NEW slot, Reserved(slot)
  PROVE  SaysTruth(Record(slot).view)
<1>1. Record(slot) \in records
  BY DEF Reserved, Record
<1> QED
  BY <1>1 DEF LifecycleInv, TypeOK, AnswersAreTrue, SaysTruth

(* A view of a row that is saved is true. *)
LEMMA SavedSaysTruth ==
  ASSUME NEW t \in Transfer, NEW row \in Row, rows[t] = row \/ rows'[t] = row
  PROVE  SaysTruth(View(t, row))
<1>1. View(t, row) \in ViewType
  BY DEF View, ViewType, Row
<1>2. CASE rows[t] = row
  BY <1>1, <1>2, ViewIsTrue DEF SaysTruth
<1>3. CASE rows'[t] = row
  BY <1>1, <1>3, RowsAreNotNull DEF SaysTruth, Truthful, View
<1> QED
  BY <1>2, <1>3

(* What is stored besides the old records. *)
LEMMA StoredFacts ==
  ASSUME NEW slot, NEW hash, NEW view, SaysTruth(view), records' = Stored(slot, hash, view)
  PROVE  \A rec \in records' : rec \in records \/ SaysTruth(rec.view)
BY DEF Stored

(* The invariant of one step, in its parts. *)
Service ==
  /\ funds \in [Account -> Int] /\ events \subseteq Transfer
  /\ pc \in [Handler -> {"idle", "post", "posting", "resolve", "record", "done"}]
  /\ post \in [Handler -> Call \cup {None}]
  /\ attempt \in [Handler -> 1..MaxAttempts]
  /\ answer \in [Handler -> ViewType \cup RefusalType]
  /\ StagesHold

LEMMA InParts ==
  LifecycleInv <=> /\ TablesHold /\ Service /\ AnswersAreTrue
                   /\ \A rec \in records : rec.view \in ViewType
BY DEF LifecycleInv, TypeOK, TablesHold, Service

(* What there is to show of an action. *)
LEMMA Assemble ==
  ASSUME LifecycleInv, Advances, TablesHold', Service',
         \A rec \in records' : rec \in records \/ SaysTruth(rec.view),
         \A h \in Handler :
           answer'[h] = answer[h] \/ answer'[h] \in RefusalType
             \/ \E view : answer'[h] = view /\ SaysTruth(view)
  PROVE  LifecycleInv'
BY AnswersKeep DEF LifecycleInv, TypeOK, TablesHold, Service

-----------------------------------------------------------------------------
(* The actions *)

Kept == LifecycleInv' /\ Advances

(* Requests: creation, transition, and the start of a posting. *)
LEMMA CreateKeeps ==
  ASSUME LifecycleInv, NEW t \in Transfer, NEW key \in Key, NEW hash \in Hash,
         CreatePending(t, key, hash)
  PROVE  Kept
<1>1. TablesHold /\ Service
  BY InParts
<1>2. TablesHold' /\ Advances
  BY <1>1, CreateTables
<1>3. PICK row \in Row : rows'[t] = row
                         /\ records' = Stored(<<"create", None, key>>, hash, View(t, row))
  BY <1>1, CreateTables
<1>4. \A rec \in records' : rec \in records \/ SaysTruth(rec.view)
  BY <1>3, SavedSaysTruth, StoredFacts
<1>5. UNCHANGED <<funds, events, pc, post, attempt, tx, answer>>
  BY DEF CreatePending
<1>6. Service'
  BY <1>1, <1>5 DEF Service, StagesHold
<1> QED
  BY <1>2, <1>4, <1>5, <1>6, Assemble DEF Kept

LEMMA TransitionKeeps ==
  ASSUME LifecycleInv, NEW t \in Transfer, NEW i \in Instruction, Transition(t, i)
  PROVE  Kept
<1>1. TablesHold /\ Service
  BY InParts
<1>2. Step(t, i) /\ i \in Asked /\ UNCHANGED <<journals, funds, events, pc, post, attempt, tx, answer>>
  BY DEF Transition, Asked
<1>3. TablesHold' /\ Advances /\ rows' = [rows EXCEPT ![t] = Applied(rows[t], i)]
  BY <1>1, <1>2, StepTables
<1>4. Applied(rows[t], i) \in Row
  BY <1>1, <1>2, StepFacts
<1>5. SaysTruth(View(t, Applied(rows[t], i)))
  BY <1>1, <1>3, <1>4, SavedSaysTruth DEF TablesHold
<1>6. \A rec \in records' : rec \in records \/ SaysTruth(rec.view)
  BY <1>2, <1>5, StoredFacts DEF Step
<1>7. Service'
  BY <1>1, <1>2 DEF Service, StagesHold
<1> QED
  BY <1>2, <1>3, <1>6, <1>7, Assemble DEF Kept

LEMMA PostKeeps ==
  ASSUME LifecycleInv, NEW h \in Handler, NEW t \in Transfer, NEW key \in PostKey,
         PostToLedger(h, t, key)
  PROVE  Kept
<1>1. TablesHold /\ Service
  BY InParts
<1>2. /\ pc[h] = "idle" /\ pc' = [pc EXCEPT ![h] = "post"]
      /\ post' = [post EXCEPT ![h] = [transfer |-> t, key |-> key]]
      /\ UNCHANGED <<rows, journals, funds, events, records, attempt, tx, answer>>
  BY DEF PostToLedger, Goto, db
<1>3. tx[h] = None
  BY <1>1, <1>2 DEF Service, StagesHold
<1>4. /\ post' \in [Handler -> Call \cup {None}] /\ post'[h] \in Call
      /\ \A g \in Handler \ {h} : post'[g] = post[g]
  BY <1>1, <1>2 DEF Service, Call
<1>5. (tx \in [Handler -> Lock \cup {None}] /\ LocksHeld)'
  BY <1>1, <1>2, <1>3, <1>4 DEF TablesHold, LocksHeld
<1>6. TablesHold' /\ Advances
  BY <1>1, <1>2, <1>5, TablesStay
<1>7. Service'
  BY <1>1, <1>2, <1>4, RowsAreNotNull DEF Service, StagesHold
<1> QED
  BY <1>2, <1>6, <1>7, Assemble DEF Kept

(* The transaction of a posting: it starts, it commits, it fails the       *)
(* transfer, or it ends with nothing to save.                              *)
LEMMA CallFacts ==
  ASSUME LifecycleInv, NEW h \in Handler, pc[h] # "idle"
  PROVE  post[h] # None /\ post[h] \in Call /\ post[h].transfer \in Transfer
BY DEF LifecycleInv, TypeOK, StagesHold, Call

(* A transaction that is open belongs to a call. *)
LEMMA OpenIsCalled ==
  ASSUME LifecycleInv, NEW h \in Handler, tx[h] # None
  PROVE  pc[h] # "idle"
BY DEF LifecycleInv, StagesHold

(* A handler that replies or waits on, while its transaction ends or not.  *)
LEMMA ServiceKeeps ==
  ASSUME LifecycleInv, NEW h \in Handler, pc[h] # "idle",
         UNCHANGED <<post, attempt>>,
         (funds \in [Account -> Int] /\ events \subseteq Transfer)',
         UNCHANGED <<pc, answer>> \/ \E a \in ViewType \cup RefusalType : Reply(h, a),
         \A g \in Handler \ {h} : tx'[g] = tx[g]
  PROVE  Service'
<1>1. Service
  BY InParts
<1>2. CASE UNCHANGED <<pc, answer>>
  BY <1>1, <1>2 DEF Service, StagesHold
<1>3. CASE \E a \in ViewType \cup RefusalType : Reply(h, a)
  <2>1. PICK a \in ViewType \cup RefusalType : Reply(h, a)
    BY <1>3
  <2>2. /\ answer' \in [Handler -> ViewType \cup RefusalType]
        /\ pc' \in [Handler -> {"idle", "post", "posting", "resolve", "record", "done"}]
        /\ pc'[h] = "done" /\ \A g \in Handler \ {h} : pc'[g] = pc[g]
    BY <2>1, ReplyFacts DEF LifecycleInv
  <2> QED
    BY <1>1, <2>2 DEF Service, StagesHold
<1> QED
  BY <1>2, <1>3

(* The new answer of h is a refusal or a true view, or there is none. *)
Answering(h) ==
  \/ UNCHANGED <<pc, answer>>
  \/ \E a : Reply(h, a) /\ (a \in RefusalType \/ SaysTruth(a))

LEMMA AnsweringFacts ==
  ASSUME LifecycleInv, NEW h \in Handler, Answering(h)
  PROVE  /\ UNCHANGED <<pc, answer>> \/ \E a \in ViewType \cup RefusalType : Reply(h, a)
         /\ \A g \in Handler :
              answer'[g] = answer[g] \/ answer'[g] \in RefusalType
                \/ \E view : answer'[g] = view /\ SaysTruth(view)
<1>1. CASE UNCHANGED <<pc, answer>>
  BY <1>1
<1>2. CASE \E a : Reply(h, a) /\ (a \in RefusalType \/ SaysTruth(a))
  <2>1. PICK a : Reply(h, a) /\ (a \in RefusalType \/ SaysTruth(a))
    BY <1>2
  <2>2. a \in ViewType \cup RefusalType
    BY <2>1 DEF SaysTruth
  <2>3. answer'[h] = a /\ \A g \in Handler \ {h} : answer'[g] = answer[g]
    BY <2>1, <2>2, ReplyFacts DEF LifecycleInv
  <2> QED
    BY <2>1, <2>2, <2>3
<1> QED
  BY <1>1, <1>2 DEF Answering

(* The end of a transaction that saved row. *)
LEMMA SaveKeeps ==
  ASSUME LifecycleInv, NEW h \in Handler, tx[h] # None, NEW row \in Row,
         SaveAndEnd(h, row), TablesHold', Advances, rows'[tx[h].transfer] = row,
         (funds \in [Account -> Int] /\ events \subseteq Transfer)'
  PROVE  Kept
<1>1. tx[h].transfer \in Transfer /\ tx \in [Handler -> Lock \cup {None}]
  BY DEF LifecycleInv, TypeOK, Lock
<1>2. SaysTruth(View(tx[h].transfer, row))
  BY <1>1, SavedSaysTruth
<1>3. /\ Answering(h) /\ UNCHANGED <<post, attempt>> /\ tx' = [tx EXCEPT ![h] = None]
      /\ records' = Stored(PostSlot(h), None, View(tx[h].transfer, row))
  BY <1>2 DEF SaveAndEnd, EndPost, Answering
<1>4. \A rec \in records' : rec \in records \/ SaysTruth(rec.view)
  BY <1>2, <1>3, StoredFacts
<1>5. \A g \in Handler \ {h} : tx'[g] = tx[g]
  BY <1>1, <1>3
<1>6. Service'
  BY <1>3, <1>5, OpenIsCalled, AnsweringFacts, ServiceKeeps
<1> QED
  BY <1>3, <1>4, <1>6, AnsweringFacts, Assemble DEF Kept

LEMMA CommitPostKeeps ==
  ASSUME LifecycleInv, NEW h \in Handler, CommitPost(h)
  PROVE  Kept
<1>1. TablesHold
  BY InParts
<1>2. TablesHold' /\ Advances /\ rows'[tx[h].transfer] = Completed(tx[h])
  BY <1>1, CommitTables
<1>3. tx[h] # None /\ SaveAndEnd(h, Completed(tx[h]))
  BY DEF CommitPost
<1>4. tx[h].transfer \in Transfer /\ Completed(tx[h]) \in Row
  BY <1>1, PostFacts DEF CommitPost
<1>5. funds' \in [Account -> Int]
  BY <1>4, TransferAssumption DEF LifecycleInv, TypeOK, CommitPost, Moved
<1>6. events' \subseteq Transfer
  BY <1>4 DEF LifecycleInv, TypeOK, CommitPost
<1> QED
  BY <1>2, <1>3, <1>4, <1>5, <1>6, SaveKeeps

LEMMA CommitRejectionKeeps ==
  ASSUME LifecycleInv, NEW h \in Handler, CommitRejection(h)
  PROVE  Kept
<1>1. TablesHold
  BY InParts
<1>2. TablesHold' /\ Advances /\ rows'[tx[h].transfer] = Rejected(tx[h])
  BY <1>1, RejectionTables
<1>3. tx[h] # None /\ SaveAndEnd(h, Rejected(tx[h]))
  BY DEF CommitRejection
<1>4. Rejected(tx[h]) \in Row
  BY <1>1, PostFacts DEF CommitRejection
<1>5. (funds \in [Account -> Int] /\ events \subseteq Transfer)'
  BY DEF LifecycleInv, TypeOK, CommitRejection
<1> QED
  BY <1>2, <1>3, <1>4, <1>5, SaveKeeps

(* A step that saves nothing, and ends the transaction of h or no one. *)
LEMMA SilentKeeps ==
  ASSUME LifecycleInv, NEW h \in Handler, pc[h] # "idle", Answering(h),
         UNCHANGED <<db, post, attempt>>,
         UNCHANGED tx \/ tx' = [tx EXCEPT ![h] = None]
  PROVE  Kept
<1>1. TablesHold
  BY InParts
<1>2. UNCHANGED <<rows, journals, funds, events, records>>
  BY DEF db
<1>3. (tx \in [Handler -> Lock \cup {None}] /\ LocksHeld)'
  <2>1. CASE UNCHANGED tx
    BY <1>1, <1>2, <2>1 DEF TablesHold, LocksHeld
  <2>2. CASE tx' = [tx EXCEPT ![h] = None]
    BY <1>1, <1>2, <2>2, EndKeepsLocks
  <2> QED
    BY <2>1, <2>2
<1>4. TablesHold' /\ Advances
  BY <1>1, <1>2, <1>3, TablesStay
<1>5. \A g \in Handler \ {h} : tx'[g] = tx[g]
  BY <1>1 DEF TablesHold
<1>6. (funds \in [Account -> Int] /\ events \subseteq Transfer)'
  BY <1>2 DEF LifecycleInv, TypeOK
<1>7. Service'
  BY <1>5, <1>6, AnsweringFacts, ServiceKeeps
<1> QED
  BY <1>2, <1>4, <1>7, AnsweringFacts, Assemble DEF Kept

(* Such a step may instead send h on to another stage. *)
LEMMA GoingKeeps ==
  ASSUME LifecycleInv, NEW h \in Handler, pc[h] # "idle",
         NEW stage \in {"post", "posting", "resolve", "record"}, Goto(h, stage),
         UNCHANGED <<db, post, answer>>, attempt' \in [Handler -> 1..MaxAttempts],
         (tx \in [Handler -> Lock \cup {None}] /\ LocksHeld)',
         \A g \in Handler \ {h} : tx'[g] = tx[g]
  PROVE  Kept
<1>1. TablesHold /\ Service
  BY InParts
<1>2. UNCHANGED <<rows, journals, funds, events, records>>
  BY DEF db
<1>3. TablesHold' /\ Advances
  BY <1>1, <1>2, TablesStay
<1>4. /\ pc' \in [Handler -> {"idle", "post", "posting", "resolve", "record", "done"}]
      /\ pc'[h] # "idle" /\ \A g \in Handler \ {h} : pc'[g] = pc[g]
  BY <1>1 DEF Goto, Service
<1>5. Service'
  BY <1>1, <1>2, <1>4 DEF Service, StagesHold
<1> QED
  BY <1>2, <1>3, <1>5, Assemble DEF Kept

LEMMA CloseUnchangedKeeps ==
  ASSUME LifecycleInv, NEW h \in Handler, CloseUnchanged(h)
  PROVE  Kept
<1>1. tx[h] # None /\ pc[h] # "idle"
  BY OpenIsCalled DEF CloseUnchanged
<1> DEFINE a == IF Verdict(h) = "replay" THEN Record(PostSlot(h)).view ELSE Refused("conflict")
<1>2. EndPost(h, a) /\ UNCHANGED db
  BY DEF CloseUnchanged
<1>3. ASSUME Verdict(h) = "replay"
      PROVE  SaysTruth(Record(PostSlot(h)).view)
  <2>1. Reserved(PostSlot(h))
    BY <1>3 DEF Verdict
  <2> QED
    BY <2>1, RecordFacts
<1>4. a \in RefusalType \/ SaysTruth(a)
  BY <1>3, RefusalTypes
<1> HIDE DEF a
<1>5. Answering(h) /\ UNCHANGED <<post, attempt>> /\ tx' = [tx EXCEPT ![h] = None]
  BY <1>2, <1>4 DEF EndPost, Answering
<1> QED
  BY <1>1, <1>2, <1>5, SilentKeeps

LEMMA RetryPostKeeps ==
  ASSUME LifecycleInv, NEW h \in Handler, RetryPost(h)
  PROVE  Kept
<1>1. pc[h] # "idle" /\ tx' = [tx EXCEPT ![h] = None] /\ UNCHANGED <<db, post>>
  BY DEF RetryPost
<1>2. TablesHold /\ attempt \in [Handler -> 1..MaxAttempts]
      /\ tx \in [Handler -> Lock \cup {None}]
  BY DEF LifecycleInv, TypeOK, TablesHold
<1>3. CASE attempt[h] < MaxAttempts
  <2>1. Goto(h, "post") /\ attempt' = [attempt EXCEPT ![h] = @ + 1] /\ UNCHANGED answer
    BY <1>3 DEF RetryPost
  <2>2. attempt' \in [Handler -> 1..MaxAttempts]
    BY <1>2, <1>3, <2>1, TransferAssumption
  <2>3. (tx \in [Handler -> Lock \cup {None}] /\ LocksHeld)'
    BY <1>1, <1>2, EndKeepsLocks DEF db
  <2>4. \A g \in Handler \ {h} : tx'[g] = tx[g]
    BY <1>1, <1>2
  <2> QED
    BY <1>1, <2>1, <2>2, <2>3, <2>4, GoingKeeps
<1>4. CASE ~ (attempt[h] < MaxAttempts)
  <2>1. Answering(h) /\ UNCHANGED attempt
    BY <1>4, RefusalTypes DEF RetryPost, Answering
  <2> QED
    BY <1>1, <2>1, SilentKeeps
<1> QED
  BY <1>3, <1>4

LEMMA AbortLostKeeps ==
  ASSUME LifecycleInv, NEW h \in Handler, AbortLost(h)
  PROVE  Kept
BY OpenIsCalled, SilentKeeps DEF AbortLost, Answering

LEMMA LockTransferKeeps ==
  ASSUME LifecycleInv, NEW h \in Handler, LockTransfer(h)
  PROVE  Kept
<1>1. /\ pc[h] # "idle" /\ UNCHANGED <<db, post, attempt>>
      /\ post[h] # None /\ post[h].transfer \in Transfer
  BY CallFacts DEF LockTransfer
<1>2. TablesHold /\ attempt \in [Handler -> 1..MaxAttempts]
      /\ tx \in [Handler -> Lock \cup {None}]
  BY DEF LifecycleInv, TypeOK, TablesHold
<1>3. CASE rows[post[h].transfer] = None
  <2>1. Answering(h) /\ UNCHANGED tx
    BY <1>3, RefusalTypes DEF LockTransfer, Answering
  <2> QED
    BY <1>1, <2>1, SilentKeeps
<1>4. CASE rows[post[h].transfer] # None
  <2>1. Goto(h, "posting") /\ UNCHANGED answer
        /\ \A g \in Handler \ {h} : tx'[g] = tx[g]
    BY <1>2, <1>4 DEF LockTransfer
  <2>2. (tx \in [Handler -> Lock \cup {None}] /\ LocksHeld)'
    BY <1>1, <1>2, LockKeepsLocks
  <2> QED
    BY <1>1, <1>2, <2>1, <2>2, GoingKeeps
<1> QED
  BY <1>3, <1>4

(* The locks hold when nothing touches them. *)
LEMMA SameLocks ==
  ASSUME LifecycleInv, UNCHANGED <<rows, post, tx>>
  PROVE  (tx \in [Handler -> Lock \cup {None}] /\ LocksHeld)'
BY DEF LifecycleInv, TypeOK, LocksHeld

LEMMA LoseConnectionKeeps ==
  ASSUME LifecycleInv, NEW h \in Handler, LoseConnection(h)
  PROVE  Kept
<1>1. pc[h] # "idle" /\ UNCHANGED <<db, post, attempt, tx>>
  BY DEF LoseConnection
<1>2. CASE Reply(h, Refused("error"))
  BY <1>1, <1>2, RefusalTypes, SilentKeeps DEF Answering
<1>3. CASE Goto(h, "resolve") /\ UNCHANGED answer
  <2>1. attempt' \in [Handler -> 1..MaxAttempts]
    BY <1>1 DEF LifecycleInv, TypeOK
  <2> QED
    BY <1>1, <1>3, <2>1, SameLocks, GoingKeeps DEF db
<1> QED
  BY <1>2, <1>3 DEF LoseConnection

(* The resolution of an uncertain outcome answers with what it read, or    *)
(* goes on to record that it does not know.                                *)
LEMMA ResolveKeeps ==
  ASSUME LifecycleInv, NEW h \in Handler, Resolve(h)
  PROVE  Kept
<1> DEFINE t == post[h].transfer
<1>1. pc[h] # "idle" /\ UNCHANGED <<db, post, attempt, tx>> /\ t \in Transfer
  BY CallFacts DEF Resolve
<1>2. CASE \E why \in {"not_found", "conflict", "error", "unknown_outcome"} : Reply(h, Refused(why))
  BY <1>1, <1>2, RefusalTypes, SilentKeeps DEF Answering
<1>3. CASE rows[t] # None /\ Reply(h, View(t, rows[t]))
  <2>1. rows[t] \in Row
    BY <1>1, <1>3 DEF LifecycleInv, TypeOK
  <2>2. SaysTruth(View(t, rows[t]))
    BY <1>1, <2>1, SavedSaysTruth
  <2> QED
    BY <1>1, <1>3, <2>2, SilentKeeps DEF Answering
<1>4. CASE Goto(h, "record") /\ UNCHANGED answer
  <2>1. attempt' \in [Handler -> 1..MaxAttempts]
    BY <1>1 DEF LifecycleInv, TypeOK
  <2> QED
    BY <1>1, <1>4, <2>1, SameLocks, GoingKeeps DEF db
<1>5. \/ \E why \in {"not_found", "conflict", "error", "unknown_outcome"} : Reply(h, Refused(why))
      \/ rows[t] # None /\ Reply(h, View(t, rows[t]))
      \/ Goto(h, "record") /\ UNCHANGED answer
  <2>1. CASE Reply(h, Refused("unknown_outcome"))
    BY <2>1
  <2>2. CASE ~ Reply(h, Refused("unknown_outcome"))
    BY <2>2 DEF Resolve
  <2> QED
    BY <2>1, <2>2
<1> QED
  BY <1>2, <1>3, <1>4, <1>5

LEMMA ReplayUnknownKeeps ==
  ASSUME LifecycleInv, NEW h \in Handler, ReplayUnknown(h)
  PROVE  Kept
<1> DEFINE slot == StateSlot(post[h].transfer, UnknownInstruction)
<1>1. pc[h] # "idle" /\ UNCHANGED <<db, post, attempt, tx>> /\ Reserved(slot)
      /\ Reply(h, Record(slot).view)
  BY DEF ReplayUnknown
<1>2. Answering(h)
  BY <1>1, RecordFacts DEF Answering
<1> QED
  BY <1>1, <1>2, SilentKeeps

(* UNKNOWN is recorded, whether or not the client hears of it. *)
LEMMA UnknownKeeps ==
  ASSUME LifecycleInv, NEW h \in Handler, pc[h] = "record",
         Step(post[h].transfer, UnknownInstruction),
         UNCHANGED <<journals, funds, events, post, attempt, tx>>,
         NEW a, Reply(h, a),
         a \in RefusalType
           \/ a = View(post[h].transfer, Applied(rows[post[h].transfer], UnknownInstruction))
  PROVE  Kept
<1> DEFINE t == post[h].transfer
           i == UnknownInstruction
<1>1. TablesHold /\ t \in Transfer /\ i \in Asked
  BY InParts, CallFacts DEF Asked
<1>2. TablesHold' /\ Advances /\ rows' = [rows EXCEPT ![t] = Applied(rows[t], i)]
  BY <1>1, StepTables
<1>3. Applied(rows[t], i) \in Row
  BY <1>1, StepFacts
<1>4. SaysTruth(View(t, Applied(rows[t], i)))
  BY <1>1, <1>2, <1>3, SavedSaysTruth DEF TablesHold
<1>5. \A rec \in records' : rec \in records \/ SaysTruth(rec.view)
  BY <1>4, StoredFacts DEF Step
<1>6. Answering(h)
  BY <1>4 DEF Answering
<1>7. (funds \in [Account -> Int] /\ events \subseteq Transfer)'
  BY DEF LifecycleInv, TypeOK
<1>8. Service'
  BY <1>6, <1>7, AnsweringFacts, ServiceKeeps
<1> QED
  BY <1>2, <1>5, <1>6, <1>8, AnsweringFacts, Assemble DEF Kept

LEMMA RecordUnknownKeeps ==
  ASSUME LifecycleInv, NEW h \in Handler, RecordUnknown(h)
  PROVE  Kept
BY UnknownKeeps DEF RecordUnknown

LEMMA RefuseUnknownKeeps ==
  ASSUME LifecycleInv, NEW h \in Handler, RefuseUnknown(h)
  PROVE  Kept
BY RefusalTypes, SilentKeeps DEF RefuseUnknown, Answering

LEMMA LoseUnknownKeeps ==
  ASSUME LifecycleInv, NEW h \in Handler, LoseUnknown(h)
  PROVE  Kept
<1>1. pc[h] = "record" /\ Reply(h, Refused("unknown_outcome"))
      /\ UNCHANGED <<journals, funds, events, post, attempt, tx>>
  BY DEF LoseUnknown
<1>2. CASE UNCHANGED <<rows, records>>
  BY <1>1, <1>2, RefusalTypes, SilentKeeps DEF Answering, db
<1>3. CASE Step(post[h].transfer, UnknownInstruction)
  BY <1>1, <1>3, RefusalTypes, UnknownKeeps
<1> QED
  BY <1>2, <1>3 DEF LoseUnknown

(* Nothing happens but that a record expires, or not even that. *)
LEMMA ExpireKeeps ==
  ASSUME LifecycleInv, records' \subseteq records,
         UNCHANGED <<rows, journals, funds, events, pc, post, attempt, tx, answer>>
  PROVE  Kept
<1>1. TablesHold /\ Service
  BY InParts
<1>2. TablesHold' /\ Advances
  BY <1>1, SameLocks, TablesStay
<1>3. Service'
  BY <1>1 DEF Service, StagesHold
<1> QED
  BY <1>2, <1>3, Assemble DEF Kept

-----------------------------------------------------------------------------
(* The theorems *)

LEMMA InitHolds ==
  ASSUME Init
  PROVE  LifecycleInv
<1>1. TypeOK
  BY TransferAssumption DEF Init, TypeOK, RefusalType, Pending
<1>2. LocksHeld /\ StagesHold /\ LinksExist /\ JournalCompletesOneTransfer
  BY DEF Init, LocksHeld, StagesHold, LinksExist, JournalCompletesOneTransfer
<1>3. MoneyMovesWithStatus
  BY TransferAssumption DEF Init, MoneyMovesWithStatus
<1>4. AnswersAreTrue
  BY DEF Init, AnswersAreTrue, Pending
<1> QED
  BY <1>1, <1>2, <1>3, <1>4 DEF LifecycleInv

LEMMA NextHolds ==
  ASSUME LifecycleInv, [Next]_vars
  PROVE  Kept
<1>1. CASE Expire
  BY <1>1, ExpireKeeps DEF Expire
<1>2. CASE Request
  BY <1>2, CreateKeeps, TransitionKeeps, PostKeeps DEF Request
<1>3. ASSUME NEW h \in Handler, Run(h)
      PROVE  Kept
  BY <1>3, LockTransferKeeps, CommitPostKeeps, CommitRejectionKeeps, CloseUnchangedKeeps,
     ResolveKeeps, ReplayUnknownKeeps, RecordUnknownKeeps, RefuseUnknownKeeps DEF Run
<1>4. ASSUME NEW h \in Handler, Fail(h)
      PROVE  Kept
  BY <1>4, RetryPostKeeps, AbortLostKeeps, LoseConnectionKeeps, LoseUnknownKeeps DEF Fail
<1>5. CASE UNCHANGED vars
  BY <1>5, ExpireKeeps DEF vars
<1> QED
  BY <1>1, <1>2, <1>3, <1>4, <1>5 DEF Next

(* The inductive invariant, for every instance: the types, the row locks,  *)
(* the foreign key, and the properties below.                              *)
THEOREM LifecycleInvariant == Spec => []LifecycleInv
<1>1. LifecycleInv /\ [Next]_vars => LifecycleInv'
  BY NextHolds DEF Kept
<1> QED
  BY InitHolds, <1>1, PTL DEF Spec

(* Every variable keeps its type. *)
THEOREM TypesHold == Spec => []TypeOK
BY LifecycleInvariant, PTL DEF LifecycleInv

(* A transfer's own journal is posted exactly when it is COMPLETED with    *)
(* it and its event is in the outbox: whatever answers are lost and        *)
(* whatever operators ask of transition, no money moves for a transfer     *)
(* that is not completed.                                                  *)
THEOREM MoneyMoves == Spec => []MoneyMovesWithStatus
BY LifecycleInvariant, PTL DEF LifecycleInv

(* No journal completes two transfers. *)
THEOREM OneTransferPerJournal == Spec => []JournalCompletesOneTransfer
BY LifecycleInvariant, PTL DEF LifecycleInv

(* A final status that a client was told, or will be on a replay, is the   *)
(* status of the transfer for good.                                        *)
THEOREM AnswersStayTrue == Spec => []AnswersAreTrue
BY LifecycleInvariant, PTL DEF LifecycleInv

(* A terminal transfer never changes, and a recovery reference stays. *)
THEOREM HistoryHolds == Spec => HistoryStands
<1>1. LifecycleInv /\ [Next]_vars =>
        [\A t \in Transfer : rows[t] # None =>
           /\ rows'[t] # None
           /\ rows[t].status \in Terminal => rows'[t] = rows[t]
           /\ rows[t].ref # None => rows'[t].ref = rows[t].ref
           /\ rows'[t].version \in {rows[t].version, rows[t].version + 1}]_vars
  BY NextHolds DEF Kept, Advances
<1> QED
  BY LifecycleInvariant, <1>1, PTL DEF Spec, HistoryStands

-----------------------------------------------------------------------------
(* The money *)

(* FundsFollowTransfers needs to know that the transfers can be summed. *)
MoneyInv == IsFiniteSet(Settled) /\ FundsFollowTransfers

Sum(S, a) == SumFunction([t \in S |-> Delta(t, a)])

LEMMA DeltaType ==
  ASSUME NEW t \in Transfer, NEW a \in Account
  PROVE  Delta(t, a) \in Int
BY TransferAssumption DEF Delta

(* The settled transfers are those whose own journals are posted. *)
LEMMA SettledArePosted ==
  /\ LifecycleInv => Settled = journals \cap Transfer
  /\ LifecycleInv' => Settled' = journals' \cap Transfer
BY TransferAssumption DEF LifecycleInv, MoneyMovesWithStatus, Settled, Holds

(* One more transfer moves its money once. *)
LEMMA SettleOne ==
  ASSUME NEW S \in SUBSET Transfer, IsFiniteSet(S), NEW t \in Transfer, t \notin S,
         NEW a \in Account
  PROVE  Sum(S, a) \in Int /\ Sum(S \cup {t}, a) = Delta(t, a) + Sum(S, a)
<1> DEFINE f == [u \in S |-> Delta(u, a)]
           g == [u \in S \cup {t} |-> Delta(u, a)]
<1>1. /\ DOMAIN f = S /\ DOMAIN g = DOMAIN f \cup {t} /\ g[t] = Delta(t, a)
      /\ \A u \in DOMAIN f : g[u] = f[u] /\ f[u] \in Int
      /\ \A u \in DOMAIN g : g[u] \in Int
  BY DeltaType
<1> HIDE DEF f, g
<1>2. SumFunction(f) \in Int /\ SumFunction(g) = g[t] + SumFunction(f)
  BY <1>1, WholeSumType, WholeSumAdd
<1> QED BY <1>1, <1>2 DEF f, g, Sum

(* A posting that commits changes the ledger, and nothing else does. *)
LEMMA OnlyCommitsPost ==
  ASSUME [Next]_vars
  PROVE  UNCHANGED <<journals, funds>> \/ \E h \in Handler : CommitPost(h)
<1>1. CASE Expire
  BY <1>1 DEF Expire
<1>2. CASE Request
  BY <1>2 DEF Request, CreatePending, Transition, PostToLedger, db
<1>3. ASSUME NEW h \in Handler, Run(h), ~ CommitPost(h)
      PROVE  UNCHANGED <<journals, funds>>
  BY <1>3 DEF Run, LockTransfer, CommitRejection, CloseUnchanged, Resolve,
     ReplayUnknown, RecordUnknown, RefuseUnknown, db
<1>4. ASSUME NEW h \in Handler, Fail(h)
      PROVE  UNCHANGED <<journals, funds>>
  BY <1>4 DEF Fail, RetryPost, AbortLost, LoseConnection, LoseUnknown, db
<1>5. CASE UNCHANGED vars
  BY <1>5 DEF vars
<1> QED
  BY <1>1, <1>2, <1>3, <1>4, <1>5 DEF Next

LEMMA MoneyInit == Init => MoneyInv
<1> SUFFICES ASSUME Init PROVE MoneyInv
  OBVIOUS
<1>1. Settled = {} /\ IsFiniteSet({})
  BY FS_EmptySet DEF Init, Settled, Holds
<1>2. ASSUME NEW a \in Account
      PROVE  Sum({}, a) = 0
  <2> DEFINE f == [t \in {} |-> Delta(t, a)]
  <2>1. DOMAIN f = {}
    OBVIOUS
  <2> HIDE DEF f
  <2>2. SumFunction(f) = 0
    BY <1>1, <2>1, WholeSumZero
  <2> QED BY <2>2 DEF f, Sum
<1>3. \A a \in Account : Opening[a] \in Nat /\ funds[a] = Opening[a]
  BY TransferAssumption DEF Init
<1> QED BY <1>1, <1>2, <1>3 DEF MoneyInv, FundsFollowTransfers, Sum

(* What a posting that commits does to the two accounts: it has seen the   *)
(* money it takes.                                                         *)
LEMMA CommitMoves ==
  ASSUME LifecycleInv, NEW h \in Handler, CommitPost(h), NEW t, t = tx[h].transfer
  PROVE  /\ t \in Transfer \ journals
         /\ journals' = journals \cup {t}
         /\ funds[Source[t]] >= Amount[t]
         /\ \A a \in Account : funds'[a] = funds[a] + Delta(t, a)
<1>1. t \in Transfer /\ t \notin journals /\ Verdict(h) = "complete"
  BY PostFacts, InParts DEF CommitPost
<1>2. Postable(t)
  BY <1>1 DEF Verdict
<1>3. /\ Source[t] \in Account /\ Destination[t] \in Account /\ Source[t] # Destination[t]
      /\ Amount[t] \in Nat /\ funds \in [Account -> Int]
  BY <1>1, TransferAssumption DEF LifecycleInv, TypeOK
<1>4. journals' = journals \cup {t} /\ funds' = Moved(t)
  BY <1>1 DEF CommitPost
<1>5. ASSUME NEW a \in Account
      PROVE  funds'[a] = funds[a] + Delta(t, a)
  BY <1>3, <1>4 DEF Moved, Delta
<1> QED
  BY <1>1, <1>2, <1>4, <1>5 DEF Postable

LEMMA MoneyCommit ==
  ASSUME LifecycleInv, LifecycleInv', MoneyInv, NEW h \in Handler, CommitPost(h)
  PROVE  MoneyInv'
<1>0. PICK t : t = tx[h].transfer
  OBVIOUS
<1>1. /\ t \in Transfer /\ t \notin Settled /\ Settled' = Settled \cup {t}
      /\ Settled \in SUBSET Transfer /\ IsFiniteSet(Settled)
  BY <1>0, CommitMoves, SettledArePosted DEF MoneyInv
<1>2. IsFiniteSet(Settled')
  BY <1>1, FS_AddElement
<1>3. ASSUME NEW a \in Account
      PROVE  funds'[a] >= 0 /\ funds'[a] = Opening[a] + Sum(Settled', a)
  <2>1. Sum(Settled, a) \in Int /\ Sum(Settled', a) = Delta(t, a) + Sum(Settled, a)
    BY <1>1, SettleOne
  <2>2. funds'[a] = funds[a] + Delta(t, a) /\ funds[Source[t]] >= Amount[t]
    BY <1>0, CommitMoves
  <2>3. funds[a] >= 0 /\ funds[a] = Opening[a] + Sum(Settled, a)
    BY DEF MoneyInv, FundsFollowTransfers, Sum
  <2>4. /\ Opening[a] \in Nat /\ funds[a] \in Int /\ Delta(t, a) \in Int
        /\ Amount[t] \in Nat /\ funds[Source[t]] \in Int
    BY <1>1, DeltaType, TransferAssumption DEF LifecycleInv, TypeOK
  <2>5. Delta(t, a) >= 0 \/ (Source[t] = a /\ Delta(t, a) = - Amount[t])
    BY <2>4 DEF Delta
  <2> DEFINE s == Sum(Settled, a)
             n == Sum(Settled', a)
             d == Delta(t, a)
  <2> HIDE DEF s, n, d
  <2>6. funds'[a] = Opening[a] + n
    BY <2>1, <2>2, <2>3, <2>4 DEF s, n, d
  <2>7. funds'[a] >= 0
    BY <2>2, <2>3, <2>4, <2>5 DEF d
  <2> QED BY <2>6, <2>7 DEF n
<1> QED BY <1>2, <1>3 DEF MoneyInv, FundsFollowTransfers, Sum

LEMMA MoneyStep == LifecycleInv /\ LifecycleInv' /\ MoneyInv /\ [Next]_vars => MoneyInv'
<1> SUFFICES ASSUME LifecycleInv, LifecycleInv', MoneyInv, [Next]_vars PROVE MoneyInv'
  OBVIOUS
<1>1. CASE \E h \in Handler : CommitPost(h)
  BY <1>1, MoneyCommit
<1>2. CASE UNCHANGED <<journals, funds>>
  <2>1. Settled' = Settled
    BY <1>2, SettledArePosted
  <2> QED BY <1>2, <2>1 DEF MoneyInv, FundsFollowTransfers, Delta
<1> QED BY <1>1, <1>2, OnlyCommitsPost

(* The transfers that have settled stay finitely many. *)
THEOREM MoneyInvariant == Spec => []MoneyInv
BY LifecycleInvariant, MoneyInit, MoneyStep, PTL DEF Spec

(* The money of an account is what it opened with and what the transfers   *)
(* that are COMPLETED by their own journals moved, once each, and never    *)
(* less than nothing (postToLedger).                                       *)
THEOREM FundsAlwaysFollow == Spec => []FundsFollowTransfers
<1>1. MoneyInv => FundsFollowTransfers
  BY DEF MoneyInv
<1> QED BY <1>1, MoneyInvariant, PTL

=============================================================================
