-------------------------- MODULE TransferLifecycle --------------------------
(***************************************************************************)
(* The A5 customer-to-customer transfer                                    *)
(* (src/src/transfer/transfer-lifecycle.service.ts) over the ledger, the   *)
(* idempotency records and the outbox.                                     *)
(*                                                                         *)
(* Every database transaction is SERIALIZABLE and is one action; module    *)
(* Ledger shows why a posting may be taken so.  Posting to the ledger is   *)
(* two: the row lock on the transfer, and the commit.  Between them the    *)
(* client may lose its answer.  It then looks for the outcome in the       *)
(* database while the transaction it lost may still be running there.      *)
(***************************************************************************)
EXTENDS Integers, FiniteSets, Functions

CONSTANTS
  Transfer,       \* command ids; a transfer's own journal has its name
  OtherJournal,   \* journals that other business posted
  Account, Source, Destination, Amount,  \* the two accounts, and the money
  Unpostable,     \* transfers whose accounts the ledger rejects
  Opening,        \* balances at the start
  Key, Hash,      \* idempotency keys and request hashes of creation
  PostKey,        \* idempotency keys of posting
  Instruction,    \* what operators may ask of transition
  Handler,        \* calls of postToLedger
  None,
  OutcomeKey,     \* the key "outcome:<recovery reference>"
  PostRecovery,   \* the recovery reference postToLedger derives
  MaxAttempts,    \* MAX_LEDGER_POST_ATTEMPTS
  MaxVersion      \* bounds the steps of a transfer that operators ask for

Statuses == {"PENDING", "PROCESSING", "PENDING_RECOVERY", "UNKNOWN",
             "COMPLETED", "FAILED", "CANCELLED"}
Terminal == {"COMPLETED", "FAILED", "CANCELLED"}
Uncertain == {"UNKNOWN", "PENDING_RECOVERY"}

ASSUME TransferAssumption ==
  /\ Source \in [Transfer -> Account] /\ Destination \in [Transfer -> Account]
  /\ \A t \in Transfer : Source[t] # Destination[t]
  /\ Amount \in [Transfer -> Nat \ {0}]
  /\ Opening \in [Account -> Nat]
  /\ OtherJournal \cap Transfer = {}
  /\ None \notin Transfer \cup OtherJournal \cup Handler
  /\ MaxAttempts \in Nat \ {0} /\ MaxVersion \in Nat
  /\ \A i \in Instruction :
       /\ i.key # OutcomeKey /\ i.next \in Statuses /\ i.expected \in Nat
       /\ i.journal \in Transfer \cup OtherJournal \cup {None}
       /\ i.failure \in BOOLEAN

(* A row of the table transfers, the call a handler serves, what a posting *)
(* transaction locked, and a response.                                     *)
Row == [status  : Statuses,
        journal : Transfer \cup OtherJournal \cup {None},
        ref     : {i.ref : i \in Instruction} \cup {None, PostRecovery},
        version : Nat \ {0},
        key     : Key,
        hash    : Hash]
Call == [transfer : Transfer, key : PostKey]
Lock == [transfer : Transfer, row : Row]
ViewType == [kind : {"view"}, transfer : Transfer, status : Statuses,
             journal : Transfer \cup OtherJournal \cup {None}]
RefusalType == [kind : {"pending", "not_found", "conflict", "error", "unknown_outcome"}]

ASSUME NullAssumption == None \notin Row \cup Call \cup Lock

VARIABLES
  rows,      \* transfers, or None
  journals,  \* posted ledger journals
  funds,     \* ledger balances
  events,    \* transfers with a transfer.completed event in the outbox
  records,   \* live idempotency records, all COMPLETED when committed
  pc, post, attempt,  \* the handlers: stage, [transfer, key] posted, try
  tx,        \* each handler's open posting transaction: the transfer it has
             \* locked and the row it read, or None
  answer     \* the response sent

db == <<rows, journals, funds, events, records>>
vars == <<rows, journals, funds, events, records, pc, post, attempt, tx, answer>>

Pending == [kind |-> "pending"]
Refused(why) == [kind |-> why]
View(t, row) == [kind |-> "view", transfer |-> t, status |-> row.status, journal |-> row.journal]

Init ==
  /\ rows = [t \in Transfer |-> None]
  /\ journals = OtherJournal
  /\ funds = Opening
  /\ events = {}
  /\ records = {}
  /\ pc = [h \in Handler |-> "idle"]
  /\ post = [h \in Handler |-> None]
  /\ attempt = [h \in Handler |-> 1]
  /\ tx = [h \in Handler |-> None]
  /\ answer = [h \in Handler |-> Pending]

Goto(h, stage) == pc' = [pc EXCEPT ![h] = stage]
Reply(h, a) == Goto(h, "done") /\ answer' = [answer EXCEPT ![h] = a]

Locked(t) == \E h \in Handler : tx[h] # None /\ tx[h].transfer = t

(* IdempotencyService.reserve, and complete in the same transaction. *)
Reserved(slot) == \E rec \in records : rec.slot = slot
Record(slot) == CHOOSE rec \in records : rec.slot = slot
Stored(slot, hash, view) == records \cup {[slot |-> slot, hash |-> hash, view |-> view]}

(* A record past its retention is as good as absent: reserve replaces it,  *)
(* and cleanupExpired deletes it.                                          *)
Expire ==
  /\ \E rec \in records : records' = records \ {rec}
  /\ UNCHANGED <<rows, journals, funds, events, pc, post, attempt, tx, answer>>

-----------------------------------------------------------------------------
(* createPending.  A call that is refused, or replayed from its record,    *)
(* changes nothing; one whose answer is lost is repeated.                  *)

NewRow(key, hash) ==
  [status |-> "PENDING", journal |-> None, ref |-> None, version |-> 1,
   key |-> key, hash |-> hash]

CreatePending(t, key, hash) ==
  LET slot == <<"create", None, key>>
  IN /\ ~ Reserved(slot)
     /\ \/ /\ rows[t] = None
           /\ \A u \in Transfer : rows[u] # None => rows[u].key # key
           /\ rows' = [rows EXCEPT ![t] = NewRow(key, hash)]
           /\ records' = Stored(slot, hash, View(t, NewRow(key, hash)))
        \/ /\ rows[t] # None
           /\ rows[t].hash = hash
           /\ records' = Stored(slot, hash, View(t, rows[t]))
           /\ UNCHANGED rows
     /\ UNCHANGED <<journals, funds, events, pc, post, attempt, tx, answer>>

-----------------------------------------------------------------------------
(* transition *)

(* Mutant: a completed transfer may be failed afterwards. *)
SuccessorsReopened(status) ==
  CASE status = "PENDING" -> {"PROCESSING", "PENDING_RECOVERY", "UNKNOWN", "FAILED", "CANCELLED"}
    [] status = "PROCESSING" -> {"COMPLETED", "PENDING_RECOVERY", "UNKNOWN", "FAILED"}
    [] status = "PENDING_RECOVERY" -> {"PROCESSING", "COMPLETED", "UNKNOWN", "FAILED"}
    [] status = "UNKNOWN" -> {"PENDING_RECOVERY", "COMPLETED", "FAILED"}
    [] status = "COMPLETED" -> {"FAILED"}
    [] OTHER -> {}

(* TRANSFER_STATUS_TRANSITIONS, which a database trigger repeats. *)
Successors(status) ==
  CASE status = "PENDING" -> {"PROCESSING", "PENDING_RECOVERY", "UNKNOWN", "FAILED", "CANCELLED"}
    [] status = "PROCESSING" -> {"COMPLETED", "PENDING_RECOVERY", "UNKNOWN", "FAILED"}
    [] status = "PENDING_RECOVERY" -> {"PROCESSING", "COMPLETED", "UNKNOWN", "FAILED"}
    [] status = "UNKNOWN" -> {"PENDING_RECOVERY", "COMPLETED", "FAILED"}
    [] OTHER -> {}

(* resolveRecoveryReference: the first one stays. *)
RefAfter(row, i) == IF row.ref # None THEN row.ref ELSE i.ref

(* Mutant: there is no unique index on journal_id. *)
AdmissibleShared(row, i) ==
  /\ i.expected \in {0, row.version}
  /\ i.next \in Successors(row.status)
  /\ i.ref # None => row.ref \in {None, i.ref}
  /\ i.next \in Uncertain => RefAfter(row, i) # None
  /\ i.next = "PROCESSING" => row.journal = None
  /\ i.next = "FAILED" => i.failure
  /\ i.next = "COMPLETED" => i.journal \in journals

(* What transition, the foreign key and the unique index on journal_id     *)
(* demand of a step.                                                       *)
Admissible(row, i) ==
  /\ i.expected \in {0, row.version}
  /\ i.next \in Successors(row.status)
  /\ i.ref # None => row.ref \in {None, i.ref}
  /\ i.next \in Uncertain => RefAfter(row, i) # None
  /\ i.next = "PROCESSING" => row.journal = None
  /\ i.next = "FAILED" => i.failure
  /\ i.next = "COMPLETED" =>
       /\ i.journal \in journals
       /\ \A t \in Transfer : rows[t] # None => rows[t].journal # i.journal

(* applyTransition *)
Applied(row, i) ==
  [row EXCEPT !.status  = i.next,
              !.ref     = RefAfter(row, i),
              !.journal = CASE i.next \in {"UNKNOWN", "FAILED", "CANCELLED"} -> None
                            [] i.next = "COMPLETED" -> i.journal
                            [] OTHER -> row.journal,
              !.version = @ + 1]

StateSlot(t, i) == <<"state", t, i.key>>

(* Mutant: transition does not wait for a posting that locked the transfer. *)
StepUnlocked(t, i) ==
  /\ ~ Reserved(StateSlot(t, i))
  /\ rows[t] # None
  /\ Admissible(rows[t], i)
  /\ rows' = [rows EXCEPT ![t] = Applied(rows[t], i)]
  /\ records' = Stored(StateSlot(t, i), i, View(t, Applied(rows[t], i)))

(* What a transition transaction that is neither replayed nor refused does. *)
Step(t, i) ==
  /\ ~ Reserved(StateSlot(t, i))
  /\ ~ Locked(t)
  /\ rows[t] # None
  /\ Admissible(rows[t], i)
  /\ rows' = [rows EXCEPT ![t] = Applied(rows[t], i)]
  /\ records' = Stored(StateSlot(t, i), i, View(t, Applied(rows[t], i)))

Transition(t, i) ==
  /\ Step(t, i)
  /\ UNCHANGED <<journals, funds, events, pc, post, attempt, tx, answer>>

-----------------------------------------------------------------------------
(* postToLedger *)

PostToLedger(h, t, key) ==
  /\ pc[h] = "idle"
  /\ post' = [post EXCEPT ![h] = [transfer |-> t, key |-> key]]
  /\ Goto(h, "post")
  /\ UNCHANGED <<db, attempt, tx, answer>>

PostSlot(h) == <<"post", post[h].transfer, post[h].key>>

(* BEGIN, and lockTransfer. *)
LockTransfer(h) ==
  LET t == post[h].transfer
  IN /\ pc[h] = "post"
     /\ IF rows[t] = None
          THEN Reply(h, Refused("not_found")) /\ UNCHANGED tx
          ELSE /\ ~ Locked(t)
               /\ tx' = [tx EXCEPT ![h] = [transfer |-> t, row |-> rows[t]]]
               /\ Goto(h, "posting")
               /\ UNCHANGED answer
     /\ UNCHANGED <<db, post, attempt>>

(* The ledger takes the accounts, and has the money or has the journal.    *)
Postable(t) == t \notin Unpostable /\ (t \in journals \/ funds[Source[t]] >= Amount[t])

(* Mutant: the ledger lets an account be overdrawn. *)
VerdictUnfunded(h) ==
  CASE Reserved(PostSlot(h)) -> "replay"
    [] ~ Reserved(PostSlot(h)) /\ tx[h].row.status # "PROCESSING" -> "conflict"
    [] OTHER -> "complete"

(* What the open transaction of h comes to. *)
Verdict(h) ==
  CASE Reserved(PostSlot(h)) -> "replay"
    [] ~ Reserved(PostSlot(h)) /\ tx[h].row.status # "PROCESSING" -> "conflict"
    [] ~ Reserved(PostSlot(h)) /\ tx[h].row.status = "PROCESSING"
         /\ Postable(tx[h].transfer) -> "complete"
    [] OTHER -> "reject"

Moved(t) ==
  [funds EXCEPT ![Source[t]] = @ - Amount[t], ![Destination[t]] = @ + Amount[t]]

(* The entity that was read, changed, is saved whole. *)
Completed(o) == [o.row EXCEPT !.status = "COMPLETED", !.journal = o.transfer, !.version = @ + 1]
Rejected(o) == [o.row EXCEPT !.status = "FAILED", !.journal = None, !.version = @ + 1]

(* The transaction of h ends, having saved row and the response to it; the *)
(* client hears of it only as long as it waits for it.                     *)
EndPost(h, a) ==
  /\ tx' = [tx EXCEPT ![h] = None]
  /\ IF pc[h] = "posting" THEN Reply(h, a) ELSE UNCHANGED <<pc, answer>>
  /\ UNCHANGED <<post, attempt>>

SaveAndEnd(h, row) ==
  LET t == tx[h].transfer
  IN /\ rows' = [rows EXCEPT ![t] = row]
     /\ records' = Stored(PostSlot(h), None, View(t, row))
     /\ EndPost(h, View(t, row))

(* COMMIT: the journal, the row, the event and the stored response. *)
CommitPost(h) ==
  LET t == tx[h].transfer
  IN /\ tx[h] # None /\ Verdict(h) = "complete"
     /\ SaveAndEnd(h, Completed(tx[h]))
     /\ journals' = journals \cup {t}
     /\ funds' = IF t \in journals THEN funds ELSE Moved(t)
     /\ events' = events \cup {t}

(* failLedgerPostWithinTransaction: the ledger refused with a 4xx. *)
CommitRejection(h) ==
  /\ tx[h] # None /\ Verdict(h) = "reject"
  /\ SaveAndEnd(h, Rejected(tx[h]))
  /\ UNCHANGED <<journals, funds, events>>

(* The stored response is returned, or the transfer is not PROCESSING. *)
CloseUnchanged(h) ==
  /\ tx[h] # None /\ Verdict(h) \in {"replay", "conflict"}
  /\ EndPost(h, IF Verdict(h) = "replay" THEN Record(PostSlot(h)).view ELSE Refused("conflict"))
  /\ UNCHANGED db

(* Mutant: the last attempt is followed by one more. *)
RetryPostOnceMore(h) ==
  /\ pc[h] = "posting" /\ tx[h] # None
  /\ tx' = [tx EXCEPT ![h] = None]
  /\ IF attempt[h] <= MaxAttempts
       THEN /\ attempt' = [attempt EXCEPT ![h] = @ + 1]
            /\ Goto(h, "post")
            /\ UNCHANGED answer
       ELSE Reply(h, Refused("conflict")) /\ UNCHANGED attempt
  /\ UNCHANGED <<db, post>>

(* 40001 or 40P01: the bounded retry. *)
RetryPost(h) ==
  /\ pc[h] = "posting" /\ tx[h] # None
  /\ tx' = [tx EXCEPT ![h] = None]
  /\ IF attempt[h] < MaxAttempts
       THEN /\ attempt' = [attempt EXCEPT ![h] = @ + 1]
            /\ Goto(h, "post")
            /\ UNCHANGED answer
       ELSE Reply(h, Refused("conflict")) /\ UNCHANGED attempt
  /\ UNCHANGED <<db, post>>

(* PostgreSQL rolls back a transaction nobody waits for. *)
AbortLost(h) ==
  /\ pc[h] # "posting" /\ tx[h] # None
  /\ tx' = [tx EXCEPT ![h] = None]
  /\ UNCHANGED <<db, pc, post, attempt, answer>>

(* The connection fails while the transaction is open, or before there is  *)
(* one.  A QueryFailedError is passed on; any other error is ambiguous.    *)
LoseConnection(h) ==
  /\ pc[h] \in {"post", "posting"}
  /\ Reply(h, Refused("error")) \/ (Goto(h, "resolve") /\ UNCHANGED answer)
  /\ UNCHANGED <<db, post, attempt, tx>>

(* Mutant: no evidence of a journal is taken for a failure. *)
ResolveOptimistic(h) ==
  LET t == post[h].transfer
  IN /\ pc[h] = "resolve"
     /\ CASE rows[t] = None -> Reply(h, Refused("unknown_outcome"))
          [] rows[t] # None /\ rows[t].status \in {"COMPLETED"} \cup Uncertain ->
               Reply(h, View(t, rows[t]))
          [] OTHER -> Reply(h, [View(t, rows[t]) EXCEPT !.status = "FAILED"])
     /\ UNCHANGED <<db, post, attempt, tx>>

(* resolveUncertainPostOutcome reads the row without a lock ...  A row with  *)
(* a journal is COMPLETED (MoneyMovesWithStatus below), so the branch that  *)
(* would complete it first is never taken.                                 *)
Resolve(h) ==
  LET t == post[h].transfer
  IN /\ pc[h] = "resolve"
     /\ \/ Reply(h, Refused("unknown_outcome"))   \* the read fails
        \/ CASE rows[t] = None -> Reply(h, Refused("unknown_outcome"))
             [] rows[t] # None /\ rows[t].journal # None ->
                  Reply(h, IF rows[t].journal = t THEN View(t, rows[t])
                           ELSE Refused("unknown_outcome"))
             [] rows[t] # None /\ rows[t].journal = None
                  /\ rows[t].status \in {"FAILED", "CANCELLED"} \cup Uncertain ->
                  Reply(h, View(t, rows[t]))
             [] OTHER -> Goto(h, "record") /\ UNCHANGED answer
     /\ UNCHANGED <<db, post, attempt, tx>>

(* ... and records that it does not know. *)
UnknownInstruction ==
  [key |-> OutcomeKey, next |-> "UNKNOWN", expected |-> 0, journal |-> None,
   ref |-> PostRecovery, failure |-> FALSE]

(* transition replays the first UNKNOWN for as long as its record lives. *)
ReplayUnknown(h) ==
  LET slot == StateSlot(post[h].transfer, UnknownInstruction)
  IN /\ pc[h] = "record"
     /\ Reserved(slot)
     /\ Reply(h, Record(slot).view)
     /\ UNCHANGED <<db, post, attempt, tx>>

RecordUnknown(h) ==
  LET t == post[h].transfer
  IN /\ pc[h] = "record"
     /\ Step(t, UnknownInstruction)
     /\ Reply(h, View(t, Applied(rows[t], UnknownInstruction)))
     /\ UNCHANGED <<journals, funds, events, post, attempt, tx>>

RefuseUnknown(h) ==
  LET t == post[h].transfer
  IN /\ pc[h] = "record"
     /\ ~ Reserved(StateSlot(t, UnknownInstruction)) /\ ~ Locked(t)
     /\ ~ Admissible(rows[t], UnknownInstruction)
     /\ Reply(h, Refused("unknown_outcome"))
     /\ UNCHANGED <<db, post, attempt, tx>>

(* The transaction fails, or its answer is lost. *)
LoseUnknown(h) ==
  /\ pc[h] = "record"
  /\ Reply(h, Refused("unknown_outcome"))
  /\ UNCHANGED <<rows, records>> \/ Step(post[h].transfer, UnknownInstruction)
  /\ UNCHANGED <<journals, funds, events, post, attempt, tx>>

-----------------------------------------------------------------------------
Request ==
  \E t \in Transfer :
    \/ \E key \in Key, hash \in Hash : CreatePending(t, key, hash)
    \/ \E i \in Instruction :
         /\ rows[t] # None
         /\ rows[t].version < MaxVersion
         /\ Transition(t, i)
    \/ \E h \in Handler, key \in PostKey : PostToLedger(h, t, key)

(* The steps of a posting, of the handler and of the database. *)
Run(h) ==
  \/ LockTransfer(h)
  \/ CommitPost(h)
  \/ CommitRejection(h)
  \/ CloseUnchanged(h)
  \/ Resolve(h)
  \/ ReplayUnknown(h)
  \/ RecordUnknown(h)
  \/ RefuseUnknown(h)

Fail(h) ==
  \/ RetryPost(h)
  \/ AbortLost(h)
  \/ LoseConnection(h)
  \/ LoseUnknown(h)

Next ==
  \/ Expire
  \/ Request
  \/ \E h \in Handler : Run(h) \/ Fail(h)

Spec == Init /\ [][Next]_vars

(* A started posting goes on, and an open transaction ends. *)
FairSpec == Spec /\ \A h \in Handler : WF_vars(Run(h))

-----------------------------------------------------------------------------
(* Correctness *)

(* Types of the variables. *)
TypeOK ==
  /\ rows \in [Transfer -> Row \cup {None}]
  /\ journals \subseteq Transfer \cup OtherJournal
  /\ funds \in [Account -> Int]
  /\ events \subseteq Transfer
  /\ pc \in [Handler -> {"idle", "post", "posting", "resolve", "record", "done"}]
  /\ post \in [Handler -> Call \cup {None}]
  /\ attempt \in [Handler -> 1..MaxAttempts]
  /\ tx \in [Handler -> Lock \cup {None}]
  /\ answer \in [Handler -> ViewType \cup RefusalType]
  /\ \A rec \in records : rec.view \in ViewType

Holds(t, status) == rows[t] # None /\ rows[t].status = status

(* A transfer's journal is in the ledger when, and only when, the transfer *)
(* is COMPLETED with it: no lost answer, retry, replay, expired key or     *)
(* recovery leaves money moved by a transfer that is not completed, or     *)
(* announces one that moved none.                                          *)
MoneyMovesWithStatus ==
  \A t \in Transfer :
    /\ t \in journals <=> rows[t] # None /\ rows[t].journal = t
    /\ rows[t] # None /\ rows[t].journal # None => rows[t].status = "COMPLETED"
    /\ t \in events <=> t \in journals

(* No two transfers are completed by one journal. *)
JournalCompletesOneTransfer ==
  \A t, u \in Transfer :
    rows[t] # None /\ rows[u] # None /\ rows[t].journal # None
      /\ rows[t].journal = rows[u].journal => t = u

(* The money of an account is what it opened with and what the transfers   *)
(* that are COMPLETED by their own journals moved, each once; an account   *)
(* is never overdrawn.                                                     *)
Delta(t, a) ==
  CASE Source[t] = a -> -Amount[t] [] Destination[t] = a -> Amount[t] [] OTHER -> 0

Settled == {t \in Transfer : Holds(t, "COMPLETED") /\ rows[t].journal = t}

FundsFollowTransfers ==
  \A a \in Account :
    /\ funds[a] >= 0
    /\ funds[a] = Opening[a] + SumFunction([t \in Settled |-> Delta(t, a)])

(* A final status that a client was told, or will be when its call is      *)
(* replayed, is the transfer's status for good, whoever's answer was lost. *)
Truthful(view) ==
  view.status \in Terminal =>
    /\ rows[view.transfer] # None
    /\ rows[view.transfer].status = view.status
    /\ rows[view.transfer].journal = view.journal

AnswersAreTrue ==
  /\ \A h \in Handler : answer[h].kind = "view" => Truthful(answer[h])
  /\ \A rec \in records : Truthful(rec.view)

(* A terminal transfer never changes again, and a recovery reference, once *)
(* set, stays.                                                             *)
HistoryStands ==
  [][\A t \in Transfer : rows[t] # None =>
       /\ rows'[t] # None
       /\ rows[t].status \in Terminal => rows'[t] = rows[t]
       /\ rows[t].ref # None => rows'[t].ref = rows[t].ref
       /\ rows'[t].version \in {rows[t].version, rows[t].version + 1}]_vars

(* ADR-0044: "transition it to UNKNOWN with a deterministic recovery       *)
(* reference" when the transfer remains unresolved.  The client that is    *)
(* told UNKNOWN by a posting leaves a transfer that nobody posts again     *)
(* without recovering it first.                                            *)
UnknownIsRecorded ==
  [][\A h \in Handler :
       pc[h] = "record" /\ pc'[h] = "done" /\ answer'[h].kind = "view" =>
         LET t == post[h].transfer IN rows'[t].status # "PROCESSING"]_vars

(* "One successful command produces one traceable balanced financial       *)
(* effect and one approved internal event fact."                           *)
CompletionIsAnnounced ==
  \A t \in Transfer : Holds(t, "COMPLETED") => t \in events

-----------------------------------------------------------------------------
(* Why the invariants hold: the inductive invariant of the proofs. *)

(* An open posting transaction has the only lock on the row it read. *)
LocksHeld ==
  \A h \in Handler : tx[h] # None =>
    /\ post[h] # None /\ post[h].transfer = tx[h].transfer
    /\ rows[tx[h].transfer] = tx[h].row
    /\ \A g \in Handler : tx[g] # None /\ tx[g].transfer = tx[h].transfer => g = h

(* A handler has a call from when it starts, and no transaction before.    *)
StagesHold ==
  \A h \in Handler : IF pc[h] = "idle" THEN tx[h] = None ELSE post[h] # None

(* The foreign key on journal_id. *)
LinksExist ==
  \A t \in Transfer :
    rows[t] # None /\ rows[t].journal # None => rows[t].journal \in journals

LifecycleInv ==
  /\ TypeOK
  /\ LocksHeld
  /\ StagesHold
  /\ LinksExist
  /\ MoneyMovesWithStatus
  /\ JournalCompletesOneTransfer
  /\ AnswersAreTrue

=============================================================================
