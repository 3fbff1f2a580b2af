------------------------ MODULE ExternalSettlements -------------------------
(***************************************************************************)
(* ExternalSettlementService over the external operations: the settlement  *)
(* of a verified outcome by one journal, the suspense of an outcome that   *)
(* cannot be settled, and the compensating journal that returns the money. *)
(* Each call is one SERIALIZABLE transaction; one that throws leaves       *)
(* nothing, the FAILED idempotency record it wrote before included.        *)
(***************************************************************************)
EXTENDS ExternalOperations, Sequences

CONSTANT MaxSuspense  \* bound: suspense entries

VARIABLES
  settlements,  \* external_settlements
  suspense,     \* external_suspense_entries, in the order they were recorded
  journals,     \* the journals of settlements and of their reversals
  kept          \* idempotency records of settlements and compensations

settlement == <<settlements, suspense, journals, kept>>
allvars == <<asked, operations, references, receipts, records, expiries, breaker, pc, call,
             settlements, suspense, journals, kept>>

(* The keys are hashes of these; a compensation's is given the settlement  *)
(* by its operation, which has one.                                        *)
SettlementKey(c) == <<"settle", c.operation, c.value, c.decision>>
CompensatingKey(c) == <<"compensate", c.settled, c.entry>>
KeptKeys == {SettlementKey(c) : c \in Calls("settle")}
              \cup {CompensatingKey(c) : c \in Calls("compensate")}

(* null is no key. *)
ASSUME SettlementAssumption == None \notin KeptKeys

SettlementInit ==
  /\ Init
  /\ settlements = {}
  /\ suspense = <<>>
  /\ journals = {}
  /\ kept = [k \in KeptKeys |-> NoRecord]

-----------------------------------------------------------------------------
(* Settlement *)

Rows(o) == {s \in settlements : s.operation = o}

(* Mutant: the row says that there is a journal, whatever was decided. *)
SettlementRowPosted(c, decision, journal) ==
  [operation |-> c.operation, decision |-> decision, evidence |-> c.value,
   status |-> "POSTED", journal |-> TRUE, key |-> SettlementKey(c)]

SettlementRow(c, decision, journal) ==
  [operation |-> c.operation, decision |-> decision, evidence |-> c.value,
   status |-> "POSTED", journal |-> journal, key |-> SettlementKey(c)]
SuspenseRow(o, status) == [operation |-> o, status |-> status, settled |-> None]
Journal(key, o, reverses) == [key |-> key, operation |-> o, reverses |-> reverses]

(* Mutant: the entry is not written. *)
SuspendNothing(row) == UNCHANGED suspense

Suspend(row) == Len(suspense) < MaxSuspense /\ suspense' = Append(suspense, row)

(* Mutant: a settlement there is does not matter. *)
SettleableTwice(c) ==
  /\ Reservation(kept, SettlementKey(c), c) = "NEW"
  /\ Exists(c.operation)
  /\ operations[c.operation].version = c.expected
  /\ operations[c.operation].state = "PENDING_VERIFICATION"

Settleable(c) ==
  /\ Reservation(kept, SettlementKey(c), c) = "NEW"
  /\ Exists(c.operation)
  /\ operations[c.operation].version = c.expected
  /\ operations[c.operation].state = "PENDING_VERIFICATION"
  /\ Rows(c.operation) = {}

(* Evidence is any operation's reference of that value. *)
ResolvesEvidence(c) == \E r \in references : r.value = c.value

(* Mutant: the journal is posted, and the row is not written. *)
JournalAlone(c) ==
  /\ journals' = journals \cup {Journal(SettlementKey(c), c.operation, None)}
  /\ UNCHANGED settlements

PostSettlementJournal(c) ==
  /\ journals' = journals \cup {Journal(SettlementKey(c), c.operation, None)}
  /\ settlements' = settlements \cup {SettlementRow(c, "SETTLE", TRUE)}

Settle(c) ==
  /\ Settleable(c) /\ ResolvesEvidence(c) /\ c.decision = "SETTLE"
  /\ PostSettlementJournal(c)
  /\ kept' = Recorded(kept, SettlementKey(c), c, c.operation)
  /\ UNCHANGED <<vars, suspense>>

(* The outcome is a rejection: the settlement row says so, the amount is   *)
(* held in suspense.                                                       *)
RejectSettlement(c) ==
  /\ Settleable(c) /\ ResolvesEvidence(c) /\ c.decision = "REJECT"
  /\ settlements' = settlements \cup {SettlementRow(c, "REJECT", FALSE)}
  /\ Suspend(SuspenseRow(c.operation, "HELD"))
  /\ kept' = Recorded(kept, SettlementKey(c), c, c.operation)
  /\ UNCHANGED <<vars, journals>>

(* There is no such reference: whatever the decision, a REJECT row, and an *)
(* open suspense entry.                                                    *)
MissEvidence(c) ==
  /\ Settleable(c) /\ ~ ResolvesEvidence(c)
  /\ settlements' = settlements \cup {SettlementRow(c, "REJECT", FALSE)}
  /\ Suspend(SuspenseRow(c.operation, "OPEN"))
  /\ kept' = Failed(Reserved(kept, SettlementKey(c), c), SettlementKey(c), c.operation)
  /\ UNCHANGED <<vars, journals>>

(* The suspense table takes no entry of an operation that is CREATED,      *)
(* SUBMITTING or PENDING_PROVIDER.                                         *)
Suspendable == {"PENDING_VERIFICATION", "UNKNOWN", "MANUAL_REVIEW"} \cup Terminal

RecordSuspense(c) ==
  /\ Exists(c.operation)
  /\ operations[c.operation].version = c.expected
  /\ operations[c.operation].state \in Suspendable
  /\ Suspend(SuspenseRow(c.operation, "OPEN"))
  /\ UNCHANGED <<vars, settlements, journals, kept>>

-----------------------------------------------------------------------------
(* Compensation *)

Compensable(c, s) ==
  /\ s.operation = c.settled /\ s.status # "REVERSED" /\ s.journal
  /\ suspense[c.entry].status \in {"OPEN", "HELD"} /\ suspense[c.entry].settled = None

(* The ledger has one reversal of a journal. *)
Reversible(s) == \A j \in journals : j.reverses # s.key

(* Mutant: the entry stays open. *)
ClearNothing(c) == UNCHANGED suspense

ClearSuspense(c) ==
  suspense' = [suspense EXCEPT ![c.entry].status = "CLEARED", ![c.entry].settled = c.settled]

Compensate(c) ==
  /\ Reservation(kept, CompensatingKey(c), c) = "NEW"
  /\ Exists(c.operation)
  /\ operations[c.operation].version = c.expected
  /\ c.entry \in DOMAIN suspense
  /\ \E s \in settlements :
       /\ Compensable(c, s) /\ Reversible(s)
       /\ journals' = journals \cup {Journal(CompensatingKey(c), s.operation, s.key)}
       /\ settlements' = (settlements \ {s}) \cup {[s EXCEPT !.status = "REVERSED"]}
  /\ ClearSuspense(c)
  /\ kept' = Recorded(kept, CompensatingKey(c), c, c.settled)
  /\ UNCHANGED vars

(* The expiry of a record is counted with the others. *)
ExpireSettlement(k) ==
  /\ kept[k] # NoRecord /\ expiries < MaxExpiries
  /\ kept' = Expired(kept, k)
  /\ expiries' = expiries + 1
  /\ UNCHANGED <<table, records, process, settlements, suspense, journals>>

SettlementNext ==
  \/ Next /\ UNCHANGED settlement
  \/ \E c \in Asking("settle") : Settle(c) \/ RejectSettlement(c) \/ MissEvidence(c)
  \/ \E c \in Asking("suspend") : RecordSuspense(c)
  \/ \E c \in Asking("compensate") : Compensate(c)
  \/ \E k \in KeptKeys : ExpireSettlement(k)

SettlementSpec == SettlementInit /\ [][SettlementNext]_allvars

-----------------------------------------------------------------------------
(* Properties *)

(* Every table holds what it can hold. *)
SettlementTypeOK ==
  /\ TypeOK
  /\ \A s \in settlements :
       /\ s.operation \in Operation /\ s.key \in KeptKeys
       /\ s.decision \in {"SETTLE", "REJECT"} /\ s.status \in {"POSTED", "REVERSED"}
       /\ s.journal = (s.decision = "SETTLE")
  /\ \A i \in DOMAIN suspense :
       /\ suspense[i].operation \in Operation
       /\ suspense[i].status \in {"OPEN", "HELD", "CLEARED"}
       /\ suspense[i].settled \in Operation \cup {None}
  /\ \A j \in journals : j.key \in KeptKeys /\ j.operation \in Operation

Posted(o) == {j \in journals : j.operation = o /\ j.reverses = None}
Returned(o) == {j \in journals : j.operation = o /\ j.reverses # None}

(* An operation is settled once, whatever evidence it is settled on and    *)
(* whatever keys have expired, and the ledger says what its settlement     *)
(* says: a journal exactly when the decision was to settle, a reversal of  *)
(* it exactly when the settlement is REVERSED.                             *)
MoneyFollowsSettlement ==
  \A o \in Operation :
    /\ Cardinality(Rows(o)) <= 1
    /\ Cardinality(Posted(o)) = Cardinality({s \in Rows(o) : s.decision = "SETTLE"})
    /\ Cardinality(Returned(o)) = Cardinality({s \in Rows(o) : s.status = "REVERSED"})

(* A suspense entry is cleared by the reversal of one settlement, and each *)
(* reversed settlement has cleared one entry.                              *)
SuspenseFollowsReversals ==
  /\ \A i \in DOMAIN suspense :
       suspense[i].status = "CLEARED" <=> suspense[i].settled # None
  /\ \A o \in Operation :
       Cardinality({i \in DOMAIN suspense : suspense[i].settled = o})
         = Cardinality({s \in Rows(o) : s.status = "REVERSED"})

(* No amount is lost: the amount of a rejected outcome is in suspense from *)
(* the moment it is rejected, and stays there or is cleared.               *)
RejectionsAreSuspended ==
  \A s \in settlements : s.decision = "REJECT" =>
    \E i \in DOMAIN suspense : suspense[i].operation = s.operation

(* A compensating entry clears a suspense entry of the operation whose     *)
(* settlement it reverses.                                                 *)
ClearedForItsOwnOperation ==
  \A i \in DOMAIN suspense :
    suspense[i].status = "CLEARED" => suspense[i].settled = suspense[i].operation

(* What the settlements of the operations come to: see AtomicSettlement. *)
Outcome ==
  [o \in Operation |->
     CASE Rows(o) = {} -> "none"
       [] \E s \in Rows(o) : s.decision = "REJECT" -> "rejected"
       [] \E s \in Rows(o) : s.decision = "SETTLE" /\ s.status = "POSTED" -> "settled"
       [] OTHER -> "reversed"]
Paid == [o \in Operation |-> Cardinality(Posted(o)) - Cardinality(Returned(o))]

Abstract == INSTANCE AtomicSettlement WITH outcome <- Outcome, paid <- Paid

(* The settlement service promises what AtomicSettlement says. *)
ImplementsAtomicSettlement == Abstract!Spec
=============================================================================
