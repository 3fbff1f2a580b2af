--------------------- MODULE ExternalSettlements_proofs ----------------------
(***************************************************************************)
(* Proofs about ExternalSettlements, for every number of operations, of    *)
(* handlers and of calls, and whatever agenda of calls is made.            *)
(***************************************************************************)
EXTENDS ExternalSettlements, FiniteSetTheorems, TLAPS

(* A set of which any two members are equal is empty or a singleton. *)
LEMMA CountOfAtMostOne ==
  ASSUME NEW S, \A x, y \in S : x = y
  PROVE  Cardinality(S) = IF S = {} THEN 0 ELSE 1
<1>1. CASE S = {}
  BY <1>1, FS_EmptySet
<1>2. CASE S # {}
  <2>1. PICK x \in S : TRUE
    BY <1>2
  <2>2. S = {x}
    BY <2>1
  <2> QED BY <1>2, <2>2, FS_Singleton
<1> QED BY <1>1, <1>2

(* A record of a key is new when there is none. *)
LEMMA NewIsNoRecord ==
  ASSUME NEW table0, NEW key, NEW hash, Reservation(table0, key, hash) = "NEW"
  PROVE  table0[key] = NoRecord
BY DEF Reservation

(* What reserving and completing a record comes to. *)
LEMMA RecordedIs ==
  ASSUME NEW K, NEW f, f = [k \in K |-> f[k]], NEW key \in K, NEW hash, NEW resource
  PROVE  Recorded(f, key, hash, resource)
           = [k \in K |-> IF k = key
                THEN [hash |-> hash, status |-> "COMPLETED", resource |-> resource] ELSE f[k]]
<1> DEFINE g == Reserved(f, key, hash)
           old == [hash |-> hash, status |-> "IN_PROGRESS", resource |-> NoRecord]
           new == [hash |-> hash, status |-> "COMPLETED", resource |-> resource]
<1>1. g = [k \in K |-> IF k = key THEN old ELSE f[k]]
  BY DEF Reserved
<1>2. [old EXCEPT !.status = "COMPLETED", !.resource = resource] = new
  <2>1. [old EXCEPT !.status = "COMPLETED"]
          = [hash |-> hash, status |-> "COMPLETED", resource |-> NoRecord]
    OBVIOUS
  <2>2. [[hash |-> hash, status |-> "COMPLETED", resource |-> NoRecord]
          EXCEPT !.resource = resource] = new
    OBVIOUS
  <2> QED BY <2>1, <2>2
<1>3. [g EXCEPT ![key].status = "COMPLETED", ![key].resource = resource]
        = [k \in K |-> IF k = key THEN [g[key] EXCEPT !.status = "COMPLETED", !.resource = resource]
                       ELSE g[k]]
  <2> HIDE DEF g, old
  <2>1. g = [k \in K |-> g[k]]
    BY <1>1
  <2> QED BY <2>1
<1>4. g[key] = old /\ \A k \in K : k # key => g[k] = f[k]
  BY <1>1
<1> HIDE DEF old, new, g
<1> QED
  <2>1. Recorded(f, key, hash, resource)
          = [g EXCEPT ![key].status = "COMPLETED", ![key].resource = resource]
    BY DEF Recorded, Completed, g
  <2> QED BY <1>2, <1>3, <1>4, <2>1 DEF new

-----------------------------------------------------------------------------
(* The calls, the handlers and the operations *)

(* The calls that move an operation. *)
Lifecycle == Calls("transition") \cup Calls("begin") \cup Calls("accept") \cup Calls("timeout")

(* Every variable an operation depends on holds what it can hold. *)
BaseInv ==
  /\ asked \in Agenda
  /\ operations \in [Operation -> Row \cup {None}]
  /\ pc \in [Handler -> {"idle", "admitted", "reporting"}]
  /\ call \in [Handler -> Call \cup {None}]
  /\ \A h \in Handler :
       /\ pc[h] = "admitted" => call[h] \in Calls("begin")
       /\ pc[h] = "reporting" => call[h] \in Calls("accept") \cup Calls("timeout")

(* A row is written for a command that has none. *)
Creates(c, o) ==
  /\ Fresh(c) /\ ~ Exists(o)
  /\ \A q \in Operation : ~ CommandOf(c, q)
  /\ operations' = [operations EXCEPT ![o] = NewRow(c)]
  /\ Remember(c, o)
  /\ UNCHANGED expiries

(* An operation is moved. *)
Transits(c) == TransitionWithinTransaction(c) /\ UNCHANGED expiries

(* What a step that leaves the operations alone does to the records. *)
Remembers(c, resource) == Fresh(c) /\ Remember(c, resource) /\ UNCHANGED expiries
RecordsStep ==
  \/ UNCHANGED <<records, expiries>>
  \/ \E c \in Calls("create"), o \in Operation : Remembers(c, o)
  \/ \E c \in Calls("callback") : Remembers(c, c.event)
  \/ expiries' = expiries + 1 /\ expiries < MaxExpiries
       /\ (records' = records \/ \E k \in RecordKeys : records' = Expired(records, k))

(* A call that is asked is a call of the agenda. *)
LEMMA AskingIsCalling ==
  ASSUME BaseInv, NEW op, NEW c \in Asking(op)
  PROVE  c \in Calls(op)
BY DEF BaseInv, Asking, Calls, Call

(* A call that moves an operation names one. *)
LEMMA LifecycleOperation ==
  ASSUME NEW c \in Lifecycle
  PROVE  c \in Call /\ c.operation \in Operation /\ KeyOf(c) = <<"lifecycle", c.operation, c.key>>
         /\ KeyOf(c) \in RecordKeys /\ HashOf(c) \in Hashes
BY ExternalAssumption DEF Lifecycle, Calls, KeyOf, RecordKeys, Recordable, Hashes

(* What a step of the operations' module does to operations and records. *)
LEMMA OperationStep ==
  ASSUME BaseInv, Next
  PROVE  \/ \E c \in Calls("create"), o \in Operation : Creates(c, o)
         \/ \E c \in Lifecycle : Transits(c)
         \/ UNCHANGED operations /\ RecordsStep
<1>1. ASSUME NEW c \in Asking("create"), Create(c) \/ CreateAgain(c)
      PROVE  \/ \E o \in Operation : Creates(c, o)
             \/ UNCHANGED operations /\ \E o \in Operation : Remembers(c, o)
  BY <1>1 DEF Create, CreateAgain, Creates, Remembers, table, process
<1>2. ASSUME NEW c \in Asking("reference"), RecordProviderReference(c)
      PROVE  UNCHANGED <<operations, records, expiries>>
  BY <1>2 DEF RecordProviderReference
<1>3. ASSUME NEW c \in Asking("transition"), TransitionOperation(c)
      PROVE  Transits(c)
  BY <1>3 DEF TransitionOperation, Transits
<1>4. ASSUME NEW c \in Asking("callback"), Ingest(c) \/ Reject(c) \/ IngestAgain(c)
      PROVE  UNCHANGED operations /\ Remembers(c, c.event)
  BY <1>4 DEF Ingest, Reject, IngestAgain, First, Remembers, table
<1>5. ASSUME NEW h \in Handler, NEW c \in Asking("begin"), BeginAttempt(h, c)
      PROVE  UNCHANGED <<operations, records, expiries>>
  BY <1>5 DEF BeginAttempt, table
<1>6. ASSUME NEW h \in Handler, NEW c \in Asking("accept") \cup Asking("timeout"), MarkOutcome(h, c)
      PROVE  Transits(c) \/ UNCHANGED <<operations, records, expiries>>
  BY <1>6 DEF MarkOutcome, Transits
<1>7. ASSUME NEW h \in Handler, SubmitAttempt(h)
      PROVE  call[h] \in Calls("begin") /\ (Transits(call[h]) \/ UNCHANGED <<operations, records, expiries>>)
  BY <1>7 DEF SubmitAttempt, Transits, BaseInv
<1>8. ASSUME NEW h \in Handler, AbandonAttempt(h) \/ ReportOutcome(h)
      PROVE  UNCHANGED <<operations, records, expiries>>
  BY <1>8 DEF AbandonAttempt, ReportOutcome, table
<1>9. GetCircuit \/ OpenWindowPasses \/ Restart => UNCHANGED <<operations, records, expiries>>
  BY DEF GetCircuit, OpenWindowPasses, Restart, table
<1>10. ASSUME NEW k \in RecordKeys, Expire(k)
       PROVE  UNCHANGED operations /\ records' = Expired(records, k) /\ expiries' = expiries + 1
              /\ expiries < MaxExpiries
  BY <1>10 DEF Expire, table
<1>11. \A op : \A c \in Asking(op) : c \in Calls(op)
  BY AskingIsCalling
<1>12. CASE \E c \in Asking("create") : Create(c) \/ CreateAgain(c)
  BY <1>1, <1>11, <1>12 DEF RecordsStep
<1>13. CASE \E c \in Asking("transition") : TransitionOperation(c)
  BY <1>3, <1>11, <1>13 DEF Lifecycle
<1>14. CASE \E c \in Asking("callback") : Ingest(c) \/ Reject(c) \/ IngestAgain(c)
  BY <1>4, <1>11, <1>14 DEF RecordsStep
<1>15. CASE \E h \in Handler, c \in Asking("accept") \cup Asking("timeout") : MarkOutcome(h, c)
  BY <1>6, <1>11, <1>15 DEF Lifecycle, RecordsStep
<1>16. CASE \E h \in Handler : SubmitAttempt(h)
  BY <1>7, <1>16 DEF Lifecycle, RecordsStep
<1>17. CASE \E k \in RecordKeys : Expire(k)
  BY <1>10, <1>17 DEF RecordsStep
<1> QED
  BY <1>2, <1>5, <1>8, <1>9, <1>12, <1>13, <1>14, <1>15, <1>16, <1>17 DEF Next, RecordsStep

(* A row is created as Row says. *)
LEMMA NewRowIs ==
  ASSUME NEW c \in Calls("create")
  PROVE  /\ NewRow(c) \in Row /\ NewRow(c).command = c.command
         /\ NewRow(c).state = "CREATED" /\ NewRow(c).version = 1
BY DEF NewRow, Row, State, Recovery

(* What a transition asks for, and where it leads. *)
LEMMA TransitionIs ==
  ASSUME NEW c \in Lifecycle
  PROVE  Transition(c).recovery \in Recovery
BY ExternalAssumption DEF Transition, Recovery, Lifecycle, Calls

(* A move leads to where the state allows, and keeps the row a row. *)
LEMMA MovedIs ==
  ASSUME NEW c \in Lifecycle, NEW row \in Row, Moves(row, c)
  PROVE  /\ Moved(row, c) \in Row
         /\ Moved(row, c).command = row.command
         /\ Moved(row, c).state = Target(row, Transition(c))
         /\ Moved(row, c).version = row.version + 1
         /\ Moved(row, c).recovery = ResolvedRecovery(row, Transition(c))
         /\ Target(row, Transition(c)) \in Allowed[row.state]
         /\ RecoveryHolds(row, Transition(c))
<1> DEFINE t == Transition(c)
           to == Target(row, t)
           tries == IF to = "SUBMITTING" THEN row.attempts + 1 ELSE row.attempts
           recovery == ResolvedRecovery(row, t)
<1>1. to \in Allowed[row.state] /\ RecoveryHolds(row, t)
  BY DEF Moves
<1>2. row.state \in State
  BY DEF Row
<1>3. to \in State
  BY <1>1, <1>2 DEF Allowed, State
<1>4. recovery \in Recovery
  BY TransitionIs DEF ResolvedRecovery, Row
<1>5. tries \in Nat /\ row.version + 1 \in Nat \ {0}
  BY DEF Row
<1>6. Moved(row, c) = [row EXCEPT !.state = to, !.version = row.version + 1,
                                  !.attempts = tries, !.recovery = recovery]
  BY DEF Moved, Row
<1> HIDE DEF t, to, tries, recovery
<1>7. /\ Moved(row, c) \in Row /\ Moved(row, c).command = row.command
      /\ Moved(row, c).state = to /\ Moved(row, c).version = row.version + 1
      /\ Moved(row, c).recovery = recovery
  BY <1>3, <1>4, <1>5, <1>6 DEF Row
<1> QED BY <1>1, <1>7 DEF t, to, recovery

(* A creation writes the one row of an operation that had none. *)
LEMMA CreatesIs ==
  ASSUME BaseInv, NEW c \in Calls("create"), NEW o \in Operation, Creates(c, o)
  PROVE  /\ operations[o] = None /\ operations'[o] = NewRow(c) /\ NewRow(c) \in Row
         /\ operations' \in [Operation -> Row \cup {None}]
         /\ \A q \in Operation : q # o => operations'[q] = operations[q]
BY NewRowIs DEF BaseInv, Creates, Exists

(* A transition moves the one row it names. *)
LEMMA TransitsIs ==
  ASSUME BaseInv, NEW c \in Lifecycle, Transits(c)
  PROVE  /\ operations[c.operation] \in Row /\ Moves(operations[c.operation], c)
         /\ operations'[c.operation] = Moved(operations[c.operation], c)
         /\ operations'[c.operation] \in Row
         /\ operations' \in [Operation -> Row \cup {None}]
         /\ \A q \in Operation : q # c.operation => operations'[q] = operations[q]
<1>1. c.operation \in Operation
  BY LifecycleOperation
<1>2. /\ operations[c.operation] # None /\ Moves(operations[c.operation], c)
      /\ operations' = [operations EXCEPT ![c.operation] = Moved(operations[c.operation], c)]
  BY <1>1 DEF Transits, TransitionWithinTransaction, Exists, BaseInv
<1>3. operations[c.operation] \in Row
  BY <1>1, <1>2 DEF BaseInv
<1>4. Moved(operations[c.operation], c) \in Row
  BY <1>2, <1>3, MovedIs
<1> QED BY <1>1, <1>2, <1>3, <1>4 DEF BaseInv

(* The handlers go from call to call. *)
LEMMA HandlersKeep ==
  ASSUME BaseInv, Next
  PROVE  /\ asked' = asked
         /\ pc' \in [Handler -> {"idle", "admitted", "reporting"}]
         /\ call' \in [Handler -> Call \cup {None}]
         /\ \A h \in Handler :
              /\ pc'[h] = "admitted" => call'[h] \in Calls("begin")
              /\ pc'[h] = "reporting" => call'[h] \in Calls("accept") \cup Calls("timeout")
<1>1. CASE UNCHANGED <<asked, pc, call>>
  BY <1>1 DEF BaseInv
<1>2. CASE asked' = asked /\ Restart
  BY <1>2 DEF Restart
<1>3. ASSUME NEW h \in Handler, NEW stage \in {"idle", "admitted", "reporting"},
             NEW c \in Call \cup {None}, Goto(h, stage, c),
             stage = "admitted" => c \in Calls("begin"),
             stage = "reporting" => c \in Calls("accept") \cup Calls("timeout"), asked' = asked
      PROVE  /\ pc' \in [Handler -> {"idle", "admitted", "reporting"}]
             /\ call' \in [Handler -> Call \cup {None}]
             /\ \A g \in Handler :
                  /\ pc'[g] = "admitted" => call'[g] \in Calls("begin")
                  /\ pc'[g] = "reporting" => call'[g] \in Calls("accept") \cup Calls("timeout")
  BY <1>3 DEF Goto, BaseInv
<1>4. \A op : \A c \in Asking(op) : c \in Calls(op) /\ c \in Call
  BY AskingIsCalling DEF Calls
<1>5. CASE \E h \in Handler : \E c \in Asking("begin") : BeginAttempt(h, c)
  BY <1>3, <1>4, <1>5 DEF BeginAttempt
<1>6. CASE \E h \in Handler : \E c \in Asking("accept") \cup Asking("timeout") : MarkOutcome(h, c)
  BY <1>3, <1>4, <1>6 DEF MarkOutcome
<1>7. CASE \E h \in Handler : SubmitAttempt(h) \/ AbandonAttempt(h) \/ ReportOutcome(h)
  BY <1>3, <1>7 DEF SubmitAttempt, AbandonAttempt, ReportOutcome
<1>8. Next => \/ UNCHANGED <<asked, pc, call>>
              \/ asked' = asked /\ Restart
              \/ \E h \in Handler : \E c \in Asking("begin") : BeginAttempt(h, c)
              \/ \E h \in Handler : \E c \in Asking("accept") \cup Asking("timeout") : MarkOutcome(h, c)
              \/ \E h \in Handler : SubmitAttempt(h) \/ AbandonAttempt(h) \/ ReportOutcome(h)
  BY DEF Next, Create, CreateAgain, RecordProviderReference, TransitionOperation, Ingest, Reject,
         IngestAgain, GetCircuit, OpenWindowPasses, Restart, Expire, process
<1>9. CASE asked' = asked /\ \E h \in Handler : SubmitAttempt(h) \/ AbandonAttempt(h) \/ ReportOutcome(h)
  BY <1>7, <1>9
<1>10. asked' = asked
  BY DEF Next, Create, CreateAgain, RecordProviderReference, TransitionOperation, Ingest, Reject,
         IngestAgain, GetCircuit, OpenWindowPasses, Restart, Expire, process, BeginAttempt,
         MarkOutcome, SubmitAttempt, AbandonAttempt, ReportOutcome
<1> QED BY <1>1, <1>2, <1>5, <1>6, <1>7, <1>8, <1>10

(* Every step of the settlements leaves the operations alone. *)
LEMMA SettlementStep ==
  ASSUME [SettlementNext]_allvars
  PROVE  \/ Next /\ UNCHANGED settlement
         \/ /\ UNCHANGED <<asked, operations, references, receipts, records, breaker, pc, call>>
            /\ \/ expiries' = expiries
               \/ expiries' = expiries + 1 /\ expiries < MaxExpiries
BY DEF SettlementNext, allvars, vars, Settle, RejectSettlement, MissEvidence, RecordSuspense,
       Compensate, ExpireSettlement, table, process

(* Every step keeps the rows rows, and the handlers to their calls. *)
LEMMA BaseInductive ==
  /\ SettlementInit => BaseInv
  /\ BaseInv /\ [SettlementNext]_allvars => BaseInv'
<1>1. SettlementInit => BaseInv
  BY DEF SettlementInit, Init, BaseInv
<1>2. ASSUME BaseInv, Next PROVE BaseInv'
  <2>1. operations' \in [Operation -> Row \cup {None}]
    <3>1. CASE \E c \in Calls("create"), o \in Operation : Creates(c, o)
      BY <1>2, <3>1, CreatesIs
    <3>2. CASE \E c \in Lifecycle : Transits(c)
      BY <1>2, <3>2, TransitsIs
    <3>3. CASE UNCHANGED operations
      BY <1>2, <3>3 DEF BaseInv
    <3> QED BY <1>2, <3>1, <3>2, <3>3, OperationStep
  <2> QED BY <1>2, <2>1, HandlersKeep DEF BaseInv
<1>3. ASSUME BaseInv, UNCHANGED <<asked, operations, pc, call>> PROVE BaseInv'
  BY <1>3 DEF BaseInv
<1> QED BY <1>1, <1>2, <1>3, SettlementStep

-----------------------------------------------------------------------------
(* What the operations keep to *)

(* One command, one operation; what is not known can be recovered. *)
RowsInv ==
  /\ BaseInv
  /\ OneOperationPerCommand
  /\ UnknownIsRecoverable

(* The steps of an operation's row, one by one. *)
LEMMA RowsInductive ==
  /\ SettlementInit => RowsInv
  /\ RowsInv /\ [SettlementNext]_allvars => RowsInv'
<1>1. SettlementInit => RowsInv
  BY BaseInductive DEF SettlementInit, Init, RowsInv, OneOperationPerCommand, UnknownIsRecoverable, Exists
<1>2. ASSUME RowsInv, NEW c \in Calls("create"), NEW o \in Operation, Creates(c, o)
      PROVE  (OneOperationPerCommand /\ UnknownIsRecoverable)'
  <2>1. \A q \in Operation : operations[q] # None => operations[q].command # c.command
    BY <1>2 DEF Creates, CommandOf, Exists
  <2>2. /\ operations'[o] = NewRow(c) /\ NewRow(c).command = c.command /\ NewRow(c).state = "CREATED"
        /\ \A q \in Operation : q # o => operations'[q] = operations[q]
    BY <1>2, CreatesIs, NewRowIs DEF RowsInv
  <2> QED BY <1>2, <2>1, <2>2 DEF RowsInv, OneOperationPerCommand, UnknownIsRecoverable, Exists
<1>3. ASSUME RowsInv, NEW c \in Lifecycle, Transits(c)
      PROVE  (OneOperationPerCommand /\ UnknownIsRecoverable)'
  <2> DEFINE o == c.operation
             row == operations[c.operation]
             t == Transition(c)
  <2>1. /\ row \in Row /\ Moves(row, c) /\ operations'[o] = Moved(row, c) /\ o \in Operation
        /\ \A q \in Operation : q # o => operations'[q] = operations[q]
    BY <1>3, TransitsIs, LifecycleOperation DEF RowsInv
  <2>2. /\ Moved(row, c).command = row.command /\ Moved(row, c).state = Target(row, t)
        /\ Moved(row, c).recovery = ResolvedRecovery(row, t) /\ RecoveryHolds(row, t)
    BY <2>1, MovedIs
  <2>3. row # None
    BY <2>1, ExternalAssumption
  <2>4. Moved(row, c).state \in {"UNKNOWN", "MANUAL_REVIEW"} => Moved(row, c).recovery # "none"
    BY <2>2 DEF RecoveryHolds
  <2> HIDE DEF row, t
  <2>5. OneOperationPerCommand'
    BY <1>3, <2>1, <2>2, <2>3 DEF RowsInv, OneOperationPerCommand, Exists, row
  <2>6. UnknownIsRecoverable'
    BY <1>3, <2>1, <2>4 DEF RowsInv, UnknownIsRecoverable, Exists, row
  <2> QED BY <2>5, <2>6
<1>4. ASSUME RowsInv, UNCHANGED operations PROVE (OneOperationPerCommand /\ UnknownIsRecoverable)'
  BY <1>4 DEF RowsInv, OneOperationPerCommand, UnknownIsRecoverable, Exists
<1>5. RowsInv /\ Next => (OneOperationPerCommand /\ UnknownIsRecoverable)'
  BY <1>2, <1>3, <1>4, OperationStep DEF RowsInv
<1> QED BY <1>1, <1>4, <1>5, BaseInductive, SettlementStep DEF RowsInv

(* A command has one operation, however often and under however many keys  *)
(* its creation is asked for, and whatever records have expired.           *)
THEOREM OneOperation == SettlementSpec => []OneOperationPerCommand
BY RowsInductive, PTL DEF SettlementSpec, RowsInv

(* An operation whose outcome is not known has a recovery reference.       *)
THEOREM Recoverable == SettlementSpec => []UnknownIsRecoverable
BY RowsInductive, PTL DEF SettlementSpec, RowsInv

(* A terminal operation stays as it is, and a recovery reference is kept,  *)
(* by every step of operations and of settlements.                         *)
THEOREM DecisionsAreKept == SettlementSpec => DecisionsStay
<1> DEFINE Kept == \A o \in Operation : Exists(o) =>
             /\ operations[o].state \in Terminal => operations'[o] = operations[o]
             /\ operations[o].recovery # "none" => operations'[o].recovery = operations[o].recovery
<1>1. ASSUME BaseInv, NEW c \in Calls("create"), NEW o \in Operation, Creates(c, o)
      PROVE  Kept
  BY <1>1, CreatesIs DEF Exists
<1>2. ASSUME BaseInv, NEW c \in Lifecycle, Transits(c)
      PROVE  Kept
  <2> DEFINE row == operations[c.operation]
             t == Transition(c)
  <2>1. /\ row \in Row /\ Moves(row, c) /\ operations'[c.operation] = Moved(row, c)
        /\ \A q \in Operation : q # c.operation => operations'[q] = operations[q]
    BY <1>2, TransitsIs
  <2>2. /\ Moved(row, c).recovery = ResolvedRecovery(row, t)
        /\ Target(row, t) \in Allowed[row.state]
    BY <2>1, MovedIs
  <2>3. row.state \notin Terminal
    BY <2>2 DEF Terminal, Allowed
  <2>4. row.recovery # "none" => Moved(row, c).recovery = row.recovery
    BY <2>2 DEF ResolvedRecovery
  <2> HIDE DEF row, t
  <2> QED BY <2>1, <2>3, <2>4 DEF row
<1>3. ASSUME UNCHANGED operations PROVE Kept
  BY <1>3
<1>4. BaseInv /\ [SettlementNext]_allvars => Kept
  BY <1>1, <1>2, <1>3, OperationStep, SettlementStep
<1>5. BaseInv /\ [SettlementNext]_allvars => [Kept]_vars
  BY <1>4
<1> QED BY <1>5, BaseInductive, PTL DEF SettlementSpec, DecisionsStay

-----------------------------------------------------------------------------
(* The records of commands *)

(* The keys an operation was moved under. *)
MovesOf(o) == {k \in RecordKeys : k[1] = "lifecycle" /\ k[2] = o /\ records[k] # NoRecord}

(* The version of an operation counts them. *)
VersionCounts(o) ==
  Exists(o) => IsFiniteSet(MovesOf(o)) /\ operations[o].version = 1 + Cardinality(MovesOf(o))

(* Records are of what was done; as long as none expires, of all of it. *)
RecordsInv ==
  /\ records \in Records(RecordKeys, Hashes, Resources)
  /\ \A k \in RecordKeys : records[k] # NoRecord => records[k].status = "COMPLETED"
  /\ expiries \in 0..MaxExpiries
  /\ \A o \in Operation : MovesOf(o) # {} => Exists(o)
  /\ expiries = 0 => \A o \in Operation : VersionCounts(o)

(* A new record is a record, and the only one that changes. *)
LEMMA RememberIs ==
  ASSUME RecordsInv, NEW c \in Call, KeyOf(c) \in RecordKeys, HashOf(c) \in Hashes,
         NEW resource \in Resources, Fresh(c), Remember(c, resource)
  PROVE  /\ records' \in Records(RecordKeys, Hashes, Resources)
         /\ \A k \in RecordKeys : records'[k] # NoRecord => records'[k].status = "COMPLETED"
         /\ records[KeyOf(c)] = NoRecord /\ records'[KeyOf(c)] # NoRecord
         /\ \A k \in RecordKeys : k # KeyOf(c) => records'[k] = records[k]
<1> DEFINE new == [hash |-> HashOf(c), status |-> "COMPLETED", resource |-> resource]
<1>1. records' = [k \in RecordKeys |-> IF k = KeyOf(c) THEN new ELSE records[k]]
  BY RecordedIs DEF Remember, RecordsInv, Records
<1>2. new \in Record(Hashes, Resources)
  BY DEF Record, RecordStatus
<1>3. new # NoRecord
  BY <1>2, ExternalAssumption
<1>4. new.status = "COMPLETED"
  OBVIOUS
<1>5. records[KeyOf(c)] = NoRecord
  BY NewIsNoRecord DEF Fresh
<1> HIDE DEF new
<1> QED BY <1>1, <1>2, <1>3, <1>4, <1>5 DEF RecordsInv, Records

(* A creation, or a callback, is not a move. *)
LEMMA OtherKeys ==
  /\ \A c \in Calls("create") : /\ c \in Call /\ KeyOf(c) \in RecordKeys /\ HashOf(c) \in Hashes
                                /\ KeyOf(c)[1] = "create"
  /\ \A c \in Calls("callback") : /\ c \in Call /\ KeyOf(c) \in RecordKeys /\ HashOf(c) \in Hashes
                                  /\ c.event \in Resources /\ KeyOf(c)[1] = "callback"
BY DEF Calls, KeyOf, RecordKeys, Recordable, Hashes, Resources

(* A record that is not of a move leaves the moves as they are. *)
LEMMA RemembersKeeps ==
  ASSUME RecordsInv, NEW c \in Call, KeyOf(c) \in RecordKeys, HashOf(c) \in Hashes,
         NEW resource \in Resources, Fresh(c), Remember(c, resource), KeyOf(c)[1] # "lifecycle"
  PROVE  \A o : MovesOf(o)' = MovesOf(o)
BY RememberIs DEF MovesOf

(* Every step keeps the records to what was done. *)
LEMMA RecordsInductive ==
  /\ SettlementInit => RecordsInv
  /\ RecordsInv /\ BaseInv /\ [SettlementNext]_allvars => RecordsInv'
<1>1. SettlementInit => RecordsInv
  BY ExternalAssumption
  DEF SettlementInit, Init, RecordsInv, Records, MovesOf, VersionCounts, Exists
<1>2. ASSUME RecordsInv, BaseInv, NEW c \in Calls("create"), NEW o \in Operation, Creates(c, o)
      PROVE  RecordsInv'
  <2>1. /\ Fresh(c) /\ Remember(c, o) /\ o \in Resources /\ expiries' = expiries
        /\ operations[o] = None
    BY <1>2 DEF Creates, Resources, Exists
  <2>2. \A q \in Operation : MovesOf(q)' = MovesOf(q)
    BY <1>2, <2>1, OtherKeys, RemembersKeeps
  <2>3. /\ records' \in Records(RecordKeys, Hashes, Resources)
        /\ \A k \in RecordKeys : records'[k] # NoRecord => records'[k].status = "COMPLETED"
    BY <1>2, <2>1, OtherKeys, RememberIs
  <2>4. /\ operations'[o] = NewRow(c) /\ NewRow(c) # None /\ NewRow(c).version = 1
        /\ \A q \in Operation : q # o => operations'[q] = operations[q]
    BY <1>2, CreatesIs, NewRowIs, ExternalAssumption
  <2>5. MovesOf(o) = {}
    BY <1>2, <2>1 DEF RecordsInv, Exists
  <2>6. \A q \in Operation : MovesOf(q)' # {} => Exists(q)'
    BY <1>2, <2>2, <2>4 DEF RecordsInv, Exists
  <2>7. VersionCounts(o)'
    BY <2>2, <2>4, <2>5, FS_EmptySet DEF VersionCounts, Exists
  <2>8. ASSUME NEW q \in Operation, q # o, VersionCounts(q) PROVE VersionCounts(q)'
    BY <2>2, <2>4, <2>8 DEF VersionCounts, Exists
  <2>9. expiries' = 0 => \A q \in Operation : VersionCounts(q)'
    BY <1>2, <2>1, <2>7, <2>8 DEF RecordsInv
  <2> QED BY <1>2, <2>1, <2>3, <2>6, <2>9 DEF RecordsInv
<1>3. ASSUME RecordsInv, BaseInv, NEW c \in Lifecycle, Transits(c)
      PROVE  RecordsInv'
  <2> DEFINE o == c.operation
  <2>1. /\ Fresh(c) /\ Remember(c, o) /\ expiries' = expiries
        /\ c \in Call /\ o \in Operation /\ o \in Resources
        /\ KeyOf(c) = <<"lifecycle", o, c.key>> /\ KeyOf(c) \in RecordKeys /\ HashOf(c) \in Hashes
    BY <1>3, LifecycleOperation DEF Transits, TransitionWithinTransaction, Resources
  <2>2. /\ records' \in Records(RecordKeys, Hashes, Resources)
        /\ \A k \in RecordKeys : records'[k] # NoRecord => records'[k].status = "COMPLETED"
        /\ records[KeyOf(c)] = NoRecord /\ records'[KeyOf(c)] # NoRecord
        /\ \A k \in RecordKeys : k # KeyOf(c) => records'[k] = records[k]
    BY <1>3, <2>1, RememberIs
  <2>3. MovesOf(o)' = MovesOf(o) \cup {KeyOf(c)} /\ KeyOf(c) \notin MovesOf(o)
    BY <2>1, <2>2 DEF MovesOf
  <2>4. \A q \in Operation : q # o => MovesOf(q)' = MovesOf(q)
    BY <2>1, <2>2 DEF MovesOf
  <2>5. /\ operations[o] \in Row /\ operations'[o] \in Row
        /\ operations'[o].version = operations[o].version + 1
        /\ \A q \in Operation : q # o => operations'[q] = operations[q]
    BY <1>3, TransitsIs, MovedIs
  <2>6. operations[o] # None /\ operations'[o] # None
    BY <2>5, ExternalAssumption
  <2>7. \A q \in Operation : MovesOf(q)' # {} => Exists(q)'
    BY <1>3, <2>4, <2>5, <2>6 DEF RecordsInv, Exists
  <2>8. VersionCounts(o) => VersionCounts(o)'
    <3>1. SUFFICES ASSUME VersionCounts(o) PROVE VersionCounts(o)'
      OBVIOUS
    <3>2. IsFiniteSet(MovesOf(o)) /\ operations[o].version = 1 + Cardinality(MovesOf(o))
      BY <2>6, <3>1 DEF VersionCounts, Exists
    <3>3. IsFiniteSet(MovesOf(o)') /\ Cardinality(MovesOf(o)') = Cardinality(MovesOf(o)) + 1
      BY <2>3, <3>2, FS_AddElement
    <3>4. Cardinality(MovesOf(o)) \in Nat
      BY <3>2, FS_CardinalityType
    <3>5. operations'[o].version = 1 + Cardinality(MovesOf(o)')
      BY <2>5, <3>2, <3>3, <3>4
    <3> QED BY <3>3, <3>5 DEF VersionCounts
  <2>9. ASSUME NEW q \in Operation, q # o, VersionCounts(q) PROVE VersionCounts(q)'
    BY <2>4, <2>5, <2>9 DEF VersionCounts, Exists
  <2>10. expiries' = 0 => \A q \in Operation : VersionCounts(q)'
    BY <1>3, <2>1, <2>8, <2>9 DEF RecordsInv
  <2> QED BY <1>3, <2>1, <2>2, <2>7, <2>10 DEF RecordsInv
<1>4. ASSUME RecordsInv, BaseInv, UNCHANGED operations, NEW c \in Call, KeyOf(c) \in RecordKeys,
             HashOf(c) \in Hashes, NEW resource \in Resources, Remembers(c, resource),
             KeyOf(c)[1] # "lifecycle"
      PROVE  RecordsInv'
  <2>1. Fresh(c) /\ Remember(c, resource) /\ expiries' = expiries
    BY <1>4 DEF Remembers
  <2>2. \A q \in Operation : MovesOf(q)' = MovesOf(q)
    BY <1>4, <2>1, RemembersKeeps
  <2>3. /\ records' \in Records(RecordKeys, Hashes, Resources)
        /\ \A k \in RecordKeys : records'[k] # NoRecord => records'[k].status = "COMPLETED"
    BY <1>4, <2>1, RememberIs
  <2>4. \A q \in Operation : Exists(q)' = Exists(q) /\ VersionCounts(q)' = VersionCounts(q)
    BY <1>4, <2>2 DEF Exists, VersionCounts
  <2> QED BY <1>4, <2>1, <2>2, <2>3, <2>4 DEF RecordsInv
<1>5. ASSUME RecordsInv, UNCHANGED <<operations, records, expiries>>
      PROVE  RecordsInv'
  BY <1>5 DEF RecordsInv, MovesOf, VersionCounts, Exists
<1>6. ASSUME RecordsInv, UNCHANGED operations, expiries' = expiries + 1, expiries < MaxExpiries,
             records' = records \/ \E k \in RecordKeys : records' = Expired(records, k)
      PROVE  RecordsInv'
  <2>1. \A k \in RecordKeys : records'[k] \in {records[k], NoRecord}
    BY <1>6 DEF Expired, RecordsInv, Records
  <2>2. records' \in Records(RecordKeys, Hashes, Resources)
    BY <1>6 DEF Expired, RecordsInv, Records
  <2>3. \A o \in Operation : MovesOf(o)' \subseteq MovesOf(o) /\ Exists(o)' = Exists(o)
    BY <1>6, <2>1 DEF MovesOf, Exists
  <2>4. expiries' \in 0..MaxExpiries /\ expiries' # 0
    BY <1>6, ExternalAssumption DEF RecordsInv
  <2>5. \A k \in RecordKeys : records'[k] # NoRecord => records'[k].status = "COMPLETED"
    BY <1>6, <2>1 DEF RecordsInv
  <2>6. \A o \in Operation : MovesOf(o)' # {} => Exists(o)'
    BY <1>6, <2>3 DEF RecordsInv
  <2> QED BY <2>2, <2>4, <2>5, <2>6 DEF RecordsInv
<1>7. ASSUME RecordsInv, BaseInv, Next PROVE RecordsInv'
  <2>1. CASE \E c \in Calls("create"), o \in Operation : Creates(c, o)
    BY <1>2, <1>7, <2>1
  <2>2. CASE \E c \in Lifecycle : Transits(c)
    BY <1>3, <1>7, <2>2
  <2>3. CASE UNCHANGED operations /\ \E c \in Calls("create"), o \in Operation : Remembers(c, o)
    BY <1>4, <1>7, <2>3, OtherKeys DEF Resources
  <2>4. CASE UNCHANGED operations /\ \E c \in Calls("callback") : Remembers(c, c.event)
    BY <1>4, <1>7, <2>4, OtherKeys
  <2> QED BY <1>5, <1>6, <1>7, <2>1, <2>2, <2>3, <2>4, OperationStep DEF RecordsStep
<1>8. ASSUME RecordsInv, [SettlementNext]_allvars, ~ Next PROVE RecordsInv'
  BY <1>5, <1>6, <1>8, SettlementStep
<1> QED BY <1>1, <1>7, <1>8

(* As long as no record has expired, an operation has moved once for each  *)
(* key its transitions were asked for under, by whatever handler.          *)
THEOREM EffectOnce == SettlementSpec => []TransitionsTakeEffectOnce
<1>1. RecordsInv => TransitionsTakeEffectOnce
  <2>1. SUFFICES ASSUME RecordsInv, expiries = 0, NEW o \in Operation, Exists(o)
                 PROVE  operations[o].version = 1 + Cardinality(MovesOf(o))
    BY Zenon DEF TransitionsTakeEffectOnce, MovesOf
  <2> QED BY <2>1 DEF RecordsInv, VersionCounts
<1> QED BY <1>1, RecordsInductive, BaseInductive, PTL DEF SettlementSpec

-----------------------------------------------------------------------------
(* References and receipts *)

Reference == [value : Operation \cup {c.value : c \in Calls("reference") \cup Calls("callback")},
              operation : Operation, source : {"REQUEST", "RECORDED", "CALLBACK"}]

(* The reference an accepted callback adds. *)
CallbackReference(c) == [value |-> c.value, operation |-> c.operation, source |-> "CALLBACK"]

(* Receipts and the references they have added are of each other. *)
ReceiptsInv ==
  /\ references \subseteq Reference
  /\ \A r \in receipts : r.callback \in Calls("callback")
  /\ \A r, s \in receipts : r.callback.event = s.callback.event => r = s
  /\ \A s \in receipts : s.status = "RECEIVED" => CallbackReference(s.callback) \in references
  /\ \A r \in references : r.source = "CALLBACK" =>
       \E s \in receipts : s.status = "RECEIVED" /\ s.callback.value = r.value
  /\ \A r, s \in receipts :
       r.status = "RECEIVED" /\ s.status = "RECEIVED" /\ r.callback.value = s.callback.value => r = s

(* A reference of the service itself is none of a callback's. *)
LEMMA ReferenceAdded ==
  ASSUME ReceiptsInv, NEW r \in Reference, r.source # "CALLBACK",
         references' = references \cup {r}, receipts' = receipts
  PROVE  ReceiptsInv'
BY DEF ReceiptsInv, CallbackReference

(* An accepted callback adds a reference of a value there was none of. *)
LEMMA IngestKeeps ==
  ASSUME ReceiptsInv, NEW c \in Calls("callback"), Ingest(c)
  PROVE  ReceiptsInv'
<1> DEFINE new == Receipt(c, "RECEIVED")
           ref == CallbackReference(c)
<1>1. /\ references' = references \cup {ref} /\ receipts' = receipts \cup {new}
      /\ ReceiptsOf(c.event) = {} /\ WhyRejected(c) = "none"
  BY DEF Ingest, First, CallbackReference
<1>2. Referring(c.operation, c.value) = {}
  BY <1>1 DEF WhyRejected
<1>3. new.callback = c /\ new.status = "RECEIVED"
  BY DEF Receipt
<1>4. ref \in Reference /\ ref.value = c.value /\ ref.source = "CALLBACK"
  BY ExternalAssumption DEF CallbackReference, Reference, Calls
<1>5. \A r \in receipts : r.callback.event # c.event
  BY <1>1 DEF ReceiptsOf
<1>6. \A r \in receipts : r.status = "RECEIVED" => r.callback.value # c.value
  <2>1. SUFFICES ASSUME NEW r \in receipts, r.status = "RECEIVED" PROVE r.callback.value # c.value
    OBVIOUS
  <2>2. CallbackReference(r.callback) \in references
    BY <2>1 DEF ReceiptsInv
  <2>3. CallbackReference(r.callback).value = r.callback.value
    BY DEF CallbackReference
  <2> QED BY <1>2, <2>2, <2>3 DEF Referring
<1>7. CallbackReference(new.callback) = ref
  BY <1>3
<1> HIDE DEF new, ref
<1>8. \A r, s \in receipts' : r.callback.event = s.callback.event => r = s
  BY <1>1, <1>3, <1>5 DEF ReceiptsInv
<1>9. \A r, s \in receipts' :
        r.status = "RECEIVED" /\ s.status = "RECEIVED" /\ r.callback.value = s.callback.value => r = s
  BY <1>1, <1>3, <1>6 DEF ReceiptsInv
<1>10. \A s \in receipts' : s.status = "RECEIVED" => CallbackReference(s.callback) \in references'
  BY <1>1, <1>7 DEF ReceiptsInv
<1>11. \A r \in references' : r.source = "CALLBACK" =>
         \E s \in receipts' : s.status = "RECEIVED" /\ s.callback.value = r.value
  <2>1. ASSUME NEW r \in references', r.source = "CALLBACK"
        PROVE  \E s \in receipts' : s.status = "RECEIVED" /\ s.callback.value = r.value
    <3>1. CASE r \in references
      BY <1>1, <2>1, <3>1 DEF ReceiptsInv
    <3>2. CASE r = ref
      BY <1>1, <1>3, <1>4, <3>2
    <3> QED BY <1>1, <3>1, <3>2
  <2> QED BY <2>1
<1>12. references' \subseteq Reference /\ \A r \in receipts' : r.callback \in Calls("callback")
  BY <1>1, <1>3, <1>4 DEF ReceiptsInv
<1> QED BY <1>8, <1>9, <1>10, <1>11, <1>12 DEF ReceiptsInv

(* A callback that is refused leaves a receipt, of an event that had none. *)
LEMMA RejectKeeps ==
  ASSUME ReceiptsInv, NEW c \in Calls("callback"), Reject(c)
  PROVE  ReceiptsInv'
<1> DEFINE new == Receipt(c, WhyRejected(c))
<1>1. /\ references' = references /\ receipts' = receipts \cup {new}
      /\ ReceiptsOf(c.event) = {}
  BY DEF Reject, First
<1>2. new.callback = c /\ new.status # "RECEIVED"
  BY DEF Receipt, WhyRejected, Reject
<1>3. \A r \in receipts : r.callback.event # c.event
  BY <1>1 DEF ReceiptsOf
<1> HIDE DEF new
<1> QED BY <1>1, <1>2, <1>3 DEF ReceiptsInv

(* Every step keeps receipts and references to each other. *)
LEMMA ReceiptsInductive ==
  /\ SettlementInit => ReceiptsInv
  /\ ReceiptsInv /\ BaseInv /\ [SettlementNext]_allvars => ReceiptsInv'
<1>1. SettlementInit => ReceiptsInv
  BY DEF SettlementInit, Init, ReceiptsInv
<1>2. ASSUME ReceiptsInv, UNCHANGED <<references, receipts>> PROVE ReceiptsInv'
  BY <1>2 DEF ReceiptsInv
<1>3. ASSUME ReceiptsInv, NEW c, Create(c) PROVE ReceiptsInv'
  <2>1. PICK o \in Operation : references' = references \cup {ProviderKey(o)} /\ receipts' = receipts
    BY <1>3 DEF Create
  <2>2. ProviderKey(o) \in Reference /\ ProviderKey(o).source # "CALLBACK"
    BY DEF ProviderKey, Reference
  <2> QED BY <1>3, <2>1, <2>2, ReferenceAdded
<1>4. ASSUME ReceiptsInv, NEW c \in Calls("reference"), RecordProviderReference(c) PROVE ReceiptsInv'
  <2> DEFINE ref == [value |-> c.value, operation |-> c.operation, source |-> "RECORDED"]
  <2>1. references' = references \cup {ref} /\ receipts' = receipts
    BY <1>4 DEF RecordProviderReference
  <2>2. ref \in Reference /\ ref.source # "CALLBACK"
    BY ExternalAssumption DEF Reference, Calls
  <2> HIDE DEF ref
  <2> QED BY <1>4, <2>1, <2>2, ReferenceAdded
<1>5. ASSUME ReceiptsInv, BaseInv, Next PROVE ReceiptsInv'
  <2>1. \A op : \A c \in Asking(op) : c \in Calls(op)
    BY <1>5, AskingIsCalling
  <2>2. \/ UNCHANGED <<references, receipts>>
        \/ \E c \in Asking("create") : Create(c)
        \/ \E c \in Asking("reference") : RecordProviderReference(c)
        \/ \E c \in Asking("callback") : Ingest(c) \/ Reject(c)
    BY <1>5 DEF Next, CreateAgain, TransitionOperation, IngestAgain, BeginAttempt, MarkOutcome,
                SubmitAttempt, AbandonAttempt, ReportOutcome, GetCircuit, OpenWindowPasses,
                Restart, Expire, table
  <2> QED BY <1>2, <1>3, <1>4, <1>5, <2>1, <2>2, IngestKeeps, RejectKeeps
<1> QED BY <1>1, <1>2, <1>5, SettlementStep

(* An event has one receipt, and an accepted receipt is the only one of    *)
(* the reference it added: a callback sent again, at any time, adds        *)
(* nothing.                                                                *)
THEOREM Evidence == SettlementSpec => []ReceiptsAreEvidence
<1>1. ASSUME ReceiptsInv, NEW r \in references, r.source = "CALLBACK"
      PROVE  Cardinality({s \in receipts : s.status = "RECEIVED" /\ s.callback.value = r.value}) = 1
  <2> DEFINE S == {s \in receipts : s.status = "RECEIVED" /\ s.callback.value = r.value}
  <2>1. S # {} /\ \A s, t \in S : s = t
    BY <1>1 DEF ReceiptsInv
  <2> HIDE DEF S
  <2>2. Cardinality(S) = 1
    BY <2>1, CountOfAtMostOne
  <2> QED BY <2>2 DEF S
<1>2. ReceiptsInv => ReceiptsAreEvidence
  BY <1>1, Zenon DEF ReceiptsInv, ReceiptsAreEvidence, CallbackReference
<1> QED BY <1>2, ReceiptsInductive, BaseInductive, PTL DEF SettlementSpec

-----------------------------------------------------------------------------
(* The circuit *)

(* The circuit holds what it can hold. *)
BreakerInv ==
  /\ {"state", "failures"} \subseteq DOMAIN breaker
  /\ breaker.state \in {"CLOSED", "OPEN", "HALF_OPEN"} /\ breaker.failures \in 0..Threshold

(* Every step keeps its failures to the threshold. *)
LEMMA BreakerInductive ==
  /\ SettlementInit => BreakerInv
  /\ BreakerInv /\ [SettlementNext]_allvars => BreakerInv'
<1>1. SettlementInit => BreakerInv
  BY ExternalAssumption DEF SettlementInit, Init, Closed, BreakerInv
<1>2. ASSUME BreakerInv, UNCHANGED breaker PROVE BreakerInv'
  BY <1>2 DEF BreakerInv
<1>3. ASSUME BreakerInv, AllowAttempt PROVE BreakerInv'
  BY <1>3 DEF BreakerInv, AllowAttempt
<1>4. ASSUME breaker' = Closed PROVE BreakerInv'
  BY <1>4, ExternalAssumption DEF BreakerInv, Closed
<1>5. ASSUME BreakerInv, RecordFailure PROVE BreakerInv'
  <2> DEFINE failures == IF breaker.failures < Threshold THEN breaker.failures + 1 ELSE Threshold
             open == [state |-> "OPEN", failures |-> failures, probe |-> FALSE, due |-> FALSE]
             counted == [breaker EXCEPT !.failures = failures, !.probe = FALSE]
  <2>1. breaker' = open \/ breaker' = counted
    BY <1>5 DEF RecordFailure
  <2>2. failures \in 0..Threshold
    BY <1>5, ExternalAssumption DEF BreakerInv
  <2> HIDE DEF failures
  <2>3. CASE breaker' = open
    BY <2>2, <2>3 DEF BreakerInv
  <2>4. CASE breaker' = counted
    <3>1. /\ DOMAIN counted = DOMAIN breaker
          /\ counted.failures = failures /\ counted.state = breaker.state
      BY <1>5 DEF BreakerInv
    <3>2. breaker.state \in {"CLOSED", "OPEN", "HALF_OPEN"}
      BY <1>5 DEF BreakerInv
    <3> HIDE DEF counted
    <3> QED BY <1>5, <2>2, <2>4, <3>1, <3>2 DEF BreakerInv
  <2> QED BY <2>1, <2>3, <2>4
<1>6. ASSUME BreakerInv, GetCircuit PROVE BreakerInv'
  BY <1>6 DEF BreakerInv, GetCircuit
<1>7. ASSUME BreakerInv, OpenWindowPasses PROVE BreakerInv'
  BY <1>7 DEF BreakerInv, OpenWindowPasses
<1>8. Next => \/ UNCHANGED breaker
              \/ AllowAttempt
              \/ breaker' = Closed
              \/ RecordFailure
              \/ GetCircuit
              \/ OpenWindowPasses
  BY DEF Next, Create, CreateAgain, RecordProviderReference, TransitionOperation, Ingest, Reject,
         IngestAgain, BeginAttempt, MarkOutcome, SubmitAttempt, AbandonAttempt, ReportOutcome,
         RecordSuccess, Restart, Expire, process
<1> QED BY <1>1, <1>2, <1>3, <1>4, <1>5, <1>6, <1>7, <1>8, SettlementStep

(* Every table, and the process, holds what it can hold. *)
LEMMA OperationTypes == BaseInv /\ RecordsInv /\ ReceiptsInv /\ BreakerInv => TypeOK
BY DEF BaseInv, RecordsInv, ReceiptsInv, BreakerInv, TypeOK, Reference

-----------------------------------------------------------------------------
(* Settlements and journals *)

(* A settlement's row. *)
IsSettlement(s) ==
  /\ {"operation", "decision", "status", "journal", "key"} \subseteq DOMAIN s
  /\ s.operation \in Operation /\ s.key \in KeptKeys
  /\ s.decision \in {"SETTLE", "REJECT"} /\ s.status \in {"POSTED", "REVERSED"}
  /\ s.journal = (s.decision = "SETTLE")

(* The journal a settlement is posted by. *)
JournalOf(s) == Journal(s.key, s.operation, None)

(* A settlement to its journals, and they to it. *)
JournalsInv ==
  /\ \A s \in settlements : IsSettlement(s)
  /\ \A s, t \in settlements : s.operation = t.operation => s = t
  /\ \A j \in journals : j.key \in KeptKeys /\ j.operation \in Operation
  /\ \A j \in journals : j.reverses = None =>
       \E s \in settlements : s.decision = "SETTLE" /\ j = JournalOf(s)
  /\ \A s \in settlements : s.decision = "SETTLE" => JournalOf(s) \in journals
  /\ \A j \in journals : j.reverses # None =>
       \E s \in settlements : s.operation = j.operation /\ s.status = "REVERSED"
  /\ \A s \in settlements : s.status = "REVERSED" =>
       s.decision = "SETTLE" /\ \E j \in journals : j.operation = s.operation /\ j.reverses = s.key
  /\ \A i, j \in journals :
       i.reverses # None /\ j.reverses # None /\ i.operation = j.operation => i = j

Entry == [operation : Operation, status : {"OPEN", "HELD", "CLEARED"}, settled : Operation \cup {None}]

(* The suspense entries to the settlements. *)
SuspenseInv ==
  /\ suspense \in Seq(Entry)
  /\ \A i \in DOMAIN suspense : suspense[i].status = "CLEARED" <=> suspense[i].settled # None
  /\ \A i, k \in DOMAIN suspense :
       suspense[i].settled # None /\ suspense[k].settled = suspense[i].settled => i = k
  /\ \A i \in DOMAIN suspense : suspense[i].settled # None =>
       \E s \in settlements : s.operation = suspense[i].settled /\ s.status = "REVERSED"
  /\ \A s \in settlements : s.status = "REVERSED" =>
       \E i \in DOMAIN suspense : suspense[i].settled = s.operation
  /\ \A s \in settlements : s.decision = "REJECT" =>
       \E i \in DOMAIN suspense : suspense[i].operation = s.operation

(* A call of the settlement service names an operation. *)
LEMMA SettlementCalls ==
  /\ \A c \in Calls("settle") : c.operation \in Operation /\ SettlementKey(c) \in KeptKeys
  /\ \A c \in Calls("suspend") : c.operation \in Operation
  /\ \A c \in Calls("compensate") : CompensatingKey(c) \in KeptKeys
BY ExternalAssumption DEF Calls, KeptKeys

(* The row of a settlement that is posted, and of one that is refused. *)
PostedRow(c) == SettlementRow(c, "SETTLE", TRUE)
RefusedRow(c) == SettlementRow(c, "REJECT", FALSE)

(* Both are settlement rows. *)
LEMMA SettlementRowIs ==
  ASSUME NEW c \in Calls("settle")
  PROVE  /\ IsSettlement(PostedRow(c)) /\ PostedRow(c).operation = c.operation
         /\ PostedRow(c).decision = "SETTLE" /\ PostedRow(c).status = "POSTED"
         /\ PostedRow(c).key = SettlementKey(c)
         /\ IsSettlement(RefusedRow(c)) /\ RefusedRow(c).operation = c.operation
         /\ RefusedRow(c).decision = "REJECT" /\ RefusedRow(c).status = "POSTED"
<1>1. c.operation \in Operation /\ SettlementKey(c) \in KeptKeys
  BY SettlementCalls
<1>2. /\ PostedRow(c).operation = c.operation
      /\ PostedRow(c).decision = "SETTLE" /\ PostedRow(c).status = "POSTED"
      /\ PostedRow(c).key = SettlementKey(c) /\ PostedRow(c).journal
      /\ {"operation", "decision", "status", "journal", "key"} \subseteq DOMAIN PostedRow(c)
  BY DEF PostedRow, SettlementRow
<1>3. PostedRow(c).journal = TRUE
  BY DEF PostedRow, SettlementRow
<1>4. /\ RefusedRow(c).operation = c.operation
      /\ RefusedRow(c).decision = "REJECT" /\ RefusedRow(c).status = "POSTED"
      /\ RefusedRow(c).key = SettlementKey(c)
      /\ {"operation", "decision", "status", "journal", "key"} \subseteq DOMAIN RefusedRow(c)
  BY DEF RefusedRow, SettlementRow
<1>5. RefusedRow(c).journal = FALSE
  BY DEF RefusedRow, SettlementRow
<1>6. IsSettlement(PostedRow(c))
  BY <1>1, <1>2, <1>3 DEF IsSettlement
<1>7. IsSettlement(RefusedRow(c))
  BY <1>1, <1>4, <1>5 DEF IsSettlement
<1> QED BY <1>2, <1>4, <1>6, <1>7

(* What a journal is of. *)
LEMMA JournalIs ==
  ASSUME NEW key, NEW o, NEW reverses
  PROVE  /\ Journal(key, o, reverses).key = key
         /\ Journal(key, o, reverses).operation = o
         /\ Journal(key, o, reverses).reverses = reverses
BY DEF Journal

(* A settlement is posted for an operation that has none. *)
LEMMA SettleKeeps ==
  ASSUME JournalsInv, NEW c \in Calls("settle"), Settle(c)
  PROVE  JournalsInv'
<1> DEFINE new == PostedRow(c)
           posted == Journal(SettlementKey(c), c.operation, None)
<1>1. /\ journals' = journals \cup {posted}
      /\ settlements' = settlements \cup {new}
      /\ Rows(c.operation) = {}
  BY DEF Settle, PostSettlementJournal, Settleable, PostedRow
<1>2. \A s \in settlements : s.operation # c.operation
  BY <1>1 DEF Rows
<1>3. /\ IsSettlement(new) /\ new.operation = c.operation /\ new.decision = "SETTLE"
      /\ new.status = "POSTED" /\ new.key = SettlementKey(c)
  BY SettlementRowIs
<1>4. /\ posted.key = SettlementKey(c) /\ posted.operation = c.operation /\ posted.reverses = None
      /\ posted = JournalOf(new)
  BY <1>3 DEF JournalOf, Journal
<1>5. c.operation \in Operation /\ SettlementKey(c) \in KeptKeys
  BY SettlementCalls
<1> HIDE DEF new, posted
<1>6. \A s \in settlements' : IsSettlement(s)
  BY <1>1, <1>3 DEF JournalsInv
<1>7. \A s, t \in settlements' : s.operation = t.operation => s = t
  BY <1>1, <1>2, <1>3 DEF JournalsInv
<1>8. \A j \in journals' : j.key \in KeptKeys /\ j.operation \in Operation
  BY <1>1, <1>4, <1>5 DEF JournalsInv
<1>9. \A j \in journals' : j.reverses = None =>
        \E s \in settlements' : s.decision = "SETTLE" /\ j = JournalOf(s)
  BY <1>1, <1>3, <1>4 DEF JournalsInv
<1>10. \A s \in settlements' : s.decision = "SETTLE" => JournalOf(s) \in journals'
  BY <1>1, <1>4 DEF JournalsInv
<1>11. \A j \in journals' : j.reverses # None =>
         \E s \in settlements' : s.operation = j.operation /\ s.status = "REVERSED"
  BY <1>1, <1>4 DEF JournalsInv
<1>12. \A s \in settlements' : s.status = "REVERSED" =>
         s.decision = "SETTLE" /\ \E j \in journals' : j.operation = s.operation /\ j.reverses = s.key
  BY <1>1, <1>3 DEF JournalsInv
<1>13. \A i, j \in journals' :
         i.reverses # None /\ j.reverses # None /\ i.operation = j.operation => i = j
  BY <1>1, <1>4 DEF JournalsInv
<1> QED BY <1>6, <1>7, <1>8, <1>9, <1>10, <1>11, <1>12, <1>13 DEF JournalsInv

(* A rejected outcome has a row, and no journal. *)
Refuses(c) ==
  /\ Rows(c.operation) = {}
  /\ settlements' = settlements \cup {RefusedRow(c)}
  /\ Suspend(SuspenseRow(c.operation, "HELD")) \/ Suspend(SuspenseRow(c.operation, "OPEN"))
  /\ UNCHANGED journals

(* A rejected outcome leaves the journals as they are. *)
LEMMA RefuseKeeps ==
  ASSUME JournalsInv, NEW c \in Calls("settle"), Refuses(c)
  PROVE  JournalsInv'
<1> DEFINE new == RefusedRow(c)
<1>1. /\ journals' = journals
      /\ settlements' = settlements \cup {new}
      /\ \A s \in settlements : s.operation # c.operation
  BY DEF Refuses, Rows
<1>2. /\ IsSettlement(new) /\ new.operation = c.operation /\ new.decision = "REJECT"
      /\ new.status = "POSTED"
  BY SettlementRowIs
<1> HIDE DEF new
<1>3. \A s, t \in settlements' : s.operation = t.operation => s = t
  BY <1>1, <1>2 DEF JournalsInv
<1> QED BY <1>1, <1>2, <1>3 DEF JournalsInv

(* What a compensation does: the settlement it reverses and the entry it   *)
(* clears.                                                                 *)
Reverses(c, s) ==
  /\ s \in settlements /\ c.entry \in DOMAIN suspense
  /\ Compensable(c, s) /\ Reversible(s)
  /\ journals' = journals \cup {Journal(CompensatingKey(c), s.operation, s.key)}
  /\ settlements' = (settlements \ {s}) \cup {[s EXCEPT !.status = "REVERSED"]}
  /\ ClearSuspense(c)

(* The row of a reversed settlement. *)
LEMMA ReversedIs ==
  ASSUME NEW s, IsSettlement(s)
  PROVE  LET r == [s EXCEPT !.status = "REVERSED"]
         IN  /\ IsSettlement(r) /\ r.operation = s.operation /\ r.decision = s.decision
             /\ r.status = "REVERSED" /\ r.key = s.key /\ JournalOf(r) = JournalOf(s)
<1> DEFINE r == [s EXCEPT !.status = "REVERSED"]
<1>1. /\ DOMAIN r = DOMAIN s /\ r.operation = s.operation /\ r.decision = s.decision
      /\ r.status = "REVERSED" /\ r.key = s.key /\ r.journal = s.journal
  BY DEF IsSettlement
<1> HIDE DEF r
<1>2. IsSettlement(r) /\ JournalOf(r) = JournalOf(s)
  BY <1>1 DEF IsSettlement, JournalOf
<1> QED BY <1>1, <1>2 DEF r

(* A settlement is reversed once, by a journal that names its own. *)
LEMMA CompensateKeeps ==
  ASSUME JournalsInv, NEW c \in Calls("compensate"), NEW s, Reverses(c, s)
  PROVE  JournalsInv'
<1> DEFINE r == [s EXCEPT !.status = "REVERSED"]
           back == Journal(CompensatingKey(c), s.operation, s.key)
<1>1. /\ s \in settlements /\ s.status # "REVERSED" /\ s.journal /\ IsSettlement(s)
      /\ journals' = journals \cup {back}
      /\ settlements' = (settlements \ {s}) \cup {r}
  BY DEF Reverses, Compensable, JournalsInv
<1>2. s.decision = "SETTLE" /\ s.operation \in Operation /\ s.key # None
  BY <1>1, SettlementAssumption DEF IsSettlement
<1>3. /\ IsSettlement(r) /\ r.operation = s.operation /\ r.decision = "SETTLE"
      /\ r.status = "REVERSED" /\ r.key = s.key /\ JournalOf(r) = JournalOf(s)
  BY <1>1, <1>2, ReversedIs
<1>4. /\ back.key \in KeptKeys /\ back.operation = s.operation /\ back.reverses = s.key
  BY JournalIs, SettlementCalls
<1> HIDE DEF r, back
<1>5. \A t \in settlements : t # s => t.operation # s.operation
  BY <1>1 DEF JournalsInv
<1>6. \A j \in journals : j.reverses # None => j.operation # s.operation
  BY <1>1, <1>5 DEF JournalsInv
<1>7. \A t \in settlements' : IsSettlement(t)
  BY <1>1, <1>3 DEF JournalsInv
<1>8. \A t, u \in settlements' : t.operation = u.operation => t = u
  BY <1>1, <1>3, <1>5 DEF JournalsInv
<1>9. \A j \in journals' : j.key \in KeptKeys /\ j.operation \in Operation
  BY <1>1, <1>2, <1>4 DEF JournalsInv
<1>10. \A j \in journals' : j.reverses = None =>
         \E t \in settlements' : t.decision = "SETTLE" /\ j = JournalOf(t)
  <2>1. ASSUME NEW j \in journals, j.reverses = None
        PROVE  \E t \in settlements' : t.decision = "SETTLE" /\ j = JournalOf(t)
    <3>1. PICK t \in settlements : t.decision = "SETTLE" /\ j = JournalOf(t)
      BY <2>1 DEF JournalsInv
    <3> QED BY <1>1, <1>3, <3>1
  <2> QED BY <1>1, <1>2, <1>4, <2>1
<1>11. \A t \in settlements' : t.decision = "SETTLE" => JournalOf(t) \in journals'
  BY <1>1, <1>2, <1>3 DEF JournalsInv
<1>12. \A j \in journals' : j.reverses # None =>
         \E t \in settlements' : t.operation = j.operation /\ t.status = "REVERSED"
  BY <1>1, <1>3, <1>4, <1>6 DEF JournalsInv
<1>13. \A t \in settlements' : t.status = "REVERSED" =>
         t.decision = "SETTLE" /\ \E j \in journals' : j.operation = t.operation /\ j.reverses = t.key
  BY <1>1, <1>3, <1>4 DEF JournalsInv
<1>14. \A i, j \in journals' :
         i.reverses # None /\ j.reverses # None /\ i.operation = j.operation => i = j
  BY <1>1, <1>4, <1>6 DEF JournalsInv
<1> QED BY <1>7, <1>8, <1>9, <1>10, <1>11, <1>12, <1>13, <1>14 DEF JournalsInv

-----------------------------------------------------------------------------
(* Suspense *)

(* A new entry comes last. *)
LEMMA SuspendIs ==
  ASSUME SuspenseInv, NEW row \in Entry, Suspend(row)
  PROVE  /\ suspense' \in Seq(Entry)
         /\ DOMAIN suspense' = DOMAIN suspense \cup {Len(suspense) + 1}
         /\ suspense'[Len(suspense) + 1] = row
         /\ \A i \in DOMAIN suspense : suspense'[i] = suspense[i]
<1>1. suspense \in Seq(Entry) /\ suspense' = Append(suspense, row)
  BY DEF SuspenseInv, Suspend
<1> QED BY <1>1

(* An entry that is open or held is of nobody's reversal. *)
LEMMA SuspenseRowIs ==
  ASSUME NEW o \in Operation, NEW status \in {"OPEN", "HELD"}
  PROVE  /\ SuspenseRow(o, status) \in Entry /\ SuspenseRow(o, status).settled = None
         /\ SuspenseRow(o, status).status # "CLEARED" /\ SuspenseRow(o, status).operation = o
BY DEF SuspenseRow, Entry

(* What a new entry adds to what the entries are to the settlements. *)
LEMMA EntryAdded ==
  ASSUME SuspenseInv, NEW o \in Operation, NEW status \in {"OPEN", "HELD"},
         Suspend(SuspenseRow(o, status)),
         \A s \in settlements' :
           \/ s \in settlements
           \/ s.decision = "REJECT" /\ s.status = "POSTED" /\ s.operation = o,
         settlements \subseteq settlements'
  PROVE  SuspenseInv'
<1> DEFINE row == SuspenseRow(o, status)
           n == Len(suspense) + 1
<1>1. row \in Entry /\ row.settled = None /\ row.status # "CLEARED" /\ row.operation = o
  BY SuspenseRowIs
<1>2. /\ suspense' \in Seq(Entry)
      /\ DOMAIN suspense' = DOMAIN suspense \cup {n} /\ suspense'[n] = row
      /\ \A i \in DOMAIN suspense : suspense'[i] = suspense[i]
  BY <1>1, SuspendIs
<1> HIDE DEF row, n
<1>3. \A i \in DOMAIN suspense' : suspense'[i].status = "CLEARED" <=> suspense'[i].settled # None
  BY <1>1, <1>2 DEF SuspenseInv
<1>4. \A i, k \in DOMAIN suspense' :
        suspense'[i].settled # None /\ suspense'[k].settled = suspense'[i].settled => i = k
  BY <1>1, <1>2 DEF SuspenseInv
<1>5. \A i \in DOMAIN suspense' : suspense'[i].settled # None =>
        \E s \in settlements' : s.operation = suspense'[i].settled /\ s.status = "REVERSED"
  BY <1>1, <1>2 DEF SuspenseInv
<1>6. \A s \in settlements' : s.status = "REVERSED" =>
        \E i \in DOMAIN suspense' : suspense'[i].settled = s.operation
  BY <1>1, <1>2 DEF SuspenseInv
<1>7. \A s \in settlements' : s.decision = "REJECT" =>
        \E i \in DOMAIN suspense' : suspense'[i].operation = s.operation
  BY <1>1, <1>2 DEF SuspenseInv
<1> QED BY <1>2, <1>3, <1>4, <1>5, <1>6, <1>7 DEF SuspenseInv

(* A cleared entry is the entry it was, of the settlement it names. *)
LEMMA ClearedIs ==
  ASSUME SuspenseInv, NEW c, c.entry \in DOMAIN suspense, c.settled \in Operation, ClearSuspense(c)
  PROVE  /\ suspense' \in Seq(Entry) /\ DOMAIN suspense' = DOMAIN suspense
         /\ suspense'[c.entry].operation = suspense[c.entry].operation
         /\ suspense'[c.entry].status = "CLEARED" /\ suspense'[c.entry].settled = c.settled
         /\ \A i \in DOMAIN suspense : i # c.entry => suspense'[i] = suspense[i]
<1> DEFINE e == suspense[c.entry]
           cleared == [e EXCEPT !.status = "CLEARED", !.settled = c.settled]
<1>1. suspense \in Seq(Entry) /\ e \in Entry
  BY DEF SuspenseInv
<1>2. suspense' = [suspense EXCEPT ![c.entry] = cleared]
  BY <1>1 DEF ClearSuspense
<1>3. /\ cleared \in Entry /\ cleared.operation = e.operation /\ cleared.status = "CLEARED"
      /\ cleared.settled = c.settled
  BY <1>1 DEF Entry
<1> HIDE DEF cleared
<1> QED BY <1>1, <1>2, <1>3

(* A settlement that is posted is no reversal, and no rejection. *)
LEMMA SettleKeepsSuspense ==
  ASSUME SuspenseInv, NEW c \in Calls("settle"), Settle(c)
  PROVE  SuspenseInv'
<1> DEFINE new == PostedRow(c)
<1>1. settlements' = settlements \cup {new} /\ suspense' = suspense
  BY DEF Settle, PostSettlementJournal, PostedRow
<1>2. new.decision = "SETTLE" /\ new.status = "POSTED"
  BY SettlementRowIs
<1> HIDE DEF new
<1> QED BY <1>1, <1>2 DEF SuspenseInv

(* A rejection comes with its entry. *)
LEMMA RefuseKeepsSuspense ==
  ASSUME SuspenseInv, NEW c \in Calls("settle"), Refuses(c)
  PROVE  SuspenseInv'
<1>1. PICK status \in {"OPEN", "HELD"} : Suspend(SuspenseRow(c.operation, status))
  BY DEF Refuses
<1>2. /\ RefusedRow(c).decision = "REJECT" /\ RefusedRow(c).status = "POSTED"
      /\ RefusedRow(c).operation = c.operation /\ c.operation \in Operation
  BY SettlementRowIs, SettlementCalls
<1>3. settlements' = settlements \cup {RefusedRow(c)}
  BY DEF Refuses
<1> QED BY <1>1, <1>2, <1>3, EntryAdded

(* A reversal clears an entry that no other has cleared. *)
LEMMA CompensateKeepsSuspense ==
  ASSUME SuspenseInv, JournalsInv, NEW c, NEW s, Reverses(c, s)
  PROVE  SuspenseInv'
<1> DEFINE r == [s EXCEPT !.status = "REVERSED"]
           n == c.entry
<1>1. /\ s \in settlements /\ s.status # "REVERSED" /\ s.journal /\ IsSettlement(s)
      /\ n \in DOMAIN suspense /\ suspense[n].settled = None
      /\ s.operation = c.settled /\ s.decision = "SETTLE" /\ c.settled \in Operation
      /\ settlements' = (settlements \ {s}) \cup {r}
  BY DEF Reverses, Compensable, JournalsInv, IsSettlement
<1>2. /\ suspense' \in Seq(Entry) /\ DOMAIN suspense' = DOMAIN suspense
      /\ suspense'[n].operation = suspense[n].operation
      /\ suspense'[n].status = "CLEARED" /\ suspense'[n].settled = c.settled
      /\ \A i \in DOMAIN suspense : i # n => suspense'[i] = suspense[i]
  BY <1>1, ClearedIs DEF Reverses
<1>3. /\ r.operation = s.operation /\ r.decision = "SETTLE" /\ r.status = "REVERSED"
  BY <1>1, ReversedIs
<1>4. c.settled # None
  BY <1>1, ExternalAssumption
<1> HIDE DEF r, n
<1>5. \A i \in DOMAIN suspense : suspense[i].settled # c.settled
  <2>1. \A t \in settlements : t.operation = c.settled => t = s
    BY <1>1 DEF JournalsInv
  <2> QED BY <1>1, <1>4, <2>1 DEF SuspenseInv
<1>6. \A i \in DOMAIN suspense' : suspense'[i].status = "CLEARED" <=> suspense'[i].settled # None
  BY <1>2, <1>4 DEF SuspenseInv
<1>7. \A i, k \in DOMAIN suspense' :
        suspense'[i].settled # None /\ suspense'[k].settled = suspense'[i].settled => i = k
  BY <1>2, <1>5 DEF SuspenseInv
<1>8. \A i \in DOMAIN suspense' : suspense'[i].settled # None =>
        \E t \in settlements' : t.operation = suspense'[i].settled /\ t.status = "REVERSED"
  <2>1. ASSUME NEW i \in DOMAIN suspense, i # n, suspense[i].settled # None
        PROVE  \E t \in settlements' : t.operation = suspense'[i].settled /\ t.status = "REVERSED"
    <3>1. PICK t \in settlements : t.operation = suspense[i].settled /\ t.status = "REVERSED"
      BY <2>1 DEF SuspenseInv
    <3> QED BY <1>1, <1>2, <2>1, <3>1
  <2> QED BY <1>1, <1>2, <1>3, <2>1
<1>9. \A t \in settlements' : t.status = "REVERSED" =>
        \E i \in DOMAIN suspense' : suspense'[i].settled = t.operation
  <2>1. ASSUME NEW t \in settlements, t.status = "REVERSED"
        PROVE  \E i \in DOMAIN suspense' : suspense'[i].settled = t.operation
    <3>1. PICK i \in DOMAIN suspense : suspense[i].settled = t.operation
      BY <2>1 DEF SuspenseInv
    <3>2. i # n
      BY <1>1, <2>1, <3>1, ExternalAssumption DEF JournalsInv, IsSettlement
    <3> QED BY <1>2, <3>1, <3>2
  <2> QED BY <1>1, <1>2, <1>3, <2>1
<1>10. \A t \in settlements' : t.decision = "REJECT" =>
         \E i \in DOMAIN suspense' : suspense'[i].operation = t.operation
  <2>1. ASSUME NEW t \in settlements, t.decision = "REJECT"
        PROVE  \E i \in DOMAIN suspense' : suspense'[i].operation = t.operation
    <3>1. PICK i \in DOMAIN suspense : suspense[i].operation = t.operation
      BY <2>1 DEF SuspenseInv
    <3> QED BY <1>2, <3>1
  <2> QED BY <1>1, <1>3, <2>1
<1> QED BY <1>2, <1>6, <1>7, <1>8, <1>9, <1>10 DEF SuspenseInv

(* What a step does to settlements, journals and suspense. *)
LEMMA MoneyStep ==
  ASSUME BaseInv, [SettlementNext]_allvars
  PROVE  \/ UNCHANGED <<settlements, journals, suspense>>
         \/ \E c \in Calls("settle") : Settle(c) \/ Refuses(c)
         \/ \E c \in Calls("suspend") :
              Suspend(SuspenseRow(c.operation, "OPEN")) /\ UNCHANGED <<settlements, journals>>
         \/ \E c \in Calls("compensate") : \E s : Reverses(c, s)
<1>1. \A op : \A c \in Asking(op) : c \in Calls(op)
  BY AskingIsCalling
<1>2. \A c : RejectSettlement(c) \/ MissEvidence(c) => Refuses(c)
  BY DEF RejectSettlement, MissEvidence, Refuses, Settleable, RefusedRow
<1>3. \A c : RecordSuspense(c) =>
        Suspend(SuspenseRow(c.operation, "OPEN")) /\ UNCHANGED <<settlements, journals>>
  BY DEF RecordSuspense
<1>4. \A c : Compensate(c) => \E s : Reverses(c, s)
  BY DEF Compensate, Reverses
<1>5. \A k : ExpireSettlement(k) => UNCHANGED <<settlements, journals, suspense>>
  BY DEF ExpireSettlement
<1> QED BY <1>1, <1>2, <1>3, <1>4, <1>5 DEF SettlementNext, allvars, settlement

(* What settlements, their journals and suspense keep to. *)
MoneyInv == BaseInv /\ JournalsInv /\ SuspenseInv

(* Every step keeps it. *)
LEMMA MoneyInductive ==
  /\ SettlementInit => MoneyInv
  /\ MoneyInv /\ [SettlementNext]_allvars => MoneyInv'
<1>1. SettlementInit => JournalsInv /\ SuspenseInv
  BY DEF SettlementInit, JournalsInv, SuspenseInv
<1>2. ASSUME MoneyInv, UNCHANGED <<settlements, journals, suspense>>
      PROVE  JournalsInv' /\ SuspenseInv'
  BY <1>2 DEF MoneyInv, JournalsInv, SuspenseInv
<1>3. ASSUME MoneyInv, NEW c \in Calls("suspend"),
             Suspend(SuspenseRow(c.operation, "OPEN")), UNCHANGED <<settlements, journals>>
      PROVE  JournalsInv' /\ SuspenseInv'
  <2>1. JournalsInv'
    BY <1>3 DEF MoneyInv, JournalsInv
  <2>2. SuspenseInv'
    BY <1>3, EntryAdded, SettlementCalls DEF MoneyInv
  <2> QED BY <2>1, <2>2
<1>4. MoneyInv /\ [SettlementNext]_allvars => JournalsInv' /\ SuspenseInv'
  BY <1>2, <1>3, MoneyStep, SettleKeeps, RefuseKeeps, CompensateKeeps, SettleKeepsSuspense,
     RefuseKeepsSuspense, CompensateKeepsSuspense DEF MoneyInv
<1> QED BY <1>1, <1>4, BaseInductive DEF MoneyInv

(* Every table holds what it can hold, the process too. *)
THEOREM SettlementTypes == SettlementSpec => []SettlementTypeOK
<1>1. MoneyInv => \A i \in DOMAIN suspense : suspense[i] \in Entry
  BY DEF MoneyInv, SuspenseInv
<1>2. MoneyInv /\ RecordsInv /\ ReceiptsInv /\ BreakerInv => SettlementTypeOK
  BY <1>1, OperationTypes DEF MoneyInv, JournalsInv, IsSettlement, Entry, SettlementTypeOK
<1> QED
  BY <1>2, MoneyInductive, RecordsInductive, ReceiptsInductive, BreakerInductive, BaseInductive, PTL
  DEF SettlementSpec

(* The settlements of an operation that are posted, and reversed. *)
SettledRows(o) == {s \in Rows(o) : s.decision = "SETTLE"}
ReversedRows(o) == {s \in Rows(o) : s.status = "REVERSED"}

(* One settlement of an operation, one journal, one reversal, at most. *)
LEMMA OneOfEach ==
  ASSUME JournalsInv, NEW o \in Operation
  PROVE  /\ \A s, t \in Rows(o) : s = t
         /\ \A i, j \in Posted(o) : i = j
         /\ \A i, j \in Returned(o) : i = j
         /\ Posted(o) = {} <=> SettledRows(o) = {}
         /\ Returned(o) = {} <=> ReversedRows(o) = {}
<1>1. \A s, t \in Rows(o) : s = t
  BY DEF JournalsInv, Rows
<1>2. \A j \in Posted(o) : \E s \in SettledRows(o) : j = JournalOf(s)
  <2>1. SUFFICES ASSUME NEW j \in Posted(o)
                 PROVE  \E s \in SettledRows(o) : j = JournalOf(s)
    OBVIOUS
  <2>2. PICK s \in settlements : s.decision = "SETTLE" /\ j = JournalOf(s)
    BY <2>1 DEF Posted, JournalsInv
  <2>3. s.operation = o
    BY <2>1, <2>2, JournalIs DEF Posted, JournalOf
  <2> QED BY <2>2, <2>3 DEF SettledRows, Rows
<1>3. \A s \in SettledRows(o) : JournalOf(s) \in Posted(o)
  BY JournalIs DEF SettledRows, Rows, Posted, JournalOf, JournalsInv
<1>4. \A i, j \in Posted(o) : i = j
  BY <1>1, <1>2 DEF SettledRows
<1>5. \A i, j \in Returned(o) : i = j
  BY DEF Returned, JournalsInv
<1>6. \A j \in Returned(o) : \E s \in Rows(o) : s.status = "REVERSED"
  BY DEF Returned, Rows, JournalsInv
<1>7. \A s \in ReversedRows(o) : \E j \in journals : j.operation = o /\ j.reverses # None
  BY SettlementAssumption DEF ReversedRows, Rows, JournalsInv, IsSettlement
<1>8. Returned(o) = {} <=> ReversedRows(o) = {}
  BY <1>6, <1>7 DEF Returned, ReversedRows
<1> QED BY <1>1, <1>2, <1>3, <1>4, <1>5, <1>8

(* An operation is settled once, and the ledger says what its settlement   *)
(* says: a journal when it was to settle, a reversal of it when the        *)
(* settlement is reversed.                                                 *)
THEOREM Money == SettlementSpec => []MoneyFollowsSettlement
<1>1. ASSUME JournalsInv, NEW o \in Operation
      PROVE  /\ Cardinality(Rows(o)) <= 1
             /\ Cardinality(Posted(o)) = Cardinality(SettledRows(o))
             /\ Cardinality(Returned(o)) = Cardinality(ReversedRows(o))
  <2>1. /\ \A s, t \in Rows(o) : s = t
        /\ \A s, t \in SettledRows(o) : s = t
        /\ \A s, t \in ReversedRows(o) : s = t
        /\ \A i, j \in Posted(o) : i = j
        /\ \A i, j \in Returned(o) : i = j
        /\ Posted(o) = {} <=> SettledRows(o) = {}
        /\ Returned(o) = {} <=> ReversedRows(o) = {}
    BY <1>1, OneOfEach DEF SettledRows, ReversedRows
  <2>2. Cardinality(Rows(o)) = IF Rows(o) = {} THEN 0 ELSE 1
    BY <2>1, CountOfAtMostOne
  <2>3. /\ Cardinality(Posted(o)) = IF Posted(o) = {} THEN 0 ELSE 1
        /\ Cardinality(SettledRows(o)) = IF SettledRows(o) = {} THEN 0 ELSE 1
    BY <2>1, CountOfAtMostOne
  <2>4. /\ Cardinality(Returned(o)) = IF Returned(o) = {} THEN 0 ELSE 1
        /\ Cardinality(ReversedRows(o)) = IF ReversedRows(o) = {} THEN 0 ELSE 1
    BY <2>1, CountOfAtMostOne
  <2> QED BY <2>1, <2>2, <2>3, <2>4
<1>2. MoneyInv => MoneyFollowsSettlement
  BY <1>1, Zenon DEF MoneyInv, MoneyFollowsSettlement, SettledRows, ReversedRows
<1> QED BY <1>2, MoneyInductive, PTL DEF SettlementSpec

(* A suspense entry is cleared by the reversal of one settlement, and each *)
(* reversed settlement has cleared one entry.                              *)
THEOREM Cleared == SettlementSpec => []SuspenseFollowsReversals
<1>1. ASSUME MoneyInv, NEW o \in Operation
      PROVE  Cardinality({i \in DOMAIN suspense : suspense[i].settled = o})
               = Cardinality(ReversedRows(o))
  <2> DEFINE C == {i \in DOMAIN suspense : suspense[i].settled = o}
  <2>1. \A i, k \in C : i = k
    BY <1>1, ExternalAssumption DEF MoneyInv, SuspenseInv
  <2>2. \A s, t \in ReversedRows(o) : s = t
    BY <1>1, OneOfEach DEF MoneyInv, ReversedRows
  <2>3. C # {} => ReversedRows(o) # {}
    BY <1>1, ExternalAssumption DEF MoneyInv, SuspenseInv, ReversedRows, Rows
  <2>4. ReversedRows(o) # {} => C # {}
    BY <1>1 DEF MoneyInv, SuspenseInv, ReversedRows, Rows
  <2> HIDE DEF C
  <2>5. Cardinality(C) = IF C = {} THEN 0 ELSE 1
    BY <2>1, CountOfAtMostOne
  <2>6. Cardinality(ReversedRows(o)) = IF ReversedRows(o) = {} THEN 0 ELSE 1
    BY <2>2, CountOfAtMostOne
  <2>7. Cardinality(C) = Cardinality(ReversedRows(o))
    BY <2>3, <2>4, <2>5, <2>6
  <2> QED BY <2>7 DEF C
<1>2. MoneyInv => SuspenseFollowsReversals
  BY <1>1, Zenon DEF MoneyInv, SuspenseInv, SuspenseFollowsReversals, ReversedRows
<1> QED BY <1>2, MoneyInductive, PTL DEF SettlementSpec

(* The amount of a rejected outcome is in suspense from the moment it is   *)
(* rejected.                                                               *)
THEOREM Suspended == SettlementSpec => []RejectionsAreSuspended
<1>1. MoneyInv => RejectionsAreSuspended
  BY DEF MoneyInv, SuspenseInv, RejectionsAreSuspended
<1> QED BY <1>1, MoneyInductive, PTL DEF SettlementSpec

-----------------------------------------------------------------------------
(* The settlements implement AtomicSettlement *)

(* What an operation comes to, by its settlement. *)
Fits(o, outcome, paid) ==
  \/ Rows(o) = {} /\ outcome = "none" /\ paid = 0
  \/ \E s \in Rows(o) :
       \/ s.decision = "REJECT" /\ outcome = "rejected" /\ paid = 0
       \/ s.decision = "SETTLE" /\ s.status = "POSTED" /\ outcome = "settled" /\ paid = 1
       \/ s.decision = "SETTLE" /\ s.status = "REVERSED" /\ outcome = "reversed" /\ paid = 0
AllFit == \A o \in Operation : Fits(o, Outcome[o], Paid[o])

(* The outcome is the settlement's, and what is paid goes with it. *)
LEMMA OutcomesFit == JournalsInv => AllFit
<1>1. SUFFICES ASSUME JournalsInv, NEW o \in Operation PROVE Fits(o, Outcome[o], Paid[o])
  BY DEF AllFit
<1>2. /\ \A s, t \in Rows(o) : s = t
      /\ \A i, j \in Posted(o) : i = j
      /\ \A i, j \in Returned(o) : i = j
      /\ Posted(o) = {} <=> SettledRows(o) = {}
      /\ Returned(o) = {} <=> ReversedRows(o) = {}
  BY <1>1, OneOfEach
<1>3. /\ Cardinality(Posted(o)) = IF Posted(o) = {} THEN 0 ELSE 1
      /\ Cardinality(Returned(o)) = IF Returned(o) = {} THEN 0 ELSE 1
  BY <1>2, CountOfAtMostOne
<1>4. Paid[o] = Cardinality(Posted(o)) - Cardinality(Returned(o))
  BY <1>1 DEF Paid
<1>5. CASE Rows(o) = {}
  <2>1. SettledRows(o) = {} /\ ReversedRows(o) = {}
    BY <1>5 DEF SettledRows, ReversedRows
  <2>2. Outcome[o] = "none"
    BY <1>1, <1>5 DEF Outcome
  <2> QED BY <1>2, <1>3, <1>4, <1>5, <2>1, <2>2 DEF Fits
<1>6. CASE Rows(o) # {}
  <2>1. PICK s \in Rows(o) : TRUE
    BY <1>6
  <2>2. /\ s.decision \in {"SETTLE", "REJECT"} /\ s.status \in {"POSTED", "REVERSED"}
        /\ s.status = "REVERSED" => s.decision = "SETTLE"
    BY <1>1, <2>1 DEF JournalsInv, IsSettlement, Rows
  <2>3. \A t \in Rows(o) : t = s
    BY <1>2, <2>1
  <2>4. CASE s.decision = "REJECT"
    <3>1. SettledRows(o) = {} /\ ReversedRows(o) = {}
      BY <2>2, <2>3, <2>4 DEF SettledRows, ReversedRows
    <3>2. Outcome[o] = "rejected"
      BY <1>1, <1>6, <2>1, <2>3, <2>4 DEF Outcome
    <3> QED BY <1>2, <1>3, <1>4, <2>1, <2>4, <3>1, <3>2 DEF Fits
  <2>5. CASE s.decision = "SETTLE" /\ s.status = "POSTED"
    <3>1. SettledRows(o) # {} /\ ReversedRows(o) = {}
      BY <2>1, <2>3, <2>5 DEF SettledRows, ReversedRows
    <3>2. Outcome[o] = "settled"
      BY <1>1, <1>6, <2>1, <2>3, <2>5 DEF Outcome
    <3> QED BY <1>2, <1>3, <1>4, <2>1, <2>5, <3>1, <3>2 DEF Fits
  <2>6. CASE s.decision = "SETTLE" /\ s.status = "REVERSED"
    <3>1. SettledRows(o) # {} /\ ReversedRows(o) # {}
      BY <2>1, <2>6 DEF SettledRows, ReversedRows
    <3>2. Outcome[o] = "reversed"
      BY <1>1, <1>6, <2>1, <2>3, <2>6 DEF Outcome
    <3> QED BY <1>2, <1>3, <1>4, <2>1, <2>6, <3>1, <3>2 DEF Fits
  <2> QED BY <2>2, <2>4, <2>5, <2>6
<1> QED BY <1>5, <1>6

(* An operation whose rows and journals stay comes to what it came to. *)
LEMMA OutcomeStays ==
  ASSUME NEW o \in Operation, Rows(o)' = Rows(o), Posted(o)' = Posted(o), Returned(o)' = Returned(o)
  PROVE  Outcome'[o] = Outcome[o] /\ Paid'[o] = Paid[o]
BY DEF Outcome, Paid

(* A step that moves one operation is a step of the abstract one. *)
LEMMA OneOutcomeMoves ==
  ASSUME NEW o \in Operation, NEW outcome, NEW paid,
         Outcome'[o] = outcome, Paid'[o] = paid,
         \A q \in Operation : q # o => Outcome'[q] = Outcome[q] /\ Paid'[q] = Paid[q]
  PROVE  Outcome' = [Outcome EXCEPT ![o] = outcome] /\ Paid' = [Paid EXCEPT ![o] = paid]
<1> DEFINE f == Outcome
           g == Paid
           f1 == Outcome'
           g1 == Paid'
<1>1. /\ f = [q \in Operation |-> f[q]] /\ f1 = [q \in Operation |-> f1[q]]
      /\ g = [q \in Operation |-> g[q]] /\ g1 = [q \in Operation |-> g1[q]]
  BY DEF Outcome, Paid
<1>2. f1[o] = outcome /\ g1[o] = paid /\ \A q \in Operation : q # o => f1[q] = f[q] /\ g1[q] = g[q]
  OBVIOUS
<1> HIDE DEF f, g, f1, g1
<1>3. f1 = [f EXCEPT ![o] = outcome] /\ g1 = [g EXCEPT ![o] = paid]
  BY <1>1, <1>2
<1> QED BY <1>3 DEF f, g, f1, g1

(* Settling an operation decides it. *)
LEMMA SettleDecides ==
  ASSUME JournalsInv, AllFit, AllFit', NEW c \in Calls("settle"), Settle(c)
  PROVE  Abstract!Decide(c.operation, "settled")
<1> DEFINE o == c.operation
           new == PostedRow(c)
           posted == Journal(SettlementKey(c), c.operation, None)
<1>1. /\ journals' = journals \cup {posted} /\ settlements' = settlements \cup {new} /\ Rows(o) = {}
  BY DEF Settle, PostSettlementJournal, Settleable, PostedRow
<1>2. /\ new.operation = o /\ new.decision = "SETTLE" /\ new.status = "POSTED"
      /\ posted.operation = o /\ o \in Operation
  BY SettlementRowIs, JournalIs, SettlementCalls
<1> HIDE DEF new, posted, o
<1>3. Rows(o)' = {new}
  BY <1>1, <1>2 DEF Rows
<1>4. \A q \in Operation : q # o => Outcome'[q] = Outcome[q] /\ Paid'[q] = Paid[q]
  <2>1. SUFFICES ASSUME NEW q \in Operation, q # o
                 PROVE  Outcome'[q] = Outcome[q] /\ Paid'[q] = Paid[q]
    OBVIOUS
  <2>2. Rows(q)' = Rows(q) /\ Posted(q)' = Posted(q) /\ Returned(q)' = Returned(q)
    BY <1>1, <1>2, <2>1 DEF Rows, Posted, Returned
  <2> QED BY <2>2, OutcomeStays
<1>5. Fits(o, Outcome[o], Paid[o]) /\ Fits(o, Outcome[o], Paid[o])'
  BY <1>2 DEF AllFit
<1>6. Outcome[o] = "none"
  BY <1>1, <1>5 DEF Fits
<1>7. Outcome'[o] = "settled" /\ Paid'[o] = 1
  BY <1>2, <1>3, <1>5 DEF Fits
<1>8. Outcome' = [Outcome EXCEPT ![o] = "settled"] /\ Paid' = [Paid EXCEPT ![o] = 1]
  BY <1>2, <1>4, <1>7, OneOutcomeMoves
<1>9. Abstract!Decide(o, "settled")
  BY <1>6, <1>8 DEF Abstract!Decide
<1> QED BY <1>9 DEF o

(* Rejecting one decides it. *)
LEMMA RefuseDecides ==
  ASSUME JournalsInv, AllFit, AllFit', NEW c \in Calls("settle"), Refuses(c)
  PROVE  Abstract!Decide(c.operation, "rejected")
<1> DEFINE o == c.operation
           new == RefusedRow(c)
<1>1. journals' = journals /\ settlements' = settlements \cup {new} /\ Rows(o) = {}
  BY DEF Refuses
<1>2. new.operation = o /\ new.decision = "REJECT" /\ o \in Operation
  BY SettlementRowIs, SettlementCalls
<1> HIDE DEF new, o
<1>3. Rows(o)' = {new}
  BY <1>1, <1>2 DEF Rows
<1>4. \A q \in Operation : q # o => Outcome'[q] = Outcome[q] /\ Paid'[q] = Paid[q]
  <2>1. SUFFICES ASSUME NEW q \in Operation, q # o
                 PROVE  Outcome'[q] = Outcome[q] /\ Paid'[q] = Paid[q]
    OBVIOUS
  <2>2. Rows(q)' = Rows(q) /\ Posted(q)' = Posted(q) /\ Returned(q)' = Returned(q)
    BY <1>1, <1>2, <2>1 DEF Rows, Posted, Returned
  <2> QED BY <2>2, OutcomeStays
<1>5. Fits(o, Outcome[o], Paid[o]) /\ Fits(o, Outcome[o], Paid[o])'
  BY <1>2 DEF AllFit
<1>6. Outcome[o] = "none"
  BY <1>1, <1>5 DEF Fits
<1>7. Outcome'[o] = "rejected" /\ Paid'[o] = 0
  BY <1>2, <1>3, <1>5 DEF Fits
<1>8. Outcome' = [Outcome EXCEPT ![o] = "rejected"] /\ Paid' = [Paid EXCEPT ![o] = 0]
  BY <1>2, <1>4, <1>7, OneOutcomeMoves
<1>9. Abstract!Decide(o, "rejected")
  BY <1>6, <1>8 DEF Abstract!Decide
<1> QED BY <1>9 DEF o

(* A compensation reverses the operation it names. *)
LEMMA CompensateReverses ==
  ASSUME JournalsInv, AllFit, AllFit', NEW c, NEW s, Reverses(c, s)
  PROVE  s.operation \in Operation /\ Abstract!Reverse(s.operation)
<1> DEFINE o == s.operation
           r == [s EXCEPT !.status = "REVERSED"]
           back == Journal(CompensatingKey(c), o, s.key)
<1>1. /\ s \in settlements /\ s.status # "REVERSED" /\ s.journal /\ IsSettlement(s)
      /\ journals' = journals \cup {back}
      /\ settlements' = (settlements \ {s}) \cup {r}
  BY DEF Reverses, Compensable, JournalsInv
<1>2. s.decision = "SETTLE" /\ s.status = "POSTED" /\ o \in Operation
  BY <1>1 DEF IsSettlement
<1>3. r.operation = o /\ r.decision = "SETTLE" /\ r.status = "REVERSED" /\ back.operation = o
  BY <1>1, <1>2, ReversedIs, JournalIs
<1>4. \A t \in settlements : t.operation = o => t = s
  BY <1>1 DEF JournalsInv
<1>5. s.operation = o
  OBVIOUS
<1> HIDE DEF r, back, o
<1>6. Rows(o) = {s} /\ Rows(o)' = {r}
  BY <1>1, <1>3, <1>4, <1>5 DEF Rows
<1>7. \A q \in Operation : q # o => Outcome'[q] = Outcome[q] /\ Paid'[q] = Paid[q]
  <2>1. SUFFICES ASSUME NEW q \in Operation, q # o
                 PROVE  Outcome'[q] = Outcome[q] /\ Paid'[q] = Paid[q]
    OBVIOUS
  <2>2. Rows(q)' = Rows(q) /\ Posted(q)' = Posted(q) /\ Returned(q)' = Returned(q)
    BY <1>1, <1>3, <1>5, <2>1 DEF Rows, Posted, Returned
  <2> QED BY <2>2, OutcomeStays
<1>8. Fits(o, Outcome[o], Paid[o]) /\ Fits(o, Outcome[o], Paid[o])'
  BY <1>2 DEF AllFit
<1>9. Outcome[o] = "settled"
  BY <1>2, <1>6, <1>8 DEF Fits
<1>10. Outcome'[o] = "reversed" /\ Paid'[o] = 0
  BY <1>3, <1>6, <1>8 DEF Fits
<1>11. Outcome' = [Outcome EXCEPT ![o] = "reversed"] /\ Paid' = [Paid EXCEPT ![o] = 0]
  BY <1>2, <1>7, <1>10, OneOutcomeMoves
<1>12. Abstract!Reverse(o)
  BY <1>9, <1>11 DEF Abstract!Reverse
<1> QED BY <1>2, <1>12 DEF o

(* The settlement service does what AtomicSettlement says: every step of   *)
(* it, and of the operations around it, decides one operation, reverses    *)
(* one that was settled, or changes no outcome.                            *)
THEOREM Settles == SettlementSpec => ImplementsAtomicSettlement
<1>1. SettlementInit => Abstract!Init
  <2>1. SUFFICES ASSUME SettlementInit PROVE Abstract!Init
    OBVIOUS
  <2>2. \A o \in Operation : Rows(o) = {} /\ Posted(o) = {} /\ Returned(o) = {}
    BY <2>1 DEF SettlementInit, Rows, Posted, Returned
  <2>3. \A o \in Operation : Cardinality(Posted(o)) = 0 /\ Cardinality(Returned(o)) = 0
    BY <2>2, FS_EmptySet
  <2>4. Outcome = [o \in Operation |-> "none"]
    BY <2>2 DEF Outcome
  <2>5. Paid = [o \in Operation |-> 0]
    BY <2>3 DEF Paid
  <2> QED BY <2>4, <2>5 DEF Abstract!Init
<1>2. JournalsInv' => AllFit'
  BY OutcomesFit, PTL
<1>3. ASSUME MoneyInv, MoneyInv', [SettlementNext]_allvars
      PROVE  Abstract!Next \/ UNCHANGED <<Outcome, Paid>>
  <2>1. JournalsInv /\ AllFit /\ AllFit'
    BY <1>2, <1>3, OutcomesFit DEF MoneyInv
  <2>2. CASE UNCHANGED <<settlements, journals>>
    BY <2>2 DEF Outcome, Paid, Rows, Posted, Returned
  <2>3. ASSUME NEW c \in Calls("settle"), Settle(c) \/ Refuses(c)
        PROVE  Abstract!Next
    <3>1. c.operation \in Operation
      BY SettlementCalls
    <3> QED BY <2>1, <2>3, <3>1, SettleDecides, RefuseDecides DEF Abstract!Next
  <2>4. ASSUME NEW c, NEW s, Reverses(c, s)
        PROVE  Abstract!Next
    BY <2>1, <2>4, CompensateReverses DEF Abstract!Next
  <2> QED BY <1>3, <2>2, <2>3, <2>4, MoneyStep DEF MoneyInv
<1> QED
  BY <1>1, <1>3, MoneyInductive, PTL DEF SettlementSpec, ImplementsAtomicSettlement, Abstract!Spec
=============================================================================
