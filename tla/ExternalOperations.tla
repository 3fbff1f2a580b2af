------------------------- MODULE ExternalOperations -------------------------
(***************************************************************************)
(* ExternalOperationService, ExternalOperationLifecycleService,            *)
(* PartnerCallbackIngestionService and PartnerCircuitBreakerService: the   *)
(* operations sent to a partner, what the partner says of them, and the    *)
(* circuit that admits attempts.                                           *)
(*                                                                         *)
(* A database transaction is SERIALIZABLE and never retried, and is one    *)
(* step: it commits as if it ran alone, or it leaves nothing.  What is not *)
(* one step is a call that also uses the circuit, which is a variable of   *)
(* the process: the circuit admits an attempt before its transaction, and  *)
(* hears of an outcome after.                                              *)
(***************************************************************************)
EXTENDS CommandRecords, Naturals, FiniteSets

CONSTANTS
  Operation,    \* uuids
  Agenda,       \* sets of calls clients and the partner make
  Handler, None,
  MaxAttempts,  \* attempts of an operation
  Threshold,    \* consecutive failures that open the circuit
  MaxExpiries   \* bound: records that expire

State == {"CREATED", "SUBMITTING", "PENDING_PROVIDER", "PENDING_VERIFICATION", "UNKNOWN",
          "MANUAL_REVIEW", "FAILED", "CANCELLED"}
Terminal == {"FAILED", "CANCELLED"}

Allowed ==
  [CREATED |-> {"SUBMITTING", "FAILED", "CANCELLED"},
   SUBMITTING |-> {"PENDING_PROVIDER", "PENDING_VERIFICATION", "UNKNOWN", "FAILED"},
   PENDING_PROVIDER |-> {"PENDING_VERIFICATION", "UNKNOWN", "MANUAL_REVIEW", "FAILED"},
   PENDING_VERIFICATION |-> {"SUBMITTING", "UNKNOWN", "MANUAL_REVIEW", "FAILED"},
   UNKNOWN |-> {"PENDING_VERIFICATION", "MANUAL_REVIEW", "FAILED"},
   MANUAL_REVIEW |-> {"PENDING_VERIFICATION", "FAILED"},
   FAILED |-> {},
   CANCELLED |-> {}]

(* What a call asks for: the recovery reference of an operation is "own",  *)
(* the one markTimeout derives, or some "other"; an expected version of 0  *)
(* is not given.                                                           *)
Recovery == {"none", "own", "other"}
Call == UNION Agenda
Calls(op) == {c \in Call : c.op = op}

(* The transition begin, accept and timeout make. *)
Transition(c) ==
  CASE c.op = "begin" -> [next |-> "SUBMITTING", recovery |-> "none", failure |-> FALSE]
    [] c.op = "accept" -> [next |-> "PENDING_PROVIDER", recovery |-> "none", failure |-> FALSE]
    [] c.op = "timeout" -> [next |-> "UNKNOWN", recovery |-> "own", failure |-> TRUE]
    [] OTHER -> [next |-> c.next, recovery |-> c.recovery, failure |-> c.failure]

(* (scope, key) of the call's idempotency record. *)
KeyOf(c) ==
  CASE c.op = "create" -> <<"create", c.key>>
    [] c.op = "callback" -> <<"callback", c.event>>
    [] OTHER -> <<"lifecycle", c.operation, c.key>>

(* What the request hash of a creation covers: not its idempotency key. *)
HashOf(c) == IF c.op = "create" THEN [command |-> c.command, body |-> c.body] ELSE c
Recordable == {"create", "callback", "transition", "begin", "accept", "timeout"}
RecordKeys == {KeyOf(c) : c \in UNION {Calls(op) : op \in Recordable}}

Row == [key : {c.key : c \in Calls("create")}, command : {c.command : c \in Calls("create")},
        body : {c.body : c \in Calls("create")}, state : State, version : Nat \ {0},
        attempts : Nat, recovery : Recovery]

(* What the records of commands say. *)
Hashes == {HashOf(c) : c \in UNION {Calls(op) : op \in Recordable}}
Resources == Operation \cup {c.event : c \in Calls("callback")}

(* null is no row, no operation and no record; calls name operations, and  *)
(* recovery references there are.                                          *)
ASSUME ExternalAssumption ==
  /\ None \notin Row \cup Operation
  /\ NoRecord \notin Record(Hashes, Resources)
  /\ \A c \in Call : c.op # "create" => c.operation \in Operation
  /\ \A c \in Calls("transition") : c.recovery \in Recovery
  /\ MaxAttempts \in Nat /\ Threshold \in Nat \ {0} /\ MaxExpiries \in Nat

VARIABLES
  asked,       \* the calls that are made, any number of times each
  operations,  \* external_operations: Operation -> row or None
  references,  \* external_operation_references
  receipts,    \* external_callback_receipts
  records,     \* idempotency records
  expiries,    \* how many of them have expired
  breaker,     \* the circuit of the process
  pc, call     \* handlers of begin, accept and timeout: stage, and call

table == <<operations, references, receipts>>
process == <<asked, breaker, pc, call>>
vars == <<asked, operations, references, receipts, records, expiries, breaker, pc, call>>

Closed == [state |-> "CLOSED", failures |-> 0, probe |-> FALSE, due |-> FALSE]

Asking(op) == {c \in asked : c.op = op}

Init ==
  /\ asked \in Agenda
  /\ operations = [o \in Operation |-> None]
  /\ references = {}
  /\ receipts = {}
  /\ records = [k \in RecordKeys |-> NoRecord]
  /\ expiries = 0
  /\ breaker = Closed
  /\ pc = [h \in Handler |-> "idle"]
  /\ call = [h \in Handler |-> None]

Exists(o) == operations[o] # None
Fresh(c) == Reservation(records, KeyOf(c), HashOf(c)) = "NEW"
Replayed(c) == Reservation(records, KeyOf(c), HashOf(c)) = "REPLAY"
Remember(c, resource) == records' = Recorded(records, KeyOf(c), HashOf(c), resource)

-----------------------------------------------------------------------------
(* Operations and their references *)

NewRow(c) ==
  [key |-> c.key, command |-> c.command, body |-> c.body, state |-> "CREATED", version |-> 1,
   attempts |-> 0, recovery |-> "none"]

ProviderKey(o) == [value |-> o, operation |-> o, source |-> "REQUEST"]

(* Mutant: only the idempotency key tells that a command was there. *)
CommandOfNobody(c, o) == FALSE

CommandOf(c, o) == Exists(o) /\ operations[o].command = c.command

Create(c) ==
  /\ Fresh(c)
  /\ ~ \E o \in Operation : CommandOf(c, o)
  /\ \A o \in Operation : Exists(o) => operations[o].key # c.key
  /\ \E o \in Operation :
       /\ ~ Exists(o)
       /\ operations' = [operations EXCEPT ![o] = NewRow(c)]
       /\ references' = references \cup {ProviderKey(o)}
       /\ Remember(c, o)
  /\ UNCHANGED <<receipts, expiries, process>>

(* The command is there under another key, or its record has expired. *)
CreateAgain(c) ==
  /\ Fresh(c)
  /\ \E o \in Operation :
       CommandOf(c, o) /\ operations[o].body = c.body /\ Remember(c, o)
  /\ UNCHANGED <<table, expiries, process>>

Referring(o, value) == {r \in references : r.value = value}

RecordProviderReference(c) ==
  /\ Exists(c.operation) /\ Referring(c.operation, c.value) = {}
  /\ references' = references \cup
       {[value |-> c.value, operation |-> c.operation, source |-> "RECORDED"]}
  /\ UNCHANGED <<operations, receipts, records, expiries, process>>

-----------------------------------------------------------------------------
(* The lifecycle *)

Exhausted(row, t) == t.next = "SUBMITTING" /\ row.attempts >= MaxAttempts
Target(row, t) == IF Exhausted(row, t) THEN "FAILED" ELSE t.next

ResolvedRecovery(row, t) == IF row.recovery # "none" THEN row.recovery ELSE t.recovery

RecoveryHolds(row, t) ==
  /\ row.recovery = "none" \/ t.recovery \in {"none", row.recovery}
  /\ Target(row, t) \in {"UNKNOWN", "MANUAL_REVIEW"} => ResolvedRecovery(row, t) # "none"
  /\ row.state \in {"UNKNOWN", "MANUAL_REVIEW"} /\ Target(row, t) # "FAILED" =>
       ResolvedRecovery(row, t) # "none"

(* Mutant: any state may follow. *)
MovesUnchecked(row, c) ==
  LET t == Transition(c)
  IN  /\ c.expected \in {0, row.version}
      /\ RecoveryHolds(row, t)
      /\ Target(row, t) = "FAILED" => t.failure \/ Exhausted(row, t)

Moves(row, c) ==
  LET t == Transition(c)
  IN  /\ c.expected \in {0, row.version}
      /\ Target(row, t) \in Allowed[row.state]
      /\ RecoveryHolds(row, t)
      /\ Target(row, t) = "FAILED" => t.failure \/ Exhausted(row, t)

Moved(row, c) ==
  LET t == Transition(c)
  IN  [row EXCEPT !.state = Target(row, t),
                  !.version = @ + 1,
                  !.attempts = IF Target(row, t) = "SUBMITTING" THEN @ + 1 ELSE @,
                  !.recovery = ResolvedRecovery(row, t)]

(* Mutant: the result is not kept under the key. *)
TransitionUnrecorded(c) ==
  /\ Fresh(c) /\ Exists(c.operation) /\ Moves(operations[c.operation], c)
  /\ operations' = [operations EXCEPT ![c.operation] = Moved(@, c)]
  /\ UNCHANGED records

TransitionWithinTransaction(c) ==
  /\ Fresh(c) /\ Exists(c.operation) /\ Moves(operations[c.operation], c)
  /\ operations' = [operations EXCEPT ![c.operation] = Moved(@, c)]
  /\ Remember(c, c.operation)

(* transition, and recover, which refuses what is not a recovery. *)
TransitionOperation(c) ==
  /\ TransitionWithinTransaction(c)
  /\ UNCHANGED <<references, receipts, expiries, process>>

-----------------------------------------------------------------------------
(* The circuit, and the calls that use it *)

Goto(h, stage, c) == pc' = [pc EXCEPT ![h] = stage] /\ call' = [call EXCEPT ![h] = c]

Admits ==
  CASE breaker.state = "CLOSED" -> TRUE
    [] breaker.state = "OPEN" -> breaker.due /\ ~ breaker.probe
    [] breaker.state = "HALF_OPEN" -> ~ breaker.probe

AllowAttempt ==
  /\ Admits
  /\ breaker' = IF breaker.state = "CLOSED" THEN breaker
                ELSE [breaker EXCEPT !.state = "HALF_OPEN", !.probe = TRUE]

RecordSuccess == breaker' = Closed

RecordFailure ==
  LET failures == IF breaker.failures < Threshold THEN breaker.failures + 1 ELSE Threshold
  IN  breaker' = IF breaker.state = "HALF_OPEN" \/ failures >= Threshold
                 THEN [state |-> "OPEN", failures |-> failures, probe |-> FALSE, due |-> FALSE]
                 ELSE [breaker EXCEPT !.failures = failures, !.probe = FALSE]

BeginAttempt(h, c) ==
  /\ pc[h] = "idle" /\ Exists(c.operation)
  /\ AllowAttempt
  /\ Goto(h, "admitted", c)
  /\ UNCHANGED <<table, records, expiries, asked>>

SubmitAttempt(h) ==
  /\ pc[h] = "admitted"
  /\ \/ TransitionWithinTransaction(call[h])
     \/ Replayed(call[h]) /\ UNCHANGED <<operations, records>>
  /\ Goto(h, "idle", None)
  /\ UNCHANGED <<references, receipts, expiries, asked, breaker>>

(* The transition is refused, or the transaction is aborted. *)
AbandonAttempt(h) ==
  /\ pc[h] = "admitted"
  /\ Goto(h, "idle", None)
  /\ UNCHANGED <<table, records, expiries, asked, breaker>>

(* markProviderAccepted and markTimeout: the transition, and its replay too. *)
MarkOutcome(h, c) ==
  /\ pc[h] = "idle" /\ Exists(c.operation)
  /\ \/ TransitionWithinTransaction(c)
     \/ Replayed(c) /\ UNCHANGED <<operations, records>>
  /\ Goto(h, "reporting", c)
  /\ UNCHANGED <<references, receipts, expiries, asked, breaker>>

ReportOutcome(h) ==
  /\ pc[h] = "reporting"
  /\ IF call[h].op = "accept" THEN RecordSuccess ELSE RecordFailure
  /\ Goto(h, "idle", None)
  /\ UNCHANGED <<table, records, expiries, asked>>

(* A7 reads the circuit, which becomes half open when it is due. *)
GetCircuit ==
  /\ breaker.state = "OPEN" /\ breaker.due
  /\ breaker' = [breaker EXCEPT !.state = "HALF_OPEN", !.probe = FALSE]
  /\ UNCHANGED <<table, records, expiries, asked, pc, call>>

OpenWindowPasses ==
  /\ breaker.state = "OPEN" /\ ~ breaker.due
  /\ breaker' = [breaker EXCEPT !.due = TRUE]
  /\ UNCHANGED <<table, records, expiries, asked, pc, call>>

-----------------------------------------------------------------------------
(* Callbacks *)

Receipt(c, status) == [callback |-> c, status |-> status]
ReceiptsOf(event) == {r \in receipts : r.callback.event = event}

(* Mutant: the records alone tell that an event was received. *)
FirstUnchecked(c) == Fresh(c)

First(c) == Fresh(c) /\ ReceiptsOf(c.event) = {}

(* The event was received, and its record has expired. *)
IngestAgain(c) ==
  /\ Fresh(c)
  /\ \E r \in ReceiptsOf(c.event) : r.callback = c
  /\ Remember(c, c.event)
  /\ UNCHANGED <<table, expiries, process>>

WhyRejected(c) ==
  CASE ~ Exists(c.operation) -> "UNKNOWN_PROVIDER_REFERENCE"
    [] Exists(c.operation) /\ ~ c.matches -> "EXTERNAL_OPERATION_MISMATCH"
    [] Exists(c.operation) /\ c.matches /\ Referring(c.operation, c.value) # {} ->
         "DUPLICATE_CALLBACK"
    [] OTHER -> "none"

Ingest(c) ==
  /\ First(c) /\ WhyRejected(c) = "none"
  /\ references' = references \cup
       {[value |-> c.value, operation |-> c.operation, source |-> "CALLBACK"]}
  /\ receipts' = receipts \cup {Receipt(c, "RECEIVED")}
  /\ Remember(c, c.event)
  /\ UNCHANGED <<operations, expiries, process>>

Reject(c) ==
  /\ First(c) /\ WhyRejected(c) # "none"
  /\ receipts' = receipts \cup {Receipt(c, WhyRejected(c))}
  /\ Remember(c, c.event)
  /\ UNCHANGED <<operations, references, expiries, process>>

-----------------------------------------------------------------------------
(* Records expire after a day, and the process stops and starts. *)

Expire(k) ==
  /\ records[k] # NoRecord /\ expiries < MaxExpiries
  /\ records' = Expired(records, k)
  /\ expiries' = expiries + 1
  /\ UNCHANGED <<table, process>>

Restart ==
  /\ breaker' = Closed
  /\ pc' = [h \in Handler |-> "idle"]
  /\ call' = [h \in Handler |-> None]
  /\ UNCHANGED <<table, records, expiries, asked>>

Next ==
  \/ \E c \in Asking("create") : Create(c) \/ CreateAgain(c)
  \/ \E c \in Asking("reference") : RecordProviderReference(c)
  \/ \E c \in Asking("transition") : TransitionOperation(c)
  \/ \E c \in Asking("callback") : Ingest(c) \/ Reject(c) \/ IngestAgain(c)
  \/ \E h \in Handler :
       \/ \E c \in Asking("begin") : BeginAttempt(h, c)
       \/ \E c \in Asking("accept") \cup Asking("timeout") : MarkOutcome(h, c)
       \/ SubmitAttempt(h) \/ AbandonAttempt(h) \/ ReportOutcome(h)
  \/ GetCircuit \/ OpenWindowPasses \/ Restart
  \/ \E k \in RecordKeys : Expire(k)

Spec == Init /\ [][Next]_vars

-----------------------------------------------------------------------------
(* Properties *)

(* Every variable holds what its table, or its process, can hold. *)
TypeOK ==
  /\ asked \in Agenda
  /\ operations \in [Operation -> Row \cup {None}]
  /\ references \subseteq [value : Operation \cup {c.value : c \in Calls("reference")
                                                    \cup Calls("callback")},
                           operation : Operation, source : {"REQUEST", "RECORDED", "CALLBACK"}]
  /\ \A r \in receipts : r.callback \in Calls("callback")
  /\ records \in Records(RecordKeys, Hashes, Resources)
  /\ \A k \in RecordKeys : records[k] # NoRecord => records[k].status = "COMPLETED"
  /\ expiries \in 0..MaxExpiries
  /\ breaker.state \in {"CLOSED", "OPEN", "HALF_OPEN"} /\ breaker.failures \in 0..Threshold
  /\ pc \in [Handler -> {"idle", "admitted", "reporting"}]
  /\ \A h \in Handler : call[h] \in Call \cup {None}

(* An internal command has one operation, however often, and under however *)
(* many keys, its creation is asked for, and whatever records expire.      *)
OneOperationPerCommand ==
  \A o, q \in Operation :
    Exists(o) /\ Exists(q) /\ o # q => operations[o].command # operations[q].command

(* An event has one receipt, and what callbacks have added to the          *)
(* references is what their accepted receipts say, one reference each: a   *)
(* callback sent again, at any time, adds nothing.                         *)
ReceiptsAreEvidence ==
  /\ \A r, s \in receipts : r.callback.event = s.callback.event => r = s
  /\ \A r \in references : r.source = "CALLBACK" =>
       Cardinality({s \in receipts : s.status = "RECEIVED" /\ s.callback.value = r.value}) = 1
  /\ \A s \in receipts : s.status = "RECEIVED" =>
       [value |-> s.callback.value, operation |-> s.callback.operation, source |-> "CALLBACK"]
         \in references

(* An operation whose outcome is not known can be recovered: it has a      *)
(* recovery reference.                                                     *)
UnknownIsRecoverable ==
  \A o \in Operation :
    Exists(o) /\ operations[o].state \in {"UNKNOWN", "MANUAL_REVIEW"} =>
      operations[o].recovery # "none"

(* As long as no record has expired, an operation has moved once for each  *)
(* key a transition of it was asked for under: calls sent again, at any    *)
(* time and through any handler, move nothing.                             *)
TransitionsTakeEffectOnce ==
  expiries = 0 =>
    \A o \in Operation : Exists(o) =>
      operations[o].version = 1 + Cardinality(
        {k \in RecordKeys : k[1] = "lifecycle" /\ k[2] = o /\ records[k] # NoRecord})

(* What was decided stays: a terminal operation does not change, and a     *)
(* recovery reference is never dropped or replaced.                        *)
DecisionsStay ==
  [][\A o \in Operation : Exists(o) =>
       /\ operations[o].state \in Terminal => operations'[o] = operations[o]
       /\ operations[o].recovery # "none" => operations'[o].recovery = operations[o].recovery
    ]_vars
=============================================================================
