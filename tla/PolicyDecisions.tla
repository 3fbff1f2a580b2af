---------------------------- MODULE PolicyDecisions ----------------------------
(***************************************************************************)
(* CapabilityPolicyEvaluationService and CapabilityPolicyRecoveryService:  *)
(* decisions on the capabilities of a customer are made on a snapshot of   *)
(* evidence, kept, and made again when the evidence has changed.           *)
(*                                                                         *)
(* Reservation, decision and completion are transactions of their own, one *)
(* step each: any of them may fail, or be executed and not answered, and   *)
(* the process may stop between them.  A decision that was not answered    *)
(* may be committed later; the profile of the policy stays as it is.  Code *)
(* of the services throws no error that is tried again, so that there is   *)
(* one attempt.                                                            *)
(***************************************************************************)
EXTENDS Naturals, FiniteSets, CommandRecords

CONSTANTS
  Handler, Host,  \* calls that are handled, the processes that handle them
  Evidence,       \* snapshots, named by the time they were collected at
  OutcomeOf,      \* Evidence -> the outcome the profile derives from it
  Safe,           \* snapshots of which nothing is stale, missing or in conflict
  Agenda,         \* what behaviours start from: the calls that are made, any
                  \* number of times each, the process each handler runs in, and
                  \* a bound on the transactions that are given up at one time
  MaxConcurrent,  \* maxConcurrentEvaluations, of a process
  MaxExpired,     \* bound on the keys whose record expires
  None

VARIABLES
  story,      \* the element of Agenda this behaviour started from
  work,       \* Handler -> the call it handles and how far it is, or None
  active,     \* Host -> activeKeys, as many as activeEvaluations
  records,    \* operations_idempotency_records, of both scopes
  decisions,  \* policy_decision_records
  snapshots,  \* immutable_evidence_snapshot_attachments
  late,       \* decisions whose transactions the service has given up, open yet
  told,       \* decisions that were returned, with the call
  failed,     \* keys whose record has been FAILED
  expired     \* keys of which a record has expired

policyVars ==
  <<story, work, active, records, decisions, snapshots, late, told, failed, expired>>

-----------------------------------------------------------------------------
(* Decisions *)

(* What evaluateSnapshot makes of a snapshot. *)
Base(c) ==
  [request |-> c.request, evidence |-> c.evidence, outcome |-> OutcomeOf[c.evidence],
   over |-> None, by |-> None, marks |-> {}]

(* calculatePolicyDecisionReference: the outcome and the reasons of the    *)
(* decision are no part of it, the decision it is over and the assessment  *)
(* that marked it are.                                                     *)
Reference(d) ==
  [request |-> d.request, evidence |-> d.evidence, over |-> d.over, by |-> d.by]

(* Mutant: unsafe evidence is noted, and the decision stays. *)
OutcomeUnguarded(d, e) == d.outcome

(* What is allowed on unsafe evidence is withheld, for review or (with the *)
(* evidence on the customer gone) for good.                                *)
OutcomeOn(d, e) ==
  IF e \notin Safe /\ d.outcome = "ALLOW" THEN "WITHHELD" ELSE d.outcome

Superseded(d, previous, e) ==
  IF previous \notin {None, Reference(d)} THEN previous
  ELSE IF d.over = None /\ e \notin Safe THEN Reference(d) ELSE d.over

Decorated(d, previous, e) ==
  LET marks == d.marks \cup ({e} \ Safe)
      over == Superseded(d, previous, e)
  IN  IF <<OutcomeOn(d, e), marks, over>> = <<d.outcome, d.marks, d.over>> THEN d
      ELSE [d EXCEPT !.outcome = OutcomeOn(d, e), !.over = over, !.marks = marks,
                     !.by = IF e \in Safe THEN None ELSE e]

(* findByRequestHash: the latest on the request, whatever its evidence. *)
Latest(request) ==
  {d \in decisions : /\ d.request = request
                     /\ \A o \in decisions : o.request = request => o.evidence <= d.evidence}

ByReference(reference) == {d \in decisions : Reference(d) = reference}

(* Mutant: any decision on the request is taken for the one that was lost. *)
DurableOnAnything(c) == Latest(c.request)

(* findDurableResult *)
Durable(c) == {d \in Latest(c.request) : d.evidence = c.evidence}

(* A reference is used for one decision. *)
Kept(d) == decisions \cup {d}
Immutable(d) == ByReference(Reference(d)) \subseteq {d}

(* A transaction that fails is rolled back, or may be committed yet. *)
GivenUp(d) ==
  {late} \cup (IF Immutable(d) /\ Cardinality(late \cup {d}) <= story.late THEN {late \cup {d}} ELSE {})

-----------------------------------------------------------------------------
(* Commands *)

Content(c) == [request |-> c.request, evidence |-> c.evidence, previous |-> c.previous]

(* A new evaluation is an evaluation under a key made from its content. *)
CallKey(c) == <<c.op, c.key>>
EvaluationKey(c) == IF c.op = "evaluate" THEN CallKey(c) ELSE <<"attempt", Content(c)>>
Call == UNION {s.calls : s \in Agenda}
Keys == {CallKey(c) : c \in Call} \cup {EvaluationKey(c) : c \in Call}

(* What references, and the hashes of a record, can be.                    *)
References ==
  [request : {c.request : c \in Call}, evidence : Evidence, by : Evidence \cup {None},
   over : {None} \cup {c.previous : c \in Call} \cup {Reference(Base(c)) : c \in Call}]
Hashes == {Content(c) : c \in Call} \cup {c.request : c \in Call}

(* A call is for either service and on a snapshot there is, and null is no *)
(* reference and no record.                                                *)
ASSUME PolicyAssumption ==
  /\ \A c \in Call : c.op \in {"evaluate", "reevaluate"} /\ c.evidence \in Evidence
  /\ None \notin References
  /\ NoRecord \notin References \cup Record(Hashes, References)

At(h, place) == work[h] # None /\ work[h].at = place
CallOf(h) == work[h].call
Home(h) == story.home[h]
Go(h, place) == work' = [work EXCEPT ![h].at = place]
Carry(h, place, d) == work' = [work EXCEPT ![h].at = place, ![h].decision = d]

(* The handler is done: the finally of reevaluate gives up the key.        *)
Leave(h) ==
  /\ work' = [work EXCEPT ![h] = None]
  /\ active' = [active EXCEPT ![Home(h)] =
       IF CallOf(h).op = "reevaluate" /\ ~At(h, "admit") THEN @ \ {CallOf(h).key} ELSE @]

(* It throws, or returns a result with no decision. *)
AnswerNothing(h) == Leave(h) /\ UNCHANGED told
Answer(h, d) == Leave(h) /\ told' = told \cup {[call |-> CallOf(h), decision |-> d]}

(* evaluate throws: reevaluate looks whether it has decided all the same.  *)
Throw(h) ==
  IF CallOf(h).op = "evaluate" THEN AnswerNothing(h)
  ELSE Go(h, "recheck") /\ UNCHANGED <<active, told>>

(* The decision of the call, as it is or, to be kept first, decorated.     *)
Decide(h, d, place) ==
  LET decorated == Decorated(d, CallOf(h).previous, CallOf(h).evidence) IN
  Carry(h, IF decorated = d THEN "finish" ELSE place, decorated)

(* evaluate returns. *)
Return(h, d) ==
  IF CallOf(h).op = "evaluate" THEN Answer(h, d)
  ELSE Decide(h, d, "decorate") /\ UNCHANGED <<active, told>>

StoreSame == UNCHANGED <<decisions, snapshots, late>>
RecordsSame == UNCHANGED <<records, failed, expired>>

InitPolicy ==
  /\ story \in Agenda
  /\ work = [h \in Handler |-> None]
  /\ active = [p \in Host |-> {}]
  /\ records = [k \in Keys |-> NoRecord]
  /\ decisions = {} /\ snapshots = {} /\ late = {}
  /\ told = {} /\ failed = {} /\ expired = {}

Submit(h, c) ==
  /\ work[h] = None
  /\ work' = [work EXCEPT ![h] =
       [call |-> c, at |-> IF c.op = "evaluate" THEN "evaluate" ELSE "admit", decision |-> None]]
  /\ UNCHANGED <<active, told>> /\ StoreSame /\ RecordsSame

(* reevaluate, up to its reservation: the previous decision is there, the  *)
(* key is not at work in this process, and the process has room.           *)
Admit(h) ==
  LET p == Home(h)
      previous == CallOf(h).previous
      admitted == /\ previous = None \/ ByReference(previous) # {}
                  /\ CallOf(h).key \notin active[p]
                  /\ Cardinality(active[p]) < MaxConcurrent
  IN  /\ At(h, "admit")
      /\ \/ /\ admitted
            /\ active' = [active EXCEPT ![p] = @ \cup {CallOf(h).key}]
            /\ Go(h, "reserve") /\ UNCHANGED told
         \/ ~admitted /\ AnswerNothing(h)
      /\ StoreSame /\ RecordsSame

Reserve(h) ==
  LET k == CallKey(CallOf(h))
      content == Content(CallOf(h))
      reserved == Reserved(records, k, content)
      kept == IF records[k].resource = NoRecord THEN {} ELSE ByReference(records[k].resource)
  IN  /\ At(h, "reserve")
      /\ \/ Reservation(records, k, content) \in {"CONFLICT", "IN_PROGRESS"}
            /\ AnswerNothing(h) /\ UNCHANGED records
         \/ /\ Reservation(records, k, content) = "REPLAY" /\ UNCHANGED records
            /\ \/ \E d \in kept : Answer(h, d)
               \/ kept = {} /\ AnswerNothing(h)
         \/ /\ Reservation(records, k, content) = "NEW" /\ records' = reserved
            /\ Go(h, "look") /\ UNCHANGED <<active, told>>
         \/ /\ AnswerNothing(h)
            /\ \/ UNCHANGED records
               \/ Reservation(records, k, content) = "NEW" /\ records' = reserved
      /\ StoreSame /\ UNCHANGED <<failed, expired>>

(* The attempt begins with a look for its decision, which may be there. *)
Look(h) ==
  /\ At(h, "look")
  /\ \/ /\ UNCHANGED <<active, told>>
        /\ \/ \E d \in Durable(CallOf(h)) : Decide(h, d, "recover")
           \/ Durable(CallOf(h)) = {} /\ Go(h, "evaluate")
     \/ AnswerNothing(h)
  /\ StoreSame /\ RecordsSame

(* evaluate, up to the save.  A record with no resource is replayed with   *)
(* the latest decision on the request.                                     *)
Evaluate(h) ==
  LET k == EvaluationKey(CallOf(h))
      request == CallOf(h).request
      reserved == Reserved(records, k, request)
      replays == IF records[k].resource = NoRecord THEN Latest(request)
                 ELSE ByReference(records[k].resource)
  IN  /\ At(h, "evaluate")
      /\ \/ /\ Reservation(records, k, request) = "NEW" /\ records' = reserved
            /\ Go(h, "save") /\ UNCHANGED <<active, told>>
         \/ Reservation(records, k, request) = "REPLAY"
            /\ \E d \in replays : Return(h, d) /\ UNCHANGED records
         \/ /\ Throw(h)
            /\ \/ UNCHANGED records
               \/ Reservation(records, k, request) = "NEW" /\ records' = reserved
      /\ StoreSame /\ UNCHANGED <<failed, expired>>

(* saveWithSnapshot *)
Save(h) ==
  LET d == Base(CallOf(h)) IN
  /\ At(h, "save")
  /\ \/ /\ decisions' = Kept(d) /\ snapshots' = snapshots \cup {d.evidence}
        /\ Go(h, "complete") /\ UNCHANGED late
     \/ Go(h, "fail") /\ UNCHANGED <<decisions, snapshots>> /\ late' \in GivenUp(d)
  /\ UNCHANGED <<active, told>> /\ RecordsSame

Complete(h) ==
  LET c == CallOf(h)
      completed == Completed(records, EvaluationKey(c), Reference(Base(c)))
  IN  /\ At(h, "complete")
      /\ \/ records' = completed /\ Go(h, "audit")
         \/ records' \in {records, completed} /\ Go(h, "fail")
      /\ UNCHANGED <<active, told, failed, expired>> /\ StoreSame

Audit(h) ==
  /\ At(h, "audit")
  /\ \/ Return(h, Base(CallOf(h)))
     \/ Go(h, "fail") /\ UNCHANGED <<active, told>>
  /\ StoreSame /\ RecordsSame

(* The catch of evaluate, which overwrites a completion that was done. *)
Fail(h) ==
  LET k == EvaluationKey(CallOf(h)) IN
  /\ At(h, "fail")
  /\ \/ UNCHANGED <<records, failed>>
     \/ records' = Failed(records, k, NoRecord) /\ failed' = failed \cup {k}
  /\ Throw(h)
  /\ UNCHANGED expired /\ StoreSame

(* The decorated decision is kept: one just made, or one that was found,   *)
(* whose failure nothing catches.                                          *)
Decorate(h) ==
  LET d == work[h].decision IN
  /\ At(h, "decorate") \/ At(h, "recover")
  /\ \/ /\ Immutable(d) /\ decisions' = Kept(d)
        /\ Go(h, "finish") /\ UNCHANGED <<active, told, late>>
     \/ /\ UNCHANGED decisions
        /\ late' \in GivenUp(d)
        /\ IF At(h, "decorate") THEN Throw(h) ELSE AnswerNothing(h)
  /\ UNCHANGED snapshots /\ RecordsSame

Recheck(h) ==
  /\ At(h, "recheck")
  /\ \/ /\ UNCHANGED <<active, told>>
        /\ \/ \E d \in Durable(CallOf(h)) : Decide(h, d, "recover")
           \/ Durable(CallOf(h)) = {} /\ Go(h, "giveUp")
     \/ AnswerNothing(h)
  /\ StoreSame /\ RecordsSame

(* tryCompleteIdempotency: that it fails changes nothing for the caller.   *)
Finish(h) ==
  LET d == work[h].decision IN
  /\ At(h, "finish")
  /\ records' \in {records, Completed(records, CallKey(CallOf(h)), Reference(d))}
  /\ Answer(h, d)
  /\ UNCHANGED <<failed, expired>> /\ StoreSame

(* tryFailIdempotency *)
GiveUp(h) ==
  LET k == CallKey(CallOf(h)) IN
  /\ At(h, "giveUp")
  /\ \/ UNCHANGED <<records, failed>>
     \/ records' = Failed(records, k, NoRecord) /\ failed' = failed \cup {k}
  /\ AnswerNothing(h)
  /\ UNCHANGED expired /\ StoreSame

Handle(h) ==
  \/ Admit(h) \/ Reserve(h) \/ Look(h) \/ Evaluate(h) \/ Save(h) \/ Complete(h)
  \/ Audit(h) \/ Fail(h) \/ Decorate(h) \/ Recheck(h) \/ Finish(h) \/ GiveUp(h)

-----------------------------------------------------------------------------
(* What nobody asks for *)

Crash(p) ==
  /\ \E h \in Handler : Home(h) = p /\ work[h] # None
  /\ work' = [h \in Handler |-> IF Home(h) = p THEN None ELSE work[h]]
  /\ active' = [active EXCEPT ![p] = {}]
  /\ UNCHANGED told /\ StoreSame /\ RecordsSame

(* A transaction that was given up is committed or rolled back. *)
Land(d) ==
  /\ Immutable(d) /\ decisions' = Kept(d)
  /\ snapshots' = IF d.over = None THEN snapshots \cup {d.evidence} ELSE snapshots
Settle(d) ==
  /\ d \in late /\ late' = late \ {d}
  /\ Land(d) \/ UNCHANGED <<decisions, snapshots>>
  /\ UNCHANGED <<work, active, told>> /\ RecordsSame

(* The retention is a day, longer than any call is handled. *)
Idle(k) == \A h \in Handler : work[h] # None => k \notin {CallKey(CallOf(h)), EvaluationKey(CallOf(h))}
Expire(k) ==
  /\ records[k] # NoRecord /\ Idle(k)
  /\ Cardinality(expired \cup {k}) <= MaxExpired
  /\ records' = Expired(records, k)
  /\ expired' = expired \cup {k}
  /\ UNCHANGED <<work, active, told, failed>> /\ StoreSame

Step ==
  \/ \E h \in Handler : Handle(h) \/ \E c \in story.calls : Submit(h, c)
  \/ \E p \in Host : Crash(p)
  \/ \E d \in late : Settle(d)
  \/ \E k \in Keys : Expire(k)

PolicyNext == Step /\ UNCHANGED story
PolicySpec == InitPolicy /\ [][PolicyNext]_policyVars

-----------------------------------------------------------------------------
(* Whatever is returned has been kept: the decision, the snapshot it was   *)
(* made on and the decision it is over; and no new evaluation allows       *)
(* anything when its evidence is unsafe, whichever way it came to its      *)
(* decision.                                                               *)
AnswersAreKept ==
  \A t \in told :
    /\ t.decision \in decisions
    /\ t.decision.evidence \in snapshots
    /\ t.decision.over # None => ByReference(t.decision.over) # {}
    /\ t.call.op = "reevaluate" /\ t.decision.outcome = "ALLOW" => t.call.evidence \in Safe

(* A new evaluation answers with a decision on the evidence it was given,  *)
(* and a key with one decision as long as its record has not expired: but  *)
(* only where no evaluation of that key has failed, since the record of a  *)
(* failure is replayed with the latest decision on the request.            *)
OnlyFailuresMixDecisions ==
  \A t \in told :
    \/ EvaluationKey(t.call) \in failed
    \/ /\ t.call.op = "reevaluate" => t.decision.evidence = t.call.evidence
       /\ \A u \in told : CallKey(u.call) = CallKey(t.call) /\ CallKey(t.call) \notin expired =>
            t.decision = u.decision
=============================================================================
