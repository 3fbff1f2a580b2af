------------------------ MODULE PolicyDecisions_proofs ------------------------
(***************************************************************************)
(* Proofs about PolicyDecisions, for any number of handlers, processes,    *)
(* calls and snapshots, and however many transactions fail.                *)
(***************************************************************************)
EXTENDS PolicyDecisions, TLAPS

Place ==
  {"admit", "reserve", "look", "evaluate", "save", "complete", "audit", "fail",
   "decorate", "recover", "recheck", "finish", "giveUp"}
Overs == {None} \cup {c.previous : c \in Call} \cup {Reference(Base(c)) : c \in Call}
Outcomes == {OutcomeOf[e] : e \in Evidence} \cup {"WITHHELD"}

(* A decision that is over no other is what an evaluation makes.           *)
Decision ==
  {d \in [request : {c.request : c \in Call}, evidence : Evidence, outcome : Outcomes,
          over : Overs, by : Evidence \cup {None}, marks : SUBSET Evidence] :
     d.over = None => \E c \in Call : d = Base(c)}
Task == [call : Call, at : Place, decision : Decision \cup {None}]

-----------------------------------------------------------------------------
(* Decisions *)

(* What an evaluation makes is a decision on the evidence of its call.     *)
LEMMA BaseIsDecision ==
  ASSUME NEW c \in Call
  PROVE  /\ Base(c) \in Decision
         /\ Reference(Base(c)) \in References
         /\ Base(c).over = None /\ Base(c).evidence = c.evidence
         /\ Reference(Base(c)).evidence = c.evidence
<1>1. c.evidence \in Evidence /\ c.request \in {b.request : b \in Call}
  BY PolicyAssumption
<1>2. OutcomeOf[c.evidence] \in Outcomes
  BY <1>1 DEF Outcomes
<1> QED BY <1>1, <1>2 DEF Base, Decision, Overs, Reference, References

(* A decision has a reference that names its evidence.                     *)
LEMMA ReferencesAre ==
  ASSUME NEW d \in Decision
  PROVE  /\ Reference(d) \in References
         /\ Reference(d) # None
         /\ Reference(d).evidence = d.evidence
<1>1. Reference(d) \in References
  BY DEF Decision, Reference, References, Overs
<1> QED BY <1>1, PolicyAssumption DEF Reference

(* A decorated decision is over what it was over, what the call says, or   *)
(* itself.                                                                 *)
LEMMA SupersededIs ==
  ASSUME NEW d \in Decision, NEW c \in Call, NEW e \in Evidence
  PROVE  LET over == Superseded(d, c.previous, e) IN
         /\ over \in Overs
         /\ \/ over = d.over
            \/ over = c.previous /\ over # None
            \/ over = Reference(d) /\ over # None
         /\ over = None => d.over = None /\ e \in Safe
<1>1. Reference(d) # None
  BY ReferencesAre
<1>2. d.over \in Overs /\ c.previous \in Overs
  BY DEF Decision, Overs
<1>3. d.over = None => Reference(d) \in Overs
  BY DEF Decision, Overs
<1> QED BY <1>1, <1>2, <1>3 DEF Superseded

(* What decorating a decision leaves, and what it may change.              *)
LEMMA DecoratedIs ==
  ASSUME NEW d \in Decision, NEW c \in Call, NEW e \in Evidence
  PROVE  LET x == Decorated(d, c.previous, e) IN
         /\ x \in Decision
         /\ x.evidence = d.evidence
         /\ x.outcome = "ALLOW" => e \in Safe
         /\ \/ x.over = d.over
            \/ x.over = c.previous /\ x.over # None
            \/ x.over = Reference(d) /\ x.over # None
<1> DEFINE over == Superseded(d, c.previous, e)
           marks == d.marks \cup ({e} \ Safe)
           y == [d EXCEPT !.outcome = OutcomeOn(d, e), !.over = over, !.marks = marks,
                          !.by = IF e \in Safe THEN None ELSE e]
<1>1. /\ over \in Overs
      /\ \/ over = d.over
         \/ over = c.previous /\ over # None
         \/ over = Reference(d) /\ over # None
      /\ over = None => d.over = None /\ e \in Safe
  BY SupersededIs
<1>2. OutcomeOn(d, e) \in Outcomes /\ (OutcomeOn(d, e) = "ALLOW" => e \in Safe)
  BY DEF OutcomeOn, Outcomes, Decision
<1>3. marks \in SUBSET Evidence
  BY DEF Decision
<1> HIDE DEF over, marks
<1>4. y = [request |-> d.request, evidence |-> d.evidence, outcome |-> OutcomeOn(d, e),
           over |-> over, by |-> IF e \in Safe THEN None ELSE e, marks |-> marks]
  <2> DEFINE outcome == OutcomeOn(d, e)
             by == IF e \in Safe THEN None ELSE e
             f1 == [d EXCEPT !.outcome = outcome]
             f2 == [f1 EXCEPT !.over = over]
             f3 == [f2 EXCEPT !.marks = marks]
  <2>1. y = [f3 EXCEPT !.by = by]
    OBVIOUS
  <2> HIDE DEF outcome, by
  <2>2. f1 = [request |-> d.request, evidence |-> d.evidence, outcome |-> outcome,
              over |-> d.over, by |-> d.by, marks |-> d.marks]
    BY DEF Decision
  <2> HIDE DEF f1
  <2>3. f2 = [request |-> d.request, evidence |-> d.evidence, outcome |-> outcome,
              over |-> over, by |-> d.by, marks |-> d.marks]
    BY <2>2
  <2> HIDE DEF f2
  <2>4. f3 = [request |-> d.request, evidence |-> d.evidence, outcome |-> outcome,
              over |-> over, by |-> d.by, marks |-> marks]
    BY <2>3
  <2> HIDE DEF f3, y
  <2>5. [f3 EXCEPT !.by = by]
          = [request |-> d.request, evidence |-> d.evidence, outcome |-> outcome,
             over |-> over, by |-> by, marks |-> marks]
    BY <2>4
  <2> QED BY <2>1, <2>5 DEF outcome, by
<1>5. CASE <<OutcomeOn(d, e), marks, over>> = <<d.outcome, d.marks, d.over>>
  <2>1. Decorated(d, c.previous, e) = d /\ OutcomeOn(d, e) = d.outcome
    BY <1>5 DEF Decorated, marks, over
  <2> QED BY <2>1, <1>2
<1>6. CASE <<OutcomeOn(d, e), marks, over>> # <<d.outcome, d.marks, d.over>>
  <2>1. Decorated(d, c.previous, e) = y
    BY <1>6 DEF Decorated, marks, over
  <2>2. over # None
    <3> SUFFICES ASSUME over = None PROVE FALSE
      OBVIOUS
    <3>1. e \in Safe /\ over = d.over
      BY <1>1
    <3>2. marks = d.marks /\ OutcomeOn(d, e) = d.outcome
      BY <3>1 DEF marks, OutcomeOn
    <3> QED BY <3>1, <3>2, <1>6
  <2>3. y \in Decision
    BY <1>1, <1>2, <1>3, <1>4, <2>2 DEF Decision
  <2> QED BY <1>1, <1>2, <1>4, <2>1, <2>3
<1> QED BY <1>5, <1>6

-----------------------------------------------------------------------------
(* Types *)

Evaluating == {"evaluate", "save", "complete", "audit", "fail"}
Carrying == {"decorate", "recover", "finish"}

WorkTypes ==
  /\ work \in [Handler -> Task \cup {None}]
  /\ \A h \in Handler : work[h] # None =>
       /\ CallOf(h).op = "evaluate" => work[h].at \in Evaluating
       /\ work[h].at \in Carrying => work[h].decision \in Decision
PolicyTypes ==
  /\ story \in Agenda
  /\ WorkTypes
  /\ decisions \subseteq Decision /\ late \subseteq Decision
  /\ told \subseteq [call : Call, decision : Decision]

(* How the work of a handler changes. *)
MovedTo(h, place, d) ==
  work' = [work EXCEPT ![h] = [call |-> work[h].call, at |-> place, decision |-> d]]
Left(h) == work' = [work EXCEPT ![h] = None]

(* A handler at work has a call that is made.                              *)
LEMMA TaskIs ==
  ASSUME WorkTypes, NEW h \in Handler, work[h] # None
  PROVE  /\ work[h] \in Task
         /\ CallOf(h) \in Call
         /\ CallOf(h).evidence \in Evidence
         /\ \A place : At(h, place) <=> work[h].at = place
BY PolicyAssumption DEF WorkTypes, Task, CallOf, At

(* To go on is to move with the decision that is carried.                  *)
LEMMA GoMoves ==
  ASSUME WorkTypes, NEW h \in Handler, work[h] # None, NEW place, Go(h, place)
  PROVE  MovedTo(h, place, work[h].decision)
<1>1. work[h] = [call |-> work[h].call, at |-> work[h].at, decision |-> work[h].decision]
  BY TaskIs DEF Task
<1>2. [work[h] EXCEPT !.at = place]
        = [call |-> work[h].call, at |-> place, decision |-> work[h].decision]
  BY <1>1
<1>3. work' = [work EXCEPT ![h] = [work[h] EXCEPT !.at = place]]
  BY DEF Go, WorkTypes
<1> QED BY <1>2, <1>3 DEF MovedTo

(* To carry is to move with the decision that is taken up.                 *)
LEMMA CarryMoves ==
  ASSUME WorkTypes, NEW h \in Handler, work[h] # None, NEW place, NEW d, Carry(h, place, d)
  PROVE  MovedTo(h, place, d)
<1> DEFINE task == [work[h] EXCEPT !.at = place]
           one == [work EXCEPT ![h].at = place]
<1>1. work[h] = [call |-> work[h].call, at |-> work[h].at, decision |-> work[h].decision]
  BY TaskIs DEF Task
<1>2. task = [call |-> work[h].call, at |-> place, decision |-> work[h].decision]
  BY <1>1
<1>3. one = [work EXCEPT ![h] = task] /\ one[h] = task
  BY DEF WorkTypes
<1> HIDE DEF task
<1>4. [task EXCEPT !.decision = d] = [call |-> work[h].call, at |-> place, decision |-> d]
  BY <1>2
<1>5. one = [g \in Handler |-> IF g = h THEN task ELSE work[g]]
  BY <1>3 DEF WorkTypes
<1>6. work' = [one EXCEPT ![h].decision = d]
  BY DEF Carry
<1> HIDE DEF one
<1>7. work' = [one EXCEPT ![h] = [task EXCEPT !.decision = d]]
  BY <1>3, <1>5, <1>6
<1>8. work' = [g \in Handler |-> IF g = h THEN [task EXCEPT !.decision = d] ELSE work[g]]
  BY <1>5, <1>7
<1> QED BY <1>4, <1>8 DEF MovedTo, WorkTypes

(* Who moves keeps its call, and the others stay.                          *)
LEMMA MovedIs ==
  ASSUME WorkTypes, NEW h \in Handler, work[h] # None, NEW place, NEW d, MovedTo(h, place, d)
  PROVE  /\ work'[h] = [call |-> work[h].call, at |-> place, decision |-> d]
         /\ \A g \in Handler : g # h => work'[g] = work[g]
BY DEF MovedTo, WorkTypes

(* Who leaves has no call, and the others stay.                            *)
LEMMA LeftIs ==
  ASSUME WorkTypes, NEW h \in Handler, Left(h)
  PROVE  /\ WorkTypes'
         /\ work'[h] = None
         /\ \A g \in Handler : g # h => work'[g] = work[g]
BY DEF Left, WorkTypes, CallOf

(* A move to a place that the call may be at keeps the types.              *)
LEMMA MovedKeepsTypes ==
  ASSUME WorkTypes, NEW h \in Handler, work[h] # None,
         NEW place \in Place, NEW d \in Decision \cup {None}, MovedTo(h, place, d),
         CallOf(h).op = "evaluate" => place \in Evaluating,
         place \in Carrying => d \in Decision
  PROVE  WorkTypes'
<1>1. /\ work'[h] = [call |-> work[h].call, at |-> place, decision |-> d]
      /\ \A g \in Handler : g # h => work'[g] = work[g]
  BY MovedIs
<1>2. work'[h] \in Task
  BY <1>1, TaskIs DEF Task, CallOf
<1>3. work' \in [Handler -> Task \cup {None}]
  BY <1>2 DEF MovedTo, WorkTypes
<1> QED BY <1>1, <1>3 DEF WorkTypes, CallOf

(* A decision is carried as it is, or decorated, to where it is kept.      *)
LEMMA DecideMoves ==
  ASSUME WorkTypes, NEW h \in Handler, work[h] # None, NEW d, NEW place, Decide(h, d, place)
  PROVE  LET x == Decorated(d, CallOf(h).previous, CallOf(h).evidence) IN
         MovedTo(h, IF x = d THEN "finish" ELSE place, x)
BY CarryMoves DEF Decide

(* A failed evaluation ends the call, or has the new one looked at again.  *)
LEMMA ThrowMoves ==
  ASSUME WorkTypes, NEW h \in Handler, work[h] # None, Throw(h)
  PROVE  /\ told' = told
         /\ \/ CallOf(h).op = "evaluate" /\ Left(h)
            \/ CallOf(h).op # "evaluate" /\ MovedTo(h, "recheck", work[h].decision)
BY GoMoves DEF Throw, AnswerNothing, Leave, Left

(* The decision a call goes on with is a decision.                         *)
LEMMA DecideKeepsTypes ==
  ASSUME WorkTypes, NEW h \in Handler, work[h] # None, CallOf(h).op # "evaluate",
         NEW d \in Decision, NEW place \in {"decorate", "recover"}, Decide(h, d, place)
  PROVE  WorkTypes'
<1> DEFINE x == Decorated(d, CallOf(h).previous, CallOf(h).evidence)
           next == IF x = d THEN "finish" ELSE place
<1>1. MovedTo(h, next, x)
  BY DecideMoves
<1>2. x \in Decision
  BY TaskIs, DecoratedIs
<1>3. next \in Place /\ (CallOf(h).op = "evaluate" => next \in Evaluating)
  BY DEF Place
<1> HIDE DEF x, next
<1> QED BY <1>1, <1>2, <1>3, MovedKeepsTypes

(* So does a step to a place at which nothing is carried.                  *)
LEMMA GoKeepsTypes ==
  ASSUME WorkTypes, NEW h \in Handler, work[h] # None, NEW place \in Place \ Carrying,
         CallOf(h).op = "evaluate" => place \in Evaluating, Go(h, place)
  PROVE  WorkTypes'
<1>1. MovedTo(h, place, work[h].decision) /\ work[h].decision \in Decision \cup {None}
  BY GoMoves, TaskIs DEF Task
<1> QED BY <1>1, MovedKeepsTypes

(* A failure keeps the types, and answers nothing.                         *)
LEMMA ThrowKeepsTypes ==
  ASSUME WorkTypes, NEW h \in Handler, work[h] # None, Throw(h)
  PROVE  WorkTypes' /\ told' = told
<1>1. CASE CallOf(h).op = "evaluate"
  BY <1>1, LeftIs DEF Throw, AnswerNothing, Leave, Left
<1>2. CASE CallOf(h).op # "evaluate"
  BY <1>2, GoKeepsTypes DEF Throw, Place, Carrying
<1> QED BY <1>1, <1>2

(* Leaving, with an answer or without. *)
LEMMA LeaveKeepsTypes ==
  ASSUME WorkTypes, NEW h \in Handler, Leave(h)
  PROVE  WorkTypes'
BY LeftIs DEF Leave, Left

(* What is answered is a decision.                                         *)
LEMMA AnswerKeepsTypes ==
  ASSUME PolicyTypes, NEW h \in Handler, work[h] # None, NEW d \in Decision, Answer(h, d)
  PROVE  WorkTypes' /\ told' \subseteq [call : Call, decision : Decision]
BY LeaveKeepsTypes, TaskIs DEF PolicyTypes, Answer

(* So is what evaluate returns.                                            *)
LEMMA ReturnKeepsTypes ==
  ASSUME PolicyTypes, NEW h \in Handler, work[h] # None, NEW d \in Decision, Return(h, d)
  PROVE  WorkTypes' /\ told' \subseteq [call : Call, decision : Decision]
BY AnswerKeepsTypes, DecideKeepsTypes DEF PolicyTypes, Return

(* What is looked up is a decision.                                        *)
LEMMA FoundAreDecisions ==
  ASSUME PolicyTypes
  PROVE  /\ \A r : ByReference(r) \subseteq Decision
         /\ \A r : Latest(r) \subseteq Decision
         /\ \A c : Durable(c) \subseteq Decision
BY DEF PolicyTypes, ByReference, Latest, Durable

(* At the start nothing is kept and nobody works.                          *)
LEMMA TypesInit == InitPolicy => PolicyTypes
BY DEF InitPolicy, PolicyTypes, WorkTypes, CallOf

(* The steps of a handler keep the types.                                  *)
LEMMA StepsKeepTypes ==
  ASSUME PolicyTypes, NEW h \in Handler, Handle(h)
  PROVE  /\ WorkTypes'
         /\ decisions' \subseteq Decision /\ late' \subseteq Decision
         /\ told' \subseteq [call : Call, decision : Decision]
<1> DEFINE Goal == /\ WorkTypes'
                   /\ decisions' \subseteq Decision /\ late' \subseteq Decision
                   /\ told' \subseteq [call : Call, decision : Decision]
<1> USE DEF StoreSame
<1>a. WorkTypes /\ decisions \subseteq Decision /\ late \subseteq Decision
        /\ told \subseteq [call : Call, decision : Decision]
  BY DEF PolicyTypes
<1>b. \A place : At(h, place) => work[h] # None /\ work[h].at = place
  BY DEF At
<1>c. \A place : At(h, place) /\ place \notin Evaluating => CallOf(h).op # "evaluate"
  BY <1>a, <1>b DEF WorkTypes
<1>1. ASSUME Admit(h) PROVE Goal
  BY <1>1, <1>a, <1>b, <1>c, GoKeepsTypes, LeaveKeepsTypes
     DEF Admit, AnswerNothing, Place, Carrying, Evaluating
<1>2. ASSUME Reserve(h) PROVE Goal
  <2>1. CASE \E d \in Decision : Answer(h, d)
    BY <1>2, <2>1, <1>a, <1>b, AnswerKeepsTypes DEF Reserve
  <2>2. CASE AnswerNothing(h)
    BY <1>2, <2>2, <1>a, LeaveKeepsTypes DEF Reserve, AnswerNothing
  <2>3. CASE Go(h, "look") /\ UNCHANGED told
    BY <1>2, <2>3, <1>a, <1>b, <1>c, GoKeepsTypes DEF Reserve, Place, Carrying, Evaluating
  <2> QED BY <1>2, <2>1, <2>2, <2>3, FoundAreDecisions DEF Reserve
<1>3. ASSUME Look(h) PROVE Goal
  <2>0. work[h] # None /\ CallOf(h).op # "evaluate"
    BY <1>3, <1>b, <1>c DEF Look, Evaluating
  <2>1. CASE AnswerNothing(h)
    BY <1>3, <2>1, <1>a, LeaveKeepsTypes DEF Look, AnswerNothing
  <2>2. CASE Go(h, "evaluate") /\ UNCHANGED told
    BY <1>3, <2>0, <2>2, <1>a, GoKeepsTypes DEF Look, Place, Carrying, Evaluating
  <2>3. CASE (\E d \in Decision : Decide(h, d, "recover")) /\ UNCHANGED told
    BY <1>3, <2>0, <2>3, <1>a, DecideKeepsTypes DEF Look
  <2> QED BY <1>3, <2>1, <2>2, <2>3, FoundAreDecisions DEF Look
<1>4. ASSUME Evaluate(h) PROVE Goal
  <2>0. work[h] # None
    BY <1>4, <1>b DEF Evaluate
  <2>1. CASE Go(h, "save") /\ UNCHANGED told
    BY <1>4, <2>0, <2>1, <1>a, GoKeepsTypes DEF Evaluate, Place, Carrying, Evaluating
  <2>2. CASE \E d \in Decision : Return(h, d)
    BY <1>4, <2>0, <2>2, <1>a, ReturnKeepsTypes DEF Evaluate
  <2>3. CASE Throw(h)
    BY <1>4, <2>0, <2>3, <1>a, ThrowKeepsTypes DEF Evaluate
  <2> QED BY <1>4, <2>1, <2>2, <2>3, FoundAreDecisions DEF Evaluate
<1>5. ASSUME Save(h) PROVE Goal
  <2>0. work[h] # None /\ Base(CallOf(h)) \in Decision
    BY <1>5, <1>a, <1>b, TaskIs, BaseIsDecision DEF Save
  <2>1. WorkTypes'
    BY <1>5, <2>0, <1>a, GoKeepsTypes DEF Save, Place, Carrying, Evaluating
  <2> QED BY <1>5, <2>0, <2>1, <1>a DEF Save, Kept, GivenUp
<1>6. ASSUME Complete(h) PROVE Goal
  BY <1>6, <1>a, <1>b, GoKeepsTypes DEF Complete, Place, Carrying, Evaluating
<1>7. ASSUME Audit(h) PROVE Goal
  <2>0. work[h] # None /\ Base(CallOf(h)) \in Decision
    BY <1>7, <1>a, <1>b, TaskIs, BaseIsDecision DEF Audit
  <2>1. CASE Return(h, Base(CallOf(h)))
    BY <1>7, <2>0, <2>1, <1>a, ReturnKeepsTypes DEF Audit
  <2>2. CASE Go(h, "fail") /\ UNCHANGED told
    BY <1>7, <2>0, <2>2, <1>a, GoKeepsTypes DEF Audit, Place, Carrying, Evaluating
  <2> QED BY <1>7, <2>1, <2>2 DEF Audit
<1>8. ASSUME Fail(h) PROVE Goal
  BY <1>8, <1>a, <1>b, ThrowKeepsTypes DEF Fail
<1>9. ASSUME Decorate(h) PROVE Goal
  <2>0. /\ work[h] # None /\ CallOf(h).op # "evaluate" /\ work[h].decision \in Decision
    BY <1>9, <1>a, <1>b, <1>c DEF Decorate, Evaluating, Carrying, WorkTypes
  <2>1. CASE Go(h, "finish") /\ decisions' = Kept(work[h].decision) /\ UNCHANGED <<told, late>>
    <3>1. MovedTo(h, "finish", work[h].decision)
      BY <2>0, <2>1, <1>a, GoMoves
    <3>2. WorkTypes'
      BY <2>0, <3>1, <1>a, MovedKeepsTypes DEF Place
    <3> QED BY <2>0, <2>1, <3>2, <1>a DEF Kept
  <2>2. CASE (Throw(h) \/ AnswerNothing(h)) /\ UNCHANGED decisions /\ late' \in GivenUp(work[h].decision)
    BY <2>0, <2>2, <1>a, ThrowKeepsTypes, LeaveKeepsTypes DEF AnswerNothing, GivenUp
  <2> QED BY <1>9, <2>1, <2>2 DEF Decorate
<1>10. ASSUME Recheck(h) PROVE Goal
  <2>0. work[h] # None /\ CallOf(h).op # "evaluate"
    BY <1>10, <1>b, <1>c DEF Recheck, Evaluating
  <2>1. CASE AnswerNothing(h)
    BY <1>10, <2>1, <1>a, LeaveKeepsTypes DEF Recheck, AnswerNothing
  <2>2. CASE Go(h, "giveUp") /\ UNCHANGED told
    BY <1>10, <2>0, <2>2, <1>a, GoKeepsTypes DEF Recheck, Place, Carrying, Evaluating
  <2>3. CASE (\E d \in Decision : Decide(h, d, "recover")) /\ UNCHANGED told
    BY <1>10, <2>0, <2>3, <1>a, DecideKeepsTypes DEF Recheck
  <2> QED BY <1>10, <2>1, <2>2, <2>3, FoundAreDecisions DEF Recheck
<1>11. ASSUME Finish(h) PROVE Goal
  <2>1. work[h] # None /\ work[h].decision \in Decision
    BY <1>11, <1>a, <1>b DEF Finish, WorkTypes, Carrying
  <2> QED BY <1>11, <2>1, <1>a, AnswerKeepsTypes DEF Finish
<1>12. ASSUME GiveUp(h) PROVE Goal
  BY <1>12, <1>a, LeaveKeepsTypes DEF GiveUp, AnswerNothing
<1> QED BY <1>1, <1>2, <1>3, <1>4, <1>5, <1>6, <1>7, <1>8, <1>9, <1>10, <1>11, <1>12 DEF Handle

(* So does every step.                                                     *)
LEMMA TypesInductive ==
  ASSUME PolicyTypes, [PolicyNext]_policyVars
  PROVE  PolicyTypes'
<1>1. story' = story
  BY DEF PolicyNext, policyVars
<1>2. ASSUME NEW h \in Handler, Handle(h) PROVE PolicyTypes'
  BY <1>1, <1>2, StepsKeepTypes DEF PolicyTypes
<1>3. ASSUME NEW h \in Handler, NEW c \in story.calls, Submit(h, c) PROVE PolicyTypes'
  <2> DEFINE task == [call |-> c, at |-> IF c.op = "evaluate" THEN "evaluate" ELSE "admit",
                      decision |-> None]
  <2>1. c \in Call
    BY DEF PolicyTypes, Call
  <2>2. task \in Task /\ task.at \notin Carrying /\ (c.op = "evaluate" => task.at \in Evaluating)
    BY <2>1 DEF Task, Place, Carrying, Evaluating
  <2>3. work' = [work EXCEPT ![h] = task]
    BY <1>3 DEF Submit
  <2> HIDE DEF task
  <2>4. WorkTypes'
    <3>1. work' \in [Handler -> Task \cup {None}]
      BY <2>2, <2>3 DEF PolicyTypes, WorkTypes
    <3>2. work'[h] = task /\ task.call = c /\ \A g \in Handler : g # h => work'[g] = work[g]
      BY <2>3 DEF PolicyTypes, WorkTypes, task
    <3> QED BY <2>2, <3>1, <3>2 DEF PolicyTypes, WorkTypes, CallOf
  <2> QED BY <1>1, <1>3, <2>4 DEF PolicyTypes, Submit, StoreSame
<1>4. ASSUME NEW p \in Host, Crash(p) PROVE PolicyTypes'
  BY <1>1, <1>4 DEF PolicyTypes, WorkTypes, CallOf, Crash, StoreSame
<1>5. ASSUME NEW d \in late, Settle(d) PROVE PolicyTypes'
  BY <1>1, <1>5 DEF PolicyTypes, WorkTypes, CallOf, Settle, Land, Kept
<1>6. ASSUME NEW k \in Keys, Expire(k) PROVE PolicyTypes'
  BY <1>1, <1>6 DEF PolicyTypes, WorkTypes, CallOf, Expire, StoreSame
<1>7. ASSUME UNCHANGED policyVars PROVE PolicyTypes'
  BY <1>7 DEF PolicyTypes, WorkTypes, CallOf, policyVars
<1> QED BY <1>2, <1>3, <1>4, <1>5, <1>6, <1>7 DEF PolicyNext, Step

-----------------------------------------------------------------------------
(* Records *)

(* From its reservation on a new evaluation has its key, and an evaluation *)
(* has its own from there to its end.                                      *)
Holds(h, k) ==
  /\ work[h] # None
  /\ \/ /\ CallOf(h).op = "reevaluate" /\ k = CallKey(CallOf(h))
        /\ work[h].at \notin {"admit", "reserve"}
     \/ /\ k = EvaluationKey(CallOf(h))
        /\ work[h].at \in {"save", "complete", "audit", "fail"}

HolderFits(h) ==
  LET c == CallOf(h)
      own == records[CallKey(c)]
      evaluation == records[EvaluationKey(c)]
  IN  work[h] # None =>
        /\ \A k \in Keys : Holds(h, k) => records[k] # NoRecord
        /\ c.op = "reevaluate" /\ work[h].at \notin {"admit", "reserve"} =>
             /\ own.hash = Content(c)
             /\ own.status = "IN_PROGRESS" /\ own.resource = NoRecord
        /\ work[h].at \in {"save", "complete"} => evaluation.status = "IN_PROGRESS"
        /\ work[h].at = "audit" =>
             evaluation.status = "COMPLETED" /\ evaluation.resource = Reference(Base(c))

EvaluationFits(c) ==
  LET k == EvaluationKey(c)
      r == records[k]
  IN  r # NoRecord =>
        /\ r.status = "FAILED" => k \in failed
        /\ r.status = "COMPLETED" => r.resource # NoRecord
        /\ c.op = "reevaluate" /\ r.resource # NoRecord => r.resource.evidence = c.evidence

HeldByOne == \A g, h \in Handler, k \in Keys : Holds(g, k) /\ Holds(h, k) => g = h

RecordsInv ==
  /\ records \in Records(Keys, Hashes, References)
  /\ HeldByOne
  /\ \A h \in Handler : HolderFits(h)
  /\ \A c \in Call : EvaluationFits(c)

(* The keys of calls and of evaluations meet only where they should. *)
LEMMA KeysApart ==
  ASSUME NEW b \in Call, NEW c \in Call
  PROVE  /\ CallKey(c) \in Keys /\ EvaluationKey(c) \in Keys
         /\ c.op = "reevaluate" => CallKey(c) # EvaluationKey(b)
         /\ c.op = "evaluate" => CallKey(c) = EvaluationKey(c)
         /\ CallKey(b) = CallKey(c) => b.op = c.op
         /\ EvaluationKey(b) = EvaluationKey(c) /\ c.op = "reevaluate" => b.evidence = c.evidence
<1>1. c.op \in {"evaluate", "reevaluate"} /\ b.op \in {"evaluate", "reevaluate"}
  BY PolicyAssumption
<1>2. CallKey(c) \in Keys /\ EvaluationKey(c) \in Keys
  BY DEF Keys
<1>3. EvaluationKey(b) = EvaluationKey(c) /\ c.op = "reevaluate" => b.evidence = c.evidence
  <2> SUFFICES ASSUME EvaluationKey(b) = EvaluationKey(c), c.op = "reevaluate"
               PROVE  b.evidence = c.evidence
    OBVIOUS
  <2>1. EvaluationKey(c) = <<"attempt", Content(c)>>
    BY DEF EvaluationKey
  <2>2. b.op # "evaluate"
    BY <2>1 DEF EvaluationKey, CallKey
  <2>3. Content(b) = Content(c)
    BY <2>1, <2>2 DEF EvaluationKey
  <2> QED BY <2>3 DEF Content
<1> QED BY <1>1, <1>2, <1>3 DEF CallKey, EvaluationKey

(* A reservation is new when there is no record.                           *)
LEMMA NewMeansNone ==
  ASSUME NEW k, NEW hash, Reservation(records, k, hash) = "NEW"
  PROVE  records[k] = NoRecord
BY DEF Reservation

(* It is replayed when the record is of the same content and done.         *)
LEMMA ReplayMeansDone ==
  ASSUME RecordsInv, NEW k \in Keys, NEW hash, Reservation(records, k, hash) = "REPLAY"
  PROVE  /\ records[k] # NoRecord /\ records[k].hash = hash
         /\ records[k].status \in {"COMPLETED", "FAILED"}
BY DEF Reservation, RecordsInv, Records, Record, RecordStatus

(* A reservation changes one record.                                       *)
LEMMA ReservedIs ==
  ASSUME RecordsInv, NEW k \in Keys, NEW hash \in Hashes
  PROVE  LET r == Reserved(records, k, hash) IN
         /\ r \in Records(Keys, Hashes, References)
         /\ r[k] # NoRecord /\ r[k].hash = hash /\ r[k].status = "IN_PROGRESS"
         /\ r[k].resource = NoRecord
         /\ \A j \in Keys : j # k => r[j] = records[j]
<1> DEFINE new == [hash |-> hash, status |-> "IN_PROGRESS", resource |-> NoRecord]
<1>1. new \in Record(Hashes, References)
  BY DEF Record, RecordStatus
<1>2. new # NoRecord
  BY <1>1, PolicyAssumption
<1> QED BY <1>1, <1>2 DEF Reserved, RecordsInv, Records

(* What completing or failing a record leaves of the table. *)
Replaced(k, status, resource) ==
  /\ records' \in Records(Keys, Hashes, References)
  /\ records'[k] # NoRecord /\ records'[k].hash = records[k].hash
  /\ records'[k].status = status /\ records'[k].resource = resource
  /\ \A j \in Keys : j # k => records'[j] = records[j]

(* So does a change of status and resource.                                *)
LEMMA ReplacedIs ==
  ASSUME RecordsInv, NEW k \in Keys, records[k] # NoRecord,
         NEW status \in RecordStatus, NEW resource \in References \cup {NoRecord},
         records' = [records EXCEPT ![k].status = status, ![k].resource = resource]
  PROVE  Replaced(k, status, resource)
<1> DEFINE one == [records[k] EXCEPT !.status = status]
           x == [one EXCEPT !.resource = resource]
           half == [records EXCEPT ![k].status = status]
<1>0. records = [j \in Keys |-> records[j]] /\ \A j \in Keys : records[j] # NoRecord => records[j] \in Record(Hashes, References)
  BY DEF RecordsInv, Records
<1>1. x \in Record(Hashes, References) /\ x # NoRecord
        /\ x.hash = records[k].hash /\ x.status = status /\ x.resource = resource
  <2>1. one = [hash |-> records[k].hash, status |-> status, resource |-> records[k].resource]
    BY <1>0 DEF Record
  <2> HIDE DEF one
  <2>2. x = [hash |-> records[k].hash, status |-> status, resource |-> resource]
    BY <2>1
  <2> HIDE DEF x
  <2>3. x \in Record(Hashes, References)
    BY <1>0, <2>2 DEF Record
  <2>4. x # NoRecord
    BY <2>3, PolicyAssumption
  <2> QED BY <2>2, <2>3, <2>4
<1>2. half = [j \in Keys |-> IF j = k THEN one ELSE records[j]]
  BY <1>0
<1>3. records' = [half EXCEPT ![k].resource = resource]
  OBVIOUS
<1> HIDE DEF one, half
<1>4. records' = [j \in Keys |-> IF j = k THEN x ELSE records[j]]
  BY <1>2, <1>3
<1> HIDE DEF x
<1>5. records'[k] = x /\ \A j \in Keys : j # k => records'[j] = records[j]
  BY <1>4
<1>6. records' \in Records(Keys, Hashes, References)
  BY <1>1, <1>4, <1>0 DEF Records
<1> QED BY <1>1, <1>5, <1>6 DEF Replaced

(* A completion is such a change.                                          *)
LEMMA CompletedIs ==
  ASSUME RecordsInv, NEW k \in Keys, records[k] # NoRecord, NEW r \in References,
         records' = Completed(records, k, r)
  PROVE  Replaced(k, "COMPLETED", r)
BY ReplacedIs DEF Completed, RecordStatus

(* A failure is such a change, and drops the resource.                     *)
LEMMA FailedIs ==
  ASSUME RecordsInv, NEW k \in Keys, records[k] # NoRecord, records' = Failed(records, k, NoRecord)
  PROVE  Replaced(k, "FAILED", NoRecord)
BY ReplacedIs DEF Failed, RecordStatus

(* A step of one handler touches one record: one that is new, or that it   *)
(* holds.                                                                  *)
RecordStep(h) ==
  /\ failed \subseteq failed'
  /\ \A g \in Handler : g # h => work'[g] = work[g]
  /\ \A j \in Keys :
       /\ Holds(h, j)' => Holds(h, j) \/ records[j] = NoRecord
       /\ records'[j] # records[j] => records[j] = NoRecord \/ Holds(h, j)
  /\ \A c \in Call :
       LET j == EvaluationKey(c) IN
       \/ records'[j] = records[j] \/ records[j] = NoRecord
       \/ records[j].status = "IN_PROGRESS" \/ j \in failed'

(* It is enough to look at the record and the handler of a step.           *)
LEMMA RecordsFrame ==
  ASSUME PolicyTypes, RecordsInv, NEW h \in Handler,
         \A g \in Handler : g # h => work'[g] = work[g],
         records' \in Records(Keys, Hashes, References), NEW k \in Keys,
         \A j \in Keys : j # k => records'[j] = records[j],
         \/ records' = records
         \/ records[k] = NoRecord /\ records'[k] # NoRecord
         \/ Holds(h, k),
         \A j \in Keys : Holds(h, j)' => Holds(h, j) \/ records[j] = NoRecord,
         HolderFits(h)',
         failed \subseteq failed',
         \A c \in Call : EvaluationKey(c) = k /\ records' # records =>
           /\ EvaluationFits(c)'
           /\ records[k] = NoRecord \/ records[k].status = "IN_PROGRESS" \/ k \in failed'
  PROVE  RecordsInv' /\ RecordStep(h)
<1>1. \A g \in Handler, j \in Keys : g # h => (Holds(g, j)' <=> Holds(g, j))
  BY DEF Holds, CallOf
<1>2. \A g \in Handler, j \in Keys : g # h /\ Holds(g, j) => records'[j] = records[j]
  <2> SUFFICES ASSUME NEW g \in Handler, g # h, Holds(g, k) PROVE records'[k] = records[k]
    OBVIOUS
  <2>1. records[k] # NoRecord
    BY DEF RecordsInv, HolderFits, Holds
  <2>2. ~ Holds(h, k)
    BY DEF RecordsInv, HeldByOne
  <2> QED BY <2>1, <2>2
<1>3. HeldByOne'
  <2>1. ASSUME NEW g \in Handler, g # h, NEW j \in Keys, Holds(g, j), Holds(h, j)'
        PROVE  FALSE
    <3>1. records[j] # NoRecord
      BY <2>1 DEF RecordsInv, HolderFits, Holds
    <3> QED BY <2>1, <3>1 DEF RecordsInv, HeldByOne
  <2>2. ASSUME NEW f \in Handler, NEW g \in Handler, NEW j \in Keys, Holds(f, j)', Holds(g, j)'
        PROVE  f = g
    <3>1. CASE f = h \/ g = h
      BY <1>1, <2>1, <2>2, <3>1
    <3>2. CASE f # h /\ g # h
      BY <1>1, <2>2, <3>2 DEF RecordsInv, HeldByOne
    <3> QED BY <3>1, <3>2
  <2> QED BY <2>2 DEF HeldByOne
<1>4. ASSUME NEW g \in Handler, g # h PROVE HolderFits(g)'
  <2> SUFFICES ASSUME work[g] # None PROVE HolderFits(g)'
    BY <1>4 DEF HolderFits
  <2>1. work'[g] = work[g] /\ CallOf(g)' = CallOf(g) /\ CallOf(g) \in Call
    BY <1>4, TaskIs DEF PolicyTypes, CallOf
  <2>2. CallKey(CallOf(g)) \in Keys /\ EvaluationKey(CallOf(g)) \in Keys
    BY <2>1, KeysApart
  <2>3. HolderFits(g)
    BY DEF RecordsInv
  <2> QED BY <1>1, <1>2, <1>4, <2>1, <2>2, <2>3 DEF HolderFits, Holds
<1>5. ASSUME NEW c \in Call PROVE EvaluationFits(c)'
  <2>1. CASE records'[EvaluationKey(c)] = records[EvaluationKey(c)]
    BY <2>1 DEF RecordsInv, EvaluationFits
  <2>2. CASE records'[EvaluationKey(c)] # records[EvaluationKey(c)]
    BY <2>2, KeysApart
  <2> QED BY <2>1, <2>2
<1>6. RecordStep(h)
  <2>1. ASSUME NEW c \in Call, records'[EvaluationKey(c)] # records[EvaluationKey(c)]
        PROVE  LET j == EvaluationKey(c) IN
               records[j] = NoRecord \/ records[j].status = "IN_PROGRESS" \/ j \in failed'
    BY <2>1, KeysApart
  <2> QED BY <2>1 DEF RecordStep
<1> QED BY <1>3, <1>4, <1>5, <1>6 DEF RecordsInv

(* Places where a handler has its own key and no other. *)
Rests(h) ==
  \/ Left(h)
  \/ \E place \in {"evaluate", "decorate", "recover", "finish", "recheck", "giveUp"} :
       \E d : MovedTo(h, place, d)

(* Who goes on with its own key, or leaves, fits as before.                *)
LEMMA RestFits ==
  ASSUME PolicyTypes, NEW h \in Handler, work[h] # None, HolderFits(h), Rests(h),
         CallOf(h).op = "reevaluate" =>
           /\ work[h].at \notin {"admit", "reserve"}
           /\ records'[CallKey(CallOf(h))] = records[CallKey(CallOf(h))]
  PROVE  /\ HolderFits(h)'
         /\ \A j \in Keys : Holds(h, j)' => Holds(h, j)
         /\ \A g \in Handler : g # h => work'[g] = work[g]
<1>1. CASE Left(h)
  BY <1>1, LeftIs DEF PolicyTypes, HolderFits, Holds
<1>2. ASSUME NEW place \in {"evaluate", "decorate", "recover", "finish", "recheck", "giveUp"}, NEW d,
             MovedTo(h, place, d)
      PROVE  /\ HolderFits(h)'
             /\ \A j \in Keys : Holds(h, j)' => Holds(h, j)
             /\ \A g \in Handler : g # h => work'[g] = work[g]
  <2>1. /\ work'[h] = [call |-> work[h].call, at |-> place, decision |-> d]
        /\ \A g \in Handler : g # h => work'[g] = work[g]
    BY <1>2, MovedIs DEF PolicyTypes
  <2>2. work'[h].at = place /\ CallOf(h)' = CallOf(h)
    BY <2>1 DEF CallOf
  <2>3. \A j \in Keys : Holds(h, j)' => Holds(h, j) /\ CallOf(h).op = "reevaluate" /\ j = CallKey(CallOf(h))
    BY <2>2 DEF Holds
  <2>4. CallOf(h) \in Call /\ CallKey(CallOf(h)) \in Keys
    BY TaskIs, KeysApart DEF PolicyTypes
  <2> QED BY <2>1, <2>2, <2>3, <2>4 DEF HolderFits
<1> QED BY <1>1, <1>2 DEF Rests

(* And keeps the records, when it touches none.                            *)
LEMMA RestKeepsRecords ==
  ASSUME PolicyTypes, RecordsInv, NEW h \in Handler, work[h] # None, Rests(h),
         CallOf(h).op = "reevaluate" => work[h].at \notin {"admit", "reserve"},
         records' = records, failed' = failed
  PROVE  RecordsInv' /\ RecordStep(h)
<1>1. CallOf(h) \in Call /\ CallKey(CallOf(h)) \in Keys
  BY TaskIs, KeysApart DEF PolicyTypes
<1>2. /\ HolderFits(h)'
      /\ \A j \in Keys : Holds(h, j)' => Holds(h, j)
      /\ \A g \in Handler : g # h => work'[g] = work[g]
  BY RestFits DEF RecordsInv
<1>3. records' \in Records(Keys, Hashes, References)
  BY DEF RecordsInv
<1> HIDE DEF RecordsInv
<1> QED BY <1>1, <1>2, <1>3, RecordsFrame

(* Leaving keeps the records from any place.                               *)
LEMMA LeavingKeepsRecords ==
  ASSUME PolicyTypes, RecordsInv, NEW h \in Handler, work[h] # None, Left(h),
         records' = records, failed' = failed
  PROVE  RecordsInv' /\ RecordStep(h)
<1>1. CallOf(h) \in Call /\ CallKey(CallOf(h)) \in Keys
  BY TaskIs, KeysApart DEF PolicyTypes
<1>2. /\ HolderFits(h)'
      /\ \A j \in Keys : ~ Holds(h, j)'
      /\ \A g \in Handler : g # h => work'[g] = work[g]
  BY LeftIs DEF PolicyTypes, HolderFits, Holds
<1>3. records' \in Records(Keys, Hashes, References)
  BY DEF RecordsInv
<1> QED BY <1>1, <1>2, <1>3, RecordsFrame

(* A reservation that was done and not answered. *)
LEMMA LostReservationKeepsRecords ==
  ASSUME PolicyTypes, RecordsInv, NEW h \in Handler, work[h] # None, Rests(h), NEW k \in Keys,
         CallOf(h).op = "reevaluate" /\ ~ Left(h) =>
           work[h].at \notin {"admit", "reserve"} /\ CallKey(CallOf(h)) # k,
         NEW hash \in Hashes, Reservation(records, k, hash) = "NEW",
         records' = Reserved(records, k, hash), failed' = failed
  PROVE  RecordsInv' /\ RecordStep(h)
<1>1. /\ records' \in Records(Keys, Hashes, References)
      /\ records'[k] # NoRecord /\ records'[k].status = "IN_PROGRESS"
      /\ records'[k].resource = NoRecord
      /\ \A j \in Keys : j # k => records'[j] = records[j]
  BY ReservedIs
<1>2. records[k] = NoRecord
  BY NewMeansNone
<1>3. /\ HolderFits(h)'
      /\ \A j \in Keys : Holds(h, j)' => Holds(h, j)
      /\ \A g \in Handler : g # h => work'[g] = work[g]
  <2>1. CASE Left(h)
    BY <2>1, LeftIs DEF PolicyTypes, HolderFits, Holds
  <2>2. CASE ~ Left(h)
    <3>1. CallOf(h) \in Call /\ CallKey(CallOf(h)) \in Keys
      BY TaskIs, KeysApart DEF PolicyTypes
    <3>2. CallOf(h).op = "reevaluate" =>
            /\ work[h].at \notin {"admit", "reserve"}
            /\ records'[CallKey(CallOf(h))] = records[CallKey(CallOf(h))]
      BY <1>1, <2>2, <3>1
    <3>3. HolderFits(h)
      BY DEF RecordsInv
    <3> QED BY <3>2, <3>3, RestFits
  <2> QED BY <2>1, <2>2
<1>4. ASSUME NEW c \in Call, EvaluationKey(c) = k PROVE EvaluationFits(c)'
  BY <1>1, <1>4 DEF EvaluationFits
<1> QED BY <1>1, <1>2, <1>3, <1>4, RecordsFrame

(* Whoever returns from evaluate holds its own key at most.                *)
LEMMA ReturnRests ==
  ASSUME WorkTypes, NEW h \in Handler, work[h] # None, NEW d, Return(h, d)
  PROVE  Rests(h)
<1>1. CASE CallOf(h).op = "evaluate"
  BY <1>1 DEF Return, Answer, Leave, Left, Rests
<1>2. CASE CallOf(h).op # "evaluate"
  <2>1. Decide(h, d, "decorate")
    BY <1>2 DEF Return
  <2> QED BY <2>1, DecideMoves DEF Rests
<1> QED BY <1>1, <1>2

(* So does whoever has found its decision.                                 *)
LEMMA DecideRests ==
  ASSUME WorkTypes, NEW h \in Handler, work[h] # None, NEW d, Decide(h, d, "recover")
  PROVE  Rests(h)
BY DecideMoves DEF Rests

(* So does whoever has failed.                                             *)
LEMMA ThrowRests ==
  ASSUME WorkTypes, NEW h \in Handler, work[h] # None, Throw(h)
  PROVE  Rests(h)
BY ThrowMoves DEF Rests

(* Whoever answers leaves.                                                 *)
LEMMA AnswersLeave ==
  ASSUME NEW h \in Handler, AnswerNothing(h) \/ \E d : Answer(h, d)
  PROVE  Left(h)
BY DEF AnswerNothing, Answer, Leave, Left

(* What records are reserved with are hashes of calls.                     *)
LEMMA HashesAre ==
  ASSUME NEW c \in Call
  PROVE  Content(c) \in Hashes /\ c.request \in Hashes
BY DEF Hashes

(* A reservation goes on. *)
LEMMA ReservedGoesOn ==
  ASSUME PolicyTypes, RecordsInv, NEW h \in Handler, work[h] # None, Go(h, "look"),
         CallOf(h).op = "reevaluate",
         Reservation(records, CallKey(CallOf(h)), Content(CallOf(h))) = "NEW",
         records' = Reserved(records, CallKey(CallOf(h)), Content(CallOf(h))), failed' = failed
  PROVE  RecordsInv' /\ RecordStep(h)
<1> DEFINE c == CallOf(h)
           k == CallKey(c)
<1>1. c \in Call /\ k \in Keys /\ Content(c) \in Hashes
  BY TaskIs, KeysApart, HashesAre DEF PolicyTypes
<1>2. /\ records' \in Records(Keys, Hashes, References)
      /\ records'[k] # NoRecord /\ records'[k].hash = Content(c)
      /\ records'[k].status = "IN_PROGRESS" /\ records'[k].resource = NoRecord
      /\ \A j \in Keys : j # k => records'[j] = records[j]
  BY <1>1, ReservedIs
<1>3. records[k] = NoRecord
  BY NewMeansNone
<1>4. /\ work'[h] = [call |-> work[h].call, at |-> "look", decision |-> work[h].decision]
      /\ \A g \in Handler : g # h => work'[g] = work[g]
  <2>1. MovedTo(h, "look", work[h].decision)
    BY GoMoves DEF PolicyTypes
  <2> QED BY <2>1, MovedIs DEF PolicyTypes
<1>5. CallOf(h)' = c /\ work'[h].at = "look"
  BY <1>4 DEF CallOf
<1>6. \A j \in Keys : Holds(h, j)' => j = k
  BY <1>5 DEF Holds
<1>7. HolderFits(h)'
  <2> HIDE DEF k
  <2> QED BY <1>2, <1>5, <1>6 DEF HolderFits, k
<1>8. \A b \in Call : EvaluationKey(b) # k
  BY <1>1, KeysApart
<1> QED BY <1>1, <1>2, <1>3, <1>4, <1>6, <1>7, <1>8, RecordsFrame

(* The reservation of an evaluation goes on.                               *)
LEMMA EvaluationGoesOn ==
  ASSUME PolicyTypes, RecordsInv, NEW h \in Handler, At(h, "evaluate"), Go(h, "save"),
         Reservation(records, EvaluationKey(CallOf(h)), CallOf(h).request) = "NEW",
         records' = Reserved(records, EvaluationKey(CallOf(h)), CallOf(h).request),
         failed' = failed
  PROVE  RecordsInv' /\ RecordStep(h)
<1> DEFINE c == CallOf(h)
           k == EvaluationKey(c)
<1>0. work[h] # None /\ work[h].at = "evaluate"
  BY DEF At
<1>1. c \in Call /\ k \in Keys /\ c.request \in Hashes /\ CallKey(c) \in Keys
  BY <1>0, TaskIs, KeysApart, HashesAre DEF PolicyTypes
<1>2. /\ records' \in Records(Keys, Hashes, References)
      /\ records'[k] # NoRecord /\ records'[k].status = "IN_PROGRESS"
      /\ records'[k].resource = NoRecord
      /\ \A j \in Keys : j # k => records'[j] = records[j]
  BY <1>1, ReservedIs
<1>3. records[k] = NoRecord
  BY NewMeansNone
<1>4. /\ work'[h] = [call |-> work[h].call, at |-> "save", decision |-> work[h].decision]
      /\ \A g \in Handler : g # h => work'[g] = work[g]
  <2>1. MovedTo(h, "save", work[h].decision)
    BY <1>0, GoMoves DEF PolicyTypes
  <2> QED BY <1>0, <2>1, MovedIs DEF PolicyTypes
<1>5. CallOf(h)' = c /\ work'[h].at = "save"
  BY <1>4 DEF CallOf
<1>6. \A j \in Keys : Holds(h, j)' => Holds(h, j) \/ j = k
  BY <1>0, <1>5 DEF Holds
<1>7. HolderFits(h)'
  <2>1. HolderFits(h)
    BY DEF RecordsInv
  <2>2. c.op = "reevaluate" => CallKey(c) # k
    BY <1>1, KeysApart
  <2> HIDE DEF k
  <2>3. c.op = "reevaluate" =>
          /\ records'[CallKey(c)].hash = Content(c)
          /\ records'[CallKey(c)].status = "IN_PROGRESS"
          /\ records'[CallKey(c)].resource = NoRecord
    BY <1>0, <1>1, <1>2, <2>1, <2>2 DEF HolderFits
  <2>4. \A j \in Keys : Holds(h, j) => records[j] # NoRecord
    BY <1>0, <2>1 DEF HolderFits
  <2>5. \A j \in Keys : Holds(h, j)' => records'[j] # NoRecord
    BY <1>2, <1>6, <2>4
  <2> QED BY <1>2, <1>5, <2>3, <2>5 DEF HolderFits, k
<1>8. ASSUME NEW b \in Call, EvaluationKey(b) = k PROVE EvaluationFits(b)'
  BY <1>2, <1>8 DEF EvaluationFits
<1> QED BY <1>1, <1>2, <1>3, <1>4, <1>6, <1>7, <1>8, RecordsFrame

(* Steps of an evaluation between its reservation and its end.             *)
LEMMA EvaluationProceeds ==
  ASSUME PolicyTypes, RecordsInv, NEW h \in Handler, work[h] # None,
         work[h].at \in {"save", "complete", "audit"},
         NEW place \in {"complete", "audit", "fail"}, Go(h, place), failed' = failed,
         place = "complete" => work[h].at = "save",
         \/ records' = records /\ place # "audit"
         \/ /\ records' = Completed(records, EvaluationKey(CallOf(h)), Reference(Base(CallOf(h))))
            /\ place # "complete" /\ work[h].at = "complete"
  PROVE  RecordsInv' /\ RecordStep(h)
<1> DEFINE c == CallOf(h)
           k == EvaluationKey(c)
           r == Reference(Base(c))
<1>1. c \in Call /\ k \in Keys /\ CallKey(c) \in Keys /\ r \in References /\ r.evidence = c.evidence
  BY TaskIs, KeysApart, BaseIsDecision DEF PolicyTypes
<1>2. HolderFits(h) /\ Holds(h, k) /\ records[k] # NoRecord
  BY <1>1 DEF RecordsInv, HolderFits, Holds
<1>3. \/ records' = records /\ place # "audit"
      \/ Replaced(k, "COMPLETED", r) /\ place # "complete" /\ work[h].at = "complete"
  BY <1>1, <1>2, CompletedIs
<1>4. /\ work'[h] = [call |-> work[h].call, at |-> place, decision |-> work[h].decision]
      /\ \A g \in Handler : g # h => work'[g] = work[g]
  <2>1. MovedTo(h, place, work[h].decision)
    BY GoMoves DEF PolicyTypes
  <2> QED BY <2>1, MovedIs DEF PolicyTypes
<1>5. CallOf(h)' = c /\ work'[h].at = place
  BY <1>4 DEF CallOf
<1>6. \A j \in Keys : Holds(h, j)' => Holds(h, j)
  BY <1>5 DEF Holds
<1>7. HolderFits(h)'
  <2>1. c.op = "reevaluate" => CallKey(c) # k
    BY <1>1, KeysApart
  <2> HIDE DEF k, r
  <2>2. c.op = "reevaluate" =>
          /\ records'[CallKey(c)].hash = Content(c)
          /\ records'[CallKey(c)].status = "IN_PROGRESS"
          /\ records'[CallKey(c)].resource = NoRecord
    BY <1>1, <1>2, <1>3, <2>1 DEF HolderFits, Replaced
  <2>3. \A j \in Keys : Holds(h, j) => records'[j] # NoRecord
    BY <1>2, <1>3 DEF HolderFits, Replaced
  <2>4. place = "audit" => records'[k].status = "COMPLETED" /\ records'[k].resource = r
    BY <1>3 DEF Replaced, k, r
  <2>5. place = "complete" => records'[k].status = "IN_PROGRESS"
    BY <1>2, <1>3 DEF HolderFits, Replaced, k, r
  <2> QED BY <1>5, <1>6, <2>2, <2>3, <2>4, <2>5 DEF HolderFits, k, r
<1>8. ASSUME NEW b \in Call, EvaluationKey(b) = k, records' # records
      PROVE  EvaluationFits(b)' /\ records[k].status = "IN_PROGRESS"
  <2>1. b.op = "reevaluate" => b.evidence = c.evidence
    BY <1>1, <1>8, KeysApart
  <2>2. r # NoRecord
    BY <1>1, PolicyAssumption
  <2>3. records[k].status = "IN_PROGRESS"
    BY <1>2, <1>3, <1>8 DEF HolderFits
  <2> HIDE DEF k, r
  <2> QED BY <1>1, <1>3, <1>8, <2>1, <2>2, <2>3 DEF EvaluationFits, Replaced
<1>9. records' \in Records(Keys, Hashes, References) /\ \A j \in Keys : j # k => records'[j] = records[j]
  BY <1>3 DEF RecordsInv, Replaced
<1> HIDE DEF k, r
<1> QED BY <1>1, <1>2, <1>4, <1>6, <1>7, <1>8, <1>9, RecordsFrame

(* The failure of an evaluation. *)
LEMMA EvaluationFails ==
  ASSUME PolicyTypes, RecordsInv, NEW h \in Handler, Fail(h)
  PROVE  RecordsInv' /\ RecordStep(h)
<1> DEFINE c == CallOf(h)
           k == EvaluationKey(c)
<1>0. work[h] # None /\ work[h].at = "fail" /\ Rests(h)
  BY ThrowRests DEF Fail, At, PolicyTypes
<1>1. c \in Call /\ k \in Keys /\ CallKey(c) \in Keys
  BY <1>0, TaskIs, KeysApart DEF PolicyTypes
<1>2. HolderFits(h) /\ Holds(h, k) /\ records[k] # NoRecord
  BY <1>0, <1>1 DEF RecordsInv, HolderFits, Holds
<1>3. CASE UNCHANGED <<records, failed>>
  BY <1>0, <1>3, RestKeepsRecords
<1>4. CASE records' = Failed(records, k, NoRecord) /\ failed' = failed \cup {k}
  <2>1. Replaced(k, "FAILED", NoRecord)
    BY <1>1, <1>2, <1>4, FailedIs
  <2>2. c.op = "reevaluate" => records'[CallKey(c)] = records[CallKey(c)]
    BY <1>1, <2>1, KeysApart DEF Replaced
  <2>3. /\ HolderFits(h)'
        /\ \A j \in Keys : Holds(h, j)' => Holds(h, j)
        /\ \A g \in Handler : g # h => work'[g] = work[g]
    BY <1>0, <1>2, <2>2, RestFits
  <2>4. ASSUME NEW b \in Call, EvaluationKey(b) = k PROVE EvaluationFits(b)'
    BY <1>4, <2>1, <2>4 DEF EvaluationFits, Replaced
  <2>5. /\ records' \in Records(Keys, Hashes, References)
        /\ \A j \in Keys : j # k => records'[j] = records[j]
    BY <2>1 DEF Replaced
  <2> HIDE DEF k
  <2> QED BY <1>1, <1>2, <1>4, <2>3, <2>4, <2>5, RecordsFrame
<1> QED BY <1>3, <1>4 DEF Fail

(* A new evaluation ends, and with it its record, or not. *)
LEMMA ReevaluationEnds ==
  ASSUME PolicyTypes, RecordsInv, NEW h \in Handler, Finish(h) \/ GiveUp(h)
  PROVE  RecordsInv' /\ RecordStep(h)
<1> DEFINE c == CallOf(h)
           k == CallKey(c)
<1>0. work[h] # None /\ work[h].at \in {"finish", "giveUp"} /\ Left(h)
  BY AnswersLeave DEF Finish, GiveUp, At
<1>1. c \in Call /\ k \in Keys /\ c.op = "reevaluate"
  BY <1>0, TaskIs, KeysApart, PolicyAssumption DEF PolicyTypes, WorkTypes, Evaluating
<1>2. Holds(h, k) /\ records[k] # NoRecord
  BY <1>0, <1>1 DEF RecordsInv, HolderFits, Holds
<1>3. \/ records' = records
      \/ Replaced(k, "FAILED", NoRecord)
      \/ \E d \in Decision : Replaced(k, "COMPLETED", Reference(d))
  <2>1. CASE GiveUp(h)
    BY <1>1, <1>2, <2>1, FailedIs DEF GiveUp
  <2>2. CASE Finish(h)
    <3>1. work[h].decision \in Decision
      BY <1>0, <2>2 DEF Finish, At, PolicyTypes, WorkTypes, Carrying
    <3>2. Reference(work[h].decision) \in References
      BY <3>1, ReferencesAre
    <3>3. CASE records' = Completed(records, k, Reference(work[h].decision))
      BY <1>1, <1>2, <3>1, <3>2, <3>3, CompletedIs
    <3> QED BY <2>2, <3>3 DEF Finish
  <2> QED BY <2>1, <2>2
<1>4. /\ HolderFits(h)'
      /\ \A j \in Keys : ~ Holds(h, j)'
      /\ \A g \in Handler : g # h => work'[g] = work[g]
  BY <1>0, LeftIs DEF PolicyTypes, HolderFits, Holds
<1>5. \A b \in Call : EvaluationKey(b) # k
  BY <1>1, KeysApart
<1>6. /\ records' \in Records(Keys, Hashes, References)
      /\ \A j \in Keys : j # k => records'[j] = records[j]
  BY <1>3 DEF Replaced, RecordsInv
<1>7. failed \subseteq failed'
  BY DEF Finish, GiveUp
<1> HIDE DEF k
<1> QED BY <1>1, <1>2, <1>4, <1>5, <1>6, <1>7, RecordsFrame

(* Whatever a handler does, the records fit those who hold them.           *)
LEMMA HandlersKeepRecords ==
  ASSUME PolicyTypes, RecordsInv, NEW h \in Handler, Handle(h)
  PROVE  RecordsInv' /\ RecordStep(h)
<1> DEFINE c == CallOf(h)
<1>t. WorkTypes
  BY DEF PolicyTypes
<1>a. \A place : At(h, place) => work[h] # None /\ work[h].at = place
  BY DEF At
<1>b. \A place : At(h, place) /\ place \notin Evaluating => c.op = "reevaluate"
  BY <1>a, TaskIs, PolicyAssumption DEF PolicyTypes, WorkTypes
<1>c. work[h] # None => /\ c \in Call /\ CallKey(c) \in Keys /\ EvaluationKey(c) \in Keys
                        /\ Content(c) \in Hashes /\ c.request \in Hashes
                        /\ c.op = "reevaluate" => CallKey(c) # EvaluationKey(c)
  BY <1>t, TaskIs, KeysApart, HashesAre
<1>1. ASSUME Admit(h) PROVE RecordsInv' /\ RecordStep(h)
  <2>0. work[h] # None /\ work[h].at = "admit" /\ records' = records /\ failed' = failed
    BY <1>1, <1>a DEF Admit, RecordsSame
  <2>1. CASE AnswerNothing(h)
    BY <2>0, <2>1, AnswersLeave, LeavingKeepsRecords
  <2>2. CASE Go(h, "reserve")
    <3>1. MovedTo(h, "reserve", work[h].decision)
      BY <1>t, <2>0, <2>2, GoMoves
    <3>2. /\ work'[h] = [call |-> work[h].call, at |-> "reserve", decision |-> work[h].decision]
          /\ \A g \in Handler : g # h => work'[g] = work[g]
      BY <1>t, <2>0, <3>1, MovedIs
    <3>3. (\A j \in Keys : ~ Holds(h, j)') /\ HolderFits(h)'
      BY <3>2 DEF Holds, HolderFits, CallOf
    <3>4. records' \in Records(Keys, Hashes, References)
      BY <2>0 DEF RecordsInv
    <3> QED BY <1>c, <2>0, <3>2, <3>3, <3>4, RecordsFrame
  <2> QED BY <1>1, <2>1, <2>2 DEF Admit
<1>2. ASSUME Reserve(h) PROVE RecordsInv' /\ RecordStep(h)
  <2>0. work[h] # None /\ c.op = "reevaluate" /\ failed' = failed
    BY <1>2, <1>a, <1>b DEF Reserve, Evaluating
  <2>1. CASE Left(h) /\ records' = records
    BY <2>0, <2>1, LeavingKeepsRecords
  <2>2. CASE Left(h) /\ Reservation(records, CallKey(c), Content(c)) = "NEW"
             /\ records' = Reserved(records, CallKey(c), Content(c))
    BY <1>c, <2>0, <2>2, LostReservationKeepsRecords DEF Rests
  <2>3. CASE Go(h, "look") /\ Reservation(records, CallKey(c), Content(c)) = "NEW"
             /\ records' = Reserved(records, CallKey(c), Content(c))
    BY <2>0, <2>3, ReservedGoesOn
  <2> QED BY <1>2, <2>1, <2>2, <2>3, AnswersLeave DEF Reserve
<1>3. ASSUME Look(h) PROVE RecordsInv' /\ RecordStep(h)
  <2>0. work[h] # None /\ work[h].at = "look" /\ records' = records /\ failed' = failed
    BY <1>3, <1>a DEF Look, RecordsSame
  <2>1. Rests(h)
    <3>1. CASE Go(h, "evaluate")
      BY <1>t, <2>0, <3>1, GoMoves DEF Rests
    <3> QED BY <1>3, <1>t, <2>0, <3>1, DecideRests, AnswersLeave DEF Look, Rests
  <2> QED BY <2>0, <2>1, RestKeepsRecords
<1>4. ASSUME Evaluate(h) PROVE RecordsInv' /\ RecordStep(h)
  <2>0. At(h, "evaluate") /\ work[h] # None /\ work[h].at = "evaluate" /\ failed' = failed
    BY <1>4, <1>a DEF Evaluate
  <2>1. CASE Rests(h) /\ records' = records
    BY <2>0, <2>1, RestKeepsRecords
  <2>2. CASE Rests(h) /\ Reservation(records, EvaluationKey(c), c.request) = "NEW"
             /\ records' = Reserved(records, EvaluationKey(c), c.request)
    BY <1>c, <2>0, <2>2, LostReservationKeepsRecords
  <2>3. CASE Go(h, "save") /\ Reservation(records, EvaluationKey(c), c.request) = "NEW"
             /\ records' = Reserved(records, EvaluationKey(c), c.request)
    BY <2>0, <2>3, EvaluationGoesOn
  <2> QED BY <1>4, <1>t, <2>0, <2>1, <2>2, <2>3, ReturnRests, ThrowRests DEF Evaluate
<1>5. ASSUME Save(h) PROVE RecordsInv' /\ RecordStep(h)
  BY <1>5, <1>a, EvaluationProceeds DEF Save, RecordsSame
<1>6. ASSUME Complete(h) PROVE RecordsInv' /\ RecordStep(h)
  BY <1>6, <1>a, EvaluationProceeds DEF Complete
<1>7. ASSUME Audit(h) PROVE RecordsInv' /\ RecordStep(h)
  <2>0. work[h] # None /\ work[h].at = "audit" /\ records' = records /\ failed' = failed
    BY <1>7, <1>a DEF Audit, RecordsSame
  <2>1. CASE Return(h, Base(c))
    BY <1>t, <2>0, <2>1, ReturnRests, RestKeepsRecords
  <2>2. CASE Go(h, "fail")
    BY <2>0, <2>2, EvaluationProceeds
  <2> QED BY <1>7, <2>1, <2>2 DEF Audit
<1>8. ASSUME Fail(h) PROVE RecordsInv' /\ RecordStep(h)
  BY <1>8, EvaluationFails
<1>9. ASSUME Decorate(h) PROVE RecordsInv' /\ RecordStep(h)
  <2>0. work[h] # None /\ work[h].at \in {"decorate", "recover"} /\ records' = records /\ failed' = failed
    BY <1>9, <1>a DEF Decorate, RecordsSame
  <2>1. Rests(h)
    <3>1. CASE Go(h, "finish")
      BY <1>t, <2>0, <3>1, GoMoves DEF Rests
    <3> QED BY <1>9, <1>t, <2>0, <3>1, ThrowRests, AnswersLeave DEF Decorate, Rests
  <2> QED BY <2>0, <2>1, RestKeepsRecords
<1>10. ASSUME Recheck(h) PROVE RecordsInv' /\ RecordStep(h)
  <2>0. work[h] # None /\ work[h].at = "recheck" /\ records' = records /\ failed' = failed
    BY <1>10, <1>a DEF Recheck, RecordsSame
  <2>1. Rests(h)
    <3>1. CASE Go(h, "giveUp")
      BY <1>t, <2>0, <3>1, GoMoves DEF Rests
    <3> QED BY <1>10, <1>t, <2>0, <3>1, DecideRests, AnswersLeave DEF Recheck, Rests
  <2> QED BY <2>0, <2>1, RestKeepsRecords
<1>11. ASSUME Finish(h) \/ GiveUp(h) PROVE RecordsInv' /\ RecordStep(h)
  BY <1>11, ReevaluationEnds
<1> QED BY <1>1, <1>2, <1>3, <1>4, <1>5, <1>6, <1>7, <1>8, <1>9, <1>10, <1>11 DEF Handle

(* Steps that touch no record, and in which handlers go on or stop.        *)
LEMMA UntouchedRecords ==
  ASSUME RecordsInv, records' = records, failed' = failed,
         \A g \in Handler : work'[g] = work[g] \/ work'[g] = None
  PROVE  RecordsInv'
<1>1. \A g \in Handler : \A j : Holds(g, j)' => Holds(g, j)
  BY DEF Holds, CallOf
<1>2. \A g \in Handler : work'[g] # None =>
        CallOf(g)' = CallOf(g) /\ work'[g].at = work[g].at /\ work[g] # None
  BY DEF CallOf
<1>3. HeldByOne'
  BY <1>1 DEF RecordsInv, HeldByOne
<1>4. ASSUME NEW g \in Handler PROVE HolderFits(g)'
  <2>1. HolderFits(g)
    BY DEF RecordsInv
  <2> QED BY <1>1, <1>2, <2>1 DEF HolderFits
<1>5. ASSUME NEW c \in Call PROVE EvaluationFits(c)'
  BY DEF RecordsInv, EvaluationFits
<1> QED BY <1>3, <1>4, <1>5 DEF RecordsInv

(* At the start there are no records.                                      *)
LEMMA RecordsInit == InitPolicy => RecordsInv
<1> SUFFICES ASSUME InitPolicy PROVE RecordsInv
  OBVIOUS
<1>1. records \in Records(Keys, Hashes, References)
  BY DEF InitPolicy, Records
<1>2. \A h \in Handler : work[h] = None
  BY DEF InitPolicy
<1>3. \A c \in Call : EvaluationFits(c)
  BY KeysApart DEF InitPolicy, EvaluationFits
<1> QED BY <1>1, <1>2, <1>3 DEF RecordsInv, HeldByOne, Holds, HolderFits

(* A new call holds no key.                                                *)
LEMMA SubmitKeepsRecords ==
  ASSUME PolicyTypes, RecordsInv, NEW h \in Handler, NEW c \in story.calls, Submit(h, c)
  PROVE  RecordsInv' /\ RecordStep(h)
<1> DEFINE task == [call |-> c, at |-> IF c.op = "evaluate" THEN "evaluate" ELSE "admit",
                    decision |-> None]
<1>1. c \in Call /\ CallKey(c) \in Keys
  BY KeysApart DEF PolicyTypes, Call
<1>2. work'[h] = task /\ \A g \in Handler : g # h => work'[g] = work[g]
  BY DEF Submit, PolicyTypes, WorkTypes
<1>3. records' = records /\ failed' = failed
  BY DEF Submit, RecordsSame
<1>4. (\A j \in Keys : ~ Holds(h, j)') /\ HolderFits(h)'
  BY <1>2 DEF Holds, HolderFits, CallOf
<1>5. records' \in Records(Keys, Hashes, References)
  BY <1>3 DEF RecordsInv
<1> HIDE DEF task
<1> QED BY <1>1, <1>2, <1>3, <1>4, <1>5, RecordsFrame

(* A record that expires is held by nobody.                                *)
LEMMA ExpireKeepsRecords ==
  ASSUME PolicyTypes, RecordsInv, NEW k \in Keys, Expire(k)
  PROVE  RecordsInv' /\ \A j \in Keys : j # k => records'[j] = records[j]
<1>1. work' = work /\ failed' = failed
  BY DEF Expire
<1>2. /\ records' \in Records(Keys, Hashes, References) /\ records'[k] = NoRecord
      /\ \A j \in Keys : j # k => records'[j] = records[j]
  BY DEF Expire, Expired, RecordsInv, Records
<1>3. \A h \in Handler : ~ Holds(h, k)
  BY DEF Expire, Idle, Holds
<1>4. \A h \in Handler : \A j : Holds(h, j)' <=> Holds(h, j)
  BY <1>1 DEF Holds, CallOf
<1>5. HeldByOne'
  BY <1>4 DEF RecordsInv, HeldByOne
<1>6. ASSUME NEW h \in Handler PROVE HolderFits(h)'
  <2> SUFFICES ASSUME work[h] # None PROVE HolderFits(h)'
    BY <1>1 DEF HolderFits
  <2>1. CallOf(h)' = CallOf(h) /\ CallOf(h) \in Call
    BY <1>1, TaskIs DEF CallOf, PolicyTypes
  <2>2. CallKey(CallOf(h)) \in Keys \ {k} /\ EvaluationKey(CallOf(h)) \in Keys \ {k}
    BY <2>1, KeysApart DEF Expire, Idle
  <2>3. HolderFits(h)
    BY DEF RecordsInv
  <2> QED BY <1>1, <1>2, <1>3, <1>4, <2>1, <2>2, <2>3 DEF HolderFits
<1>7. ASSUME NEW c \in Call PROVE EvaluationFits(c)'
  <2>1. EvaluationKey(c) \in Keys /\ EvaluationFits(c)
    BY KeysApart DEF RecordsInv
  <2> QED BY <1>1, <1>2, <2>1 DEF EvaluationFits
<1> QED BY <1>2, <1>5, <1>6, <1>7 DEF RecordsInv

(* Every step keeps the records.                                           *)
LEMMA RecordsInductive ==
  ASSUME PolicyTypes, RecordsInv, [PolicyNext]_policyVars
  PROVE  RecordsInv'
<1>1. ASSUME NEW h \in Handler, Handle(h) PROVE RecordsInv'
  BY <1>1, HandlersKeepRecords
<1>2. ASSUME NEW h \in Handler, NEW c \in story.calls, Submit(h, c) PROVE RecordsInv'
  BY <1>2, SubmitKeepsRecords
<1>3. ASSUME NEW p \in Host, Crash(p) PROVE RecordsInv'
  BY <1>3, UntouchedRecords DEF Crash, RecordsSame
<1>4. ASSUME NEW d \in late, Settle(d) PROVE RecordsInv'
  BY <1>4, UntouchedRecords DEF Settle, RecordsSame
<1>5. ASSUME NEW k \in Keys, Expire(k) PROVE RecordsInv'
  BY <1>5, ExpireKeepsRecords
<1>6. ASSUME UNCHANGED policyVars PROVE RecordsInv'
  BY <1>6, UntouchedRecords DEF policyVars
<1> QED BY <1>1, <1>2, <1>3, <1>4, <1>5, <1>6 DEF PolicyNext, Step

-----------------------------------------------------------------------------
(* The store *)

(* A decision over another one was made when that one, and the snapshot,   *)
(* were there.                                                             *)
Sound(d) == d.over # None => d.evidence \in snapshots /\ ByReference(d.over) # {}

(* What a decision may say of the snapshot that was asked about, unless    *)
(* the evaluation has failed.                                              *)
Speaks(d, content) ==
  /\ d.outcome = "ALLOW" => content.evidence \in Safe
  /\ <<"attempt", content>> \in failed \/ d.evidence = content.evidence

DecisionFits(h) ==
  LET c == CallOf(h)
      d == work[h].decision
  IN  work[h] # None =>
        /\ c.op = "reevaluate" /\ work[h].at # "admit" =>
             c.previous = None \/ ByReference(c.previous) # {}
        /\ work[h].at \in {"complete", "audit"} => Base(c) \in decisions
        /\ work[h].at \in Carrying =>
             Sound(d) /\ d.evidence \in snapshots /\ Speaks(d, Content(c))
        /\ work[h].at = "finish" => d \in decisions

(* What the record of a new evaluation refers to. *)
ResourceFits(c) ==
  LET r == records[CallKey(c)] IN
  IF c.op = "evaluate" \/ r = NoRecord THEN TRUE
  ELSE r.resource # NoRecord =>
         /\ ByReference(r.resource) # {}
         /\ \A d \in ByReference(r.resource) : Speaks(d, r.hash)

(* Decisions are kept with what they rest on, under a reference each.      *)
StoreSound ==
  /\ \A d \in decisions : d.evidence \in snapshots
  /\ \A d \in decisions \cup late : Sound(d)
  /\ \A d, o \in decisions : Reference(d) = Reference(o) => d = o

StoreInv ==
  /\ StoreSound
  /\ \A h \in Handler : DecisionFits(h)
  /\ \A c \in Call : ResourceFits(c)

(* Nothing that is kept is lost or changed. *)
StoreGrows ==
  /\ decisions \subseteq decisions' /\ snapshots \subseteq snapshots' /\ failed \subseteq failed'
  /\ \A r : ByReference(r) # {} => ByReference(r)' = ByReference(r)

(* Nothing new is kept; what is late is sound.                             *)
LEMMA StoreStays ==
  ASSUME StoreSound, decisions' = decisions, snapshots' = snapshots, failed \subseteq failed',
         \A d \in late' : d \in late \/ Sound(d)
  PROVE  StoreSound' /\ StoreGrows
<1>1. \A r : ByReference(r)' = ByReference(r)
  BY DEF ByReference
<1>2. \A d : Sound(d)' <=> Sound(d)
  BY <1>1 DEF Sound
<1> QED BY <1>1, <1>2 DEF StoreSound, StoreGrows

(* A sound decision is kept under a reference of its own.                  *)
LEMMA StoreAdds ==
  ASSUME StoreSound, NEW d, Immutable(d), Sound(d), decisions' = Kept(d),
         snapshots \subseteq snapshots', d.evidence \in snapshots', late' \subseteq late,
         failed \subseteq failed'
  PROVE  StoreSound' /\ StoreGrows
<1>1. \A r : ByReference(r) \subseteq ByReference(r)'
  BY DEF ByReference, Kept
<1>2. \A r : ByReference(r) # {} => ByReference(r)' = ByReference(r)
  <2> SUFFICES ASSUME NEW r, NEW o \in ByReference(r), NEW e \in ByReference(r)'
               PROVE  e \in ByReference(r)
    BY <1>1
  <2>1. CASE e \in decisions
    BY <2>1 DEF ByReference
  <2>2. CASE e = d
    BY <2>2 DEF ByReference, Immutable
  <2> QED BY <2>1, <2>2 DEF ByReference, Kept
<1>3. \A e : Sound(e) => Sound(e)'
  BY <1>1 DEF Sound
<1>4. \A e, o \in decisions' : Reference(e) = Reference(o) => e = o
  BY DEF Kept, StoreSound, Immutable, ByReference
<1> QED BY <1>2, <1>3, <1>4 DEF StoreSound, StoreGrows, Kept

(* The decisions of evaluations are the same whenever their references are. *)
LEMMA BaseIsImmutable ==
  ASSUME PolicyTypes, NEW c \in Call
  PROVE  Immutable(Base(c))
<1> SUFFICES ASSUME NEW d \in decisions, Reference(d) = Reference(Base(c)) PROVE d = Base(c)
  BY DEF Immutable, ByReference
<1>1. d.request = c.request /\ d.evidence = c.evidence /\ d.over = None
  BY DEF Reference, Base
<1>2. PICK b \in Call : d = Base(b)
  BY <1>1 DEF PolicyTypes, Decision
<1> QED BY <1>1, <1>2 DEF Base

(* What is said of a decision stays true as the store grows.               *)
LEMMA FactsStay ==
  ASSUME StoreGrows, NEW d
  PROVE  /\ Sound(d) => Sound(d)'
         /\ \A content : Speaks(d, content) => Speaks(d, content)'
         /\ \A r : ByReference(r) # {} => ByReference(r)' # {}
BY DEF StoreGrows, Sound, Speaks

(* So does what is said of a handler that does nothing.                    *)
LEMMA FitsStay ==
  ASSUME StoreGrows, NEW h \in Handler, DecisionFits(h), work'[h] = work[h]
  PROVE  DecisionFits(h)'
<1>1. CallOf(h)' = CallOf(h)
  BY DEF CallOf
<1> QED BY <1>1, FactsStay DEF DecisionFits, StoreGrows

(* A move fits when what it carries does.                                  *)
LEMMA MovedFits ==
  ASSUME PolicyTypes, StoreGrows, NEW h \in Handler, work[h] # None, DecisionFits(h),
         NEW place, NEW d, MovedTo(h, place, d),
         CallOf(h).op = "reevaluate" /\ work[h].at = "admit" =>
           CallOf(h).previous = None \/ ByReference(CallOf(h).previous) # {},
         place \in {"complete", "audit"} => Base(CallOf(h)) \in decisions',
         place \in Carrying =>
           Sound(d) /\ d.evidence \in snapshots /\ Speaks(d, Content(CallOf(h))),
         place = "finish" => d \in decisions'
  PROVE  DecisionFits(h)'
<1>1. work'[h] = [call |-> work[h].call, at |-> place, decision |-> d]
  BY MovedIs DEF PolicyTypes
<1>2. CallOf(h)' = CallOf(h) /\ work'[h].at = place /\ work'[h].decision = d
  BY <1>1 DEF CallOf
<1>3. CallOf(h).op = "reevaluate" =>
        CallOf(h).previous = None \/ ByReference(CallOf(h).previous)' # {}
  <2>1. CallOf(h).op = "reevaluate" =>
          CallOf(h).previous = None \/ ByReference(CallOf(h).previous) # {}
    BY DEF DecisionFits
  <2>2. \A r : ByReference(r) # {} => ByReference(r)' # {}
    BY DEF StoreGrows
  <2> QED BY <1>2, <2>1, <2>2
<1>4. place \in Carrying =>
        Sound(d)' /\ d.evidence \in snapshots' /\ Speaks(d, Content(CallOf(h)))'
  BY <1>2, FactsStay DEF StoreGrows
<1> QED BY <1>2, <1>3, <1>4 DEF DecisionFits

(* A decision that is found, or made, fits decorated.                      *)
LEMMA DecideFits ==
  ASSUME PolicyTypes, StoreSound, StoreGrows, NEW h \in Handler, work[h] # None, DecisionFits(h),
         CallOf(h).op = "reevaluate", work[h].at # "admit",
         NEW d \in decisions,
         d.evidence = CallOf(h).evidence \/ EvaluationKey(CallOf(h)) \in failed,
         NEW place \in {"decorate", "recover"}, Decide(h, d, place)
  PROVE  DecisionFits(h)'
<1> DEFINE c == CallOf(h)
           x == Decorated(d, c.previous, c.evidence)
           next == IF x = d THEN "finish" ELSE place
<1>1. MovedTo(h, next, x)
  BY DecideMoves DEF PolicyTypes
<1>2. c \in Call /\ c.evidence \in Evidence /\ d \in Decision
  BY TaskIs DEF PolicyTypes
<1>3. /\ x.evidence = d.evidence
      /\ x.outcome = "ALLOW" => c.evidence \in Safe
      /\ \/ x.over = d.over
         \/ x.over = c.previous /\ x.over # None
         \/ x.over = Reference(d) /\ x.over # None
  BY <1>2, DecoratedIs
<1>4. d.evidence \in snapshots /\ Sound(d) /\ d \in ByReference(Reference(d))
  BY DEF StoreSound, ByReference
<1>5. c.previous = None \/ ByReference(c.previous) # {}
  BY DEF DecisionFits
<1>6. Sound(x) /\ x.evidence \in snapshots
  BY <1>3, <1>4, <1>5 DEF Sound
<1>7. Speaks(x, Content(c))
  BY <1>3 DEF Speaks, EvaluationKey, Content
<1>8. next \notin {"complete", "audit"} /\ (next = "finish" => x \in decisions')
  BY DEF StoreGrows
<1> HIDE DEF x, next
<1> QED BY <1>1, <1>6, <1>7, <1>8, MovedFits

(* Who leaves carries nothing.                                             *)
LEMMA LeftFits ==
  ASSUME PolicyTypes, NEW h \in Handler, Left(h)
  PROVE  DecisionFits(h)'
BY LeftIs DEF PolicyTypes, DecisionFits

(* What evaluate returns fits.                                             *)
LEMMA ReturnFits ==
  ASSUME PolicyTypes, StoreSound, StoreGrows, NEW h \in Handler, work[h] # None, DecisionFits(h),
         work[h].at # "admit", NEW d \in decisions,
         d.evidence = CallOf(h).evidence \/ EvaluationKey(CallOf(h)) \in failed, Return(h, d)
  PROVE  DecisionFits(h)'
<1>1. CASE CallOf(h).op = "evaluate"
  BY <1>1, LeftFits, AnswersLeave DEF Return
<1>2. CASE CallOf(h).op # "evaluate"
  <2>1. CallOf(h).op = "reevaluate"
    BY <1>2, TaskIs, PolicyAssumption DEF PolicyTypes
  <2> QED BY <1>2, <2>1, DecideFits DEF Return
<1> QED BY <1>1, <1>2

(* Steps to a place at which no decision is carried. *)
LEMMA GoFits ==
  ASSUME PolicyTypes, StoreGrows, NEW h \in Handler, work[h] # None, DecisionFits(h),
         NEW place, Go(h, place), place \notin Carrying,
         CallOf(h).op = "reevaluate" /\ work[h].at = "admit" =>
           CallOf(h).previous = None \/ ByReference(CallOf(h).previous) # {},
         place \in {"complete", "audit"} => Base(CallOf(h)) \in decisions'
  PROVE  DecisionFits(h)'
<1>1. MovedTo(h, place, work[h].decision)
  BY GoMoves DEF PolicyTypes
<1> QED BY <1>1, MovedFits DEF Carrying

(* A failure carries nothing on.                                           *)
LEMMA ThrowFits ==
  ASSUME PolicyTypes, StoreGrows, NEW h \in Handler, work[h] # None, DecisionFits(h),
         work[h].at # "admit", Throw(h)
  PROVE  DecisionFits(h)'
<1>1. CASE CallOf(h).op = "evaluate"
  BY <1>1, LeftFits, AnswersLeave DEF Throw
<1>2. CASE CallOf(h).op # "evaluate"
  BY <1>2, GoFits DEF Throw, Carrying
<1> QED BY <1>1, <1>2

(* Whatever a handler does, the store stays sound. *)
LEMMA HandlersKeepStore ==
  ASSUME PolicyTypes, RecordsInv, StoreInv, NEW h \in Handler, Handle(h)
  PROVE  StoreSound' /\ StoreGrows
<1>a. StoreSound /\ DecisionFits(h)
  BY DEF StoreInv
<1>b. \A place : At(h, place) => work[h] # None /\ work[h].at = place
  BY DEF At
<1>c. failed \subseteq failed'
  BY HandlersKeepRecords DEF RecordStep
<1>1. CASE StoreSame
  BY <1>a, <1>c, <1>1, StoreStays DEF StoreSame
<1>2. ASSUME Save(h) PROVE StoreSound' /\ StoreGrows
  <2> DEFINE d == Base(CallOf(h))
  <2>1. Immutable(d) /\ Sound(d)
    <3>1. CallOf(h) \in Call
      BY <1>2, <1>b, TaskIs DEF Save, PolicyTypes
    <3> QED BY <3>1, BaseIsImmutable, BaseIsDecision DEF Sound
  <2>2. CASE decisions' = Kept(d) /\ snapshots' = snapshots \cup {d.evidence} /\ late' = late
    BY <1>a, <1>c, <2>1, <2>2, StoreAdds
  <2>3. CASE UNCHANGED <<decisions, snapshots>> /\ late' \in GivenUp(d)
    BY <1>a, <1>c, <2>1, <2>3, StoreStays DEF GivenUp
  <2> QED BY <1>2, <2>2, <2>3 DEF Save
<1>3. ASSUME Decorate(h) PROVE StoreSound' /\ StoreGrows
  <2> DEFINE d == work[h].decision
  <2>1. Sound(d) /\ d.evidence \in snapshots /\ snapshots' = snapshots
    BY <1>3, <1>a, <1>b DEF Decorate, DecisionFits, Carrying
  <2>2. CASE Immutable(d) /\ decisions' = Kept(d) /\ late' = late
    BY <1>a, <1>c, <2>1, <2>2, StoreAdds
  <2>3. CASE UNCHANGED decisions /\ late' \in GivenUp(d)
    BY <1>a, <1>c, <2>1, <2>3, StoreStays DEF GivenUp
  <2> QED BY <1>3, <2>2, <2>3 DEF Decorate
<1> QED BY <1>1, <1>2, <1>3
        DEF Handle, Admit, Reserve, Look, Evaluate, Complete, Audit, Fail, Recheck, Finish, GiveUp

(* A decision that is looked up is kept, and on the evidence of the call.  *)
LEMMA DurableAre ==
  ASSUME NEW c, NEW d \in Durable(c)
  PROVE  d \in decisions /\ d.evidence = c.evidence
BY DEF Durable, Latest

(* What evaluate replays is a decision on the evidence, unless it failed.  *)
LEMMA ReplaysAre ==
  ASSUME PolicyTypes, RecordsInv, NEW c \in Call, c.op = "reevaluate",
         Reservation(records, EvaluationKey(c), c.request) = "REPLAY",
         NEW d \in IF records[EvaluationKey(c)].resource = NoRecord THEN Latest(c.request)
                   ELSE ByReference(records[EvaluationKey(c)].resource)
  PROVE  d \in decisions /\ (d.evidence = c.evidence \/ EvaluationKey(c) \in failed)
<1> DEFINE k == EvaluationKey(c)
           r == records[k]
<1>1. k \in Keys /\ EvaluationFits(c)
  BY KeysApart DEF RecordsInv
<1>2. r # NoRecord /\ r.status \in {"COMPLETED", "FAILED"}
  BY <1>1, ReplayMeansDone
<1>3. CASE r.resource = NoRecord
  BY <1>1, <1>2, <1>3 DEF EvaluationFits, Latest
<1>4. CASE r.resource # NoRecord
  BY <1>1, <1>2, <1>4 DEF EvaluationFits, ByReference, Reference
<1> QED BY <1>3, <1>4

(* Whatever a handler does, it carries what fits.                          *)
LEMMA HandlersKeepFits ==
  ASSUME PolicyTypes, RecordsInv, StoreInv, NEW h \in Handler, Handle(h)
  PROVE  DecisionFits(h)'
<1> DEFINE c == CallOf(h)
<1>a. StoreSound /\ DecisionFits(h) /\ StoreGrows
  BY HandlersKeepStore DEF StoreInv
<1>b. \A place : At(h, place) => work[h] # None /\ work[h].at = place
  BY DEF At
<1>c. \A place : At(h, place) /\ place \notin Evaluating => c.op = "reevaluate"
  BY <1>b, TaskIs, PolicyAssumption DEF PolicyTypes, WorkTypes
<1>d. work[h] # None => c \in Call /\ (c.op = "evaluate" \/ c.op = "reevaluate")
  BY TaskIs, PolicyAssumption DEF PolicyTypes
<1>e. ASSUME AnswerNothing(h) \/ \E d : Answer(h, d) PROVE DecisionFits(h)'
  BY <1>e, AnswersLeave, LeftFits
<1>1. ASSUME Admit(h) PROVE DecisionFits(h)'
  BY <1>1, <1>a, <1>b, <1>e, GoFits DEF Admit, Carrying
<1>2. ASSUME Reserve(h) PROVE DecisionFits(h)'
  <2>1. CASE Go(h, "look")
    BY <1>2, <1>a, <1>b, <2>1, GoFits DEF Reserve, Carrying
  <2> QED BY <1>2, <1>e, <2>1 DEF Reserve
<1>3. ASSUME Look(h) PROVE DecisionFits(h)'
  <2>0. work[h] # None /\ work[h].at = "look" /\ c.op = "reevaluate"
    BY <1>3, <1>b, <1>c DEF Look, Evaluating
  <2>1. CASE Go(h, "evaluate")
    BY <1>a, <2>0, <2>1, GoFits DEF Carrying
  <2>2. CASE \E d \in Durable(c) : Decide(h, d, "recover")
    BY <1>a, <2>0, <2>2, DurableAre, DecideFits
  <2> QED BY <1>3, <1>e, <2>1, <2>2 DEF Look
<1>4. ASSUME Evaluate(h) PROVE DecisionFits(h)'
  <2>0. work[h] # None /\ work[h].at = "evaluate" /\ c \in Call
    BY <1>4, <1>b, <1>d DEF Evaluate
  <2>1. CASE Go(h, "save")
    BY <1>a, <2>0, <2>1, GoFits DEF Carrying
  <2>2. CASE Throw(h)
    BY <1>a, <2>0, <2>2, ThrowFits
  <2>3. ASSUME Reservation(records, EvaluationKey(c), c.request) = "REPLAY",
               NEW d \in IF records[EvaluationKey(c)].resource = NoRecord THEN Latest(c.request)
                         ELSE ByReference(records[EvaluationKey(c)].resource),
               Return(h, d)
        PROVE  DecisionFits(h)'
    <3>1. CASE c.op = "evaluate"
      BY <1>e, <2>3, <3>1 DEF Return
    <3>2. CASE c.op = "reevaluate"
      <4>1. d \in decisions /\ (d.evidence = c.evidence \/ EvaluationKey(c) \in failed)
        BY <2>0, <2>3, <3>2, ReplaysAre
      <4> QED BY <1>a, <2>0, <2>3, <4>1, ReturnFits
    <3> QED BY <1>d, <2>0, <3>1, <3>2
  <2> QED BY <1>4, <2>1, <2>2, <2>3 DEF Evaluate
<1>5. ASSUME Save(h) PROVE DecisionFits(h)'
  BY <1>5, <1>a, <1>b, GoFits DEF Save, Kept, Carrying
<1>6. ASSUME Complete(h) PROVE DecisionFits(h)'
  <2>1. Base(c) \in decisions'
    BY <1>6, <1>a, <1>b DEF Complete, DecisionFits, StoreGrows
  <2> QED BY <1>6, <1>a, <1>b, <2>1, GoFits DEF Complete, Carrying
<1>7. ASSUME Audit(h) PROVE DecisionFits(h)'
  <2>0. work[h] # None /\ work[h].at = "audit" /\ c \in Call
    BY <1>7, <1>b, <1>d DEF Audit
  <2>1. Base(c) \in decisions /\ Base(c).evidence = c.evidence
    BY <1>a, <2>0, BaseIsDecision DEF DecisionFits
  <2>2. CASE Return(h, Base(c))
    BY <1>a, <2>0, <2>1, <2>2, ReturnFits
  <2>3. CASE Go(h, "fail")
    BY <1>a, <2>0, <2>3, GoFits DEF Carrying
  <2> QED BY <1>7, <2>2, <2>3 DEF Audit
<1>8. ASSUME Fail(h) PROVE DecisionFits(h)'
  BY <1>8, <1>a, <1>b, ThrowFits DEF Fail
<1>9. ASSUME Decorate(h) PROVE DecisionFits(h)'
  <2> DEFINE d == work[h].decision
  <2>0. /\ work[h] # None /\ work[h].at \in {"decorate", "recover"}
        /\ Sound(d) /\ d.evidence \in snapshots /\ Speaks(d, Content(c))
    BY <1>9, <1>a, <1>b DEF Decorate, DecisionFits, Carrying
  <2>1. CASE Go(h, "finish") /\ decisions' = Kept(d)
    <3>1. MovedTo(h, "finish", d)
      BY <2>0, <2>1, GoMoves DEF PolicyTypes
    <3>2. d \in decisions'
      BY <2>1 DEF Kept
    <3> QED BY <1>a, <2>0, <3>1, <3>2, MovedFits
  <2>2. CASE Throw(h)
    BY <1>a, <2>0, <2>2, ThrowFits
  <2> QED BY <1>9, <1>e, <2>1, <2>2 DEF Decorate
<1>10. ASSUME Recheck(h) PROVE DecisionFits(h)'
  <2>0. work[h] # None /\ work[h].at = "recheck" /\ c.op = "reevaluate"
    BY <1>10, <1>b, <1>c DEF Recheck, Evaluating
  <2>1. CASE Go(h, "giveUp")
    BY <1>a, <2>0, <2>1, GoFits DEF Carrying
  <2>2. CASE \E d \in Durable(c) : Decide(h, d, "recover")
    BY <1>a, <2>0, <2>2, DurableAre, DecideFits
  <2> QED BY <1>10, <1>e, <2>1, <2>2 DEF Recheck
<1>11. ASSUME Finish(h) \/ GiveUp(h) PROVE DecisionFits(h)'
  BY <1>11, <1>e DEF Finish, GiveUp
<1> QED BY <1>1, <1>2, <1>3, <1>4, <1>5, <1>6, <1>7, <1>8, <1>9, <1>10, <1>11 DEF Handle

(* What a record refers to stays, and what it says. *)
LEMMA ResourceStays ==
  ASSUME StoreGrows, NEW c \in Call, ResourceFits(c),
         LET r == records'[CallKey(c)] IN
         r = records[CallKey(c)] \/ r = NoRecord \/ r.resource = NoRecord
  PROVE  ResourceFits(c)'
<1>1. CASE records'[CallKey(c)] = records[CallKey(c)]
  <2> DEFINE r == records[CallKey(c)]
  <2> SUFFICES ASSUME c.op # "evaluate", r # NoRecord, r.resource # NoRecord
               PROVE  ResourceFits(c)'
    BY <1>1 DEF ResourceFits
  <2>1. ByReference(r.resource) # {} /\ \A d \in ByReference(r.resource) : Speaks(d, r.hash)
    BY DEF ResourceFits
  <2>2. \A x : ByReference(x) # {} => ByReference(x)' = ByReference(x)
    BY DEF StoreGrows
  <2>3. \A d, x : Speaks(d, x) => Speaks(d, x)'
    BY FactsStay
  <2>4. \A x : x = records'[CallKey(c)] /\ x = r =>
          /\ ByReference(x.resource)' # {}
          /\ \A d \in ByReference(x.resource)' : Speaks(d, x.hash)'
    BY <2>1, <2>2, <2>3
  <2> QED BY <1>1, <2>4 DEF ResourceFits
<1>2. CASE records'[CallKey(c)] = NoRecord \/ records'[CallKey(c)].resource = NoRecord
  BY <1>2 DEF ResourceFits
<1> QED BY <1>1, <1>2

(* Whatever a handler does, records refer to decisions that fit.           *)
LEMMA HandlersKeepResources ==
  ASSUME PolicyTypes, RecordsInv, StoreInv, NEW h \in Handler, Handle(h), NEW c \in Call
  PROVE  ResourceFits(c)'
<1> SUFFICES ASSUME c.op = "reevaluate" PROVE ResourceFits(c)'
  BY PolicyAssumption DEF ResourceFits
<1> DEFINE b == CallOf(h)
           j == CallKey(c)
<1>a. StoreSound /\ DecisionFits(h) /\ ResourceFits(c) /\ StoreGrows /\ HolderFits(h)
  BY HandlersKeepStore DEF StoreInv, RecordsInv
<1>b. \A place : At(h, place) => work[h] # None /\ work[h].at = place
  BY DEF At
<1>c. work[h] # None => /\ b \in Call /\ CallKey(b) \in Keys /\ EvaluationKey(b) \in Keys
                        /\ Content(b) \in Hashes /\ b.request \in Hashes
  BY TaskIs, KeysApart, HashesAre DEF PolicyTypes
<1>d. j \in Keys /\ (work[h] # None => j # EvaluationKey(b))
  BY <1>c, KeysApart
<1>1. CASE records'[j] = records[j] \/ records'[j] = NoRecord \/ records'[j].resource = NoRecord
  BY <1>a, <1>1, ResourceStays
<1>2. CASE records' = records
  BY <1>1, <1>2
<1>3. ASSUME Reserve(h) PROVE ResourceFits(c)'
  <2>1. CASE records' = Reserved(records, CallKey(b), Content(b))
    BY <1>1, <1>3, <1>b, <1>c, <1>d, <2>1, ReservedIs DEF Reserve
  <2> QED BY <1>2, <1>3, <2>1 DEF Reserve
<1>4. ASSUME Evaluate(h) PROVE ResourceFits(c)'
  <2>1. CASE records' = Reserved(records, EvaluationKey(b), b.request)
    BY <1>1, <1>4, <1>b, <1>c, <1>d, <2>1, ReservedIs DEF Evaluate
  <2> QED BY <1>2, <1>4, <2>1 DEF Evaluate
<1>5. ASSUME Complete(h) PROVE ResourceFits(c)'
  <2>1. work[h] # None /\ records[EvaluationKey(b)] # NoRecord /\ Reference(Base(b)) \in References
    BY <1>5, <1>a, <1>b, <1>c, BaseIsDecision DEF Complete, HolderFits, Holds
  <2>2. CASE records' = Completed(records, EvaluationKey(b), Reference(Base(b)))
    BY <1>1, <1>c, <1>d, <2>1, <2>2, CompletedIs DEF Replaced
  <2> QED BY <1>2, <1>5, <2>2 DEF Complete
<1>6. ASSUME Fail(h) PROVE ResourceFits(c)'
  <2>1. work[h] # None /\ records[EvaluationKey(b)] # NoRecord
    BY <1>6, <1>a, <1>b, <1>c DEF Fail, HolderFits, Holds
  <2>2. CASE records' = Failed(records, EvaluationKey(b), NoRecord)
    BY <1>1, <1>c, <1>d, <2>1, <2>2, FailedIs DEF Replaced
  <2> QED BY <1>2, <1>6, <2>2 DEF Fail
<1>e. ASSUME At(h, "finish") \/ At(h, "giveUp")
      PROVE  /\ work[h] # None /\ b.op = "reevaluate"
             /\ records[CallKey(b)] # NoRecord /\ records[CallKey(b)].hash = Content(b)
  <2>1. work[h] # None /\ work[h].at \in {"finish", "giveUp"}
    BY <1>b, <1>e
  <2>2. b.op = "reevaluate"
    BY <1>c, <2>1, PolicyAssumption DEF PolicyTypes, WorkTypes, Evaluating
  <2> QED BY <1>a, <1>c, <2>1, <2>2 DEF HolderFits, Holds
<1>7. ASSUME GiveUp(h) PROVE ResourceFits(c)'
  <2>1. CASE records' = Failed(records, CallKey(b), NoRecord)
    BY <1>1, <1>7, <1>c, <1>d, <1>e, <2>1, FailedIs DEF Replaced, GiveUp
  <2> QED BY <1>2, <1>7, <2>1 DEF GiveUp
<1>8. ASSUME Finish(h) PROVE ResourceFits(c)'
  <2> DEFINE d == work[h].decision
  <2>0. work[h] # None /\ work[h].at = "finish"
    BY <1>8, <1>b DEF Finish
  <2>1. d \in decisions /\ Speaks(d, Content(b)) /\ d \in Decision
    BY <1>a, <2>0 DEF DecisionFits, Carrying, PolicyTypes
  <2>2. CASE records' = Completed(records, CallKey(b), Reference(d))
    <3>1. Replaced(CallKey(b), "COMPLETED", Reference(d))
      BY <1>8, <1>c, <1>e, <2>0, <2>1, <2>2, CompletedIs, ReferencesAre DEF Finish
    <3>2. CASE j # CallKey(b)
      BY <1>1, <1>d, <3>1, <3>2 DEF Replaced
    <3>3. CASE j = CallKey(b)
      <4>1. records'[j].resource = Reference(d) /\ records'[j].hash = Content(b)
        BY <1>8, <1>e, <3>1, <3>3 DEF Replaced, Finish
      <4>2. ByReference(Reference(d)) = {d}
        BY <1>a, <2>1 DEF ByReference, StoreSound
      <4>3. \A r, x : r = Reference(d) /\ x = Content(b) =>
              /\ ByReference(r)' # {}
              /\ \A o \in ByReference(r)' : Speaks(o, x)'
        <5>1. \A o, x : Speaks(o, x) => Speaks(o, x)'
          BY <1>a, FactsStay
        <5> HIDE DEF d
        <5> QED BY <1>a, <2>1, <4>2, <5>1 DEF StoreGrows
      <4> HIDE DEF d, b
      <4> QED BY <4>1, <4>3 DEF ResourceFits
    <3> QED BY <3>2, <3>3
  <2> QED BY <1>2, <1>8, <2>2 DEF Finish
<1>9. CASE RecordsSame
  BY <1>2, <1>9 DEF RecordsSame
<1> QED BY <1>3, <1>4, <1>5, <1>6, <1>7, <1>8, <1>9
        DEF Handle, Admit, Look, Save, Audit, Decorate, Recheck

(* At the start nothing is kept.                                           *)
LEMMA StoreInit == InitPolicy => StoreInv
<1> SUFFICES ASSUME InitPolicy PROVE StoreInv
  OBVIOUS
<1>1. \A c \in Call : ResourceFits(c)
  BY KeysApart DEF InitPolicy, ResourceFits
<1>2. decisions = {} /\ late = {} /\ \A h \in Handler : work[h] = None
  BY DEF InitPolicy
<1> QED BY <1>1, <1>2 DEF StoreInv, StoreSound, DecisionFits

(* Every step keeps the store.                                             *)
LEMMA StoreInductive ==
  ASSUME PolicyTypes, RecordsInv, StoreInv, [PolicyNext]_policyVars
  PROVE  StoreInv'
<1>a. StoreSound /\ (\A h \in Handler : DecisionFits(h)) /\ (\A c \in Call : ResourceFits(c))
  BY DEF StoreInv
<1>b. ASSUME StoreSound', StoreGrows, records' = records \/ \E k \in Keys : Expire(k),
             \A h \in Handler : work'[h] = work[h] \/ work'[h] = None
      PROVE  StoreInv'
  <2>1. ASSUME NEW h \in Handler PROVE DecisionFits(h)'
    <3>1. CASE work'[h] = work[h]
      BY <1>a, <1>b, <3>1, FitsStay
    <3>2. CASE work'[h] = None
      BY <3>2 DEF DecisionFits
    <3> QED BY <1>b, <3>1, <3>2
  <2>2. ASSUME NEW c \in Call PROVE ResourceFits(c)'
    <3>1. \A j \in Keys : records'[j] = records[j] \/ records'[j] = NoRecord
      BY <1>b DEF Expire, Expired, RecordsInv, Records
    <3> QED BY <1>a, <1>b, <3>1, ResourceStays, KeysApart
  <2> QED BY <1>b, <2>1, <2>2 DEF StoreInv
<1>c. StoreSame /\ failed' = failed => StoreSound' /\ StoreGrows
  BY <1>a, StoreStays DEF StoreSame
<1>1. ASSUME NEW h \in Handler, Handle(h) PROVE StoreInv'
  <2>1. StoreSound' /\ StoreGrows /\ DecisionFits(h)'
    BY <1>1, HandlersKeepStore, HandlersKeepFits
  <2>2. \A g \in Handler : g # h => work'[g] = work[g]
    BY <1>1, HandlersKeepRecords DEF RecordStep
  <2>3. \A g \in Handler : DecisionFits(g)'
    BY <1>a, <2>1, <2>2, FitsStay
  <2>4. \A c \in Call : ResourceFits(c)'
    BY <1>1, HandlersKeepResources
  <2> QED BY <2>1, <2>3, <2>4 DEF StoreInv
<1>2. ASSUME NEW h \in Handler, NEW c \in story.calls, Submit(h, c) PROVE StoreInv'
  <2>1. StoreSound' /\ StoreGrows /\ records' = records
    BY <1>2, <1>c DEF Submit, RecordsSame
  <2>2. \A g \in Handler : g # h => work'[g] = work[g]
    BY <1>2, SubmitKeepsRecords DEF RecordStep
  <2>3. DecisionFits(h)'
    <3> DEFINE task == [call |-> c, at |-> IF c.op = "evaluate" THEN "evaluate" ELSE "admit",
                        decision |-> None]
    <3>1. work'[h] = task
      BY <1>2 DEF Submit, PolicyTypes, WorkTypes
    <3> QED BY <3>1 DEF DecisionFits, CallOf, Carrying
  <2>4. \A g \in Handler : DecisionFits(g)'
    BY <1>a, <2>1, <2>2, <2>3, FitsStay
  <2>5. \A b \in Call : ResourceFits(b)'
    BY <1>a, <2>1, ResourceStays
  <2> QED BY <2>1, <2>4, <2>5 DEF StoreInv
<1>3. ASSUME NEW p \in Host, Crash(p) PROVE StoreInv'
  BY <1>3, <1>b, <1>c DEF Crash, RecordsSame
<1>4. ASSUME NEW d \in late, Settle(d) PROVE StoreInv'
  <2>1. work' = work /\ records' = records /\ failed' = failed /\ late' \subseteq late
    BY <1>4 DEF Settle, RecordsSame
  <2>2. Sound(d)
    BY <1>a DEF StoreSound
  <2>3. StoreSound' /\ StoreGrows
    <3>1. CASE Land(d)
      <4>1. Immutable(d) /\ decisions' = Kept(d) /\ snapshots \subseteq snapshots'
              /\ d.evidence \in snapshots'
        BY <2>2, <3>1 DEF Land, Sound
      <4> QED BY <1>a, <2>1, <2>2, <4>1, StoreAdds
    <3>2. CASE UNCHANGED <<decisions, snapshots>>
      BY <1>a, <2>1, <3>2, StoreStays
    <3> QED BY <1>4, <3>1, <3>2 DEF Settle
  <2> QED BY <1>b, <2>1, <2>3
<1>5. ASSUME NEW k \in Keys, Expire(k) PROVE StoreInv'
  BY <1>5, <1>b, <1>c DEF Expire
<1>6. ASSUME UNCHANGED policyVars PROVE StoreInv'
  BY <1>6, <1>b, <1>c DEF policyVars, StoreSame
<1> QED BY <1>1, <1>2, <1>3, <1>4, <1>5, <1>6 DEF PolicyNext, Step

-----------------------------------------------------------------------------
(* Answers *)

(* A new evaluation answers what it has kept; as long as its record has    *)
(* not expired, it is the record that says so, and nobody is at it.        *)
AnswerFits(t) ==
  LET k == CallKey(t.call)
      r == records[k]
  IN  /\ t.decision \in decisions
      /\ t.call.op = "reevaluate" => Speaks(t.decision, Content(t.call))
      /\ t.call.op = "evaluate" /\ k \notin failed \cup expired =>
           /\ r # NoRecord
           /\ r.status = "COMPLETED" /\ r.resource = Reference(t.decision)
      /\ t.call.op = "reevaluate" /\ k \notin expired =>
           /\ r # NoRecord
           /\ r.resource \in {NoRecord, Reference(t.decision)}
           /\ \A h \in Handler : ~ Holds(h, k)

AnswersInv ==
  /\ \A t \in told : AnswerFits(t)
  /\ \A t, u \in told :
       /\ t.call.op = "reevaluate" /\ CallKey(t.call) = CallKey(u.call)
       /\ CallKey(t.call) \notin expired
       => t.decision = u.decision
(* Answers stay right while others go on. *)
LEMMA AnswersStay ==
  ASSUME PolicyTypes, RecordsInv, StoreGrows, NEW h \in Handler, RecordStep(h),
         expired' = expired, NEW t \in told, AnswerFits(t)
  PROVE  AnswerFits(t)'
<1> DEFINE k == CallKey(t.call)
<1>1. t.call \in Call /\ k \in Keys /\ t.call.op \in {"evaluate", "reevaluate"}
  BY KeysApart, PolicyAssumption DEF PolicyTypes
<1>2. t.decision \in decisions' /\ failed \subseteq failed'
  BY DEF AnswerFits, StoreGrows
<1>3. t.call.op = "reevaluate" => Speaks(t.decision, Content(t.call))'
  BY FactsStay DEF AnswerFits
<1>4. t.call.op = "evaluate" /\ k \notin failed' \cup expired =>
        /\ records'[k] # NoRecord
        /\ records'[k].status = "COMPLETED" /\ records'[k].resource = Reference(t.decision)
  <2> SUFFICES ASSUME t.call.op = "evaluate", k \notin failed' \cup expired
               PROVE  records'[k] = records[k]
    BY <1>2 DEF AnswerFits
  <2>1. EvaluationKey(t.call) = k
    BY DEF EvaluationKey
  <2>2. records[k] # NoRecord /\ records[k].status = "COMPLETED"
    BY <1>2 DEF AnswerFits
  <2> QED BY <1>1, <2>1, <2>2 DEF RecordStep
<1>5. t.call.op = "reevaluate" /\ k \notin expired =>
        /\ records'[k] # NoRecord
        /\ records'[k].resource \in {NoRecord, Reference(t.decision)}
        /\ \A g \in Handler : ~ Holds(g, k)'
  <2> SUFFICES ASSUME t.call.op = "reevaluate", k \notin expired
               PROVE  records'[k] = records[k] /\ \A g \in Handler : ~ Holds(g, k)'
    BY DEF AnswerFits
  <2>1. records[k] # NoRecord /\ \A g \in Handler : ~ Holds(g, k)
    BY DEF AnswerFits
  <2>2. records'[k] = records[k] /\ ~ Holds(h, k)'
    BY <1>1, <2>1 DEF RecordStep
  <2>3. ASSUME NEW g \in Handler, g # h PROVE ~ Holds(g, k)'
    BY <2>1, <2>3 DEF RecordStep, Holds, CallOf
  <2> QED BY <2>2, <2>3
<1> QED BY <1>2, <1>3, <1>4, <1>5 DEF AnswerFits

(* An answer that is new. *)
NewAnswer(c, d) ==
  /\ told' = told \cup {[call |-> c, decision |-> d]}
  /\ AnswerFits([call |-> c, decision |-> d])'
  /\ c.op = "reevaluate" /\ CallKey(c) \notin expired =>
       \A u \in told : CallKey(u.call) = CallKey(c) => u.decision = d

(* It is enough that old answers stay right and the new one fits them.     *)
LEMMA AnswersGrow ==
  ASSUME PolicyTypes, AnswersInv, expired' = expired, \A t \in told : AnswerFits(t)',
         told' = told \/ \E c \in Call, d \in Decision : NewAnswer(c, d)
  PROVE  AnswersInv'
<1>1. CASE told' = told
  BY <1>1 DEF AnswersInv
<1>2. ASSUME NEW c \in Call, NEW d \in Decision, NewAnswer(c, d) PROVE AnswersInv'
  <2> DEFINE new == [call |-> c, decision |-> d]
  <2>1. told' = told \cup {new} /\ new.call = c /\ new.decision = d
    BY <1>2 DEF NewAnswer
  <2>2. \A t \in told' : AnswerFits(t)'
    BY <1>2, <2>1 DEF NewAnswer
  <2>3. ASSUME NEW u \in told, CallKey(u.call) = CallKey(c), CallKey(c) \notin expired,
               u.call.op = "reevaluate" \/ c.op = "reevaluate"
        PROVE  u.decision = d
    <3>1. u.call.op = c.op
      BY <2>3, KeysApart DEF PolicyTypes
    <3> QED BY <1>2, <2>3, <3>1 DEF NewAnswer
  <2>4. ASSUME NEW t \in told', NEW u \in told', t.call.op = "reevaluate",
               CallKey(t.call) = CallKey(u.call), CallKey(t.call) \notin expired'
        PROVE  t.decision = u.decision
    <3>1. CASE t \in told /\ u \in told
      BY <2>4, <3>1 DEF AnswersInv
    <3>2. CASE t \in told /\ u = new
      BY <2>1, <2>3, <2>4, <3>2
    <3>3. CASE t = new /\ u \in told
      BY <2>1, <2>3, <2>4, <3>3
    <3> QED BY <2>1, <3>1, <3>2, <3>3
  <2> QED BY <2>2, <2>4 DEF AnswersInv
<1> QED BY <1>1, <1>2

(* The answer of an evaluation, and of a new evaluation. *)
LEMMA EvaluationAnswers ==
  ASSUME NEW c \in Call, c.op = "evaluate", NEW d \in decisions',
         \/ CallKey(c) \in failed'
         \/ LET r == records'[CallKey(c)] IN
            r # NoRecord /\ r.status = "COMPLETED" /\ r.resource = Reference(d),
         told' = told \cup {[call |-> c, decision |-> d]}
  PROVE  NewAnswer(c, d)
BY DEF NewAnswer, AnswerFits

(* A new evaluation answers right when nobody holds its key any more.      *)
LEMMA ReevaluationAnswers ==
  ASSUME NEW c \in Call, c.op = "reevaluate", NEW d \in decisions', Speaks(d, Content(c))',
         records'[CallKey(c)] # NoRecord,
         records'[CallKey(c)].resource \in {NoRecord, Reference(d)},
         \A g \in Handler : ~ Holds(g, CallKey(c))',
         CallKey(c) \notin expired =>
           \A u \in told : CallKey(u.call) = CallKey(c) => u.decision = d,
         told' = told \cup {[call |-> c, decision |-> d]}
  PROVE  NewAnswer(c, d)
BY DEF NewAnswer, AnswerFits

(* An evaluation answers the resource of its record, unless it has failed. *)
LEMMA EvaluateAnswersRight ==
  ASSUME PolicyTypes, RecordsInv, StoreInv, NEW h \in Handler, Evaluate(h) \/ Audit(h),
         NEW c \in Call, c = CallOf(h), NEW d, told' = told \cup {[call |-> c, decision |-> d]},
         c.op = "evaluate", \/ d = Base(c) /\ At(h, "audit")
                            \/ /\ At(h, "evaluate")
                               /\ Reservation(records, CallKey(c), c.request) = "REPLAY"
                               /\ d \in IF records[CallKey(c)].resource = NoRecord THEN Latest(c.request)
                                        ELSE ByReference(records[CallKey(c)].resource),
         records' = records
  PROVE  NewAnswer(c, d)
<1> DEFINE k == CallKey(c)
           r == records[k]
<1>1. k \in Keys /\ k = EvaluationKey(c) /\ EvaluationFits(c)
  BY KeysApart DEF RecordsInv
<1>2. decisions' = decisions /\ failed' = failed
  BY DEF Evaluate, Audit, StoreSame, RecordsSame
<1>3. CASE d = Base(c) /\ At(h, "audit")
  <2>1. work[h] # None /\ work[h].at = "audit" /\ HolderFits(h) /\ DecisionFits(h)
    BY <1>3 DEF At, RecordsInv, StoreInv
  <2>2. Holds(h, k) /\ d \in decisions
    BY <1>1, <1>3, <2>1 DEF Holds, DecisionFits
  <2>3. r # NoRecord /\ r.status = "COMPLETED" /\ r.resource = Reference(d)
    BY <1>1, <1>3, <2>1, <2>2 DEF HolderFits
  <2> QED BY <1>2, <2>2, <2>3, EvaluationAnswers
<1>4. CASE /\ Reservation(records, k, c.request) = "REPLAY"
           /\ d \in IF r.resource = NoRecord THEN Latest(c.request) ELSE ByReference(r.resource)
  <2>1. r # NoRecord /\ r.status \in {"COMPLETED", "FAILED"}
    BY <1>1, <1>4, ReplayMeansDone
  <2>2. d \in decisions
    BY <1>4 DEF Latest, ByReference
  <2>3. CASE r.status = "FAILED"
    BY <1>1, <1>2, <2>1, <2>2, <2>3, EvaluationAnswers DEF EvaluationFits
  <2>4. CASE r.status = "COMPLETED"
    <3>1. r.resource # NoRecord /\ Reference(d) = r.resource
      BY <1>1, <1>4, <2>1, <2>4 DEF EvaluationFits, ByReference
    <3> QED BY <1>2, <2>1, <2>2, <2>4, <3>1, EvaluationAnswers
  <2> QED BY <2>1, <2>3, <2>4
<1> QED BY <1>3, <1>4

(* A new evaluation replayed from its record. *)
LEMMA ReplayAnswersRight ==
  ASSUME PolicyTypes, RecordsInv, StoreInv, AnswersInv, NEW h \in Handler, Handle(h), Reserve(h),
         NEW c \in Call, c = CallOf(h), c.op = "reevaluate",
         Reservation(records, CallKey(c), Content(c)) = "REPLAY", records' = records,
         records[CallKey(c)].resource # NoRecord,
         NEW d \in ByReference(records[CallKey(c)].resource), Answer(h, d)
  PROVE  NewAnswer(c, d)
<1> DEFINE k == CallKey(c)
           r == records[k]
<1>1. /\ k \in Keys /\ r # NoRecord /\ r.hash = Content(c)
      /\ r.status \in {"COMPLETED", "FAILED"} /\ r.resource = Reference(d)
  BY KeysApart, ReplayMeansDone DEF ByReference
<1>2. d \in decisions /\ decisions' = decisions
  BY DEF ByReference, Reserve, StoreSame
<1>3. Speaks(d, Content(c))'
  <2>1. Speaks(d, Content(c))
    BY <1>1 DEF StoreInv, ResourceFits
  <2>2. StoreGrows
    BY HandlersKeepStore
  <2> QED BY <2>1, <2>2, FactsStay
<1>4. ASSUME NEW g \in Handler PROVE ~ Holds(g, k)
  <2> SUFFICES ASSUME Holds(g, k) PROVE FALSE
    OBVIOUS
  <2>1. work[g] # None /\ CallOf(g) \in Call /\ HolderFits(g)
    BY TaskIs DEF Holds, PolicyTypes, RecordsInv
  <2>2. EvaluationKey(CallOf(g)) # k
    BY <2>1, KeysApart
  <2> QED BY <1>1, <2>1, <2>2 DEF Holds, HolderFits
<1>5. ASSUME NEW g \in Handler PROVE ~ Holds(g, k)'
  <2>1. RecordStep(h)
    BY HandlersKeepRecords
  <2>2. ~ Holds(h, k)'
    BY <1>1, <1>4, <2>1 DEF RecordStep, Holds, Left, Answer, Leave, PolicyTypes, WorkTypes
  <2>3. CASE g # h
    BY <1>4, <2>1, <2>3 DEF RecordStep, Holds, CallOf
  <2> QED BY <2>2, <2>3
<1>6. ASSUME NEW u \in told, CallKey(u.call) = k, k \notin expired PROVE u.decision = d
  <2>1. u.call.op = "reevaluate"
    BY <1>6, KeysApart DEF PolicyTypes
  <2>2. AnswerFits(u)
    BY DEF AnswersInv
  <2>3. u.decision \in decisions /\ r.resource \in {NoRecord, Reference(u.decision)}
    BY <1>6, <2>1, <2>2 DEF AnswerFits
  <2> QED BY <1>1, <1>2, <2>3 DEF StoreInv, StoreSound
<1>7. told' = told \cup {[call |-> c, decision |-> d]}
  BY DEF Answer
<1> QED BY <1>1, <1>2, <1>3, <1>5, <1>6, <1>7, ReevaluationAnswers

(* The first answer of a new evaluation. *)
LEMMA FinishAnswersRight ==
  ASSUME PolicyTypes, RecordsInv, StoreInv, AnswersInv, NEW h \in Handler, Handle(h), Finish(h),
         NEW c \in Call, c = CallOf(h), NEW d \in Decision, d = work[h].decision
  PROVE  NewAnswer(c, d)
<1> DEFINE k == CallKey(c)
<1>0. work[h] # None /\ work[h].at = "finish" /\ Left(h) /\ told' = told \cup {[call |-> c, decision |-> d]}
  BY AnswersLeave DEF Finish, At, Answer
<1>1. c.op = "reevaluate" /\ k \in Keys
  BY <1>0, KeysApart, PolicyAssumption DEF PolicyTypes, WorkTypes, Evaluating
<1>2. Holds(h, k) /\ records[k] # NoRecord /\ records[k].resource = NoRecord
  BY <1>0, <1>1 DEF RecordsInv, HolderFits, Holds
<1>3. d \in decisions' /\ Speaks(d, Content(c))'
  <2>1. d \in decisions /\ Speaks(d, Content(c))
    BY <1>0 DEF StoreInv, DecisionFits, Carrying
  <2>2. StoreGrows
    BY HandlersKeepStore
  <2> QED BY <2>1, <2>2, FactsStay DEF StoreGrows
<1>4. records'[k] # NoRecord /\ records'[k].resource \in {NoRecord, Reference(d)}
  <2>1. CASE records' = Completed(records, k, Reference(d))
    <3>1. Reference(d) \in References
      BY ReferencesAre
    <3> QED BY <1>1, <1>2, <2>1, <3>1, CompletedIs DEF Replaced
  <2> QED BY <1>2, <2>1 DEF Finish
<1>5. ASSUME NEW g \in Handler PROVE ~ Holds(g, k)'
  <2>1. CASE g = h
    BY <1>0, <2>1, LeftIs DEF PolicyTypes, Holds
  <2>2. CASE g # h
    BY <1>0, <1>1, <1>2, <2>2, LeftIs DEF PolicyTypes, Holds, CallOf, RecordsInv, HeldByOne
  <2> QED BY <2>1, <2>2
<1>6. ASSUME NEW u \in told, CallKey(u.call) = k, k \notin expired PROVE FALSE
  <2>1. u.call.op = "reevaluate"
    BY <1>1, <1>6, KeysApart DEF PolicyTypes
  <2> QED BY <1>2, <1>6, <2>1 DEF AnswersInv, AnswerFits
<1> QED BY <1>0, <1>1, <1>3, <1>4, <1>5, <1>6, ReevaluationAnswers

(* Whatever a handler answers fits.                                        *)
LEMMA HandlersAnswerRight ==
  ASSUME PolicyTypes, RecordsInv, StoreInv, AnswersInv, NEW h \in Handler, Handle(h)
  PROVE  /\ expired' = expired
         /\ told' = told \/ \E c \in Call, d \in Decision : NewAnswer(c, d)
<1> DEFINE Goal == told' = told \/ \E c \in Call, d \in Decision : NewAnswer(c, d)
<1>0. expired' = expired
  BY DEF Handle, Admit, Reserve, Look, Evaluate, Save, Complete, Audit, Fail, Decorate, Recheck,
         Finish, GiveUp, RecordsSame
<1>a. work[h] # None
  BY DEF Handle, Admit, Reserve, Look, Evaluate, Save, Complete, Audit, Fail, Decorate, Recheck,
         Finish, GiveUp, At
<1>b. PICK c \in Call : c = CallOf(h)
  BY <1>a, TaskIs DEF PolicyTypes
<1>c. c.op \in {"evaluate", "reevaluate"}
  BY PolicyAssumption
<1>d. ASSUME AnswerNothing(h) \/ Throw(h) \/ told' = told PROVE Goal
  BY <1>a, <1>d, ThrowMoves DEF AnswerNothing, PolicyTypes
<1>1. ASSUME Reserve(h) PROVE Goal
  <2>1. ASSUME Reservation(records, CallKey(c), Content(c)) = "REPLAY", records' = records,
               records[CallKey(c)].resource # NoRecord,
               NEW d \in ByReference(records[CallKey(c)].resource), Answer(h, d)
        PROVE  Goal
    <3>1. c.op = "reevaluate"
      BY <1>1, <1>b, <1>c DEF Reserve, At, PolicyTypes, WorkTypes, Evaluating
    <3>2. d \in Decision
      BY DEF ByReference, PolicyTypes
    <3> QED BY <1>1, <1>b, <2>1, <3>1, <3>2, ReplayAnswersRight
  <2> QED BY <1>1, <1>b, <1>d, <2>1 DEF Reserve
<1>2. ASSUME Evaluate(h) PROVE Goal
  <2>1. ASSUME Reservation(records, EvaluationKey(c), c.request) = "REPLAY", records' = records,
               NEW d \in IF records[EvaluationKey(c)].resource = NoRecord THEN Latest(c.request)
                         ELSE ByReference(records[EvaluationKey(c)].resource),
               Return(h, d)
        PROVE  Goal
    <3>1. CASE c.op = "evaluate"
      <4>1. told' = told \cup {[call |-> c, decision |-> d]}
        BY <1>b, <2>1, <3>1 DEF Return, Answer
      <4>2. EvaluationKey(c) = CallKey(c) /\ d \in Decision /\ At(h, "evaluate")
        BY <1>2, <3>1 DEF EvaluationKey, Latest, ByReference, PolicyTypes, Evaluate
      <4>3. NewAnswer(c, d)
        BY <1>2, <1>b, <2>1, <3>1, <4>1, <4>2, EvaluateAnswersRight
      <4> QED BY <4>2, <4>3
    <3>2. CASE c.op # "evaluate"
      BY <1>b, <2>1, <3>2, <1>d DEF Return
    <3> QED BY <3>1, <3>2
  <2> QED BY <1>2, <1>b, <1>d, <2>1 DEF Evaluate
<1>3. ASSUME Audit(h) PROVE Goal
  <2>1. CASE Return(h, Base(c))
    <3>1. CASE c.op = "evaluate"
      <4>1. told' = told \cup {[call |-> c, decision |-> Base(c)]}
        BY <1>b, <2>1, <3>1 DEF Return, Answer
      <4>2. Base(c) \in Decision /\ At(h, "audit") /\ records' = records
        BY <1>3, BaseIsDecision DEF Audit, RecordsSame
      <4>3. NewAnswer(c, Base(c))
        BY <1>3, <1>b, <3>1, <4>1, <4>2, EvaluateAnswersRight
      <4> QED BY <4>2, <4>3
    <3>2. CASE c.op # "evaluate"
      BY <1>b, <2>1, <3>2, <1>d DEF Return
    <3> QED BY <3>1, <3>2
  <2> QED BY <1>3, <1>b, <1>d, <2>1 DEF Audit
<1>4. ASSUME Finish(h) PROVE Goal
  <2>1. PICK d \in Decision : d = work[h].decision
    BY <1>4 DEF Finish, At, PolicyTypes, WorkTypes, Carrying
  <2> QED BY <1>4, <1>b, <2>1, FinishAnswersRight
<1>5. ASSUME Admit(h) \/ Look(h) \/ Save(h) \/ Complete(h) \/ Fail(h) \/ Decorate(h)
             \/ Recheck(h) \/ GiveUp(h)
      PROVE  Goal
  BY <1>5, <1>d DEF Admit, Look, Save, Complete, Fail, Decorate, Recheck, GiveUp
<1> QED BY <1>0, <1>1, <1>2, <1>3, <1>4, <1>5 DEF Handle

(* At the start nothing has been answered.                                 *)
LEMMA AnswersInit == InitPolicy => AnswersInv
BY DEF InitPolicy, AnswersInv

(* Every step keeps the answers.                                           *)
LEMMA AnswersInductive ==
  ASSUME PolicyTypes, RecordsInv, StoreInv, AnswersInv, [PolicyNext]_policyVars
  PROVE  AnswersInv'
<1>1. ASSUME NEW h \in Handler, Handle(h) PROVE AnswersInv'
  <2>1. StoreGrows /\ RecordStep(h)
    BY <1>1, HandlersKeepStore, HandlersKeepRecords
  <2>2. expired' = expired /\ (told' = told \/ \E c \in Call, d \in Decision : NewAnswer(c, d))
    BY <1>1, HandlersAnswerRight
  <2>3. \A t \in told : AnswerFits(t)'
    BY <2>1, <2>2, AnswersStay DEF AnswersInv
  <2> QED BY <2>2, <2>3, AnswersGrow
<1>2. ASSUME NEW h \in Handler, NEW c \in story.calls, Submit(h, c) PROVE AnswersInv'
  <2>1. expired' = expired /\ told' = told
    BY <1>2 DEF Submit, RecordsSame
  <2>2. StoreGrows
    BY <1>2, StoreStays DEF Submit, StoreSame, RecordsSame, StoreInv
  <2>3. \A t \in told : AnswerFits(t)'
    BY <1>2, <2>1, <2>2, SubmitKeepsRecords, AnswersStay DEF AnswersInv
  <2> QED BY <2>1, <2>3, AnswersGrow
<1>3. ASSUME told' = told, records' = records, failed' = failed, expired' = expired, StoreGrows,
             \A g \in Handler : work'[g] = work[g] \/ work'[g] = None
      PROVE  AnswersInv'
  <2>1. \A g \in Handler : \A k : Holds(g, k)' => Holds(g, k)
    BY <1>3 DEF Holds, CallOf
  <2>2. ASSUME NEW t \in told PROVE AnswerFits(t)'
    <3>1. AnswerFits(t)
      BY DEF AnswersInv
    <3>2. t.decision \in decisions' /\ (t.call.op = "reevaluate" => Speaks(t.decision, Content(t.call))')
      BY <1>3, <3>1, FactsStay DEF AnswerFits, StoreGrows
    <3> QED BY <1>3, <2>1, <3>1, <3>2 DEF AnswerFits
  <2> QED BY <1>3, <2>2, AnswersGrow
<1>4. ASSUME NEW p \in Host, Crash(p) PROVE AnswersInv'
  <2>1. StoreGrows
    BY <1>4, StoreStays DEF Crash, StoreSame, RecordsSame, StoreInv
  <2> QED BY <1>3, <1>4, <2>1 DEF Crash, RecordsSame
<1>5. ASSUME NEW d \in late, Settle(d) PROVE AnswersInv'
  <2>1. Sound(d) /\ StoreSound /\ failed' = failed /\ late' \subseteq late
    BY <1>5 DEF Settle, RecordsSame, StoreInv, StoreSound
  <2>2. StoreGrows
    <3>1. CASE Land(d)
      <4>1. Immutable(d) /\ decisions' = Kept(d) /\ snapshots \subseteq snapshots'
              /\ d.evidence \in snapshots'
        BY <2>1, <3>1 DEF Land, Sound
      <4> QED BY <2>1, <4>1, StoreAdds
    <3>2. CASE UNCHANGED <<decisions, snapshots>>
      BY <2>1, <3>2, StoreStays
    <3> QED BY <1>5, <3>1, <3>2 DEF Settle
  <2> QED BY <1>3, <1>5, <2>2 DEF Settle, RecordsSame
<1>6. ASSUME NEW k \in Keys, Expire(k) PROVE AnswersInv'
  <2>1. /\ told' = told /\ work' = work /\ failed' = failed /\ expired' = expired \cup {k}
        /\ \A j \in Keys : j # k => records'[j] = records[j]
    BY <1>6, ExpireKeepsRecords DEF Expire
  <2>2. StoreGrows
    BY <1>6, StoreStays DEF Expire, StoreSame, StoreInv
  <2>3. ASSUME NEW t \in told PROVE AnswerFits(t)'
    <3>1. AnswerFits(t) /\ CallKey(t.call) \in Keys
      BY KeysApart DEF AnswersInv, PolicyTypes
    <3>2. t.decision \in decisions' /\ (t.call.op = "reevaluate" => Speaks(t.decision, Content(t.call))')
      BY <2>2, <3>1, FactsStay DEF AnswerFits, StoreGrows
    <3>3. \A g \in Handler : \A j : Holds(g, j)' <=> Holds(g, j)
      BY <2>1 DEF Holds, CallOf
    <3> QED BY <2>1, <3>1, <3>2, <3>3 DEF AnswerFits
  <2> QED BY <2>1, <2>3 DEF AnswersInv
<1>7. ASSUME UNCHANGED policyVars PROVE AnswersInv'
  <2>1. StoreGrows
    BY <1>7, StoreStays DEF policyVars, StoreInv
  <2> QED BY <1>3, <1>7, <2>1 DEF policyVars
<1> QED BY <1>1, <1>2, <1>4, <1>5, <1>6, <1>7 DEF PolicyNext, Step

-----------------------------------------------------------------------------
(* The results *)

PolicyInv == PolicyTypes /\ RecordsInv /\ StoreInv /\ AnswersInv

(* The four parts are invariant together.                                  *)
LEMMA PolicyInvariant == PolicySpec => []PolicyInv
<1>1. InitPolicy => PolicyInv
  BY TypesInit, RecordsInit, StoreInit, AnswersInit DEF PolicyInv
<1>2. PolicyInv /\ [PolicyNext]_policyVars => PolicyInv'
  BY TypesInductive, RecordsInductive, StoreInductive, AnswersInductive DEF PolicyInv
<1> QED BY <1>1, <1>2, PTL DEF PolicySpec

(* Whatever evaluate or reevaluate returns is kept with its snapshot and   *)
(* with the decision it is over, and a new evaluation on evidence that is  *)
(* stale, missing or in conflict never returns ALLOW, though handlers of   *)
(* several processes repeat each other, processes stop, transactions fail  *)
(* or land late, and records expire.                                       *)
THEOREM AnswersKept == PolicySpec => []AnswersAreKept
<1>1. PolicyInv => AnswersAreKept
  <2> SUFFICES ASSUME PolicyInv, NEW t \in told
               PROVE  /\ t.decision \in decisions
                      /\ t.decision.evidence \in snapshots
                      /\ t.decision.over # None => ByReference(t.decision.over) # {}
                      /\ t.call.op = "reevaluate" /\ t.decision.outcome = "ALLOW" =>
                           t.call.evidence \in Safe
    BY DEF AnswersAreKept
  <2>1. t.decision \in decisions /\ (t.call.op = "reevaluate" => Speaks(t.decision, Content(t.call)))
    BY DEF PolicyInv, AnswersInv, AnswerFits
  <2> QED BY <2>1 DEF PolicyInv, StoreInv, StoreSound, Sound, Speaks, Content
<1> QED BY <1>1, PolicyInvariant, PTL

(* A key of which no evaluation has failed and no record has expired is    *)
(* answered with one decision, however often it is asked, and what a new   *)
(* evaluation answers was made on the evidence that it was asked about.    *)
THEOREM OnlyFailuresMix == PolicySpec => []OnlyFailuresMixDecisions
<1>1. PolicyInv => OnlyFailuresMixDecisions
  <2> SUFFICES ASSUME PolicyInv, NEW t \in told, EvaluationKey(t.call) \notin failed
               PROVE  /\ t.call.op = "reevaluate" => t.decision.evidence = t.call.evidence
                      /\ \A u \in told :
                           CallKey(u.call) = CallKey(t.call) /\ CallKey(t.call) \notin expired =>
                             t.decision = u.decision
    BY DEF OnlyFailuresMixDecisions
  <2>0. t.call \in Call /\ t.call.op \in {"evaluate", "reevaluate"} /\ AnswerFits(t)
    BY PolicyAssumption DEF PolicyInv, PolicyTypes, AnswersInv
  <2>1. t.call.op = "reevaluate" => t.decision.evidence = t.call.evidence
    BY <2>0 DEF AnswerFits, Speaks, EvaluationKey, Content
  <2>2. ASSUME NEW u \in told, CallKey(u.call) = CallKey(t.call), CallKey(t.call) \notin expired
        PROVE  t.decision = u.decision
    <3>1. u.call \in Call /\ AnswerFits(u)
      BY DEF PolicyInv, PolicyTypes, AnswersInv
    <3>2. CASE t.call.op = "reevaluate"
      BY <2>2, <3>2 DEF PolicyInv, AnswersInv
    <3>3. CASE t.call.op = "evaluate"
      <4>1. u.call.op = "evaluate" /\ CallKey(t.call) \notin failed
        BY <2>0, <2>2, <3>1, <3>3, KeysApart DEF EvaluationKey
      <4>2. Reference(t.decision) = Reference(u.decision)
              /\ t.decision \in decisions /\ u.decision \in decisions
        BY <2>0, <2>2, <3>1, <3>3, <4>1 DEF AnswerFits
      <4> QED BY <4>2 DEF PolicyInv, StoreInv, StoreSound
    <3> QED BY <2>0, <3>2, <3>3
  <2> QED BY <2>1, <2>2
<1> QED BY <1>1, PolicyInvariant, PTL

=============================================================================
