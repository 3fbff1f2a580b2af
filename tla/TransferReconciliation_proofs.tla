-------------------- MODULE TransferReconciliation_proofs ---------------------
(***************************************************************************)
(* Proof about TransferReconciliation: in every state that TransferLifecycle *)
(* can reach, a report on a transfer says what is true of it.              *)
(*                                                                         *)
(* The invariant of the lifecycle says what a report compares.  It counts  *)
(* the journals it finds, so that it must also be known that there are     *)
(* finitely many of them, as MoneyInv does.                                *)
(***************************************************************************)
EXTENDS TransferReconciliation, TransferLifecycle_proofs

PostedSoFar == IsFiniteSet(journals \cap Transfer)

-----------------------------------------------------------------------------
(* What a report looks for in a correlated set of transfers. *)
LEMMA CandidateSet ==
  ASSUME LifecycleInv, NEW t \in Transfer, NEW together \in SUBSET Transfer, rows[t] # None
  PROVE  Candidates(t, together) =
           ({t, rows[t].journal} \cap journals)
             \cup (IF t \in together THEN together \cap journals ELSE {})
BY DEF Candidates, Correlated

(* A set that has t has one element when it has no other. *)
LEMMA CountsOne ==
  ASSUME NEW S, IsFiniteSet(S), NEW t \in S
  PROVE  Cardinality(S) > 1 <=> ~ S \subseteq {t}
<1>1. Cardinality(S) \in Nat /\ Cardinality(S) # 0
  BY FS_CardinalityType, FS_EmptySet
<1>2. Cardinality(S) = 1 <=> S \subseteq {t}
  BY FS_Singleton
<1> QED
  BY <1>1, <1>2

(* A transfer that its own posting completed. *)
LEMMA OwnPosting ==
  ASSUME LifecycleInv, PostedSoFar, NEW t \in Transfer, NEW together \in SUBSET Transfer,
         rows[t] # None, rows[t].status = "COMPLETED", rows[t].journal = t
  PROVE  Discrepancies(t, together) = {}
           <=> (t \in together => together \cap journals \subseteq {t})
<1>1. t \in journals /\ t \in events
  BY DEF LifecycleInv, MoneyMovesWithStatus
<1>2. t # None
  BY TransferAssumption
<1>3. OfEvent(t) = {}
  BY <1>1 DEF OfEvent, Found
<1>4. OfJournal(t, together) = Found("DUPLICATE_JOURNAL", Cardinality(Candidates(t, together)) > 1)
  BY <1>2 DEF OfJournal, Found
<1>5. Candidates(t, together) = {t} \cup (IF t \in together THEN together \cap journals ELSE {})
  BY <1>1, CandidateSet
<1>6. IsFiniteSet(Candidates(t, together))
  <2>1. Candidates(t, together) \in SUBSET (journals \cap Transfer)
    BY <1>1, <1>5
  <2> QED
    BY <2>1, FS_Subset DEF PostedSoFar
<1>7. Cardinality(Candidates(t, together)) > 1 <=> ~ Candidates(t, together) \subseteq {t}
  <2>1. t \in Candidates(t, together)
    BY <1>5
  <2> QED
    BY <2>1, <1>6, CountsOne
<1>8. Discrepancies(t, together) = {} <=> Candidates(t, together) \subseteq {t}
  BY <1>3, <1>4, <1>7 DEF Discrepancies, Found
<1> QED
  BY <1>5, <1>8

(* A transfer that another journal completed. *)
LEMMA ForeignPosting ==
  ASSUME NEW t \in Transfer, NEW together \in SUBSET Transfer,
         rows[t] # None, rows[t].status = "COMPLETED", rows[t].journal # t
  PROVE  Discrepancies(t, together) # {}
<1>1. OfJournal(t, together) # {}
  BY DEF OfJournal, Found
<1> QED
  BY <1>1 DEF Discrepancies

(* A transfer that is not completed has no journal. *)
LEMMA NoPosting ==
  ASSUME LifecycleInv, NEW t \in Transfer, NEW together \in SUBSET Transfer,
         rows[t] # None, rows[t].status # "COMPLETED"
  PROVE  Discrepancies(t, together) = {}
           <=> (t \in together => together \cap journals \subseteq {t})
<1>1. rows[t].journal = None /\ t \notin journals /\ None \notin journals
  BY TransferAssumption DEF LifecycleInv, MoneyMovesWithStatus, TypeOK
<1>2. Candidates(t, together) = IF t \in together THEN together \cap journals ELSE {}
  BY <1>1, CandidateSet
<1>3. Discrepancies(t, together) = {} <=> Candidates(t, together) = {}
  BY DEF Discrepancies, Found
<1> QED
  BY <1>1, <1>2, <1>3

LEMMA ReportsSayTheTruth ==
  LifecycleInv /\ PostedSoFar => ReportsAreExact
BY OwnPosting, ForeignPosting, NoPosting DEF ReportsAreExact

(* In every state, for every set of transfers that were given one          *)
(* correlation id, a report passes a transfer exactly when it is not       *)
(* completed or completed by its own posting, and no other transfer of the *)
(* set has posted: reconciliation raises no false alarm about a transfer   *)
(* in flight, and misses no foreign journal.                               *)
THEOREM ReportsHold == Spec => []ReportsAreExact
<1>1. LifecycleInv /\ MoneyInv => ReportsAreExact
  BY SettledArePosted, ReportsSayTheTruth DEF MoneyInv, PostedSoFar
<1> QED
  BY <1>1, LifecycleInvariant, MoneyInvariant, PTL

=============================================================================
