--------------------------- MODULE FinanceJournals ---------------------------
(***************************************************************************)
(* B2FJournalGovernanceService: a finance journal is prepared, submitted,  *)
(* approved, and posted to the A5 ledger.                                  *)
(*                                                                         *)
(* postApprovedJournal is one SERIALIZABLE transaction that calls A5 on    *)
(* its way: A5 posts in a transaction of its own, under a key of the       *)
(* journal, and what it did stays when the transaction around it is rolled *)
(* back, by a crash, a conflict or an error.  The transaction holds the    *)
(* lock of the journal from before the call; it takes effect when it       *)
(* commits, if what it read still holds.                                   *)
(***************************************************************************)
EXTENDS AccountMappings

CONSTANTS
  Journal

VARIABLES
  journals,  \* b2f_finance_journal_governance: Journal -> row or None
  drafting,  \* createJournal: the calls that were validated, and not saved yet
  posting,   \* the transaction that holds a journal: its call and A5's answer
  a5         \* journals of A5 under keys of finance journals

journalVars == <<journals, drafting, posting, a5>>
vars == <<asked, approvalVars, controlVars, calendar, mappingVars, journalVars>>

JournalState == {"DRAFT", "PENDING_APPROVAL", "REJECTED", "POSTED", "FAILED", "POSTING_UNKNOWN"}
JournalRow ==
  [state : JournalState, period : Period, amount : Amount, preparer : Principal,
   approval : Approval \cup {None}, version : Nat \ {0}]

(* null is no journal; one is prepared by a principal, for a period, and   *)
(* posted, or rejected, under an approval.                                 *)
ASSUME JournalAssumption ==
  /\ None \notin JournalRow
  /\ \A c \in Call : c.op = "prepare" =>
       c.by \in Principal /\ c.period \in Period /\ c.amount \in Amount
  /\ \A c \in Call : c.op = "post" => c.journal \in Journal /\ c.approval \in Approval

Init ==
  /\ \E s \in Agenda :
       InitApprovals(s.calls) /\ InitCalendar(s.periods) /\ InitMappings(s.mappings)
  /\ InitControls
  /\ journals = [j \in Journal |-> None]
  /\ drafting = {}
  /\ posting = [j \in Journal |-> None]
  /\ a5 = {}

JournalIn(j, state) == journals[j] # None /\ journals[j].state = state
Locked(j) == posting[j] # None
Into(row, state) == [row EXCEPT !.state = state, !.version = @ + 1]
outside == <<asked, calendar, mappingVars>>

-----------------------------------------------------------------------------
(* Preparation *)

(* validate reads the mapping and the period outside the transaction. *)
Valid(c) == Verified(c.mapping, c.period) /\ Admissible(c.period, c.kind)

Validate(c) ==
  /\ Fresh(c) /\ c \notin drafting
  /\ Valid(c)
  /\ drafting' = drafting \cup {c}
  /\ UNCHANGED <<outside, approvalVars, controlVars, journals, posting, a5>>

CreateJournal(c) ==
  /\ c \in drafting
  /\ drafting' = drafting \ {c}
  /\ IF Fresh(c) /\ journals[c.journal] = None
     THEN /\ journals' = [journals EXCEPT ![c.journal] =
               [state |-> "DRAFT", period |-> c.period, amount |-> c.amount,
                preparer |-> c.by, approval |-> None, version |-> 1]]
          /\ Complete(c)
     ELSE UNCHANGED <<journals, records>>
  /\ UNCHANGED <<outside, approvalVars, policies, audit, posting, a5>>

RejectCreation(c) ==
  /\ Fresh(c) /\ ~ Valid(c)
  /\ Fail(c)
  /\ UNCHANGED <<outside, approvalVars, policies, audit, journalVars>>

(* submitForApproval and rejectJournal *)
From(c) == IF c.op = "submit" THEN "DRAFT" ELSE "PENDING_APPROVAL"
To(c) == IF c.op = "submit" THEN "PENDING_APPROVAL" ELSE "REJECTED"

ChangeState(c) ==
  /\ Fresh(c) /\ ~ Locked(c.journal)
  /\ IF JournalIn(c.journal, From(c)) /\ journals[c.journal].version = c.expected
     THEN journals' = [journals EXCEPT ![c.journal] = Into(@, To(c))] /\ Complete(c)
     ELSE Fail(c) /\ UNCHANGED journals
  /\ UNCHANGED <<outside, approvalVars, policies, audit, drafting, posting, a5>>

-----------------------------------------------------------------------------
(* Posting *)

Postable(c) ==
  /\ Fresh(c)
  /\ journals[c.journal] # None /\ journals[c.journal].version = c.expected
  /\ journals[c.journal].state \in {"PENDING_APPROVAL", "POSTING_UNKNOWN"}

RejectPosting(c) ==
  /\ Fresh(c) /\ ~ Locked(c.journal) /\ ~ Postable(c)
  /\ Fail(c)
  /\ UNCHANGED <<outside, approvalVars, policies, audit, journalVars>>

JournalIntent(c) == Fingerprint("JOURNAL_POST", c.journal, 0)
JournalVerdict(c) ==
  Verdict(c, JournalIntent(c), journals[c.journal].preparer, journals[c.journal].amount)

Reject(c) ==
  /\ Postable(c) /\ ~ Locked(c.journal)
  /\ JournalIn(c.journal, "PENDING_APPROVAL") /\ JournalVerdict(c) # "ALLOW"
  /\ Authorise(c, JournalIntent(c), c.expected, JournalVerdict(c), FALSE)
  /\ journals' = [journals EXCEPT ![c.journal] =
       [Into(@, "REJECTED") EXCEPT !.approval = c.approval]]
  /\ UNCHANGED <<outside, policies, drafting, posting, a5>>

(* The approval the journal is posted under, which A5's request names. *)
PostingApproval(c) ==
  IF JournalIn(c.journal, "PENDING_APPROVAL") THEN c.approval ELSE journals[c.journal].approval

(* The transaction may go on to A5, and to its commit. *)
Approved(c) ==
  /\ Postable(c)
  /\ JournalIn(c.journal, "PENDING_APPROVAL") => JournalVerdict(c) = "ALLOW" /\ Decidable(c)

(* Mutant: each approval has a key of its own in A5. *)
A5KeyPerApproval(journal, approval) == [journal |-> journal, approval |-> approval]

A5Key(journal, approval) == [journal |-> journal]

PostedUnder(key) == {p \in a5 : p.key = key}

(* What LedgerService.postJournal answers, and leaves in A5: the journal   *)
(* that is there, if it is the same request; a conflict, if it is another; *)
(* and of a new one, that it is posted, that it is rejected, or an error   *)
(* that may come before it is posted or after.                             *)
PostToA5(c) ==
  LET approval == PostingApproval(c)
      key == A5Key(c.journal, approval)
      new == [key |-> key, journal |-> c.journal, approval |-> approval]
      Hold(answer) == posting' = [posting EXCEPT ![c.journal] =
                                    [call |-> c, answer |-> answer]]
  IN  /\ Approved(c) /\ ~ Locked(c.journal)
      /\ \/ PostedUnder(key) = {} /\ a5' = a5 \cup {new} /\ Hold("POSTED")
         \/ PostedUnder(key) = {} /\ a5' = a5 \cup {new} /\ Hold("POSTING_UNKNOWN")
         \/ PostedUnder(key) = {} /\ a5' = a5 /\ Hold("FAILED")
         \/ new \in PostedUnder(key) /\ a5' = a5 /\ Hold("POSTED")
         \/ PostedUnder(key) \ {new} # {} /\ a5' = a5 /\ Hold("FAILED")
         \/ a5' = a5 /\ Hold("POSTING_UNKNOWN")
  /\ UNCHANGED <<outside, approvalVars, controlVars, journals, drafting>>

Settled(row, c, state) ==
  [row EXCEPT !.state = state, !.version = @ + 2, !.approval = PostingApproval(c)]

CommitPosting(j) ==
  /\ Locked(j)
  /\ LET c == posting[j].call
         answer == posting[j].answer
     IN  /\ Approved(c)
         /\ journals' = [journals EXCEPT ![j] = Settled(@, c, answer)]
         /\ IF JournalIn(j, "PENDING_APPROVAL")
            THEN Authorise(c, JournalIntent(c), c.expected, "ALLOW", answer = "POSTED")
            ELSE /\ IF answer = "POSTED" THEN Complete(c) ELSE Fail(c)
                 /\ UNCHANGED <<approvalVars, audit>>
  /\ posting' = [posting EXCEPT ![j] = None]
  /\ UNCHANGED <<outside, policies, drafting, a5>>

(* The transaction is rolled back: the process stops, the commit or a      *)
(* statement fails, or what it read has changed.                           *)
AbortPosting(j) ==
  /\ Locked(j)
  /\ posting' = [posting EXCEPT ![j] = None]
  /\ UNCHANGED <<outside, approvalVars, controlVars, journals, drafting, a5>>

JournalStep ==
  \/ \E c \in Asking("prepare") : Validate(c) \/ CreateJournal(c) \/ RejectCreation(c)
  \/ \E c \in Asking("submit") \cup Asking("withdraw") : ChangeState(c)
  \/ \E c \in Asking("post") : RejectPosting(c) \/ Reject(c) \/ PostToA5(c)
  \/ \E j \in Journal : CommitPosting(j) \/ AbortPosting(j)

Next ==
  \/ ApprovalStep /\ UNCHANGED <<controlVars, calendar, mappingVars, journalVars>>
  \/ ControlStep /\ UNCHANGED <<calendar, mappingVars, journalVars>>
  \/ CalendarStep /\ UNCHANGED <<mappingVars, journalVars>>
  \/ MappingStep /\ UNCHANGED journalVars
  \/ JournalStep

Spec == Init /\ [][Next]_vars

-----------------------------------------------------------------------------
(* Properties *)

(* Every variable holds what its table, or its process, can hold. *)
FinanceTypeOK ==
  /\ ApprovalsTyped /\ ControlsTyped /\ CalendarTyped /\ MappingsTyped
  /\ journals \in [Journal -> JournalRow \cup {None}]
  /\ drafting \subseteq {c \in Call : c.op = "prepare"}
  /\ posting \in [Journal -> [call : {c \in Call : c.op = "post"},
                              answer : {"POSTED", "FAILED", "POSTING_UNKNOWN"}] \cup {None}]
  /\ \A p \in a5 : p.journal \in Journal /\ p.approval \in Approval

(* However often a journal is posted again, after an answer that was lost, *)
(* a transaction rolled back or another approval, A5 has it once; and what *)
(* is posted is there, under the approval the journal names.               *)
JournalsReachTheLedgerOnce ==
  \A j \in Journal :
    /\ Cardinality({p \in a5 : p.journal = j}) <= 1
    /\ JournalIn(j, "POSTED") => \E p \in a5 : p.journal = j /\ p.approval = journals[j].approval

(* No posting is asked of A5 for a period that is closed for good, even if *)
(* the period was open when the journal was prepared.                      *)
ClosedPeriodsTakeNoPosting ==
  [][\A p \in a5' \ a5 : periods[journals[p.journal].period].state # "HARD_CLOSED"]_vars
=============================================================================
