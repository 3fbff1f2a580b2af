---------------------------- MODULE FiscalPeriods ----------------------------
(***************************************************************************)
(* B2FFiscalPeriodService: a fiscal year and its accounting periods, which *)
(* open and close under an approval and a control decision.                *)
(***************************************************************************)
EXTENDS FinanceControls

CONSTANTS
  Period     \* accounting periods of the year (twelve in the code)

VARIABLES
  year,      \* b2f_finance_fiscal_years: the state of the year, or None
  periods,   \* b2f_finance_accounting_periods: Period -> row or None
  closed     \* periods of which the window to reopen is over

calendar == <<year, periods, closed>>

PeriodState == {"PLANNED", "OPEN", "SOFT_CLOSED", "HARD_CLOSED", "REOPENED", "RETIRED"}
YearState == {"PLANNED", "ACTIVE", "CLOSED", "RETIRED"}
PeriodRow == [state : PeriodState, version : Nat \ {0}]
NoPeriod == [p \in Period |-> None]

(* null is no row and no state; a year is there with all its periods, or   *)
(* not at all; and a transition is asked of a period of the year.          *)
ASSUME CalendarAssumption ==
  /\ Period # {}
  /\ None \notin PeriodRow \cup YearState
  /\ \A s \in Agenda : s.periods \in [Period -> PeriodRow] \cup {NoPeriod}
  /\ \A c \in Call : c.op = "transition" => c.period \in Period

CanTransition ==
  [PLANNED |-> {"OPEN", "RETIRED"},
   OPEN |-> {"SOFT_CLOSED", "RETIRED"},
   SOFT_CLOSED |-> {"OPEN", "HARD_CLOSED", "RETIRED"},
   HARD_CLOSED |-> {"REOPENED", "RETIRED"},
   REOPENED |-> {"SOFT_CLOSED"},
   RETIRED |-> {}]

CreateFiscalYear(c) ==
  /\ Fresh(c)
  /\ IF year = None
     THEN /\ year' = "PLANNED"
          /\ periods' = [p \in Period |-> [state |-> "PLANNED", version |-> 1]]
          /\ Complete(c)
     ELSE Fail(c) /\ UNCHANGED <<year, periods>>
  /\ UNCHANGED <<asked, approvalVars, policies, audit, closed>>

(* Mutant: a year of which a period is reopened stays closed. *)
SynchronizedOnce(state, rows) ==
  LET states == {rows[p].state : p \in Period}
  IN  CASE states = {"RETIRED"} -> "RETIRED"
        [] states # {"RETIRED"} /\ states \subseteq {"HARD_CLOSED", "RETIRED"} -> "CLOSED"
        [] ~ states \subseteq {"HARD_CLOSED", "RETIRED"} /\ states # {"PLANNED"}
             /\ state = "PLANNED" -> "ACTIVE"
        [] OTHER -> state

(* The state of a year whose periods have become so. *)
Synchronized(state, rows) ==
  LET states == {rows[p].state : p \in Period}
  IN  CASE states = {"RETIRED"} -> "RETIRED"
        [] states # {"RETIRED"} /\ states \subseteq {"HARD_CLOSED", "RETIRED"} -> "CLOSED"
        [] ~ states \subseteq {"HARD_CLOSED", "RETIRED"} /\ states # {"PLANNED"} -> "ACTIVE"
        [] OTHER -> state

InitCalendar(rows) ==
  /\ periods = rows
  /\ year = IF \E p \in Period : rows[p] = None THEN None ELSE Synchronized("PLANNED", rows)
  /\ closed = {}

ValidTransition(c) ==
  /\ periods[c.period] # None
  /\ periods[c.period].version = c.expected
  /\ c.target \in CanTransition[periods[c.period].state]

PeriodIntent(c) == Fingerprint(c.target, c.period, c.expected)

ApplyTransition(c) ==
  LET row == [state |-> c.target, version |-> periods[c.period].version + 1]
  IN  /\ periods' = [periods EXCEPT ![c.period] = row]
      /\ year' = Synchronized(year, periods')
      /\ closed' = closed \ {c.period}

TransitionPeriod(c) ==
  /\ Fresh(c) /\ ValidTransition(c)
  /\ LET verdict == Verdict(c, PeriodIntent(c), approvals[c.approval].requester, "small")
     IN  /\ Authorise(c, PeriodIntent(c), c.expected, verdict, verdict = "ALLOW")
         /\ IF verdict = "ALLOW" THEN ApplyTransition(c) ELSE UNCHANGED calendar
  /\ UNCHANGED <<asked, policies>>

RejectTransition(c) ==
  /\ Fresh(c) /\ ~ ValidTransition(c)
  /\ Fail(c)
  /\ UNCHANGED <<asked, approvalVars, policies, audit, calendar>>

ReopenExpires(p) ==
  /\ periods[p] # None /\ periods[p].state = "REOPENED" /\ p \notin closed
  /\ closed' = closed \cup {p}
  /\ UNCHANGED <<asked, approvalVars, controlVars, year, periods>>

(* evaluateAdmission: whether a journal of a kind is taken into a period. *)
Admissible(p, kind) ==
  /\ periods[p] # None
  /\ \/ kind = "ORDINARY" /\ periods[p].state = "OPEN"
     \/ kind = "CLOSE_ADJUSTMENT" /\ periods[p].state = "SOFT_CLOSED"
     \/ kind = "REOPEN_CORRECTION" /\ periods[p].state = "REOPENED" /\ p \notin closed

CalendarStep ==
  \/ \E c \in Asking("year") : CreateFiscalYear(c)
  \/ \E c \in Asking("transition") : TransitionPeriod(c) \/ RejectTransition(c)
  \/ \E p \in Period : ReopenExpires(p)

CalendarTyped ==
  /\ year \in YearState \cup {None}
  /\ periods \in [Period -> PeriodRow \cup {None}]
  /\ closed \in SUBSET Period

(* The year is closed while all its periods are, and only then: it becomes *)
(* active with the first period that opens, and again when one is reopened *)
(* after the whole year was closed.                                        *)
YearFollowsPeriods ==
  year # None =>
    LET states == {periods[p].state : p \in Period}
    IN  /\ year = "RETIRED" <=> states = {"RETIRED"}
        /\ year \in {"CLOSED", "RETIRED"} <=> states \subseteq {"HARD_CLOSED", "RETIRED"}
        /\ year = "PLANNED" <=> states = {"PLANNED"}
=============================================================================
