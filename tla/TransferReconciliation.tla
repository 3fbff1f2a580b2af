------------------------ MODULE TransferReconciliation ------------------------
(***************************************************************************)
(* The reconciliation of A5 transfers                                      *)
(* (src/src/reconciliation/transfer-reconciliation.service.ts).  A report  *)
(* reads one snapshot of the database (REPEATABLE READ, READ ONLY), at any *)
(* moment, so that it is a function of a state of TransferLifecycle.       *)
(*                                                                         *)
(* A correlation id comes with the request that creates a transfer:        *)
(* together is the set of the transfers that were given one and the same.  *)
(* A posting writes the transfer and its correlation into its journal; a   *)
(* journal of other business has neither, and what else is wrong with it   *)
(* is left out, as are the audit rows that a posting writes with its event.*)
(***************************************************************************)
EXTENDS TransferLifecycle

Correlated(t, k, together) == k = t \/ {t, k} \subseteq together

(* Mutant: only a journal of the transfer itself is looked for. *)
CandidatesOwn(t, together) == {k \in journals : k \in {t, rows[t].journal}}

(* journalCandidates *)
Candidates(t, together) ==
  {k \in journals : k = rows[t].journal \/ Correlated(t, k, together)}

Found(code, condition) == IF condition THEN {code} ELSE {}

OfJournal(t, together) ==
  LET k == rows[t].journal IN
  UNION {Found("ORPHAN_TRANSFER", k = None),
         Found("DUPLICATE_JOURNAL", Cardinality(Candidates(t, together)) > 1),
         Found("JOURNAL_CORRELATION_MISMATCH", k \notin {None, t}),
         Found("SOURCE_ACCOUNT_MISMATCH", k \in Transfer /\ Source[k] # Source[t]),
         Found("DESTINATION_ACCOUNT_MISMATCH", k \in Transfer /\ Destination[k] # Destination[t]),
         Found("AMOUNT_MISMATCH", k \in Transfer /\ Amount[k] # Amount[t])}

(* The event names the journal of the posting that wrote it. *)
OfEvent(t) ==
  Found("MISSING_OUTBOX_EVENT", t \notin events)
  \cup Found("OUTBOX_PAYLOAD_MISMATCH", t \in events /\ rows[t].journal # t)

(* The discrepancies of a report; without any, its status is PASS. *)
Discrepancies(t, together) ==
  IF rows[t].status = "COMPLETED"
    THEN OfJournal(t, together) \cup OfEvent(t)
    ELSE Found("ORPHAN_JOURNAL", Candidates(t, together) # {})

(* Reconciliation raises no false alarm and misses nothing that a lost     *)
(* answer, a retry or an operator can leave behind: a report passes a      *)
(* transfer exactly when the transfer is not completed or is completed by  *)
(* its own posting, and no other transfer of the same request has posted.  *)
(* (Two transfers of one request are reported, as a duplicate or an orphan *)
(* of each other, although nothing is wrong with either.)                  *)
ReportsAreExact ==
  \A t \in Transfer, together \in SUBSET Transfer :
    rows[t] # None =>
      (Discrepancies(t, together) = {} <=>
         /\ rows[t].status = "COMPLETED" => rows[t].journal = t
         /\ t \in together => together \cap journals \subseteq {t})
=============================================================================
