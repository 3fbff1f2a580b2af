------------------------- MODULE MCTransferLifecycle -------------------------
(***************************************************************************)
(* Instances of TransferLifecycle for TLC.                                 *)
(***************************************************************************)
EXTENDS TransferReconciliation, TLC

CONSTANTS t1, t2, j, a, b, k1, k2, h1

MCSource == [t \in Transfer |-> a]
MCDestination == [t \in Transfer |-> b]
MCAmount == [t \in Transfer |-> 1]
MCOpening == (a :> 1) @@ (b :> 0)

Ask(key, next, journal, ref) ==
  [key |-> key, next |-> next, expected |-> 0, journal |-> journal, ref |-> ref,
   failure |-> next = "FAILED"]

(* Starting a posting; recovering from an unknown outcome and posting      *)
(* again; giving up.                                                       *)
Recovering ==
  {Ask(k1, "PROCESSING", None, None),
   Ask(k2, "PENDING_RECOVERY", None, PostRecovery),
   Ask(k2, "PROCESSING", None, None),
   Ask(k1, "FAILED", None, None)}

(* Starting a posting, and completing by a journal that was posted by hand. *)
Linking ==
  {Ask(k1, "PROCESSING", None, None),
   Ask(k1, "COMPLETED", j, None)}

-----------------------------------------------------------------------------
(* Two stories in one run, told apart by whether another business has      *)
(* posted a journal: recovering, where one transfer is posted under two    *)
(* keys and each posting may be tried twice; and linking, where two        *)
(* transfers are posted once each, or linked to that journal.              *)
Linked == OtherJournal \subseteq journals

Ready ==
  /\ rows = [t \in Transfer |-> None]
  /\ funds = Opening
  /\ events = {}
  /\ records = {}
  /\ pc = [h \in Handler |-> "idle"]
  /\ post = [h \in Handler |-> None]
  /\ tx = [h \in Handler |-> None]
  /\ answer = [h \in Handler |-> Pending]

StoryInit ==
  /\ Ready
  /\ \/ journals = OtherJournal /\ attempt = [h \in Handler |-> MaxAttempts]
     \/ journals = {} /\ attempt = [h \in Handler |-> 1]

Told(t, key) == IF Linked THEN key = k1 ELSE t = t1
ToldTo(i) == IF Linked THEN i \in Linking ELSE i \in Recovering

StoryNext ==
  \/ Expire
  \/ \E t \in Transfer, key \in Key, hash \in Hash :
       (Linked \/ (t = t1 /\ key = k1)) /\ CreatePending(t, key, hash)
  \/ \E t \in Transfer, i \in Instruction :
       /\ ToldTo(i)
       /\ rows[t] # None /\ rows[t].version < IF Linked THEN 3 ELSE MaxVersion
       /\ Transition(t, i)
  \/ \E h \in Handler, t \in Transfer, key \in PostKey :
       Told(t, key) /\ PostToLedger(h, t, key)
  \/ \E h \in Handler : Run(h) \/ Fail(h)

StorySpec == StoryInit /\ [][StoryNext]_vars

Everything == Recovering \cup Linking
Symmetric == Permutations(Handler) \cup Permutations(Transfer)
=============================================================================
