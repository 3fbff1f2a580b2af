--------------------------- MODULE AccountMappings ---------------------------
(***************************************************************************)
(* B2FAccountMappingService: which A5 account stands for a finance         *)
(* classification, in which periods.  At most one mapping of an account is *)
(* active.  The A5 accounts themselves do not change.                      *)
(***************************************************************************)
EXTENDS FiscalPeriods

CONSTANTS
  Mapping

VARIABLES
  mappings,  \* b2f_finance_account_mappings: Mapping -> row or None
  ended      \* mappings of which the effective window is over

mappingVars == <<mappings, ended>>

MappingStatus == {"DRAFT", "PENDING_APPROVAL", "ACTIVE", "REJECTED", "REVOKED", "EXPIRED"}

(* Every change of a mapping is a change of its status, and none leads     *)
(* back: its version says how far it has come.                             *)
VersionIn ==
  [DRAFT |-> 1, PENDING_APPROVAL |-> 2, ACTIVE |-> 3, REJECTED |-> 3, REVOKED |-> 4, EXPIRED |-> 4]

(* A row of a mapping; the accounts of A5 are any values. *)
IsMapping(row) ==
  /\ row = [status |-> row.status, account |-> row.account, window |-> row.window,
            creator |-> row.creator, version |-> row.version]
  /\ row.status \in MappingStatus /\ row.version = VersionIn[row.status]
  /\ row.window \subseteq Period /\ row.creator \in Principal

(* A mapping is for periods of the year and created by a principal, the    *)
(* ones that are there included; it may be activated, rejected or revoked. *)
ASSUME MappingAssumption ==
  /\ \A s \in Agenda : DOMAIN s.mappings = Mapping
  /\ \A s \in Agenda : \A m \in Mapping : s.mappings[m] # None => IsMapping(s.mappings[m])
  /\ \A c \in Call : c.op \in {"map", "submitMapping", "decideMapping", "pass"} =>
       c.mapping \in Mapping
  /\ \A c \in Call : c.op = "map" => c.window \subseteq Period /\ c.by \in Principal
  /\ \A c \in Call : c.op = "decideMapping" => c.target \in {"ACTIVE", "REJECTED", "REVOKED"}

InitMappings(rows) == mappings = rows /\ ended = {}

MappingIn(m, status) == mappings[m] # None /\ mappings[m].status = status
At(row, status) == [row EXCEPT !.status = status, !.version = @ + 1]

CreateMapping(c) ==
  /\ Fresh(c)
  /\ IF mappings[c.mapping] = None
     THEN /\ mappings' = [mappings EXCEPT ![c.mapping] =
               [status |-> "DRAFT", account |-> c.account, window |-> c.window,
                creator |-> c.by, version |-> 1]]
          /\ Complete(c)
     ELSE Fail(c) /\ UNCHANGED mappings
  /\ UNCHANGED <<asked, approvalVars, policies, audit, calendar, ended>>

SubmitMapping(c) ==
  /\ Fresh(c)
  /\ IF MappingIn(c.mapping, "DRAFT") /\ mappings[c.mapping].version = c.expected
     THEN /\ mappings' = [mappings EXCEPT ![c.mapping] = At(@, "PENDING_APPROVAL")]
          /\ Complete(c)
     ELSE Fail(c) /\ UNCHANGED mappings
  /\ UNCHANGED <<asked, approvalVars, policies, audit, calendar, ended>>

(* activate and reject, of what is pending, and revoke, of what is active. *)
DecidedFrom(target) == IF target = "REVOKED" THEN "ACTIVE" ELSE "PENDING_APPROVAL"
Decided(c) ==
  /\ MappingIn(c.mapping, DecidedFrom(c.target)) /\ mappings[c.mapping].version = c.expected

MappingIntent(c) == Fingerprint(c.target, c.mapping, c.expected)

(* The other active mappings of the account: those of a window in common   *)
(* are refused, any other fails the unique index and rolls all back.       *)
ActiveRivals(c) ==
  {m \in Mapping \ {c.mapping} :
     MappingIn(m, "ACTIVE") /\ mappings[m].account = mappings[c.mapping].account}
Overlapped(c) ==
  \E m \in ActiveRivals(c) : mappings[m].window \cap mappings[c.mapping].window # {}

DecideMapping(c) ==
  /\ Fresh(c) /\ Decided(c)
  /\ LET verdict == Verdict(c, MappingIntent(c), mappings[c.mapping].creator, "small")
     IN  /\ verdict # "UNAPPROVED" /\ c.target = "ACTIVE" => ~ Overlapped(c)
         /\ verdict = "ALLOW" /\ c.target = "ACTIVE" => ActiveRivals(c) = {}
         /\ Authorise(c, MappingIntent(c), c.expected, verdict, verdict = "ALLOW")
         /\ mappings' = IF verdict = "ALLOW"
                        THEN [mappings EXCEPT ![c.mapping] = At(@, c.target)] ELSE mappings
  /\ UNCHANGED <<asked, policies, calendar, ended>>

(* The approval is consumed, and no decision taken. *)
RefuseOverlap(c) ==
  /\ Fresh(c) /\ Decided(c)
  /\ Consumption(c.approval, c.by, MappingIntent(c)) = "APPROVED"
  /\ c.target = "ACTIVE" /\ Overlapped(c)
  /\ ConsumeInTransaction(c.approval, "APPROVED")
  /\ Fail(c)
  /\ UNCHANGED <<asked, policies, audit, calendar, mappingVars>>

RefuseMapping(c) ==
  /\ Fresh(c) /\ ~ Decided(c)
  /\ Fail(c)
  /\ UNCHANGED <<asked, approvalVars, policies, audit, calendar, mappingVars>>

WindowPasses(m) ==
  /\ mappings[m] # None /\ m \notin ended
  /\ ended' = ended \cup {m}
  /\ UNCHANGED <<asked, approvalVars, controlVars, calendar, mappings>>

ExpireMapping(m) ==
  /\ MappingIn(m, "ACTIVE") /\ m \in ended
  /\ mappings' = [mappings EXCEPT ![m] = At(@, "EXPIRED")]
  /\ UNCHANGED <<asked, approvalVars, controlVars, calendar, ended>>

(* verify, as the preparation of a journal asks it. *)
Verified(m, p) == MappingIn(m, "ACTIVE") /\ p \in mappings[m].window

MappingStep ==
  \/ \E c \in Asking("map") : CreateMapping(c)
  \/ \E c \in Asking("submitMapping") : SubmitMapping(c)
  \/ \E c \in Asking("decideMapping") :
       DecideMapping(c) \/ RefuseOverlap(c) \/ RefuseMapping(c)
  \/ \E c \in Asking("pass") : WindowPasses(c.mapping)
  \/ \E m \in Mapping : ExpireMapping(m)

MappingsTyped ==
  /\ DOMAIN mappings = Mapping
  /\ \A m \in Mapping : mappings[m] # None => IsMapping(mappings[m])
  /\ ended \in SUBSET Mapping
=============================================================================
