------------------------------ MODULE Approvals ------------------------------
(***************************************************************************)
(* PrivilegedActionApprovalService: an approval is requested for one       *)
(* intent, decided by another principal, and consumed by the command it    *)
(* was requested for.                                                      *)
(*                                                                         *)
(* A decision reads the row, checks it, and saves the whole of what it     *)
(* read, changed, in a transaction of its own: a save does not look at     *)
(* what the row has become.  Commands consume an approval inside their own *)
(* SERIALIZABLE transaction, which is one step, or by a read and a save.   *)
(***************************************************************************)
EXTENDS Naturals, FiniteSets

CONSTANTS
  Principal, Approval, None,
  Holders,   \* "approve", "execute" and "break-glass": the principals of a scope
  Agenda     \* what behaviours start from: the calls that are made, any number
             \* of times each, with the lapses of time between them, and the
             \* accounting periods and mappings that are there

Status == {"REQUESTED", "APPROVED", "REJECTED", "CANCELLED", "CONSUMED", "EXPIRED",
           "EMERGENCY_ACTIVE", "EMERGENCY_REVOKED"}

VARIABLES
  asked,         \* the calls of this behaviour
  approvals,     \* privileged_action_approvals: Approval -> row or None
  due,           \* approvals whose expiresAt has passed
  desk           \* rows that were read and checked, and not saved yet

approvalVars == <<approvals, due, desk>>

Call == UNION {s.calls : s \in Agenda}
Asking(op) == {c \in asked : c.op = op}

InitApprovals(calls) ==
  /\ asked = calls
  /\ approvals = [a \in Approval |-> None]
  /\ due = {}
  /\ desk = {}

Found(a) == approvals[a] # None
InStatus(a, s) == Found(a) /\ approvals[a].status = s

(* Mutant: a fingerprint says what is done, not to which version of it. *)
FingerprintUnversioned(action, resource, version) == [action |-> action, resource |-> resource]

(* What an approval is for: the action, its resource and the fingerprint. *)
Fingerprint(action, resource, version) ==
  [action |-> action, resource |-> resource, version |-> version]

(* Mutant: a request that forgets who makes it. *)
NewApprovalAnonymous(c) ==
  [status |-> "REQUESTED", intent |-> Fingerprint(c.action, c.resource, c.version),
   requester |-> None, by |-> None]

NewApproval(c) ==
  [status |-> "REQUESTED", intent |-> Fingerprint(c.action, c.resource, c.version),
   requester |-> c.by, by |-> None]

Request(c) ==
  /\ ~ Found(c.approval)
  /\ approvals' = [approvals EXCEPT ![c.approval] = NewApproval(c)]
  /\ UNCHANGED <<asked, due, desk>>

(* Emergency access is an approval by its requester, of nothing a command  *)
(* consumes.                                                               *)
ActivateEmergencyAccess(c) ==
  /\ ~ Found(c.approval) /\ c.by \in Holders["break-glass"]
  /\ approvals' = [approvals EXCEPT ![c.approval] =
       [status |-> "EMERGENCY_ACTIVE", intent |-> Fingerprint("EMERGENCY", c.resource, 0),
        requester |-> c.by, by |-> c.by]]
  /\ UNCHANGED <<asked, due, desk>>

ExpiryPasses(a) ==
  /\ Found(a) /\ a \notin due
  /\ due' = due \cup {a}
  /\ UNCHANGED <<asked, approvals, desk>>

-----------------------------------------------------------------------------
(* Consumption *)

RequiresExpiry(a) ==
  a \in due /\ Found(a) /\ approvals[a].status \in {"REQUESTED", "APPROVED", "EMERGENCY_ACTIVE"}

(* What consumeInTransaction answers. *)
Consumption(a, by, intent) ==
  CASE ~ Found(a) -> "NOT_FOUND"
    [] RequiresExpiry(a) -> "EXPIRED"
    [] Found(a) /\ ~ RequiresExpiry(a) /\ approvals[a].status # "APPROVED" ->
         approvals[a].status
    [] InStatus(a, "APPROVED") /\ ~ RequiresExpiry(a)
         /\ approvals[a].by # by /\ by \notin Holders["execute"] -> "APPROVAL_SCOPE_MISSING"
    [] InStatus(a, "APPROVED") /\ ~ RequiresExpiry(a)
         /\ (approvals[a].by = by \/ by \in Holders["execute"])
         /\ approvals[a].intent # intent -> "MISMATCH"
    [] OTHER -> "APPROVED"

ConsumeInTransaction(a, answer) ==
  /\ approvals' = CASE answer = "EXPIRED" -> [approvals EXCEPT ![a].status = "EXPIRED"]
                    [] answer = "APPROVED" -> [approvals EXCEPT ![a].status = "CONSUMED"]
                    [] OTHER -> approvals
  /\ UNCHANGED <<due, desk>>

-----------------------------------------------------------------------------
(* Decisions: a read, and a save of what was read *)

Read(c, status) ==
  /\ desk' = desk \cup {[approval |-> c.approval, row |-> approvals[c.approval],
                         status |-> status, by |-> c.by]}
  /\ UNCHANGED <<asked, approvals, due>>

ReadToDecide(c) ==
  /\ InStatus(c.approval, "REQUESTED") /\ c.approval \notin due
  /\ approvals[c.approval].requester # c.by /\ c.by \in Holders["approve"]
  /\ Read(c, IF c.op = "approve" THEN "APPROVED" ELSE "REJECTED")

ReadToExpire(c) == RequiresExpiry(c.approval) /\ Read(c, "EXPIRED")

ReadToCancel(c) ==
  /\ InStatus(c.approval, "REQUESTED") /\ approvals[c.approval].requester = c.by
  /\ Read(c, "CANCELLED")

ReadToRevoke(c) ==
  /\ InStatus(c.approval, "EMERGENCY_ACTIVE")
  /\ approvals[c.approval].requester = c.by \/ c.by \in Holders["break-glass"]
  /\ Read(c, "EMERGENCY_REVOKED")

(* consume: a transaction that locks nothing. *)
ReadToConsume(c) ==
  /\ Consumption(c.approval, c.by, Fingerprint(c.action, c.resource, c.version)) = "APPROVED"
  /\ Read(c, "CONSUMED")

Saved(s) ==
  [s.row EXCEPT !.status = s.status,
                !.by = CASE s.status = "APPROVED" -> s.by
                         [] s.status = "REJECTED" -> None
                         [] OTHER -> @]

Save(s) ==
  /\ approvals' = [approvals EXCEPT ![s.approval] = Saved(s)]
  /\ desk' = desk \ {s}
  /\ UNCHANGED <<asked, due>>

ApprovalStep ==
  \/ \E c \in Asking("request") : Request(c)
  \/ \E c \in Asking("emergency") : ActivateEmergencyAccess(c)
  \/ \E c \in Asking("approve") \cup Asking("reject") : ReadToDecide(c) \/ ReadToExpire(c)
  \/ \E c \in Asking("cancel") : ReadToCancel(c)
  \/ \E c \in Asking("revoke") : ReadToRevoke(c)
  \/ \E c \in Asking("consume") : ReadToConsume(c)
  \/ \E s \in desk : Save(s)
  \/ \E c \in Asking("lapse") : ExpiryPasses(c.approval)

ApprovalRow ==
  [status : Status, requester : Principal, by : Principal \cup {None},
   intent : {Fingerprint(c.action, c.resource, c.version) :
               c \in {r \in Call : r.op = "request"}}
            \cup {Fingerprint("EMERGENCY", c.resource, 0) :
               c \in {r \in Call : r.op = "emergency"}}]

ApprovalsTyped ==
  /\ asked \in {s.calls : s \in Agenda}
  /\ approvals \in [Approval -> ApprovalRow \cup {None}]
  /\ due \in SUBSET Approval
  /\ desk \subseteq [approval : Approval, row : ApprovalRow, status : Status, by : Principal]
=============================================================================
