--------------------------- MODULE MCAdministration ---------------------------
(***************************************************************************)
(* Instances of Administration for TLC.   A maker asks for approvals, and  *)
(* two checkers give them and execute the commands.                        *)
(***************************************************************************)
EXTENDS Administration, TLC

CONSTANTS mk, cx, cy, g1, g2, g3, g4, g5, p1, p2, m1, m2, j1, j2, v1, v2, k1, k2, k3, k4, k5,
  ann, w1, w2

Scopes == [approve |-> {cx, cy}, execute |-> {cy, mk}] @@ ("break-glass" :> {mk})

Everything == PeriodState \cup MappingStatus \cup {"JOURNAL_POST", "PROVISION"}
Open == [actions |-> Everything, makers |-> {mk, cy}, checkers |-> {cx, cy},
         minimum |-> [small |-> 1, large |-> 2]]
Narrow == [Open EXCEPT !.actions = {"OPEN"}, !.checkers = {cy}]
Standing == (v1 :> Open)

Asks(a, action, resource, version) ==
  [op |-> "request", by |-> mk, approval |-> a, action |-> action, resource |-> resource,
   version |-> version]
Decides(op, by, a) == [op |-> op, by |-> by, approval |-> a]
Uses(by, a, action, resource, version) ==
  [Asks(a, action, resource, version) EXCEPT !.op = "consume", !.by = by]
Lapse(a) == [op |-> "lapse", approval |-> a]
Moves(by, key, p, target, expected, a) ==
  [op |-> "transition", by |-> by, key |-> key, period |-> p, target |-> target,
   expected |-> expected, approval |-> a]
Approves(by, as) == {Decides("approve", by, a) : a \in as}
TheYear == [op |-> "year", key |-> k1]
Lives(op, by, key, j, expected) ==
  [op |-> op, by |-> by, key |-> key, journal |-> j, expected |-> expected]
Posts(by, key, j, expected, a) ==
  [op |-> "post", by |-> by, key |-> key, journal |-> j, expected |-> expected, approval |-> a]
Prepares(by, key, j, p, kind, amount) ==
  [op |-> "prepare", by |-> by, key |-> key, journal |-> j, period |-> p, kind |-> kind,
   amount |-> amount, mapping |-> m1]
Maps(key, m, account, window) ==
  [op |-> "map", by |-> mk, key |-> key, mapping |-> m, account |-> account, window |-> window]
Submits(key, m) ==
  [op |-> "submitMapping", by |-> mk, key |-> key, mapping |-> m, expected |-> 1]
Rules(by, key, m, target, expected, a) ==
  [op |-> "decideMapping", by |-> by, key |-> key, mapping |-> m, target |-> target,
   expected |-> expected, approval |-> a]

Case(calls, rows, maps) == [calls |-> calls, periods |-> rows, mappings |-> maps]
NoPeriods == [p \in Period |-> None]
Version(n, state) == [state |-> state, version |-> n]
FirstOpen == p1 :> Version(2, "OPEN") @@ p2 :> Version(1, "PLANNED")
Planned == [p \in Period |-> Version(1, "PLANNED")]
NoMappings == [m \in Mapping |-> None]
OneMapping ==
  [NoMappings EXCEPT ![m1] = [status |-> "ACTIVE", account |-> "acc", window |-> {p1},
                              creator |-> mk, version |-> 3]]

(* One approval that both checkers decide, the maker cancels and the clock *)
(* ends, of a step the period takes twice; when its maker uses it the      *)
(* command is denied.                                                      *)
Contested ==
  Case({Asks(g2, "SOFT_CLOSED", p1, 2), Asks(g3, "OPEN", p1, 3),
       Moves(cx, k2, p1, "SOFT_CLOSED", 2, g2), Moves(mk, k5, p1, "SOFT_CLOSED", 2, g2),
       Moves(cx, k3, p1, "OPEN", 3, g3), Moves(cy, k4, p1, "SOFT_CLOSED", 4, g2),
       Decides("approve", cy, g2), Decides("cancel", mk, g2), Lapse(g2)}
        \cup Approves(cx, {g2, g3}),
      FirstOpen, NoMappings)

(* A year that is created twice, and its first period.                     *)
Starting ==
  Case({TheYear, [op |-> "year", key |-> k2], Asks(g1, "OPEN", p1, 1),
        Moves(cx, k1, p1, "OPEN", 1, g1)}
         \cup Approves(cx, {g1}),
      NoPeriods, NoMappings)

(* Two periods that are closed, and one reopened or retired. *)
Closing ==
  Case({TheYear, Asks(g2, "SOFT_CLOSED", p1, 2),
       Asks(g3, "HARD_CLOSED", p1, 3), Asks(g4, "RETIRED", p2, 1),
       Asks(g5, "REOPENED", p1, 4), Asks(g5, "RETIRED", p1, 4),
       Moves(cx, k2, p1, "SOFT_CLOSED", 2, g2),
       Moves(cx, k3, p1, "HARD_CLOSED", 3, g3), Moves(cx, k4, p2, "RETIRED", 1, g4),
       Moves(cx, k5, p1, "REOPENED", 4, g5), Moves(cx, k5, p1, "RETIRED", 4, g5)}
        \cup Approves(cx, {g2, g3, g4, g5}),
      FirstOpen, NoMappings)

(* A narrower policy comes into force between an approval and its use.     *)
Ruling ==
  Case({[op |-> "policy", key |-> k1, policy |-> v2, definition |-> Narrow],
       Asks(g1, "POLICY_ACTIVATE", v2, 1), Asks(g2, "OPEN", p1, 1), Asks(g3, "OPEN", p1, 1),
       [op |-> "activate", by |-> cy, key |-> k2, policy |-> v2, expected |-> 1, approval |-> g1],
       Moves(cx, k1, p1, "OPEN", 1, g2), Moves(cy, k2, p1, "OPEN", 1, g3),
       Decides("approve", cy, g3), Decides("reject", cy, g2)}
        \cup Approves(cx, {g1, g2, g3}),
      Planned, NoMappings)

(* Emergency access, revoked and expired, which no command consumes.       *)
Emergency ==
  Case({[op |-> "emergency", by |-> mk, approval |-> g4, resource |-> p1], Lapse(g4),
       Decides("revoke", cx, g4), Decides("revoke", mk, g4),
       Asks(g1, "OPEN", p1, 1), Moves(cx, k1, p1, "OPEN", 1, g1), Moves(cx, k3, p1, "OPEN", 1, g4)}
        \cup Approves(cx, {g1, g4}),
      Planned, NoMappings)

(* Two mappings of one account with a period in common. *)
Mapped ==
  Case({Maps(k1, m1, "acc", {p1}), Maps(k2, m2, "acc", {p1, p2}), Maps(k3, m2, "acc", {p1, p2}),
       Submits(k1, m1), Submits(k2, m2),
       Asks(g1, "ACTIVE", m1, 2), Asks(g2, "ACTIVE", m2, 2), Asks(g3, "REVOKED", m1, 3),
       Asks(g2, "REJECTED", m2, 2),
       Rules(cx, k3, m1, "ACTIVE", 2, g1), Rules(cx, k4, m2, "ACTIVE", 2, g2),
       Rules(cx, k4, m2, "REJECTED", 2, g2), Rules(cx, k5, m1, "REVOKED", 3, g3),
       [op |-> "pass", mapping |-> m1]}
        \cup Approves(cx, {g1, g2, g3}),
      NoPeriods, NoMappings)

(* A journal with two approvals, posted, posted again and withdrawn.       *)
Posting ==
  Case({Prepares(mk, k1, j1, p1, "ORDINARY", "small"), Lives("submit", mk, k1, j1, 1),
       Asks(g3, "JOURNAL_POST", j1, 0), Asks(g4, "JOURNAL_POST", j1, 0),
       Posts(cx, k3, j1, 2, g3), Posts(cy, k4, j1, 2, g4), Posts(cx, k5, j1, 4, g3),
       Posts(cy, k4, j1, 6, g4), Lives("withdraw", cx, k2, j1, 2), Decides("approve", cy, g4),
       Lapse(g4)}
        \cup Approves(cx, {g3}),
      FirstOpen, OneMapping)

(* A journal whose period is closed while it waits, and the assignment of  *)
(* a role, which consumes an approval of its own. *)
Waiting ==
  Case({Prepares(mk, k1, j1, p1, "ORDINARY", "small"), Lives("submit", mk, k1, j1, 1),
       Asks(g1, "SOFT_CLOSED", p1, 2), Asks(g2, "HARD_CLOSED", p1, 3),
       Asks(g3, "JOURNAL_POST", j1, 0), Posts(cx, k3, j1, 2, g3),
       Moves(cx, k1, p1, "SOFT_CLOSED", 2, g1), Moves(cx, k2, p1, "HARD_CLOSED", 3, g2),
       TheYear, Asks(g4, "ROLE", cy, 1), Uses(cx, g4, "ROLE", cy, 1)}
        \cup Approves(cx, {g1, g2, g3, g4}),
      FirstOpen, OneMapping)

(* A journal too large for one checker, and one of a closed period. *)
Refused ==
  Case({Prepares(mk, k1, j1, p1, "ORDINARY", "large"),
       Prepares(mk, k2, j2, p1, "CLOSE_ADJUSTMENT", "small"),
       Lives("submit", mk, k1, j1, 1), Asks(g3, "JOURNAL_POST", j1, 0),
       Posts(cx, k3, j1, 2, g3), Lapse(g3)}
        \cup Approves(cx, {g3}),
      FirstOpen, OneMapping)

(* The control account: requested under two traces, again with a used      *)
(* approval, for another definition, and created by hand as it should not. *)
Provisions(by, key, a, definition, trace) ==
  [op |-> "provision", by |-> by, key |-> key, approval |-> a, definition |-> definition,
   trace |-> trace]
Provisioned ==
  Case({Asks(g1, "PROVISION", "receivables", 1), Asks(g2, "PROVISION", "receivables", 1),
        Provisions(cx, k1, g1, "authorized", "t"), Provisions(cx, k2, g1, "authorized", "t"),
        Provisions(cy, k3, g2, "authorized", "u"), Provisions(cx, k3, g2, "other", "u"),
        Decides("approve", cy, g2),
        [op |-> "ledgerAccount", definition |-> "other"]}
         \cup Approves(cx, {g1, g2}),
       NoPeriods, NoMappings)

-----------------------------------------------------------------------------
Does(op, p) == [op |-> op, customer |-> p]
MovesTo(op, p, to) == [op |-> op, customer |-> p, to |-> to]
Registers(p, status) == [op |-> "customer", customer |-> p, status |-> status]
Rates(p, level) == [op |-> "risk", customer |-> p, level |-> level]
Qualifies(p, status) == [op |-> "eligibility", customer |-> p, status |-> status]
Provides(p, w, type, status) ==
  [op |-> "wallet", customer |-> p, wallet |-> w, type |-> type, status |-> status]
WalletTo(w, to) == [op |-> "walletStatus", wallet |-> w, to |-> to]
Binds(p, w, mode) == [op |-> "bind", customer |-> p, wallet |-> w, mode |-> mode]
Closes(by, w, expected, a) ==
  [op |-> "close", by |-> by, wallet |-> w, expected |-> expected, approval |-> a]

Onboards(p) ==
  {Does("onboard", p), Does("evidence", p)}
    \cup {MovesTo("advance", p, to) : to \in
            {"IN_PROGRESS", "AWAITING_REVIEW", "APPROVED", "COMPLETED"}}

(* A workflow that is rejected and completed at once, and tried again; and *)
(* a customer suspended while it is assessed.                              *)
Onboarding ==
  Case(Onboards(ann)
         \cup {Registers(ann, "DRAFT"), MovesTo("status", ann, "ACTIVE"),
               MovesTo("status", ann, "CLOSED"), MovesTo("kyc", ann, "PENDING"),
               MovesTo("advance", ann, "REJECTED"), Rates(ann, "LOW")},
       NoPeriods, NoMappings)

(* A customer found eligible, revoked, blacklisted and rated, with a wallet *)
(* that is made active and closed at once.                                  *)
Reviewing ==
  Case(Onboards(ann)
         \cup {Registers(ann, "ACTIVE"), Rates(ann, "PROHIBITED"), Qualifies(ann, "PENDING"),
               MovesTo("review", ann, "ELIGIBLE"), MovesTo("review", ann, "REVOKED"),
               Does("blacklist", ann), Provides(ann, w1, "PRIMARY", "PENDING"),
               WalletTo(w1, "ACTIVE"), WalletTo(w1, "CLOSED")},
       NoPeriods, NoMappings)

(* A binding that goes stale and is closed, and another wallet bound.      *)
Bound ==
  Case(Onboards(ann)
         \cup {Registers(ann, "ACTIVE"), Qualifies(ann, "ELIGIBLE"),
               Provides(ann, w1, "PRIMARY", "ACTIVE"), Provides(ann, w2, "PRIMARY", "ACTIVE"),
               Provides(ann, w2, "SAVINGS", "ACTIVE"), WalletTo(w1, "SUSPENDED"),
               WalletTo(w1, "ACTIVE"), MovesTo("status", ann, "SUSPENDED"),
               MovesTo("status", ann, "ACTIVE"), Does("account", ann), Does("funds", ann),
               Binds(ann, w1, "PROVISION_NEW"), Binds(ann, w1, "BIND_EXISTING"),
               Binds(ann, w2, "PROVISION_NEW"), Binds(ann, w2, "BIND_EXISTING"),
               Asks(g1, "CLOSE", w1, 1), Closes(cx, w1, 1, g1)}
         \cup Approves(cx, {g1}),
       NoPeriods, NoMappings)

Histories ==
  {Contested, Starting, Closing, Ruling, Emergency, Mapped, Posting, Waiting, Refused, Provisioned,
   Onboarding, Reviewing, Bound}
JustWaiting == {Waiting}
JustReviewing == {Reviewing}
=============================================================================
