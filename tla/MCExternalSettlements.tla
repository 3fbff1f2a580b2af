-------------------------- MODULE MCExternalSettlements ----------------------
(***************************************************************************)
(* Instances of ExternalSettlements for TLC.                               *)
(***************************************************************************)
EXTENDS ExternalSettlements, TLC

CONSTANTS o1, o2, v1, v2, e1, e2, k1, k2, k3, k4

Make(key, command, body) == [op |-> "create", key |-> key, command |-> command, body |-> body]
Move(o, key, next, recovery, failure, expected) ==
  [op |-> "transition", operation |-> o, key |-> key, next |-> next, recovery |-> recovery,
   failure |-> failure, expected |-> expected]
Mark(op, o, key, expected) ==
  [op |-> op, operation |-> o, key |-> key, expected |-> expected]
Refer(o, value) == [op |-> "reference", operation |-> o, value |-> value]
Tell(event, o, value, matches) ==
  [op |-> "callback", event |-> event, operation |-> o, value |-> value, matches |-> matches]
SettleOn(o, value, decision, expected) ==
  [op |-> "settle", operation |-> o, value |-> value, decision |-> decision,
   expected |-> expected]
Hold(o, expected) == [op |-> "suspend", operation |-> o, expected |-> expected]
Undo(o, settled, entry, expected) ==
  [op |-> "compensate", operation |-> o, settled |-> settled, entry |-> entry,
   expected |-> expected]

(* One command under two keys, one key for two commands, and what the      *)
(* partner tells of two operations.                                        *)
Intake ==
  {Make(k1, "c1", "b1"), Make(k2, "c1", "b1"), Make(k2, "c1", "b2"), Make(k1, "c2", "b1"),
   Make(k3, "c2", "b1"), Refer(o1, v1), Refer(o2, v2),
   Tell(e1, o1, v1, TRUE), Tell(e1, o2, v2, TRUE), Tell(e2, o1, v1, TRUE),
   Tell(e2, o1, v2, FALSE)}

(* The life of one operation, with attempts, time-outs and recoveries. *)
Life ==
  {Make(k1, "c1", "b1")}
    \cup {Mark("begin", o1, k, 0) : k \in {k1, k2, k3}}
    \cup {Mark("begin", o1, k4, 1), Mark("accept", o1, k1, 0), Mark("timeout", o1, k2, 0),
          Move(o1, k3, "PENDING_VERIFICATION", "none", FALSE, 0),
          Move(o1, k4, "MANUAL_REVIEW", "other", FALSE, 0),
          Move(o1, k3, "UNKNOWN", "none", TRUE, 0),
          Move(o1, k4, "FAILED", "none", TRUE, 0),
          Move(o1, k1, "CANCELLED", "none", FALSE, 0)}

(* Two operations on their way to be settled: each can be settled at the   *)
(* version it is verified at, on either's reference or on none.            *)
Settling ==
  {Make(k1, "c1", "b1"), Make(k2, "c2", "b1"), Refer(o1, v1)}
    \cup {Move(o, k1, "SUBMITTING", "none", FALSE, 1) : o \in {o1, o2}}
    \cup {Move(o, k2, "PENDING_VERIFICATION", "none", FALSE, 0) : o \in {o1, o2}}
    \cup {Move(o1, k3, "FAILED", "none", TRUE, 3)}
    \cup {SettleOn(o1, v1, "SETTLE", 3), SettleOn(o1, v1, "REJECT", 3),
          SettleOn(o1, v2, "SETTLE", 3), SettleOn(o2, v1, "SETTLE", 3)}
    \cup {Hold(o1, 3), Hold(o2, 3), Hold(o1, 4)}
    \cup {Undo(o1, o1, 1, 3), Undo(o1, o1, 2, 3), Undo(o2, o2, 1, 3), Undo(o2, o2, 2, 3)}

Histories == {Intake, Life, Settling}
=============================================================================
