---------------------------- MODULE AtomicLedger ----------------------------
(***************************************************************************)
(* What the ledger promises its clients: journals are appended one at a    *)
(* time, each judged against the balances left by all the earlier ones,    *)
(* and a request answered with a journal was answered with the only        *)
(* journal posted under its idempotency key.                               *)
(***************************************************************************)
EXTENDS Journals

CONSTANTS
  Req,       \* requests
  Refusals   \* the ways a request may be refused

VARIABLES
  journals,  \* the posted journals
  balance,   \* the balance of each account
  reply      \* the reply each request has had

vars == <<journals, balance, reply>>

Pending == [kind |-> "pending"]
Granted(j) == [kind |-> "ok", id |-> j.id, key |-> j.key]
Refused(why) == [kind |-> why]

Init ==
  /\ journals = {}
  /\ balance = [a \in Account |-> 0]
  /\ reply = [r \in Req |-> Pending]

(* A reversal undoes a journal that is not a reversal and was not undone. *)
MayReverse(body) ==
  /\ ReversalOf(journals, body.rev) = {}
  /\ \E o \in journals :
        /\ o.id = body.rev
        /\ o.body.rev = NoJournal
        /\ body.lines = Swapped(o.body.lines)

Append(j) ==
  /\ ~ KeyTaken(journals, j.key)
  /\ ~ IdTaken(journals, j.id)
  /\ Normalized(j.body.lines)
  /\ j.body.rev # NoJournal => MayReverse(j.body)
  /\ Overdrawn(Projected(balance, j.body.lines), Touched(j.body.lines)) = {}
  /\ journals' = journals \cup {j}
  /\ balance' = Projected(balance, j.body.lines)
  /\ UNCHANGED reply

Answer(r) ==
  /\ reply[r] = Pending
  /\ \/ \E j \in journals : reply' = [reply EXCEPT ![r] = Granted(j)]
     \/ \E why \in Refusals : reply' = [reply EXCEPT ![r] = Refused(why)]
  /\ UNCHANGED <<journals, balance>>

Next ==
  \/ \E j \in journals' \ journals : j \in Journal /\ Append(j)
  \/ \E r \in Req : Answer(r)

Spec == Init /\ [][Next]_vars

=============================================================================
