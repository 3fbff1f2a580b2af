------------------------------ MODULE MCPayments ------------------------------
(***************************************************************************)
(* Instances of Payments for TLC.                                          *)
(***************************************************************************)
EXTENDS Payments, FiniteSets, TLC

CONSTANTS w1, w2, k1, k2, p1, p2

Ask(kind, key, wallet, peer, amount) ==
  [kind |-> kind, key |-> key, wallet |-> wallet, peer |-> peer, amount |-> amount]

Deposit == Ask("deposit", k1, w1, w1, 1)
OtherDeposit == Ask("deposit", k1, w1, w1, 2)
Withdrawal == Ask("withdrawal", k1, w1, w1, 1)
Transfer == Ask("transfer", k1, w1, w2, 1)
Back == Ask("transfer", k2, w2, w1, 1)
SecondDeposit == Ask("deposit", k2, w1, w1, 1)
SecondWithdrawal == Ask("withdrawal", k2, w1, w1, 1)
Commands ==
  {Deposit, OtherDeposit, SecondDeposit, Withdrawal, SecondWithdrawal, Transfer, Back}

Rejected == {OtherDeposit}

Create(c) == [op |-> "create", command |-> c]
Do(op, p) == [op |-> op, payment |-> p]

(* What there is at the start; the other payments are free uuids. *)
With(row1, row2) ==
  [p \in Payment |-> CASE p = p1 -> row1 [] p = p2 -> row2 [] OTHER -> None]

(* A deposit to, and a withdrawal from, a wallet that has nothing. *)
Settling ==
  With(RowOf(Deposit, "PENDING", "none"), RowOf(SecondWithdrawal, "PROCESSING", "none"))
SettlingCalls ==
  {Do("complete", p1), Do("complete", p2), Do("fail", p2)}

(* Creation under one key, and the life of what was created. *)
Nothing == With(None, None)
CreatingCalls == {Create(Deposit), Create(OtherDeposit), Create(Withdrawal)}
                   \cup {Do("process", p1), Do("cancel", p1)}

(* Transfers to and fro, and a withdrawal, with money for one of each that *)
(* leaves the first wallet: it had a deposit.                              *)
Crossing ==
  With(RowOf(Withdrawal, "PROCESSING", "none"), RowOf(SecondDeposit, "COMPLETED", "none"))
CrossingCalls == {Create(Transfer), Create(Back), Do("complete", p1)}

(* Two deposits to be failed. *)
Failing == With(RowOf(Deposit, "PENDING", "none"), RowOf(SecondDeposit, "PENDING", "none"))
FailingCalls == {Do("fail", p1), Do("fail", p2)}

Balances == [a \in Account |-> IF a = w2 THEN 1 ELSE 0]
Ranks == (w1 :> 1) @@ (w2 :> 2) @@ (Settlement :> 3)

-----------------------------------------------------------------------------
(* Settling, creating and crossing in one run: three stories, told apart   *)
(* by the second payment, whose command never changes.                     *)
Second(c) == rows[p2] # None /\ rows[p2].command = c
IsSettling == Second(SecondWithdrawal)
IsCrossing == Second(SecondDeposit)

CallsToday ==
  CASE IsSettling -> SettlingCalls
    [] IsCrossing -> CrossingCalls
    [] OTHER -> CreatingCalls

StoryInit ==
  /\ rows \in {Settling, Nothing, Crossing}
  /\ journals = {p \in Payment : Has(p, "COMPLETED")}
  /\ funds = IF IsCrossing THEN Posted(Opening, SecondDeposit) ELSE Opening
  /\ blocked = {}
  /\ events = [p \in Payment |-> IF Has(p, "COMPLETED") THEN <<"COMPLETED">> ELSE <<>>]
  /\ pc = [h \in Handler |-> "idle"]
  /\ call = [h \in Handler |-> None]
  /\ target = [h \in Handler |-> None]
  /\ attempt = [h \in Handler |-> 1]
  /\ tx = [h \in Handler |-> None]
  /\ held = [h \in Handler |-> {}]
  /\ answer = [h \in Handler |-> Pending]

(* Three handlers cross, each with one call; two do the rest, and go on.   *)
Employed(h) ==
  IF IsCrossing THEN call[h] = None
  ELSE call[h] # None \/ Cardinality({g \in Handler : call[g] # None}) < 2

(* An attempt that is aborted is made again by those that settle; those    *)
(* that create lose their connection and ask again, as do those that cross *)
(* when they cannot commit.  A COMMIT is lost in two of the stories.       *)
StoryNext ==
  \/ \E h \in Handler :
       \/ \E c \in Asked : c \in CallsToday /\ Employed(h) /\ Submit(h, c)
       \/ Begin(h)
       \/ TakeLock(h)
       \/ KeyViolation(h)
       \/ ReadWinner(h)
       \/ LoseCounter(h)
       \/ Commit(h)
       \/ IsSettling /\ SerializationFailure(h)
       \/ Read(h)
       \/ AbortLost(h)
       \/ ~ IsSettling /\ (IsCrossing => Doomed(h)) /\ LoseConnection(h)
       \/ ~ IsCrossing /\ LoseCommit(h)
  \/ \E w \in Suspendable : IsSettling /\ SetWalletStatus(w)

StorySpec == StoryInit /\ [][StoryNext]_vars

AllCalls == SettlingCalls \cup CreatingCalls \cup CrossingCalls

Symmetric == Permutations(Handler) \cup Permutations(Payment \ {p1, p2})
=============================================================================
