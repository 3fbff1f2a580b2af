------------------------ MODULE Administration_proofs ------------------------
(***************************************************************************)
(* Proofs about Administration, for every number of approvals, periods,    *)
(* journals, customers and wallets and every agenda.                       *)
(***************************************************************************)
EXTENDS Administration, FiniteSetTheorems, SequenceTheorems, TLAPS

(* A set of which any two members are equal has one at most. *)
LEMMA AtMostOne ==
  ASSUME NEW S, \A x, y \in S : x = y
  PROVE  Cardinality(S) <= 1
<1>1. CASE S = {}
  BY <1>1, FS_EmptySet
<1>2. CASE S # {}
  <2>1. PICK x \in S : TRUE
    BY <1>2
  <2>2. S = {x}
    BY <2>1
  <2> QED BY <2>2, FS_Singleton
<1> QED BY <1>1, <1>2

-----------------------------------------------------------------------------
(* The bindings of customers *)

(* A binding names its customer. *)
IsBinding(r) == "customer" \in DOMAIN r

(* Two wallets of one customer are never both bound, now or in the past. *)
BindingInv ==
  /\ bindings = [w \in Wallet |-> bindings[w]]
  /\ \A w \in Wallet : bindings[w] # None => IsBinding(bindings[w])
  /\ \A p \in Customer : \A v, w \in BoundTo(p) : v = w

(* A wallet is bound for a customer nobody is bound for. *)
LEMMA BindKeeps ==
  ASSUME BindingInv, NEW c, Bind(c)
  PROVE  BindingInv'
<1>1. /\ bindings' = [bindings EXCEPT ![c.wallet] =
           [customer |-> c.customer, state |-> "ACTIVE",
            customerVersion |-> customers[c.customer].version,
            walletVersion |-> wallets[c.wallet].version, version |-> 1]]
      /\ \A w \in Wallet : bindings[w] # None => bindings[w].customer # c.customer
  BY DEF Bind, AccountUnbound, BoundTo
<1>2. bindings' = [w \in Wallet |-> bindings'[w]]
  BY <1>1 DEF BindingInv
<1>3. \A w \in Wallet : w # c.wallet => bindings'[w] = bindings[w]
  BY <1>1 DEF BindingInv
<1>4. c.wallet \in Wallet => bindings'[c.wallet].customer = c.customer /\ IsBinding(bindings'[c.wallet])
  BY <1>1 DEF BindingInv, IsBinding
<1>5. \A w \in Wallet : bindings'[w] # None => IsBinding(bindings'[w])
  BY <1>3, <1>4 DEF BindingInv
<1>6. ASSUME NEW p \in Customer, NEW v \in BoundTo(p)', NEW w \in BoundTo(p)'
      PROVE  v = w
  BY <1>1, <1>3, <1>4, <1>6 DEF BindingInv, BoundTo
<1> QED BY <1>2, <1>5, <1>6 DEF BindingInv

(* A binding that is closed stays its customer's. *)
LEMMA CloseKeeps ==
  ASSUME BindingInv, NEW c, Close(c)
  PROVE  BindingInv'
<1>1. /\ bindings' = [bindings EXCEPT ![c.wallet] = Closed(bindings[c.wallet])]
      /\ bindings[c.wallet] # None
  BY DEF Close, Active
<1>2. bindings' = [w \in Wallet |-> bindings'[w]]
  BY <1>1 DEF BindingInv
<1>3. ASSUME NEW w \in Wallet
      PROVE  /\ bindings'[w] # None => IsBinding(bindings'[w])
             /\ bindings'[w] # None => bindings[w] # None /\ bindings'[w].customer = bindings[w].customer
  <2>1. CASE w # c.wallet
    BY <1>1, <1>3, <2>1 DEF BindingInv
  <2>2. CASE w = c.wallet
    <3> DEFINE r == bindings[w]
    <3>1. IsBinding(r)
      BY <1>1, <1>3, <2>2 DEF BindingInv
    <3>2. bindings'[w] = [r EXCEPT !.state = "CLOSED", !.version = r.version + 1]
      BY <1>1, <1>3, <2>2 DEF BindingInv, Closed
    <3>3. "customer" \in DOMAIN bindings'[w] /\ bindings'[w].customer = r.customer
      BY <3>1, <3>2 DEF IsBinding
    <3>4. r # None
      BY <1>1, <2>2
    <3> HIDE DEF r
    <3> QED BY <3>3, <3>4 DEF IsBinding, r
  <2> QED BY <2>1, <2>2
<1>4. \A p \in Customer : BoundTo(p)' \subseteq BoundTo(p)
  BY <1>3 DEF BoundTo
<1> QED BY <1>2, <1>3, <1>4 DEF BindingInv

(* Every step keeps a customer to one binding. *)
LEMMA BindingsInductive ==
  /\ AdministrationInit => BindingInv
  /\ BindingInv /\ [AdministrationNext]_administrationVars => BindingInv'
<1>1. AdministrationInit => BindingInv
  BY DEF AdministrationInit, InitBindings, BindingInv, BoundTo
<1>2. ASSUME BindingInv, [AdministrationNext]_administrationVars
      PROVE  BindingInv'
  <2>1. CASE UNCHANGED bindings
    BY <1>2, <2>1 DEF BindingInv, BoundTo
  <2>2. CASE \E c \in Asking("bind") : Bind(c)
    BY <1>2, <2>2, BindKeeps
  <2>3. CASE \E c \in Asking("close") : Close(c)
    BY <1>2, <2>3, CloseKeeps
  <2>4. BindingStep => \/ UNCHANGED bindings
                       \/ \E c \in Asking("bind") : Bind(c)
                       \/ \E c \in Asking("close") : Close(c)
    BY DEF BindingStep, OpenAccount, MoveFunds, ReadReport
  <2> QED
    BY <1>2, <2>1, <2>2, <2>3, <2>4
    DEF AdministrationNext, administrationVars, bindingVars
<1> QED BY <1>1, <1>2

(* A customer has one binding at most, whatever repairs close and whatever *)
(* is saved late over the rows a binding was made from.                    *)
THEOREM BoundOnce == AdministrationSpec => []CustomersAreBoundOnce
<1>1. BindingInv => CustomersAreBoundOnce
  BY AtMostOne DEF BindingInv, CustomersAreBoundOnce
<1> QED BY <1>1, BindingsInductive, PTL DEF AdministrationSpec

-----------------------------------------------------------------------------
(* Journals in A5 *)

(* A journal has a state, and names the approval it is posted under. *)
IsJournal(r) == "state" \in DOMAIN r /\ "approval" \in DOMAIN r

(* A journal is in A5, under an approval. *)
InA5(S, j, approval) == \E p \in S : p.journal = j /\ p.approval = approval

(* A5 has one journal under a key, and the key is the journal's. *)
A5Fits ==
  /\ \A p \in a5 : p.key = [journal |-> p.journal]
  /\ \A p, q \in a5 : p.journal = q.journal => p = q

(* The transaction that holds a journal was told what A5 has. *)
PostingFits(j) ==
  posting[j] # None =>
    /\ posting[j].call.journal = j
    /\ journals[j] # None
    /\ posting[j].answer \in {"POSTED", "FAILED", "POSTING_UNKNOWN"}
    /\ posting[j].answer = "POSTED" => InA5(a5, j, PostingApproval(posting[j].call))

(* What every journal, its transaction and A5 keep to. *)
JournalInv ==
  /\ journals = [j \in Journal |-> journals[j]]
  /\ posting = [j \in Journal |-> posting[j]]
  /\ A5Fits
  /\ \A j \in Journal :
       /\ journals[j] # None => IsJournal(journals[j])
       /\ JournalIn(j, "POSTED") => InA5(a5, j, journals[j].approval)
       /\ PostingFits(j)

(* A journal whose row and transaction stay, or end, keeps what is said of *)
(* it when A5 only gets more.                                              *)
LEMMA JournalStays ==
  ASSUME JournalInv, a5 \subseteq a5', NEW j \in Journal,
         journals'[j] = journals[j],
         posting'[j] \in {posting[j], None}
  PROVE  /\ journals'[j] # None => IsJournal(journals'[j])
         /\ JournalIn(j, "POSTED")' => InA5(a5', j, journals'[j].approval)
         /\ PostingFits(j)'
<1>1. \A approval : InA5(a5, j, approval) => InA5(a5', j, approval)
  BY DEF InA5
<1>2. JournalIn(j, "POSTED")' => InA5(a5', j, journals'[j].approval)
  BY <1>1 DEF JournalInv, JournalIn
<1>3. PostingFits(j)'
  <2>1. SUFFICES ASSUME posting'[j] # None PROVE PostingFits(j)'
    BY DEF PostingFits
  <2>2. posting'[j] = posting[j] /\ PostingFits(j)
    BY <2>1 DEF JournalInv
  <2>3. posting[j].call.journal = j /\ journals[j] # None
    BY <2>1, <2>2 DEF PostingFits
  <2>4. PostingApproval(posting[j].call)' = PostingApproval(posting[j].call)
    BY <2>2, <2>3 DEF PostingApproval, JournalIn
  <2> QED BY <1>1, <2>2, <2>3, <2>4 DEF PostingFits
<1> QED BY <1>2, <1>3 DEF JournalInv

(* A journal that nobody holds gets a row in a state other than POSTED. *)
LEMMA RowChanges ==
  ASSUME JournalInv, NEW i, ~ Locked(i) \/ journals[i] = None, NEW row, IsJournal(row), row.state # "POSTED",
         journals' = [journals EXCEPT ![i] = row], UNCHANGED <<posting, a5>>
  PROVE  JournalInv'
<1>1. ASSUME NEW j \in Journal
      PROVE  /\ journals'[j] # None => IsJournal(journals'[j])
             /\ JournalIn(j, "POSTED")' => InA5(a5', j, journals'[j].approval)
             /\ PostingFits(j)'
  <2>1. CASE j # i
    <3>1. journals'[j] = journals[j] /\ posting'[j] = posting[j]
      BY <2>1 DEF JournalInv
    <3> QED BY <3>1, JournalStays
  <2>2. CASE j = i
    <3>1. journals'[j] = row /\ posting'[j] = None
      BY <2>2 DEF JournalInv, Locked, PostingFits
    <3> QED BY <3>1 DEF JournalIn, PostingFits
  <2> QED BY <2>1, <2>2
<1>2. journals' = [j \in Journal |-> journals'[j]] /\ posting' = [j \in Journal |-> posting'[j]]
  BY DEF JournalInv
<1>3. A5Fits'
  BY DEF JournalInv, A5Fits
<1> QED BY <1>1, <1>2, <1>3 DEF JournalInv

(* A new journal is a draft. *)
LEMMA CreateKeeps ==
  ASSUME JournalInv, NEW c, CreateJournal(c)
  PROVE  JournalInv'
<1> DEFINE row == [state |-> "DRAFT", period |-> c.period, amount |-> c.amount,
                   preparer |-> c.by, approval |-> None, version |-> 1]
<1>1. CASE UNCHANGED <<journals, posting, a5>>
  BY <1>1, JournalStays DEF JournalInv, A5Fits
<1>2. CASE journals[c.journal] = None /\ journals' = [journals EXCEPT ![c.journal] = row]
  <2>1. IsJournal(row) /\ row.state # "POSTED" /\ UNCHANGED <<posting, a5>>
    BY DEF IsJournal, CreateJournal
  <2> HIDE DEF row
  <2> QED BY <1>2, <2>1, RowChanges
<1> QED BY <1>1, <1>2 DEF CreateJournal

(* A journal nobody holds is submitted, or withdrawn. *)
LEMMA ChangeKeeps ==
  ASSUME JournalInv, NEW c, ChangeState(c)
  PROVE  JournalInv'
<1> DEFINE row == Into(journals[c.journal], To(c))
<1>1. CASE UNCHANGED <<journals, posting, a5>>
  BY <1>1, JournalStays DEF JournalInv, A5Fits
<1>2. CASE journals[c.journal] # None /\ journals' = [journals EXCEPT ![c.journal] = row]
           /\ c.journal \in Journal
  <2>1. IsJournal(row) /\ row.state # "POSTED"
    BY <1>2 DEF IsJournal, JournalInv, Into, To
  <2>2. ~ Locked(c.journal) /\ UNCHANGED <<posting, a5>>
    BY DEF ChangeState
  <2> HIDE DEF row
  <2> QED BY <1>2, <2>1, <2>2, RowChanges
<1>3. CASE c.journal \notin Journal /\ journals' = [journals EXCEPT ![c.journal] = row]
           /\ UNCHANGED <<posting, a5>>
  <2>1. journals' = journals
    BY <1>3 DEF JournalInv
  <2> QED BY <1>1, <1>3, <2>1
<1> QED BY <1>1, <1>2, <1>3 DEF ChangeState, JournalIn

(* A refused verdict rejects a journal nobody holds. *)
LEMMA RejectKeeps ==
  ASSUME JournalInv, NEW c, Reject(c)
  PROVE  JournalInv'
<1> DEFINE row == [Into(journals[c.journal], "REJECTED") EXCEPT !.approval = c.approval]
<1>1. /\ journals' = [journals EXCEPT ![c.journal] = row]
      /\ ~ Locked(c.journal) /\ journals[c.journal] # None /\ UNCHANGED <<posting, a5>>
  BY DEF Reject, JournalIn
<1>2. CASE c.journal \in Journal
  <2>1. IsJournal(row) /\ row.state # "POSTED"
    BY <1>1, <1>2 DEF IsJournal, JournalInv, Into
  <2> HIDE DEF row
  <2> QED BY <1>1, <2>1, RowChanges
<1>3. CASE c.journal \notin Journal
  <2>1. journals' = journals
    BY <1>1, <1>3 DEF JournalInv
  <2> QED BY <1>1, <2>1, JournalStays DEF JournalInv, A5Fits
<1> QED BY <1>2, <1>3

(* A5 has at most one journal under the key, and says which. *)
LEMMA PostKeeps ==
  ASSUME JournalInv, NEW c, PostToA5(c)
  PROVE  JournalInv'
<1> DEFINE approval == PostingApproval(c)
           answers == {"POSTED", "FAILED", "POSTING_UNKNOWN"}
           new == [key |-> [journal |-> c.journal], journal |-> c.journal, approval |-> approval]
<1>1. PICK answer \in answers :
        /\ posting' = [posting EXCEPT ![c.journal] = [call |-> c, answer |-> answer]]
        /\ \/ a5' = a5 /\ (answer = "POSTED" => new \in a5)
           \/ a5' = a5 \cup {new} /\ \A p \in a5 : p.key # [journal |-> c.journal]
  <2> DEFINE Answers(answer) ==
        /\ posting' = [posting EXCEPT ![c.journal] = [call |-> c, answer |-> answer]]
        /\ \/ a5' = a5 /\ (answer = "POSTED" => new \in a5)
           \/ a5' = a5 \cup {new} /\ \A p \in a5 : p.key # [journal |-> c.journal]
  <2>1. Answers("POSTED") \/ Answers("FAILED") \/ Answers("POSTING_UNKNOWN")
    BY DEF PostToA5, PostedUnder, A5Key
  <2> QED BY <2>1
<1>2. journals[c.journal] # None /\ UNCHANGED journals
  BY DEF PostToA5, Approved, Postable
<1>3. A5Fits'
  <2>1. CASE a5' = a5
    BY <2>1 DEF JournalInv, A5Fits
  <2>2. CASE a5' = a5 \cup {new} /\ \A p \in a5 : p.key # [journal |-> c.journal]
    <3>1. \A p \in a5 : p.journal # c.journal
      BY <2>2 DEF JournalInv, A5Fits
    <3> QED BY <2>2, <3>1 DEF JournalInv, A5Fits
  <2> QED BY <1>1, <2>1, <2>2
<1>4. a5 \subseteq a5' /\ (answer = "POSTED" => new \in a5')
  BY <1>1
<1>5. ASSUME NEW j \in Journal
      PROVE  /\ journals'[j] # None => IsJournal(journals'[j])
             /\ JournalIn(j, "POSTED")' => InA5(a5', j, journals'[j].approval)
             /\ PostingFits(j)'
  <2>1. CASE j # c.journal
    <3>1. journals'[j] = journals[j] /\ posting'[j] = posting[j]
      BY <1>1, <1>2, <2>1 DEF JournalInv
    <3> QED BY <1>4, <3>1, JournalStays
  <2>2. CASE j = c.journal
    <3>1. posting'[j] = [call |-> c, answer |-> answer]
      BY <1>1, <2>2 DEF JournalInv
    <3>2. PostingApproval(c)' = approval
      BY <1>2 DEF PostingApproval, JournalIn
    <3>3. answer = "POSTED" => InA5(a5', j, approval)
      BY <1>4, <2>2 DEF InA5
    <3>4. PostingFits(j)'
      BY <1>2, <2>2, <3>1, <3>2, <3>3 DEF PostingFits
    <3>5. /\ journals'[j] # None => IsJournal(journals'[j])
          /\ JournalIn(j, "POSTED")' => InA5(a5', j, journals'[j].approval)
      BY <1>2, <1>4 DEF JournalInv, JournalIn, InA5
    <3> QED BY <3>4, <3>5
  <2> QED BY <2>1, <2>2
<1>6. journals' = [j \in Journal |-> journals'[j]] /\ posting' = [j \in Journal |-> posting'[j]]
  BY <1>1, <1>2 DEF JournalInv
<1> QED BY <1>3, <1>5, <1>6 DEF JournalInv

(* What commits is what A5 answered to the transaction. *)
LEMMA CommitKeeps ==
  ASSUME JournalInv, NEW i \in Journal, CommitPosting(i)
  PROVE  JournalInv'
<1> DEFINE c == posting[i].call
           answer == posting[i].answer
           row == Settled(journals[i], c, answer)
<1>1. /\ journals' = [journals EXCEPT ![i] = row]
      /\ posting' = [posting EXCEPT ![i] = None]
      /\ a5' = a5 /\ posting[i] # None
  BY DEF CommitPosting, Locked
<1>2. /\ answer = "POSTED" => InA5(a5, i, PostingApproval(c))
      /\ journals[i] # None /\ IsJournal(journals[i])
  BY <1>1 DEF JournalInv, PostingFits
<1>3. row.state = answer /\ row.approval = PostingApproval(c) /\ IsJournal(row)
  BY <1>2 DEF Settled, IsJournal
<1> HIDE DEF row, answer, c
<1>4. ASSUME NEW j \in Journal
      PROVE  /\ journals'[j] # None => IsJournal(journals'[j])
             /\ JournalIn(j, "POSTED")' => InA5(a5', j, journals'[j].approval)
             /\ PostingFits(j)'
  <2>1. CASE j # i
    <3>1. journals'[j] = journals[j] /\ posting'[j] = posting[j]
      BY <1>1, <2>1 DEF JournalInv
    <3> QED BY <1>1, <3>1, JournalStays
  <2>2. CASE j = i
    <3>1. journals'[j] = row /\ posting'[j] = None
      BY <1>1, <2>2 DEF JournalInv
    <3>2. answer = "POSTED" => InA5(a5', j, row.approval)
      BY <1>1, <1>2, <1>3, <2>2 DEF InA5
    <3> QED BY <1>3, <3>1, <3>2 DEF JournalIn, PostingFits
  <2> QED BY <2>1, <2>2
<1>5. journals' = [j \in Journal |-> journals'[j]] /\ posting' = [j \in Journal |-> posting'[j]]
  BY <1>1 DEF JournalInv
<1>6. A5Fits'
  BY <1>1 DEF JournalInv, A5Fits
<1> QED BY <1>4, <1>5, <1>6 DEF JournalInv

(* A rollback leaves A5 as it is. *)
LEMMA AbortKeeps ==
  ASSUME JournalInv, NEW i \in Journal, AbortPosting(i)
  PROVE  JournalInv'
<1>1. /\ posting' = [posting EXCEPT ![i] = None]
      /\ a5' = a5 /\ journals' = journals
  BY DEF AbortPosting
<1>2. \A j \in Journal : posting'[j] \in {posting[j], None}
  BY <1>1 DEF JournalInv
<1>3. posting' = [j \in Journal |-> posting'[j]] /\ A5Fits'
  BY <1>1 DEF JournalInv, A5Fits
<1> QED BY <1>1, <1>2, <1>3, JournalStays DEF JournalInv

(* Every step keeps the journals and A5 in step. *)
LEMMA JournalsInductive ==
  /\ AdministrationInit => JournalInv
  /\ JournalInv /\ [AdministrationNext]_administrationVars => JournalInv'
<1>1. AdministrationInit => JournalInv
  BY DEF AdministrationInit, Init, JournalInv, A5Fits, PostingFits, JournalIn
<1>2. ASSUME JournalInv, [AdministrationNext]_administrationVars
      PROVE  JournalInv'
  <2>1. CASE UNCHANGED <<journals, posting, a5>>
    BY <1>2, <2>1, JournalStays DEF JournalInv, A5Fits
  <2>2. CASE JournalStep
    BY <1>2, <2>1, <2>2, CreateKeeps, ChangeKeeps, RejectKeeps, PostKeeps, CommitKeeps, AbortKeeps
    DEF JournalStep, Validate, RejectCreation, RejectPosting, journalVars
  <2> QED
    BY <1>2, <2>1, <2>2
    DEF AdministrationNext, administrationVars, Next, vars, journalVars, governed
<1> QED BY <1>1, <1>2

(* A5 has a finance journal once, under the approval it is posted under,   *)
(* whatever is rolled back, lost or posted again around it.                *)
THEOREM PostedOnce == AdministrationSpec => []JournalsReachTheLedgerOnce
<1>1. JournalInv => JournalsReachTheLedgerOnce
  <2>1. SUFFICES ASSUME JournalInv, NEW j \in Journal
                 PROVE  /\ Cardinality({p \in a5 : p.journal = j}) <= 1
                        /\ JournalIn(j, "POSTED") =>
                             \E p \in a5 : p.journal = j /\ p.approval = journals[j].approval
    BY DEF JournalsReachTheLedgerOnce
  <2>2. \A p, q \in {p \in a5 : p.journal = j} : p = q
    BY <2>1 DEF JournalInv, A5Fits
  <2>3. Cardinality({p \in a5 : p.journal = j}) <= 1
    BY <2>2, AtMostOne
  <2> QED BY <2>1, <2>3 DEF JournalInv, InA5
<1> QED BY <1>1, JournalsInductive, PTL DEF AdministrationSpec

-----------------------------------------------------------------------------
(* The control account *)

(* A transaction has found the account as it is, or not looked again. *)
Provisioner(t) ==
  /\ "account" \in DOMAIN t /\ "outcome" \in DOMAIN t
  /\ t.account \in {None, receivables}
  /\ t.call \in asked /\ t.call.op = "provision"

(* Transactions that created the account, and reports that one did. *)
Creators == {t \in provisioning : t.account # None /\ t.outcome = "PROVISIONED"}
Creations == {e \in provisioned : e.outcome = "PROVISIONED"}

(* Of creators and creations there is one in all. *)
AccountInv ==
  /\ asked \subseteq Call
  /\ \A t \in provisioning : Provisioner(t)
  /\ provisioned # {} => receivables = "authorized"
  /\ \A s, t \in Creators : s = t
  /\ \A e, f \in Creations : e = f
  /\ Creators = {} \/ Creations = {}
  /\ announced # None <=> provisioned # {}
  /\ \A e \in provisioned : e.trace = announced

(* A transaction that looks the account up has not created it. *)
LEMMA LookUpKeeps ==
  ASSUME AccountInv, NEW c \in Asking("provision"), LookUp(c)
  PROVE  AccountInv'
<1> DEFINE new == [call |-> c, row |-> approvals[c.approval], account |-> receivables,
                   outcome |-> IF receivables = None THEN "PROVISIONED" ELSE "RECOVERED"]
<1>1. /\ provisioning' = provisioning \cup {new}
      /\ UNCHANGED <<asked, receivables, provisioned, announced>>
  BY DEF LookUp
<1>2. c \in asked /\ c.op = "provision"
  BY DEF Asking
<1>3. new \notin Creators'
  BY <1>1 DEF Creators
<1>4. Creators' = Creators /\ Creations' = Creations
  BY <1>1, <1>3 DEF Creators, Creations
<1>5. \A t \in provisioning' : Provisioner(t)'
  BY <1>1, <1>2 DEF AccountInv, Provisioner
<1> QED BY <1>1, <1>4, <1>5 DEF AccountInv

(* The account is created while there is none, so nobody else did. *)
LEMMA CreateAccountKeeps ==
  ASSUME AccountInv, NEW t \in provisioning, CreateControlAccount(t)
  PROVE  AccountInv'
<1> DEFINE Into2(account, outcome) == [t EXCEPT !.account = account, !.outcome = outcome]
<1> DEFINE Becomes(account, outcome) ==
      /\ provisioning' = (provisioning \ {t}) \cup {Into2(account, outcome)}
      /\ receivables' = account /\ account # None
      /\ \/ receivables = None
         \/ receivables' = receivables /\ outcome = "RECOVERED"
<1>a. \/ Becomes("authorized", "PROVISIONED") \/ Becomes("authorized", "RECOVERED")
      \/ Becomes(receivables, "RECOVERED")
  BY AccountAssumption DEF CreateControlAccount
<1> HIDE DEF Becomes
<1>b. PICK account, outcome : Becomes(account, outcome)
  BY <1>a
<1>1. /\ provisioning' = (provisioning \ {t}) \cup {Into2(account, outcome)}
      /\ receivables' = account /\ account # None
      /\ \/ receivables = None
         \/ receivables' = receivables /\ outcome = "RECOVERED"
  BY <1>b DEF Becomes
<1>2. UNCHANGED <<asked, provisioned, announced>>
  BY DEF CreateControlAccount
<1> DEFINE new == Into2(account, outcome)
<1>3. Provisioner(t)
  BY DEF AccountInv
<1>4. /\ "account" \in DOMAIN new /\ "outcome" \in DOMAIN new
      /\ new.account = account /\ new.outcome = outcome /\ new.call = t.call
  BY <1>3 DEF Provisioner
<1> HIDE DEF new, Into2
<1>5. provisioning' = (provisioning \ {t}) \cup {new}
  BY <1>1 DEF new
<1>6. \A s \in provisioning' : Provisioner(s)'
  <2>1. SUFFICES ASSUME NEW s \in provisioning' PROVE Provisioner(s)'
    OBVIOUS
  <2>2. CASE s = new
    BY <1>1, <1>2, <1>3, <1>4, <2>2 DEF Provisioner
  <2>3. CASE s \in provisioning
    <3>1. Provisioner(s)
      BY <2>3 DEF AccountInv
    <3> QED BY <1>1, <1>2, <3>1 DEF Provisioner
  <2> QED BY <1>5, <2>2, <2>3
<1>7. CASE receivables = None
  <2>1. Creators = {} /\ provisioned = {}
    BY <1>7, AccountAssumption DEF AccountInv, Provisioner, Creators
  <2>2. Creators' \subseteq {new} /\ provisioned' = {} /\ Creations' = {}
    BY <1>2, <1>5, <2>1 DEF Creators, Creations
  <2> QED BY <1>2, <1>6, <2>1, <2>2 DEF AccountInv
<1>8. CASE receivables' = receivables /\ outcome = "RECOVERED"
  <2>1. Creators' \subseteq Creators
    BY <1>4, <1>5, <1>8 DEF Creators
  <2>2. Creations' = Creations
    BY <1>2 DEF Creations
  <2> QED BY <1>2, <1>6, <1>8, <2>1, <2>2 DEF AccountInv
<1> QED BY <1>1, <1>7, <1>8

(* The creator becomes the creation, announced with its trace. *)
LEMMA CommitAccountKeeps ==
  ASSUME AccountInv, NEW t \in provisioning, CommitProvisioning(t)
  PROVE  AccountInv'
<1>1. /\ provisioning' = provisioning \ {t}
      /\ UNCHANGED <<asked, receivables>>
  BY DEF CommitProvisioning
<1>2. \A s \in provisioning' : Provisioner(s)'
  BY <1>1 DEF AccountInv, Provisioner
<1>3. Creators' = Creators \ {t}
  BY <1>1 DEF Creators
<1>4. CASE UNCHANGED <<provisioned, announced>>
  <2>1. Creations' = Creations
    BY <1>4 DEF Creations
  <2> QED BY <1>1, <1>2, <1>3, <1>4, <2>1 DEF AccountInv
<1>5. CASE Matches(t.account)
  <2> DEFINE e == [key |-> t.call.key, outcome |-> t.outcome, trace |-> t.call.trace]
  <2>1. /\ provisioned' = provisioned \cup {e}
        /\ announced \in {None, t.call.trace} /\ announced' = t.call.trace
    BY <1>5 DEF CommitProvisioning, Announce
  <2>2. /\ t.account = "authorized" /\ receivables = "authorized"
        /\ t.call.trace # None
    BY <1>5, AccountAssumption DEF Matches, AccountInv, Provisioner
  <2>3. /\ announced' # None <=> provisioned' # {}
        /\ provisioned' # {} => receivables' = "authorized"
    BY <1>1, <2>1, <2>2
  <2>4. \A f \in provisioned' : f.trace = announced'
    BY <2>1 DEF AccountInv
  <2>5. CASE t.outcome # "PROVISIONED"
    <3>1. Creations' = Creations
      BY <2>1, <2>5 DEF Creations
    <3> QED BY <1>1, <1>2, <1>3, <2>3, <2>4, <3>1 DEF AccountInv
  <2>6. CASE t.outcome = "PROVISIONED"
    <3>1. t \in Creators
      BY <2>2, <2>6, AccountAssumption DEF Creators
    <3>2. Creations = {} /\ Creators' = {}
      BY <1>3, <3>1 DEF AccountInv
    <3>3. Creations' \subseteq {e}
      BY <2>1, <3>2 DEF Creations
    <3> QED BY <1>1, <1>2, <2>3, <2>4, <3>2, <3>3 DEF AccountInv
  <2> QED BY <2>5, <2>6
<1> QED BY <1>4, <1>5 DEF CommitProvisioning

(* Only an account that is not there is created by hand. *)
LEMMA ByHandKeeps ==
  ASSUME AccountInv, NEW c, CreateByHand(c)
  PROVE  AccountInv'
<1>1. /\ receivables = None
      /\ UNCHANGED <<asked, provisioning, provisioned, announced>>
  BY DEF CreateByHand
<1>2. provisioned = {} /\ Creators' = Creators /\ Creations' = Creations
  BY <1>1, AccountAssumption DEF AccountInv, Creators, Creations
<1>3. \A t \in provisioning : Provisioner(t)'
  BY <1>1 DEF AccountInv, Provisioner
<1> QED BY <1>1, <1>2, <1>3 DEF AccountInv

(* No step of finance governance changes what is asked. *)
LEMMA AskedStays == Next => UNCHANGED asked
<1>1. ApprovalStep => UNCHANGED asked
  BY DEF ApprovalStep, Request, ActivateEmergencyAccess, ReadToDecide, ReadToExpire,
         ReadToCancel, ReadToRevoke, ReadToConsume, Read, Save, ExpiryPasses
<1>2. ControlStep => UNCHANGED asked
  <2>1. ASSUME NEW c, CreatePolicy(c) \/ ActivatePolicy(c) PROVE UNCHANGED asked
    <3>1. CreatePolicy(c) => UNCHANGED asked
      BY Zenon DEF CreatePolicy
    <3>2. ActivatePolicy(c) => UNCHANGED asked
      BY Zenon DEF ActivatePolicy
    <3> QED BY <2>1, <3>1, <3>2
  <2> QED BY <2>1 DEF ControlStep
<1>3. CalendarStep => UNCHANGED asked
  BY DEF CalendarStep, CreateFiscalYear, TransitionPeriod, RejectTransition, ReopenExpires
<1>4. MappingStep => UNCHANGED asked
  BY DEF MappingStep, CreateMapping, SubmitMapping, DecideMapping, RefuseOverlap, RefuseMapping,
         WindowPasses, ExpireMapping
<1>5. JournalStep => UNCHANGED asked
  BY DEF JournalStep, Validate, CreateJournal, RejectCreation, ChangeState, RejectPosting,
         Reject, PostToA5, CommitPosting, AbortPosting, outside
<1> QED BY <1>1, <1>2, <1>3, <1>4, <1>5 DEF Next

(* Every step keeps the account created for one request. *)
LEMMA AccountsInductive ==
  /\ AdministrationInit => AccountInv
  /\ AccountInv /\ [AdministrationNext]_administrationVars => AccountInv'
<1>1. AdministrationInit => AccountInv
  BY DEF AdministrationInit, InitAccounts, Init, InitApprovals, Call, AccountInv, Creators,
         Creations
<1>2. ASSUME AccountInv, [AdministrationNext]_administrationVars
      PROVE  AccountInv'
  <2>1. CASE UNCHANGED <<asked, accountVars>>
    BY <1>2, <2>1 DEF AccountInv, Provisioner, Creators, Creations, accountVars
  <2>2. CASE AccountStep
    <3>1. ASSUME NEW t \in provisioning, AbortProvisioning(t) PROVE AccountInv'
      <4>1. /\ provisioning' = provisioning \ {t}
            /\ UNCHANGED <<asked, receivables, provisioned, announced>>
        BY <3>1 DEF AbortProvisioning
      <4>2. Creators' \subseteq Creators /\ Creations' = Creations
        BY <4>1 DEF Creators, Creations
      <4>3. \A s \in provisioning' : Provisioner(s)'
        BY <1>2, <4>1 DEF AccountInv, Provisioner
      <4> QED BY <1>2, <4>1, <4>2, <4>3 DEF AccountInv
    <3>2. ASSUME NEW c PROVE RejectDefinition(c) \/ RejectProvisioning(c) => UNCHANGED <<asked, accountVars>>
      BY DEF RejectDefinition, RejectProvisioning
    <3>3. AccountStep => \/ UNCHANGED <<asked, accountVars>>
                         \/ \E c \in Asking("ledgerAccount") : CreateByHand(c)
                         \/ \E c \in Asking("provision") : LookUp(c)
                         \/ \E t \in provisioning :
                              CreateControlAccount(t) \/ CommitProvisioning(t) \/ AbortProvisioning(t)
      BY <3>2 DEF AccountStep
    <3> QED
      BY <1>2, <2>1, <2>2, <3>1, <3>3, ByHandKeeps, LookUpKeeps, CreateAccountKeeps,
         CommitAccountKeeps
  <2>3. Next => UNCHANGED asked
    BY AskedStays
  <2>4. BindingStep => UNCHANGED asked
    BY DEF BindingStep, Close
  <2> QED
    BY <1>2, <2>1, <2>2, <2>3, <2>4 DEF AdministrationNext, administrationVars, vars
<1> QED BY <1>1, <1>2

(* What is reported and announced as provisioned is the account as         *)
(* authorized, created for one request at most, whatever was rolled back   *)
(* or raced for around its creation.                                       *)
THEOREM ProvisionedOnce == AdministrationSpec => []ControlAccountIsProvisionedOnce
<1>1. AccountInv => ControlAccountIsProvisionedOnce
  BY AtMostOne DEF AccountInv, Creations, ControlAccountIsProvisionedOnce
<1> QED BY <1>1, AccountsInductive, PTL DEF AdministrationSpec

-----------------------------------------------------------------------------
(* The fiscal year *)

(* The year is there with its periods, and its state is theirs. *)
CalendarInv ==
  /\ asked \subseteq Call
  /\ \/ year = None /\ periods = NoPeriod
     \/ year \in YearState /\ periods \in [Period -> PeriodRow]
  /\ YearFollowsPeriods

(* The states of the periods. *)
States(rows) == {rows[p].state : p \in Period}

(* What the synchronization of a year returns, of its periods. *)
LEMMA SynchronizedFollows ==
  ASSUME NEW rows \in [Period -> PeriodRow], NEW state,
         States(rows) = {"PLANNED"} => state = "PLANNED"
  PROVE  /\ Synchronized(state, rows) \in YearState
         /\ Synchronized(state, rows) = "RETIRED" <=> States(rows) = {"RETIRED"}
         /\ Synchronized(state, rows) \in {"CLOSED", "RETIRED"} <=>
              States(rows) \subseteq {"HARD_CLOSED", "RETIRED"}
         /\ Synchronized(state, rows) = "PLANNED" <=> States(rows) = {"PLANNED"}
<1> DEFINE S == States(rows)
<1>1. S # {}
  BY CalendarAssumption DEF States
<1>2. Synchronized(state, rows) =
        CASE S = {"RETIRED"} -> "RETIRED"
          [] S # {"RETIRED"} /\ S \subseteq {"HARD_CLOSED", "RETIRED"} -> "CLOSED"
          [] ~ S \subseteq {"HARD_CLOSED", "RETIRED"} /\ S # {"PLANNED"} -> "ACTIVE"
          [] OTHER -> state
  BY DEF Synchronized, States
<1> HIDE DEF S
<1>3. S = {"PLANNED"} => ~ S \subseteq {"HARD_CLOSED", "RETIRED"}
  OBVIOUS
<1>4. S = {"RETIRED"} => S # {"PLANNED"} /\ S \subseteq {"HARD_CLOSED", "RETIRED"}
  OBVIOUS
<1>5. CASE S = {"RETIRED"}
  BY <1>2, <1>4, <1>5 DEF YearState, S
<1>6. CASE S # {"RETIRED"} /\ S \subseteq {"HARD_CLOSED", "RETIRED"}
  BY <1>2, <1>3, <1>6 DEF YearState, S
<1>7. CASE ~ S \subseteq {"HARD_CLOSED", "RETIRED"} /\ S # {"PLANNED"}
  BY <1>2, <1>4, <1>7 DEF YearState, S
<1>8. CASE S = {"PLANNED"}
  BY <1>2, <1>3, <1>4, <1>8 DEF YearState, S
<1> QED BY <1>5, <1>6, <1>7, <1>8

(* A synchronized year is its periods, as the invariant says. *)
LEMMA YearFollows ==
  ASSUME NEW rows \in [Period -> PeriodRow], NEW state,
         States(rows) = {"PLANNED"} => state = "PLANNED",
         asked' \subseteq Call, periods' = rows, year' = Synchronized(state, rows)
  PROVE  CalendarInv'
<1> DEFINE y == Synchronized(state, rows)
<1>1. /\ y \in YearState
      /\ y = "RETIRED" <=> States(rows) = {"RETIRED"}
      /\ y \in {"CLOSED", "RETIRED"} <=> States(rows) \subseteq {"HARD_CLOSED", "RETIRED"}
      /\ y = "PLANNED" <=> States(rows) = {"PLANNED"}
  BY SynchronizedFollows
<1>2. year' = y
  OBVIOUS
<1> HIDE DEF y
<1> QED BY <1>1, <1>2 DEF CalendarInv, YearFollowsPeriods, States

(* A new year is planned with all its periods. *)
LEMMA CreateYearKeeps ==
  ASSUME CalendarInv, NEW c, CreateFiscalYear(c)
  PROVE  CalendarInv'
<1> DEFINE rows == [p \in Period |-> [state |-> "PLANNED", version |-> 1]]
<1>1. CASE UNCHANGED <<asked, year, periods>>
  BY <1>1 DEF CalendarInv, YearFollowsPeriods
<1>2. CASE year' = "PLANNED" /\ periods' = rows /\ asked' = asked
  <2>1. rows \in [Period -> PeriodRow] /\ States(rows) = {"PLANNED"}
    BY CalendarAssumption DEF PeriodRow, PeriodState, States
  <2> HIDE DEF rows
  <2>2. year' \in YearState /\ {"PLANNED"} # {"RETIRED"} /\ ~ {"PLANNED"} \subseteq {"HARD_CLOSED", "RETIRED"}
    BY <1>2 DEF YearState
  <2> QED BY <1>2, <2>1, <2>2 DEF CalendarInv, YearFollowsPeriods, States
<1> QED BY <1>1, <1>2 DEF CreateFiscalYear

(* No transition leads back to PLANNED, and each synchronizes. *)
LEMMA TransitionKeeps ==
  ASSUME CalendarInv, NEW c \in Asking("transition"), TransitionPeriod(c)
  PROVE  CalendarInv'
<1>1. CASE UNCHANGED <<asked, calendar>>
  BY <1>1 DEF CalendarInv, YearFollowsPeriods, calendar
<1>2. CASE ApplyTransition(c) /\ asked' = asked
  <2> DEFINE row == [state |-> c.target, version |-> periods[c.period].version + 1]
  <2>1. c.period \in Period /\ periods[c.period] # None
    BY CalendarAssumption DEF CalendarInv, Asking, TransitionPeriod, ValidTransition
  <2>2. year \in YearState /\ periods \in [Period -> PeriodRow]
    BY <2>1 DEF CalendarInv, NoPeriod
  <2>3. c.target \in PeriodState \ {"PLANNED"}
    <3>1. periods[c.period].state \in PeriodState
      BY <2>1, <2>2 DEF PeriodRow
    <3>2. c.target \in CanTransition[periods[c.period].state]
      BY DEF TransitionPeriod, ValidTransition
    <3> QED BY <3>1, <3>2 DEF PeriodState, CanTransition
  <2>4. row \in PeriodRow
    BY <2>1, <2>2, <2>3 DEF PeriodRow
  <2>5. periods' = [periods EXCEPT ![c.period] = row] /\ year' = Synchronized(year, periods')
    BY <1>2 DEF ApplyTransition
  <2>6. periods' \in [Period -> PeriodRow]
    BY <2>2, <2>4, <2>5
  <2>7. periods'[c.period].state # "PLANNED"
    BY <2>1, <2>2, <2>3, <2>5
  <2>8. States(periods') # {"PLANNED"}
    BY <2>1, <2>7 DEF States
  <2>9. asked' \subseteq Call
    BY <1>2 DEF CalendarInv
  <2> QED BY <2>5, <2>6, <2>8, <2>9, YearFollows
<1> QED BY <1>1, <1>2 DEF TransitionPeriod

(* Every step keeps the year as its periods. *)
LEMMA CalendarInductive ==
  /\ AdministrationInit => CalendarInv
  /\ CalendarInv /\ AccountInv /\ AccountInv' /\ [AdministrationNext]_administrationVars
       => CalendarInv'
<1>1. ASSUME AdministrationInit PROVE CalendarInv
  <2>1. PICK s \in Agenda : asked = s.calls /\ InitCalendar(s.periods)
    BY <1>1 DEF AdministrationInit, Init, InitApprovals
  <2>2. asked \subseteq Call
    BY <2>1 DEF Call
  <2>3. CASE s.periods = NoPeriod
    <3>1. periods = NoPeriod /\ year = None
      BY <2>1, <2>3, CalendarAssumption DEF InitCalendar, NoPeriod
    <3> QED BY <2>2, <3>1 DEF CalendarInv, YearFollowsPeriods
  <2>4. CASE s.periods \in [Period -> PeriodRow]
    <3>1. \A p \in Period : s.periods[p] # None
      BY <2>4, CalendarAssumption
    <3>2. periods = s.periods /\ year = Synchronized("PLANNED", s.periods)
      BY <2>1, <3>1 DEF InitCalendar
    <3> DEFINE y == Synchronized("PLANNED", s.periods)
    <3>3. /\ y \in YearState
          /\ y = "RETIRED" <=> States(s.periods) = {"RETIRED"}
          /\ y \in {"CLOSED", "RETIRED"} <=> States(s.periods) \subseteq {"HARD_CLOSED", "RETIRED"}
          /\ y = "PLANNED" <=> States(s.periods) = {"PLANNED"}
      BY <2>4, SynchronizedFollows
    <3> HIDE DEF y
    <3> QED BY <2>2, <2>4, <3>2, <3>3 DEF CalendarInv, YearFollowsPeriods, States, y
  <2> QED BY <2>3, <2>4, CalendarAssumption
<1>2. ASSUME CalendarInv, AccountInv', [AdministrationNext]_administrationVars
      PROVE  CalendarInv'
  <2>1. CASE UNCHANGED <<year, periods>>
    BY <1>2, <2>1 DEF CalendarInv, AccountInv, YearFollowsPeriods
  <2>2. CASE CalendarStep
    BY <1>2, <2>1, <2>2, CreateYearKeeps, TransitionKeeps
    DEF CalendarStep, RejectTransition, ReopenExpires, calendar
  <2>3. MappingStep => UNCHANGED calendar
    BY DEF MappingStep, CreateMapping, SubmitMapping, DecideMapping, RefuseOverlap,
           RefuseMapping, WindowPasses, ExpireMapping
  <2>4. JournalStep => UNCHANGED calendar
    BY DEF JournalStep, Validate, CreateJournal, RejectCreation, ChangeState, RejectPosting,
           Reject, PostToA5, CommitPosting, AbortPosting, outside
  <2> QED
    BY <1>2, <2>1, <2>2, <2>3, <2>4
    DEF AdministrationNext, administrationVars, vars, Next, calendar, governed
<1> QED BY <1>1, <1>2

(* The year is closed while all its periods are, and only then, in every   *)
(* order of closing, reopening and retiring them.                          *)
THEOREM YearIsItsPeriods == AdministrationSpec => []YearFollowsPeriods
<1>1. CalendarInv => YearFollowsPeriods
  BY DEF CalendarInv
<1> QED BY <1>1, AccountsInductive, CalendarInductive, PTL DEF AdministrationSpec

-----------------------------------------------------------------------------
(* Approvals and what they let happen *)

LEMMA ConsumptionFacts ==
  ASSUME NEW a, NEW by, NEW intent
  PROVE  /\ Consumption(a, by, intent) = "APPROVED" =>
              InStatus(a, "APPROVED") /\ approvals[a].intent = intent
         /\ Consumption(a, by, intent) = "EXPIRED" => Found(a)
BY DEF Consumption, InStatus, RequiresExpiry

(* A command is allowed under an approval it consumes. *)
LEMMA VerdictFacts ==
  ASSUME NEW c, NEW intent, NEW maker, NEW amount,
         Verdict(c, intent, maker, amount) = "ALLOW"
  PROVE  Consumption(c.approval, c.by, intent) = "APPROVED"
BY DEF Verdict

(* A row on the desk. *)
Sheet == [approval : Approval, row : ApprovalRow, status : Status, by : Principal]

(* A row that waits to be saved is of the intent the approval has.         *)
ApprovalsFit ==
  /\ approvals \in [Approval -> ApprovalRow \cup {None}]
  /\ desk \subseteq Sheet
  /\ \A s \in desk : Found(s.approval) /\ s.row.intent = approvals[s.approval].intent

(* No step changes what an approval is for. *)
IntentsStay ==
  \A a \in Approval : Found(a) => Found(a)' /\ approvals'[a].intent = approvals[a].intent

(* An approval gets a row of the intent it has, or its first row. *)
LEMMA RowReplaced ==
  ASSUME ApprovalsFit, NEW a \in Approval, NEW row \in ApprovalRow,
         Found(a) => row.intent = approvals[a].intent,
         approvals' = [approvals EXCEPT ![a] = row], desk' \subseteq desk
  PROVE  ApprovalsFit' /\ IntentsStay
<1>1. row # None
  BY AgendaAssumption
<1>2. \A b \in Approval : approvals'[b] = IF b = a THEN row ELSE approvals[b]
  BY DEF ApprovalsFit
<1>3. IntentsStay
  BY <1>1, <1>2 DEF IntentsStay, Found
<1>4. approvals' \in [Approval -> ApprovalRow \cup {None}] /\ desk' \subseteq Sheet
  BY DEF ApprovalsFit
<1>5. \A s \in desk' : Found(s.approval)' /\ s.row.intent = approvals'[s.approval].intent
  BY <1>3 DEF ApprovalsFit, IntentsStay, Sheet
<1> QED BY <1>3, <1>4, <1>5 DEF ApprovalsFit

(* Consumption moves the status alone. *)
LEMMA ConsumeKeeps ==
  ASSUME ApprovalsFit, NEW a \in Approval, NEW answer,
         answer \in {"EXPIRED", "APPROVED"} => Found(a),
         ConsumeInTransaction(a, answer)
  PROVE  ApprovalsFit' /\ IntentsStay
<1>1. CASE approvals' = approvals
  BY <1>1 DEF ConsumeInTransaction, ApprovalsFit, IntentsStay, Found
<1>2. ASSUME NEW status \in {"EXPIRED", "CONSUMED"}, Found(a),
             approvals' = [approvals EXCEPT ![a].status = status]
      PROVE  ApprovalsFit' /\ IntentsStay
  <2> DEFINE row == [approvals[a] EXCEPT !.status = status]
  <2>1. approvals[a] \in ApprovalRow
    BY <1>2 DEF ApprovalsFit, Found
  <2>2. row \in ApprovalRow /\ row.intent = approvals[a].intent
    BY <1>2, <2>1 DEF ApprovalRow, Status
  <2>3. approvals' = [approvals EXCEPT ![a] = row] /\ desk' = desk
    BY <1>2 DEF ConsumeInTransaction
  <2> HIDE DEF row
  <2> QED BY <2>2, <2>3, RowReplaced
<1>3. CASE answer = "EXPIRED"
  BY <1>2, <1>3 DEF ConsumeInTransaction
<1>4. CASE answer = "APPROVED"
  BY <1>2, <1>4 DEF ConsumeInTransaction
<1>5. CASE answer \notin {"EXPIRED", "APPROVED"}
  BY <1>1, <1>5 DEF ConsumeInTransaction
<1> QED BY <1>3, <1>4, <1>5

(* What a command does to the approval it names. *)
LEMMA ConsumptionKeeps ==
  ASSUME ApprovalsFit, NEW c, c.approval \in Approval, NEW intent,
         ConsumeInTransaction(c.approval, Consumption(c.approval, c.by, intent))
  PROVE  ApprovalsFit' /\ IntentsStay
BY ConsumeKeeps, ConsumptionFacts DEF InStatus

(* A row that is read goes to the desk as it is. *)
LEMMA ReadKeeps ==
  ASSUME ApprovalsFit, NEW c, c.by \in Principal, c.approval \in Approval, Found(c.approval),
         NEW status \in Status, Read(c, status)
  PROVE  ApprovalsFit' /\ IntentsStay
<1> DEFINE s == [approval |-> c.approval, row |-> approvals[c.approval],
                 status |-> status, by |-> c.by]
<1>1. approvals[c.approval] \in ApprovalRow
  BY DEF ApprovalsFit, Found
<1>2. s \in Sheet
  BY <1>1 DEF Sheet
<1>3. desk' = desk \cup {s} /\ approvals' = approvals
  BY DEF Read
<1> QED BY <1>2, <1>3 DEF ApprovalsFit, IntentsStay, Found

(* A row that is saved late has the intent it was read with. *)
LEMMA SaveKeeps ==
  ASSUME ApprovalsFit, NEW s \in desk, Save(s)
  PROVE  ApprovalsFit' /\ IntentsStay
<1>1. s \in Sheet /\ s.row.intent = approvals[s.approval].intent
  BY DEF ApprovalsFit
<1>2. Saved(s) \in ApprovalRow /\ Saved(s).intent = s.row.intent
  BY <1>1 DEF Sheet, Saved, ApprovalRow
<1>3. s.approval \in Approval /\ approvals' = [approvals EXCEPT ![s.approval] = Saved(s)]
      /\ desk' \subseteq desk
  BY <1>1 DEF Save, Sheet
<1> QED BY <1>1, <1>2, <1>3, RowReplaced

(* No operation of the approval service moves an intent. *)
LEMMA ApprovalStepKeeps ==
  ASSUME ApprovalsFit, asked \subseteq Call, ApprovalStep
  PROVE  ApprovalsFit' /\ IntentsStay
<1>1. ASSUME NEW c \in Asking("request"), Request(c)
      PROVE  ApprovalsFit' /\ IntentsStay
  <2>1. c \in Call /\ c.op = "request"
    BY <1>1 DEF Asking
  <2>2. c.by \in Principal /\ c.approval \in Approval
    BY <2>1, AgendaAssumption DEF Approving
  <2>3. NewApproval(c) \in ApprovalRow
    BY <2>1, <2>2 DEF NewApproval, ApprovalRow, Status
  <2> QED BY <1>1, <2>2, <2>3, RowReplaced DEF Request
<1>2. ASSUME NEW c \in Asking("emergency"), ActivateEmergencyAccess(c)
      PROVE  ApprovalsFit' /\ IntentsStay
  <2> DEFINE row == [status |-> "EMERGENCY_ACTIVE",
                     intent |-> Fingerprint("EMERGENCY", c.resource, 0),
                     requester |-> c.by, by |-> c.by]
  <2>1. c \in Call /\ c.op = "emergency"
    BY <1>2 DEF Asking
  <2>2. c.by \in Principal /\ c.approval \in Approval
    BY <2>1, AgendaAssumption DEF Approving
  <2>3. row \in ApprovalRow
    BY <2>1, <2>2 DEF ApprovalRow, Status
  <2>4. ~ Found(c.approval) /\ approvals' = [approvals EXCEPT ![c.approval] = row]
        /\ desk' \subseteq desk
    BY <1>2 DEF ActivateEmergencyAccess
  <2> HIDE DEF row
  <2> QED BY <2>2, <2>3, <2>4, RowReplaced
<1>3. ASSUME NEW c \in asked, c.op \in Approving,
             ReadToDecide(c) \/ ReadToExpire(c) \/ ReadToCancel(c) \/ ReadToRevoke(c)
               \/ ReadToConsume(c)
      PROVE  ApprovalsFit' /\ IntentsStay
  <2>1. c.by \in Principal /\ c.approval \in Approval
    BY <1>3, AgendaAssumption
  <2>2. Found(c.approval)
    BY <1>3, ConsumptionFacts
    DEF ReadToDecide, ReadToExpire, ReadToCancel, ReadToRevoke, ReadToConsume, InStatus,
        RequiresExpiry
  <2>3. \E status \in Status : Read(c, status)
    <3>1. \/ Read(c, "APPROVED") \/ Read(c, "REJECTED") \/ Read(c, "EXPIRED")
          \/ Read(c, "CANCELLED") \/ Read(c, "EMERGENCY_REVOKED") \/ Read(c, "CONSUMED")
      BY <1>3 DEF ReadToDecide, ReadToExpire, ReadToCancel, ReadToRevoke, ReadToConsume
    <3> QED BY <3>1 DEF Status
  <2> QED BY <2>1, <2>2, <2>3, ReadKeeps
<1>4. ASSUME NEW a, ExpiryPasses(a)
      PROVE  ApprovalsFit' /\ IntentsStay
  BY <1>4 DEF ExpiryPasses, ApprovalsFit, IntentsStay, Found
<1>5. \A op \in {"approve", "reject", "cancel", "revoke", "consume"} :
        \A c \in Asking(op) : c \in asked /\ c.op \in Approving
  BY DEF Asking, Approving
<1> QED BY <1>1, <1>2, <1>3, <1>4, <1>5, SaveKeeps DEF ApprovalStep

(* A journal that has left the hands of its preparer and its checker. *)
Done(j) == journals[j] # None /\ journals[j].state \notin {"DRAFT", "PENDING_APPROVAL"}

DoneStays == \A j \in Journal : Done(j) => Done(j)'

(* What a change that was audited says of its approval: the version it was *)
(* let happen to is the one asked for, or it is a journal that is done.    *)
Fits(e) ==
    LET intent == approvals[e.approval].intent IN
    /\ e = [approval |-> e.approval, resource |-> intent.resource, version |-> e.version]
    /\ e.approval \in Approval /\ Found(e.approval)
    /\ intent.action # "JOURNAL_POST" => e.version = intent.version
    /\ intent.action = "JOURNAL_POST" => intent.resource \in Journal /\ Done(intent.resource)

AuditFits == \A e \in audit : Fits(e)

(* A provisioning that was let through is under an approval of one. *)
LetThrough(t) ==
  /\ "account" \in DOMAIN t /\ "outcome" \in DOMAIN t
  /\ t.call.approval \in Approval /\ Found(t.call.approval)
  /\ approvals[t.call.approval].intent = ProvisionIntent

HoldersFit == \A t \in provisioning : LetThrough(t)

(* One approval lets a change of one version happen, or a journal be done. *)
Lets(a, version) ==
  LET intent == approvals[a].intent IN
  /\ a \in Approval /\ Found(a)
  /\ audit' = audit \cup {[approval |-> a, resource |-> intent.resource, version |-> version]}
  /\ intent.action # "JOURNAL_POST" => version = intent.version
  /\ intent.action = "JOURNAL_POST" =>
       \E j \in Journal : intent.resource = j /\ ~ Done(j) /\ Done(j)'

AuditStep == UNCHANGED audit \/ \E a, version : Lets(a, version)

(* The audit grows by a change its approval had not let happen. *)
LEMMA AuditKeeps ==
  ASSUME AuditFits, OneChangePerApproval, IntentsStay, DoneStays, AuditStep
  PROVE  AuditFits' /\ OneChangePerApproval'
<1>1. ASSUME NEW e, Fits(e)
      PROVE  Fits(e)'
  <2>1. PICK intent : intent = approvals[e.approval].intent
    OBVIOUS
  <2>2. e.approval \in Approval /\ Found(e.approval)
    BY <1>1 DEF Fits
  <2>3. Found(e.approval)' /\ approvals'[e.approval].intent = intent
    BY <2>1, <2>2 DEF IntentsStay
  <2>4. /\ e = [approval |-> e.approval, resource |-> intent.resource, version |-> e.version]
        /\ intent.action # "JOURNAL_POST" => e.version = intent.version
        /\ intent.action = "JOURNAL_POST" => intent.resource \in Journal /\ Done(intent.resource)
    BY <1>1, <2>1 DEF Fits
  <2>5. intent.action = "JOURNAL_POST" => Done(intent.resource)'
    BY <2>4 DEF DoneStays
  <2> QED BY <2>2, <2>3, <2>4, <2>5 DEF Fits
<1>2. CASE UNCHANGED audit
  BY <1>1, <1>2 DEF AuditFits, OneChangePerApproval
<1>3. CASE \E a, version : Lets(a, version)
  <2>1. PICK a, version : Lets(a, version)
    BY <1>3
  <2>2. PICK intent : intent = approvals[a].intent
    OBVIOUS
  <2> DEFINE new == [approval |-> a, resource |-> intent.resource, version |-> version]
  <2>3. /\ a \in Approval /\ Found(a) /\ audit' = audit \cup {new}
        /\ intent.action # "JOURNAL_POST" => version = intent.version
        /\ intent.action = "JOURNAL_POST" =>
             intent.resource \in Journal /\ ~ Done(intent.resource) /\ Done(intent.resource)'
    BY <2>1, <2>2 DEF Lets
  <2>4. Found(a)' /\ approvals'[a].intent = intent
    BY <2>2, <2>3 DEF IntentsStay
  <2>5. new.approval = a /\ new.version = version
    OBVIOUS
  <2>6. new = [approval |-> new.approval, resource |-> intent.resource, version |-> new.version]
    OBVIOUS
  <2>7. \A e \in audit : e.approval = a => e = new
    <3>1. SUFFICES ASSUME NEW e \in audit, e.approval = a PROVE e = new
      OBVIOUS
    <3>2. /\ e = [approval |-> a, resource |-> intent.resource, version |-> e.version]
          /\ intent.action # "JOURNAL_POST" => e.version = intent.version
          /\ intent.action = "JOURNAL_POST" => Done(intent.resource)
      BY <2>2, <3>1 DEF AuditFits, Fits
    <3>3. intent.action # "JOURNAL_POST" /\ e.version = version
      BY <2>3, <3>2
    <3> QED BY <3>2, <3>3
  <2> HIDE DEF new
  <2>8. Fits(new)'
    BY <2>3, <2>4, <2>5, <2>6 DEF Fits
  <2>9. AuditFits'
    BY <1>1, <2>3, <2>8 DEF AuditFits
  <2>10. OneChangePerApproval'
    BY <2>3, <2>5, <2>7 DEF OneChangePerApproval
  <2> QED BY <2>9, <2>10
<1> QED BY <1>2, <1>3 DEF AuditStep

-----------------------------------------------------------------------------
(* A journal that is done stays so *)

(* Rows of journals, and the calls that are at work on them. *)
RowsFit ==
  /\ journals \in [Journal -> JournalRow \cup {None}]
  /\ drafting \subseteq Asking("prepare")
  /\ \A j \in Journal : posting[j] # None => posting[j].call \in Asking("post")

(* A journal gets a row, for good if it is done. *)
LEMMA RowMoves ==
  ASSUME RowsFit, NEW i \in Journal, NEW row \in JournalRow,
         journals' = [journals EXCEPT ![i] = row],
         Done(i) => row.state \notin {"DRAFT", "PENDING_APPROVAL"}
  PROVE  journals' \in [Journal -> JournalRow \cup {None}] /\ DoneStays
<1>1. row # None
  BY JournalAssumption
<1>2. \A j \in Journal : journals'[j] = IF j = i THEN row ELSE journals[j]
  BY DEF RowsFit
<1>3. DoneStays
  BY <1>1, <1>2 DEF DoneStays, Done
<1> QED BY <1>3 DEF RowsFit

(* A journal's row in another state is one. *)
LEMMA IntoRow ==
  ASSUME NEW row \in JournalRow, NEW state \in JournalState
  PROVE  Into(row, state) \in JournalRow /\ Into(row, state).state = state
<1>1. [row EXCEPT !.state = state] \in JournalRow /\ [row EXCEPT !.state = state].state = state
  BY DEF JournalRow
<1>2. row.version + 1 \in Nat \ {0}
  BY DEF JournalRow
<1>3. \A r \in JournalRow, n \in Nat \ {0} :
        [r EXCEPT !.version = n] \in JournalRow /\ [r EXCEPT !.version = n].state = r.state
  BY DEF JournalRow
<1>4. Into(row, state) = [[row EXCEPT !.state = state] EXCEPT !.version = row.version + 1]
  BY DEF Into
<1>5. PICK r, n : r = [row EXCEPT !.state = state] /\ n = row.version + 1
  OBVIOUS
<1> QED BY <1>1, <1>2, <1>3, <1>4, <1>5

(* And so is one that was settled. *)
LEMMA SettledRow ==
  ASSUME NEW row \in JournalRow, NEW state \in JournalState, NEW c,
         PostingApproval(c) \in Approval \cup {None}
  PROVE  Settled(row, c, state) \in JournalRow /\ Settled(row, c, state).state = state
<1>1. PICK approval, n : approval = PostingApproval(c) /\ n = row.version + 2
  OBVIOUS
<1>2. approval \in Approval \cup {None} /\ n \in Nat \ {0}
  BY <1>1 DEF JournalRow
<1> DEFINE new == [row EXCEPT !.state = state, !.version = n, !.approval = approval]
<1>3. new \in JournalRow /\ new.state = state
  BY <1>2 DEF JournalRow
<1>4. Settled(row, c, state) = new
  BY <1>1 DEF Settled
<1> HIDE DEF new
<1> QED BY <1>3, <1>4

(* A journal is done when its posting commits. *)
LEMMA CommitDone ==
  ASSUME JournalInv, RowsFit, asked \subseteq Call, NEW i \in Journal, CommitPosting(i)
  PROVE  \E row \in JournalRow :
           /\ journals' = [journals EXCEPT ![i] = row] /\ journals'[i] = row
           /\ row.state \notin {"DRAFT", "PENDING_APPROVAL"}
<1> DEFINE row == Settled(journals[i], posting[i].call, posting[i].answer)
<1>1. journals' = [journals EXCEPT ![i] = row] /\ posting[i] # None
  BY DEF CommitPosting, Locked
<1>2. /\ posting[i].answer \in {"POSTED", "FAILED", "POSTING_UNKNOWN"}
      /\ posting[i].call.journal = i /\ journals[i] # None
  BY <1>1 DEF JournalInv, PostingFits
<1>3. journals[i] \in JournalRow /\ posting[i].call.approval \in Approval
  BY <1>1, <1>2, JournalAssumption DEF RowsFit, Asking
<1>4. PostingApproval(posting[i].call) \in Approval \cup {None}
  BY <1>2, <1>3 DEF PostingApproval, JournalRow
<1>5. row \in JournalRow /\ row.state = posting[i].answer
  <2>1. PICK r, c, answer : r = journals[i] /\ c = posting[i].call /\ answer = posting[i].answer
    OBVIOUS
  <2>2. r \in JournalRow /\ answer \in JournalState /\ PostingApproval(c) \in Approval \cup {None}
    BY <1>2, <1>3, <1>4, <2>1 DEF JournalState
  <2>3. row = Settled(r, c, answer)
    BY <2>1
  <2> HIDE DEF row
  <2> QED BY <2>1, <2>2, <2>3, SettledRow
<1> HIDE DEF row
<1>6. journals'[i] = row
  BY <1>1 DEF RowsFit
<1> QED BY <1>1, <1>2, <1>5, <1>6

(* No step takes a journal that is done back. *)
LEMMA JournalDone ==
  ASSUME JournalInv, RowsFit, UNCHANGED asked, asked \subseteq Call, JournalStep
  PROVE  RowsFit' /\ DoneStays
<1>1. ASSUME UNCHANGED journals
      PROVE  DoneStays /\ journals' \in [Journal -> JournalRow \cup {None}]
  BY <1>1 DEF RowsFit, DoneStays, Done
<1>2. \A op : Asking(op)' = Asking(op)
  BY DEF Asking
<1>3. ASSUME NEW c \in Asking("prepare"), Validate(c) PROVE RowsFit' /\ DoneStays
  BY <1>1, <1>2, <1>3 DEF Validate, RowsFit
<1>4. ASSUME NEW c \in Asking("prepare"), CreateJournal(c) PROVE RowsFit' /\ DoneStays
  <2> DEFINE row == [state |-> "DRAFT", period |-> c.period, amount |-> c.amount,
                     preparer |-> c.by, approval |-> None, version |-> 1]
  <2>1. drafting' \subseteq drafting /\ posting' = posting
    BY <1>4 DEF CreateJournal
  <2>2. c \in Call /\ c.op = "prepare"
    BY <1>4 DEF Asking
  <2>3. row \in JournalRow
    BY <2>2, JournalAssumption DEF JournalRow, JournalState
  <2>4. CASE UNCHANGED journals
    BY <1>1, <1>2, <2>1, <2>4 DEF RowsFit
  <2>5. CASE journals[c.journal] = None /\ journals' = [journals EXCEPT ![c.journal] = row]
    <3> HIDE DEF row
    <3>1. CASE c.journal \in Journal
      <4>1. ~ Done(c.journal)
        BY <2>5 DEF Done
      <4>2. journals' \in [Journal -> JournalRow \cup {None}] /\ DoneStays
        BY <2>3, <2>5, <3>1, <4>1, RowMoves
      <4> QED BY <1>2, <2>1, <4>2 DEF RowsFit
    <3>2. CASE c.journal \notin Journal
      <4>1. UNCHANGED journals
        BY <2>5, <3>2 DEF RowsFit
      <4> QED BY <1>1, <1>2, <2>1, <4>1 DEF RowsFit
    <3> QED BY <3>1, <3>2
  <2> QED BY <1>4, <2>4, <2>5 DEF CreateJournal
<1>5. ASSUME NEW c, ChangeState(c) PROVE RowsFit' /\ DoneStays
  <2> DEFINE row == Into(journals[c.journal], To(c))
  <2>1. UNCHANGED <<drafting, posting>>
    BY <1>5 DEF ChangeState
  <2>2. CASE UNCHANGED journals
    BY <1>1, <1>2, <2>1, <2>2 DEF RowsFit
  <2>3. CASE /\ JournalIn(c.journal, From(c)) /\ c.journal \in Journal
             /\ journals' = [journals EXCEPT ![c.journal] = row]
    <3>1. journals[c.journal] \in JournalRow
      BY <2>3 DEF RowsFit, JournalIn
    <3>2. row \in JournalRow
      BY <3>1, IntoRow DEF To, JournalState
    <3>3. ~ Done(c.journal)
      BY <2>3 DEF Done, JournalIn, From
    <3> HIDE DEF row
    <3>4. journals' \in [Journal -> JournalRow \cup {None}] /\ DoneStays
      BY <2>3, <3>2, <3>3, RowMoves
    <3> QED BY <1>2, <2>1, <3>4 DEF RowsFit
  <2>4. c.journal \notin Journal => UNCHANGED journals
    BY <1>5 DEF ChangeState, RowsFit
  <2> QED BY <1>5, <2>2, <2>3, <2>4 DEF ChangeState
<1>6. ASSUME NEW c \in Asking("post"), Reject(c) PROVE RowsFit' /\ DoneStays
  <2> DEFINE row == [Into(journals[c.journal], "REJECTED") EXCEPT !.approval = c.approval]
  <2>1. /\ UNCHANGED <<drafting, posting>> /\ JournalIn(c.journal, "PENDING_APPROVAL")
        /\ journals' = [journals EXCEPT ![c.journal] = row]
    BY <1>6 DEF Reject
  <2>2. c.journal \in Journal /\ c.approval \in Approval
    BY <1>6, JournalAssumption DEF Asking
  <2>3. journals[c.journal] \in JournalRow
    BY <2>1, <2>2 DEF RowsFit, JournalIn
  <2>4. row \in JournalRow
    <3>1. Into(journals[c.journal], "REJECTED") \in JournalRow
      BY <2>3, IntoRow DEF JournalState
    <3> QED BY <2>2, <3>1 DEF JournalRow
  <2>5. ~ Done(c.journal)
    BY <2>1 DEF Done, JournalIn
  <2> HIDE DEF row
  <2>6. journals' \in [Journal -> JournalRow \cup {None}] /\ DoneStays
    BY <2>1, <2>2, <2>4, <2>5, RowMoves
  <2> QED BY <1>2, <2>1, <2>6 DEF RowsFit
<1>7. ASSUME NEW c \in Asking("post"), PostToA5(c) PROVE RowsFit' /\ DoneStays
  <2>1. \E answer : posting' = [posting EXCEPT ![c.journal] = [call |-> c, answer |-> answer]]
    BY <1>7 DEF PostToA5
  <2>2. UNCHANGED <<journals, drafting>>
    BY <1>7 DEF PostToA5
  <2>3. \A j \in Journal : posting'[j] = posting[j] \/ posting'[j].call = c
    BY <2>1 DEF JournalInv
  <2> QED BY <1>1, <1>2, <1>7, <2>2, <2>3 DEF RowsFit
<1>8. ASSUME NEW i \in Journal, CommitPosting(i) PROVE RowsFit' /\ DoneStays
  <2>1. UNCHANGED drafting /\ posting' = [posting EXCEPT ![i] = None]
    BY <1>8 DEF CommitPosting
  <2>2. PICK row \in JournalRow :
          /\ journals' = [journals EXCEPT ![i] = row]
          /\ row.state \notin {"DRAFT", "PENDING_APPROVAL"}
    BY <1>8, CommitDone
  <2>3. journals' \in [Journal -> JournalRow \cup {None}] /\ DoneStays
    BY <2>2, RowMoves
  <2>4. \A j \in Journal : posting'[j] # None => posting'[j] = posting[j] /\ posting[j] # None
    BY <2>1 DEF JournalInv
  <2> QED BY <1>2, <2>1, <2>3, <2>4 DEF RowsFit
<1>9. ASSUME NEW i \in Journal, AbortPosting(i) PROVE RowsFit' /\ DoneStays
  <2>1. posting' = [posting EXCEPT ![i] = None] /\ UNCHANGED <<journals, drafting>>
    BY <1>9 DEF AbortPosting
  <2>2. \A j \in Journal : posting'[j] # None => posting'[j] = posting[j] /\ posting[j] # None
    BY <2>1 DEF JournalInv
  <2> QED BY <1>1, <1>2, <2>1, <2>2 DEF RowsFit
<1>10. ASSUME NEW c, RejectCreation(c) \/ RejectPosting(c) PROVE RowsFit' /\ DoneStays
  BY <1>1, <1>2, <1>10 DEF RejectCreation, RejectPosting, journalVars, RowsFit
<1> QED BY <1>3, <1>4, <1>5, <1>6, <1>7, <1>8, <1>9, <1>10 DEF JournalStep

-----------------------------------------------------------------------------
(* What the commands let happen *)

(* A step of the approvals, and of what they let happen. *)
ApprovedStep == ApprovalsFit' /\ IntentsStay /\ AuditStep

(* A step that leaves approvals and audit alone. *)
LEMMA NothingApproved ==
  ASSUME ApprovalsFit, UNCHANGED <<approvals, desk, audit>>
  PROVE  ApprovedStep
BY DEF ApprovedStep, AuditStep, ApprovalsFit, IntentsStay, Found

(* A command other than the posting of a journal. *)
LEMMA AuthoriseKeeps ==
  ASSUME ApprovalsFit, NEW c, c.approval \in Approval,
         NEW action, action # "JOURNAL_POST", NEW resource, NEW version, NEW verdict, NEW effective,
         verdict = "ALLOW" =>
           Consumption(c.approval, c.by, Fingerprint(action, resource, version)) = "APPROVED",
         Authorise(c, Fingerprint(action, resource, version), version, verdict, effective)
  PROVE  ApprovedStep
<1> DEFINE intent == Fingerprint(action, resource, version)
<1>1. ApprovalsFit' /\ IntentsStay
  BY ConsumptionKeeps DEF Authorise
<1>2. CASE UNCHANGED audit
  BY <1>1, <1>2 DEF ApprovedStep, AuditStep
<1>3. CASE verdict = "ALLOW" /\ audit' = Audited(c, intent, version)
  <2>1. Found(c.approval) /\ approvals[c.approval].intent = intent
    BY <1>3, ConsumptionFacts DEF InStatus
  <2>2. intent.action = action /\ intent.resource = resource /\ intent.version = version
    BY DEF Fingerprint
  <2> HIDE DEF intent
  <2>3. Lets(c.approval, version)
    BY <1>3, <2>1, <2>2 DEF Lets, Audited
  <2> QED BY <1>1, <2>3 DEF ApprovedStep, AuditStep
<1> QED BY <1>2, <1>3 DEF Authorise

(* The calls of an operation that names an approval. *)
LEMMA Approvers ==
  ASSUME asked \subseteq Call, NEW op \in Approving, NEW c \in Asking(op)
  PROVE  c.by \in Principal /\ c.approval \in Approval
BY AgendaAssumption DEF Asking

(* A policy is activated once in a version. *)
LEMMA ControlsApproved ==
  ASSUME ApprovalsFit, asked \subseteq Call, ControlStep
  PROVE  ApprovedStep
<1>1. ASSUME NEW c, CreatePolicy(c) PROVE ApprovedStep
  BY <1>1, NothingApproved DEF CreatePolicy, approvalVars
<1>2. ASSUME NEW c \in Asking("activate"), ActivatePolicy(c) PROVE ApprovedStep
  <2> DEFINE intent == Fingerprint("POLICY_ACTIVATE", c.policy, c.expected)
  <2>1. c.approval \in Approval
    BY <1>2, Approvers DEF Approving
  <2>2. /\ Consumption(c.approval, c.by, intent) = "APPROVED"
        /\ ConsumeInTransaction(c.approval, "APPROVED")
        /\ audit' = audit \cup {[approval |-> c.approval, resource |-> c.policy,
                                 version |-> c.expected]}
    BY <1>2, Zenon DEF ActivatePolicy
  <2>3. Found(c.approval) /\ approvals[c.approval].intent = intent
    BY <2>2, ConsumptionFacts DEF InStatus
  <2>4. /\ intent.action = "POLICY_ACTIVATE" /\ intent.resource = c.policy
        /\ intent.version = c.expected
    BY DEF Fingerprint
  <2> HIDE DEF intent
  <2>5. ApprovalsFit' /\ IntentsStay
    BY <2>1, <2>2, <2>3, ConsumeKeeps
  <2>6. Lets(c.approval, c.expected)
    BY <2>1, <2>2, <2>3, <2>4 DEF Lets
  <2> QED BY <2>5, <2>6 DEF ApprovedStep, AuditStep
<1> QED BY <1>1, <1>2 DEF ControlStep

(* A period moves once from a version. *)
LEMMA CalendarApproved ==
  ASSUME ApprovalsFit, CalendarInv, CalendarStep
  PROVE  ApprovedStep
<1>1. ASSUME NEW c \in Asking("transition"), TransitionPeriod(c) PROVE ApprovedStep
  <2> DEFINE verdict == Verdict(c, PeriodIntent(c), approvals[c.approval].requester, "small")
  <2>1. c.approval \in Approval
    BY <1>1, Approvers DEF Approving, CalendarInv
  <2>2. c.target # "JOURNAL_POST"
    <3>1. c.period \in Period /\ periods[c.period] # None
      BY <1>1, CalendarAssumption DEF CalendarInv, Asking, TransitionPeriod, ValidTransition
    <3>2. periods[c.period].state \in PeriodState
      BY <3>1 DEF CalendarInv, NoPeriod, PeriodRow
    <3>3. c.target \in CanTransition[periods[c.period].state]
      BY <1>1 DEF TransitionPeriod, ValidTransition
    <3> QED BY <3>2, <3>3 DEF PeriodState, CanTransition
  <2>3. Authorise(c, PeriodIntent(c), c.expected, verdict, verdict = "ALLOW")
    BY <1>1 DEF TransitionPeriod
  <2>4. verdict = "ALLOW" => Consumption(c.approval, c.by, PeriodIntent(c)) = "APPROVED"
    BY VerdictFacts
  <2> HIDE DEF verdict
  <2> QED BY <2>1, <2>2, <2>3, <2>4, AuthoriseKeeps DEF PeriodIntent
<1>2. ASSUME NEW c, CreateFiscalYear(c) \/ RejectTransition(c) PROVE ApprovedStep
  BY <1>2, NothingApproved DEF CreateFiscalYear, RejectTransition, approvalVars
<1>3. ASSUME NEW p, ReopenExpires(p) PROVE ApprovedStep
  BY <1>3, NothingApproved DEF ReopenExpires, approvalVars, controlVars
<1> QED BY <1>1, <1>2, <1>3 DEF CalendarStep

(* A mapping is decided once in a version, or the overlap refused. *)
LEMMA MappingApproved ==
  ASSUME ApprovalsFit, asked \subseteq Call, MappingStep
  PROVE  ApprovedStep
<1>1. ASSUME NEW c \in Asking("decideMapping") PROVE c.approval \in Approval /\ c.target # "JOURNAL_POST"
  BY <1>1, Approvers, MappingAssumption DEF Approving, Asking
<1>2. ASSUME NEW c \in Asking("decideMapping"), DecideMapping(c) PROVE ApprovedStep
  <2> DEFINE verdict == Verdict(c, MappingIntent(c), mappings[c.mapping].creator, "small")
  <2>1. Authorise(c, MappingIntent(c), c.expected, verdict, verdict = "ALLOW")
    BY <1>2 DEF DecideMapping
  <2>2. verdict = "ALLOW" => Consumption(c.approval, c.by, MappingIntent(c)) = "APPROVED"
    BY VerdictFacts
  <2> HIDE DEF verdict
  <2> QED BY <1>1, <2>1, <2>2, AuthoriseKeeps DEF MappingIntent
<1>3. ASSUME NEW c \in Asking("decideMapping"), RefuseOverlap(c) PROVE ApprovedStep
  <2>1. /\ Consumption(c.approval, c.by, MappingIntent(c)) = "APPROVED"
        /\ ConsumeInTransaction(c.approval, "APPROVED") /\ UNCHANGED audit
    BY <1>3 DEF RefuseOverlap
  <2>2. ApprovalsFit' /\ IntentsStay
    BY <1>1, <2>1, ConsumeKeeps, ConsumptionFacts DEF InStatus
  <2> QED BY <2>1, <2>2 DEF ApprovedStep, AuditStep
<1>4. ASSUME NEW c, CreateMapping(c) \/ SubmitMapping(c) \/ RefuseMapping(c) PROVE ApprovedStep
  BY <1>4, NothingApproved DEF CreateMapping, SubmitMapping, RefuseMapping, approvalVars
<1>5. ASSUME NEW m, WindowPasses(m) \/ ExpireMapping(m) PROVE ApprovedStep
  BY <1>5, NothingApproved DEF WindowPasses, ExpireMapping, approvalVars, controlVars
<1> QED BY <1>2, <1>3, <1>4, <1>5 DEF MappingStep

(* A journal is rejected under an approval, or posted and done. *)
LEMMA JournalsApproved ==
  ASSUME ApprovalsFit, asked \subseteq Call, JournalInv, RowsFit, JournalStep
  PROVE  ApprovedStep
<1>1. ASSUME NEW c \in Asking("post"), Reject(c) PROVE ApprovedStep
  <2>1. /\ ConsumeInTransaction(c.approval, Consumption(c.approval, c.by, JournalIntent(c)))
        /\ UNCHANGED audit
    BY <1>1 DEF Reject, Authorise
  <2>2. c.approval \in Approval
    BY <1>1, Approvers DEF Approving
  <2>3. ApprovalsFit' /\ IntentsStay
    BY <2>1, <2>2, ConsumptionKeeps
  <2> QED BY <2>1, <2>3 DEF ApprovedStep, AuditStep
<1>2. ASSUME NEW j \in Journal, CommitPosting(j) PROVE ApprovedStep
  <2> DEFINE c == posting[j].call
             answer == posting[j].answer
  <2>1. /\ posting[j] # None /\ Approved(c) /\ desk' = desk
        /\ \/ UNCHANGED <<approvals, audit>>
           \/ /\ JournalIn(j, "PENDING_APPROVAL")
              /\ Authorise(c, JournalIntent(c), c.expected, "ALLOW", answer = "POSTED")
    BY <1>2 DEF CommitPosting, Locked, approvalVars, Authorise, ConsumeInTransaction
  <2>2. /\ c \in Asking("post") /\ c.journal = j
        /\ answer \in {"POSTED", "FAILED", "POSTING_UNKNOWN"}
    BY <2>1 DEF RowsFit, JournalInv, PostingFits
  <2>3. c.approval \in Approval
    BY <2>2, Approvers DEF Approving
  <2>4. CASE UNCHANGED <<approvals, audit>>
    BY <2>1, <2>4, NothingApproved
  <2>5. CASE /\ JournalIn(j, "PENDING_APPROVAL")
             /\ Authorise(c, JournalIntent(c), c.expected, "ALLOW", answer = "POSTED")
    <3> DEFINE intent == JournalIntent(c)
    <3>1. Consumption(c.approval, c.by, intent) = "APPROVED"
      BY <2>1, <2>2, <2>5, VerdictFacts DEF Approved, JournalVerdict
    <3>2. Found(c.approval) /\ approvals[c.approval].intent = intent
      BY <3>1, ConsumptionFacts DEF InStatus
    <3>3. intent.action = "JOURNAL_POST" /\ intent.resource = j
      BY <2>2 DEF JournalIntent, Fingerprint
    <3>4. /\ ConsumeInTransaction(c.approval, Consumption(c.approval, c.by, intent))
          /\ audit' = Audited(c, intent, c.expected)
      BY <2>5 DEF Authorise
    <3> HIDE DEF intent, c
    <3>5. ApprovalsFit' /\ IntentsStay
      BY <2>3, <3>4, ConsumptionKeeps
    <3>6. ~ Done(j)
      BY <2>5 DEF Done, JournalIn
    <3>7. Done(j)'
      BY <1>2, CommitDone, JournalAssumption DEF Done
    <3>8. Lets(c.approval, c.expected)
      BY <2>3, <3>2, <3>3, <3>4, <3>6, <3>7 DEF Lets, Audited
    <3> QED BY <3>5, <3>8 DEF ApprovedStep, AuditStep
  <2> QED BY <2>1, <2>4, <2>5
<1>3. ASSUME NEW c, \/ Validate(c) \/ CreateJournal(c) \/ RejectCreation(c) \/ ChangeState(c)
                    \/ RejectPosting(c) \/ PostToA5(c)
      PROVE  ApprovedStep
  BY <1>3, NothingApproved
  DEF Validate, CreateJournal, RejectCreation, ChangeState, RejectPosting, PostToA5,
      approvalVars, controlVars
<1>4. ASSUME NEW j, AbortPosting(j) PROVE ApprovedStep
  BY <1>4, NothingApproved DEF AbortPosting, approvalVars, controlVars
<1> QED BY <1>1, <1>2, <1>3, <1>4 DEF JournalStep

(* A provisioning is of the one version the account has. *)
LEMMA AccountsApproved ==
  ASSUME ApprovalsFit, HoldersFit, asked \subseteq Call, AccountStep
  PROVE  ApprovedStep
<1>1. ASSUME NEW c \in Asking("provision"), RejectProvisioning(c) PROVE ApprovedStep
  <2>1. c.approval \in Approval
    BY <1>1, Approvers DEF Approving
  <2>2. /\ ConsumeInTransaction(c.approval, Consumption(c.approval, c.by, ProvisionIntent))
        /\ UNCHANGED audit
    BY <1>1 DEF RejectProvisioning, Authorise
  <2>3. ApprovalsFit' /\ IntentsStay
    BY <2>1, <2>2, ConsumptionKeeps
  <2> QED BY <2>2, <2>3 DEF ApprovedStep, AuditStep
<1>2. ASSUME NEW t \in provisioning, CommitProvisioning(t) PROVE ApprovedStep
  <2>1. PICK a : a = t.call.approval
    OBVIOUS
  <2>2. a \in Approval /\ Found(a) /\ approvals[a].intent = ProvisionIntent
    BY <2>1 DEF HoldersFit, LetThrough
  <2>3. /\ ConsumeInTransaction(a, t.row.status)
        /\ audit' = audit \cup {[approval |-> a, resource |-> ProvisionIntent.resource, version |-> 1]}
    BY <1>2, <2>1 DEF CommitProvisioning, Audited
  <2>4. ApprovalsFit' /\ IntentsStay
    BY <2>2, <2>3, ConsumeKeeps
  <2>5. ProvisionIntent.action = "PROVISION" /\ ProvisionIntent.version = 1
    BY DEF ProvisionIntent, Fingerprint
  <2>6. Lets(a, 1)
    BY <2>2, <2>3, <2>5 DEF Lets
  <2> QED BY <2>4, <2>6 DEF ApprovedStep, AuditStep
<1>3. ASSUME NEW c, CreateByHand(c) \/ RejectDefinition(c) \/ LookUp(c) PROVE ApprovedStep
  BY <1>3, NothingApproved DEF CreateByHand, RejectDefinition, LookUp, approvalVars, controlVars
<1>4. ASSUME NEW t, CreateControlAccount(t) \/ AbortProvisioning(t) PROVE ApprovedStep
  BY <1>4, NothingApproved DEF CreateControlAccount, AbortProvisioning, approvalVars, controlVars
<1> QED BY <1>1, <1>2, <1>3, <1>4 DEF AccountStep

(* A repair consumes an approval that no audit here names. *)
LEMMA BindingsApproved ==
  ASSUME ApprovalsFit, asked \subseteq Call, BindingStep, UNCHANGED audit
  PROVE  ApprovedStep
<1>1. ASSUME NEW c \in Asking("close"), Close(c) PROVE ApprovedStep
  <2>1. c.approval \in Approval
    BY <1>1, Approvers DEF Approving
  <2>2. /\ ConsumeInTransaction(c.approval, "APPROVED")
        /\ Consumption(c.approval, c.by, Fingerprint("CLOSE", c.wallet, c.expected)) = "APPROVED"
    BY <1>1 DEF Close
  <2>3. ApprovalsFit' /\ IntentsStay
    BY <2>1, <2>2, ConsumeKeeps, ConsumptionFacts DEF InStatus
  <2> QED BY <2>3 DEF ApprovedStep, AuditStep
<1>2. CASE UNCHANGED approvalVars
  BY <1>2, NothingApproved DEF approvalVars
<1> QED BY <1>1, <1>2 DEF BindingStep

(* A provisioning is let through when it looks the account up, and no step *)
(* changes what its approval is for.                                       *)
LEMMA HoldersKeep ==
  ASSUME HoldersFit, IntentsStay, asked \subseteq Call,
         AccountStep \/ UNCHANGED provisioning
  PROVE  HoldersFit'
<1>1. ASSUME NEW t, LetThrough(t) PROVE LetThrough(t)'
  BY <1>1 DEF LetThrough, IntentsStay, ProvisionIntent
<1>2. CASE provisioning' \subseteq provisioning
  BY <1>1, <1>2 DEF HoldersFit
<1>3. ASSUME NEW c \in Asking("provision"), LookUp(c) PROVE HoldersFit'
  <2>1. PICK t : /\ t.call = c /\ "account" \in DOMAIN t /\ "outcome" \in DOMAIN t
                 /\ provisioning' = provisioning \cup {t}
    <3>1. PICK row, account, outcome :
            provisioning' = provisioning \cup
              {[call |-> c, row |-> row, account |-> account, outcome |-> outcome]}
      BY <1>3 DEF LookUp
    <3> QED BY <3>1
  <2>2. c.approval \in Approval
    BY <1>3, Approvers DEF Approving
  <2>3. Found(c.approval) /\ approvals[c.approval].intent = ProvisionIntent
    BY <1>3, ConsumptionFacts DEF LookUp, ProvisionVerdict, Accepted, InStatus
  <2>4. LetThrough(t)
    BY <2>1, <2>2, <2>3 DEF LetThrough
  <2> QED BY <1>1, <2>1, <2>4 DEF HoldersFit
<1>4. ASSUME NEW t \in provisioning, CreateControlAccount(t) PROVE HoldersFit'
  <2> DEFINE Holding(account, outcome) ==
        provisioning' = (provisioning \ {t})
                          \cup {[t EXCEPT !.account = account, !.outcome = outcome]}
  <2>a. \/ Holding("authorized", "PROVISIONED") \/ Holding("authorized", "RECOVERED")
        \/ Holding(receivables, "RECOVERED")
    BY <1>4 DEF CreateControlAccount
  <2> HIDE DEF Holding
  <2>b. PICK account, outcome : Holding(account, outcome)
    BY <2>a
  <2>1. provisioning' = (provisioning \ {t})
                          \cup {[t EXCEPT !.account = account, !.outcome = outcome]}
    BY <2>b DEF Holding
  <2> DEFINE new == [t EXCEPT !.account = account, !.outcome = outcome]
  <2>2. LetThrough(t)
    BY DEF HoldersFit
  <2>3. "account" \in DOMAIN new /\ "outcome" \in DOMAIN new /\ new.call = t.call
    BY <2>2 DEF LetThrough
  <2> HIDE DEF new
  <2>4. LetThrough(new)
    BY <2>2, <2>3 DEF LetThrough
  <2>5. provisioning' = (provisioning \ {t}) \cup {new}
    BY <2>1 DEF new
  <2> QED BY <1>1, <2>4, <2>5 DEF HoldersFit
<1>5. ASSUME NEW c, CreateByHand(c) \/ RejectDefinition(c) \/ RejectProvisioning(c)
      PROVE  provisioning' \subseteq provisioning
  BY <1>5 DEF CreateByHand, RejectDefinition, RejectProvisioning, accountVars
<1>6. ASSUME NEW t, CommitProvisioning(t) \/ AbortProvisioning(t)
      PROVE  provisioning' \subseteq provisioning
  BY <1>6 DEF CommitProvisioning, AbortProvisioning
<1> QED BY <1>2, <1>3, <1>4, <1>5, <1>6 DEF AccountStep

(* Approvals, what runs under them and what they let happen. *)
ApprovalInv == ApprovalsFit /\ HoldersFit /\ RowsFit /\ AuditFits /\ OneChangePerApproval

(* No step adds to what is asked. *)
LEMMA CallsStay == [AdministrationNext]_administrationVars => UNCHANGED asked
<1>1. AccountStep => UNCHANGED asked
  <2>1. ASSUME NEW c, \/ CreateByHand(c) \/ RejectDefinition(c) \/ RejectProvisioning(c)
                      \/ LookUp(c)
        PROVE  UNCHANGED asked
    BY <2>1, Zenon DEF CreateByHand, RejectDefinition, RejectProvisioning, LookUp
  <2>2. ASSUME NEW t, \/ CreateControlAccount(t) \/ CommitProvisioning(t)
                      \/ AbortProvisioning(t)
        PROVE  UNCHANGED asked
    BY <2>2, Zenon DEF CreateControlAccount, CommitProvisioning, AbortProvisioning
  <2> QED BY <2>1, <2>2 DEF AccountStep
<1>2. BindingStep => UNCHANGED asked
  BY DEF BindingStep, Close
<1> QED BY <1>1, <1>2, AskedStays DEF AdministrationNext, administrationVars, vars

(* Every step keeps an approval to one change. *)
LEMMA ApprovalsInductive ==
  /\ AdministrationInit => ApprovalInv
  /\ ApprovalInv /\ JournalInv /\ AccountInv /\ AccountInv' /\ CalendarInv
       /\ [AdministrationNext]_administrationVars => ApprovalInv'
<1>1. AdministrationInit => ApprovalInv
  BY DEF AdministrationInit, Init, InitApprovals, InitControls, InitAccounts, ApprovalInv,
         ApprovalsFit, HoldersFit, RowsFit, AuditFits, OneChangePerApproval
<1>2. ASSUME ApprovalInv, JournalInv, AccountInv, CalendarInv,
             [AdministrationNext]_administrationVars, UNCHANGED asked
      PROVE  ApprovalInv'
  <2>1. asked \subseteq Call
    BY <1>2 DEF AccountInv
  <2>2. ApprovedStep
    <3>1. CASE Next
      <4>1. CASE ApprovalStep /\ UNCHANGED controlVars
        <5>1. ApprovalsFit' /\ IntentsStay
          BY <1>2, <2>1, <4>1, ApprovalStepKeeps DEF ApprovalInv
        <5> QED BY <4>1, <5>1 DEF ApprovedStep, AuditStep, controlVars
      <4> QED
        BY <1>2, <2>1, <3>1, <4>1, ControlsApproved, CalendarApproved, MappingApproved,
           JournalsApproved
        DEF Next, ApprovalInv
    <3>2. CASE AccountStep
      BY <1>2, <2>1, <3>2, AccountsApproved DEF ApprovalInv
    <3>3. CASE BindingStep /\ UNCHANGED controlVars
      BY <1>2, <2>1, <3>3, BindingsApproved DEF ApprovalInv, controlVars
    <3>4. CASE UNCHANGED <<approvals, desk, audit>>
      BY <1>2, <3>4, NothingApproved DEF ApprovalInv
    <3> QED
      BY <1>2, <3>1, <3>2, <3>3, <3>4
      DEF AdministrationNext, administrationVars, vars, approvalVars, controlVars
  <2>3. RowsFit' /\ DoneStays
    <3>1. CASE UNCHANGED journalVars
      BY <1>2, <3>1 DEF ApprovalInv, RowsFit, DoneStays, Done, journalVars, Asking
    <3>2. CASE JournalStep
      BY <1>2, <2>1, <3>2, JournalDone DEF ApprovalInv
    <3> QED
      BY <1>2, <3>1, <3>2 DEF AdministrationNext, administrationVars, vars, Next, governed
  <2>4. HoldersFit'
    <3>1. AccountStep \/ UNCHANGED provisioning
      BY <1>2 DEF AdministrationNext, administrationVars, accountVars
    <3> QED BY <1>2, <2>1, <2>2, <3>1, HoldersKeep DEF ApprovalInv, ApprovedStep
  <2>5. AuditFits' /\ OneChangePerApproval'
    BY <1>2, <2>2, <2>3, AuditKeeps DEF ApprovalInv, ApprovedStep
  <2> QED BY <2>2, <2>3, <2>4, <2>5 DEF ApprovalInv, ApprovedStep
<1>3. [AdministrationNext]_administrationVars => UNCHANGED asked
  BY CallsStay
<1> QED BY <1>1, <1>2, <1>3

(* An approval lets one change happen, whatever decisions, late saves,     *)
(* refusals and retries it goes through.                                   *)
THEOREM OneChange == AdministrationSpec => []OneChangePerApproval
<1>1. ApprovalInv => OneChangePerApproval
  BY DEF ApprovalInv
<1> QED
  BY <1>1, JournalsInductive, AccountsInductive, CalendarInductive, ApprovalsInductive, PTL
  DEF AdministrationSpec

-----------------------------------------------------------------------------
(* What every variable holds *)

(* What approvals are requested for, and the resources of it. *)
Requested ==
  {Fingerprint(c.action, c.resource, c.version) : c \in {r \in Call : r.op = "request"}}
Resources == {c.resource : c \in {r \in Call : r.op = "request"}}

(* The statuses of approvals that were requested: emergency access has its *)
(* own, or expires.                                                        *)
AskedFor == {"REQUESTED", "APPROVED", "REJECTED", "CANCELLED", "CONSUMED"}

(* An approval in one of them is for what a request asked for.             *)
RequestsFit ==
  /\ \A a \in Approval :
       Found(a) /\ approvals[a].status \in AskedFor => approvals[a].intent \in Requested
  /\ \A s \in desk : s.status \in AskedFor => s.row.intent \in Requested

(* A policy comes into force once, and is retired once. *)
IsPolicy(row) ==
  /\ row = [status |-> row.status, definition |-> row.definition, version |-> row.version]
  /\ \/ row.status = "DRAFT" /\ row.version = 1
     \/ row.status = "ACTIVE" /\ row.version = 2
     \/ row.status = "RETIRED" /\ row.version = 3

PoliciesFit ==
  /\ policies = [p \in Policy |-> policies[p]]
  /\ \A p \in Policy : policies[p] # None => IsPolicy(policies[p])

RecordsTyped == records \in Records(RecordKeys, Recordable, {"OK", "REFUSED", "ALLOW", "DENY"})
AuditTyped == audit \subseteq [approval : Approval, resource : Resources, version : Nat]

(* Journals are in A5 under approvals, and one that is posted again names  *)
(* the approval of the posting before.                                     *)
A5Typed ==
  /\ \A p \in a5 : p.journal \in Journal /\ p.approval \in Approval
  /\ \A j \in Journal : posting[j] # None =>
       posting[j] = [call |-> posting[j].call, answer |-> posting[j].answer]
  /\ \A j \in Journal : JournalIn(j, "POSTING_UNKNOWN") => journals[j].approval \in Approval

(* A provisioning that was let through, under an approval that was         *)
(* requested for it.                                                       *)
IsProvisioning(t) ==
  /\ t = [call |-> t.call, row |-> t.row, account |-> t.account, outcome |-> t.outcome]
  /\ t.row \in ApprovalRow /\ t.row.status \in {"APPROVED", "CONSUMED"}
  /\ t.outcome \in {"PROVISIONED", "RECOVERED"}

ProvisioningFits ==
  /\ receivables \in {"authorized", "other", None}
  /\ \A t \in provisioning : IsProvisioning(t)
  /\ provisioning # {} => "receivables" \in Resources
  /\ \A e \in provisioned : e.outcome \in {"PROVISIONED", "RECOVERED"}

(* A binding is closed once. *)
BindingsFit ==
  /\ BindingsTyped
  /\ \A w \in Wallet : Active(w) => bindings[w].version = 1

TypeInv ==
  /\ asked \in {s.calls : s \in Agenda}
  /\ due \in SUBSET Approval /\ RequestsFit /\ PoliciesFit /\ RecordsTyped /\ AuditTyped
  /\ closed \in SUBSET Period /\ MappingsTyped /\ A5Typed /\ ProvisioningFits
  /\ CustomersTyped /\ BindingsFit

(* Records of a key stay records. *)
LEMMA RecordsOf ==
  ASSUME NEW K, NEW H, NEW R, NEW rs \in Records(K, H, R), NEW k \in K, NEW h \in H, NEW r \in R
  PROVE  /\ Recorded(rs, k, h, r) \in Records(K, H, R)
         /\ Failed(Reserved(rs, k, h), k, r) \in Records(K, H, R)
<1> DEFINE held == [hash |-> h, status |-> "IN_PROGRESS", resource |-> NoRecord]
           Ended(status) == [hash |-> h, status |-> status, resource |-> r]
<1>1. Reserved(rs, k, h) = [rs EXCEPT ![k] = held] /\ Reserved(rs, k, h)[k] = held
  BY DEF Reserved, Records
<1>2. /\ Recorded(rs, k, h, r) = [rs EXCEPT ![k] = Ended("COMPLETED")]
      /\ Failed(Reserved(rs, k, h), k, r) = [rs EXCEPT ![k] = Ended("FAILED")]
  BY <1>1 DEF Recorded, Completed, Failed, Records
<1>3. Ended("COMPLETED") \in Record(H, R) /\ Ended("FAILED") \in Record(H, R)
  BY DEF Record, RecordStatus
<1> HIDE DEF Ended
<1> QED BY <1>2, <1>3 DEF Records

(* What a command leaves of its key, and of its decision's. *)
LEMMA CommandRecorded ==
  ASSUME RecordsTyped, NEW c \in Recordable
  PROVE  /\ Complete(c) => RecordsTyped'
         /\ Fail(c) => RecordsTyped'
         /\ \A verdict \in {"UNAPPROVED", "DENY", "ALLOW"}, effective \in BOOLEAN :
              records' = Answered(c, verdict, effective) => RecordsTyped'
<1> DEFINE R == {"OK", "REFUSED", "ALLOW", "DENY"}
           T == Records(RecordKeys, Recordable, R)
<1>1. KeyOf(c) \in RecordKeys /\ ControlKeyOf(c) \in RecordKeys
  BY DEF RecordKeys
<1>2. \A rs \in T, r \in R :
        /\ Recorded(rs, KeyOf(c), c, r) \in T
        /\ Recorded(rs, ControlKeyOf(c), c, r) \in T
        /\ Failed(Reserved(rs, KeyOf(c), c), KeyOf(c), r) \in T
  <2> HIDE DEF R
  <2> QED BY <1>1, RecordsOf
<1>3. records \in T /\ (records' \in T => RecordsTyped')
  BY DEF RecordsTyped, RecordKeys, Recordable, KeyOf, ControlKeyOf, Call
<1>4. {"OK", "REFUSED", "ALLOW", "DENY"} \subseteq R
  OBVIOUS
<1> HIDE DEF T, R
<1>5. (Complete(c) => records' \in T) /\ (Fail(c) => records' \in T)
  BY <1>2, <1>3, <1>4 DEF Complete, Fail
<1>6. ASSUME NEW verdict \in {"UNAPPROVED", "DENY", "ALLOW"}, NEW effective \in BOOLEAN,
             records' = Answered(c, verdict, effective)
      PROVE  records' \in T
  <2>1. PICK decided \in T :
          records' = IF effective THEN Recorded(decided, KeyOf(c), c, "OK")
                     ELSE Failed(Reserved(decided, KeyOf(c), c), KeyOf(c), "REFUSED")
    <3>1. CASE verdict = "UNAPPROVED"
      BY <1>3, <1>6, <3>1 DEF Answered
    <3>2. CASE verdict # "UNAPPROVED"
      <4>1. Recorded(records, ControlKeyOf(c), c, verdict) \in T
        BY <1>2, <1>3, <1>4, <1>6, <3>2
      <4> QED BY <1>6, <3>2, <4>1 DEF Answered
    <3> QED BY <3>1, <3>2
  <2> QED BY <1>2, <1>4, <2>1
<1> QED BY <1>3, <1>5, <1>6

(* Commands have records. *)
LEMMA Recorders ==
  ASSUME asked \subseteq Call, NEW op \in DOMAIN Scope, NEW c \in Asking(op)
  PROVE  c \in Recordable
BY DEF Asking, Recordable

LEMMA Scoped ==
  {"policy", "activate", "year", "transition", "map", "submitMapping", "decideMapping",
   "prepare", "submit", "withdraw", "post", "provision"} = DOMAIN Scope
BY DEF Scope

LEMMA Verdicts ==
  ASSUME NEW c, NEW intent, NEW maker, NEW amount
  PROVE  Verdict(c, intent, maker, amount) \in {"UNAPPROVED", "DENY", "ALLOW"}
BY DEF Verdict

(* Every step leaves a table of records. *)
LEMMA RecordsKeep ==
  ASSUME RecordsTyped, asked \subseteq Call, RowsFit, AccountInv,
         [AdministrationNext]_administrationVars
  PROVE  RecordsTyped'
<1>1. CASE UNCHANGED records
  BY <1>1 DEF RecordsTyped, RecordKeys, Recordable, KeyOf, ControlKeyOf, Call
<1>2. ASSUME NEW c \in Recordable, Complete(c) \/ Fail(c) PROVE RecordsTyped'
  BY <1>2, CommandRecorded
<1>3. ASSUME NEW c \in Recordable, NEW verdict \in {"UNAPPROVED", "DENY", "ALLOW"},
             NEW effective \in BOOLEAN, records' = Answered(c, verdict, effective)
      PROVE  RecordsTyped'
  BY <1>3, CommandRecorded
<1>4. CASE ControlStep
  <2>1. ASSUME NEW c, CreatePolicy(c) \/ ActivatePolicy(c) PROVE Complete(c)
    BY <2>1, Zenon DEF CreatePolicy, ActivatePolicy
  <2> QED BY <1>2, <1>4, <2>1, Recorders, Scoped DEF ControlStep
<1>5. CASE CalendarStep
  <2>1. ASSUME NEW c \in Asking("year"), CreateFiscalYear(c) PROVE RecordsTyped'
    BY <1>2, <2>1, Recorders, Scoped DEF CreateFiscalYear
  <2>2. ASSUME NEW c \in Asking("transition"), TransitionPeriod(c) PROVE RecordsTyped'
    <3> DEFINE verdict == Verdict(c, PeriodIntent(c), approvals[c.approval].requester, "small")
    <3>1. records' = Answered(c, verdict, verdict = "ALLOW")
      BY <2>2 DEF TransitionPeriod, Authorise
    <3>2. verdict \in {"UNAPPROVED", "DENY", "ALLOW"}
      BY Verdicts
    <3> HIDE DEF verdict
    <3> QED BY <1>3, <3>1, <3>2, Recorders, Scoped
  <2>3. ASSUME NEW c \in Asking("transition"), RejectTransition(c) PROVE RecordsTyped'
    BY <1>2, <2>3, Recorders, Scoped DEF RejectTransition
  <2>4. ASSUME NEW p, ReopenExpires(p) PROVE RecordsTyped'
    BY <1>1, <2>4 DEF ReopenExpires, controlVars
  <2> QED BY <1>5, <2>1, <2>2, <2>3, <2>4 DEF CalendarStep
<1>6. CASE MappingStep
  <2>1. ASSUME NEW c \in Asking("map") \cup Asking("submitMapping") \cup Asking("decideMapping"),
               CreateMapping(c) \/ SubmitMapping(c) \/ RefuseOverlap(c) \/ RefuseMapping(c)
        PROVE  RecordsTyped'
    <3>1. Complete(c) \/ Fail(c)
      BY <2>1 DEF CreateMapping, SubmitMapping, RefuseOverlap, RefuseMapping
    <3> QED BY <1>2, <2>1, <3>1, Recorders, Scoped
  <2>2. ASSUME NEW c \in Asking("decideMapping"), DecideMapping(c) PROVE RecordsTyped'
    <3> DEFINE verdict == Verdict(c, MappingIntent(c), mappings[c.mapping].creator, "small")
    <3>1. records' = Answered(c, verdict, verdict = "ALLOW")
      BY <2>2 DEF DecideMapping, Authorise
    <3>2. verdict \in {"UNAPPROVED", "DENY", "ALLOW"}
      BY Verdicts
    <3> HIDE DEF verdict
    <3> QED BY <1>3, <3>1, <3>2, Recorders, Scoped
  <2>3. ASSUME NEW m, WindowPasses(m) \/ ExpireMapping(m) PROVE RecordsTyped'
    BY <1>1, <2>3 DEF WindowPasses, ExpireMapping, controlVars
  <2> QED BY <1>6, <2>1, <2>2, <2>3 DEF MappingStep
<1>7. CASE JournalStep
  <2>1. ASSUME NEW c \in Asking("prepare") \cup Asking("submit") \cup Asking("withdraw")
                           \cup Asking("post"),
               \/ CreateJournal(c) \/ RejectCreation(c) \/ ChangeState(c) \/ RejectPosting(c)
        PROVE  RecordsTyped'
    <3>1. Complete(c) \/ Fail(c) \/ UNCHANGED records
      BY <2>1 DEF CreateJournal, RejectCreation, ChangeState, RejectPosting
    <3> QED BY <1>1, <1>2, <2>1, <3>1, Recorders, Scoped
  <2>2. ASSUME NEW c \in Asking("post"), Reject(c) PROVE RecordsTyped'
    <3>1. records' = Answered(c, JournalVerdict(c), FALSE)
      BY <2>2 DEF Reject, Authorise
    <3>2. JournalVerdict(c) \in {"UNAPPROVED", "DENY", "ALLOW"}
      BY Verdicts DEF JournalVerdict
    <3> QED BY <1>3, <3>1, <3>2, Recorders, Scoped
  <2>3. ASSUME NEW c, Validate(c) \/ PostToA5(c) PROVE RecordsTyped'
    BY <1>1, <2>3 DEF Validate, PostToA5, controlVars
  <2>4. ASSUME NEW j \in Journal, CommitPosting(j) PROVE RecordsTyped'
    <3>1. PICK c : c = posting[j].call
      OBVIOUS
    <3>2. c \in Asking("post")
      BY <2>4, <3>1 DEF CommitPosting, Locked, RowsFit
    <3>3. \/ Complete(c) \/ Fail(c)
          \/ \E effective \in BOOLEAN : records' = Answered(c, "ALLOW", effective)
      BY <2>4, <3>1 DEF CommitPosting, Authorise
    <3> QED BY <1>2, <1>3, <3>2, <3>3, Recorders, Scoped
  <2>5. ASSUME NEW j, AbortPosting(j) PROVE RecordsTyped'
    BY <1>1, <2>5 DEF AbortPosting, controlVars
  <2> QED BY <1>7, <2>1, <2>2, <2>3, <2>4, <2>5 DEF JournalStep
<1>8. CASE AccountStep
  <2>1. ASSUME NEW c \in Asking("provision"), RejectDefinition(c) PROVE RecordsTyped'
    BY <1>2, <2>1, Recorders, Scoped DEF RejectDefinition
  <2>2. ASSUME NEW c \in Asking("provision"), RejectProvisioning(c) PROVE RecordsTyped'
    <3>1. records' = Answered(c, ProvisionVerdict(c), FALSE)
      BY <2>2 DEF RejectProvisioning, Authorise
    <3>2. ProvisionVerdict(c) \in {"UNAPPROVED", "DENY", "ALLOW"}
      BY DEF ProvisionVerdict
    <3> QED BY <1>3, <3>1, <3>2, Recorders, Scoped
  <2>3. ASSUME NEW c, CreateByHand(c) \/ LookUp(c) PROVE RecordsTyped'
    BY <1>1, <2>3 DEF CreateByHand, LookUp, controlVars
  <2>4. ASSUME NEW t \in provisioning, CommitProvisioning(t) PROVE RecordsTyped'
    <3>1. PICK c : c = t.call
      OBVIOUS
    <3>2. c \in Asking("provision")
      BY <3>1 DEF AccountInv, Provisioner, Asking
    <3>3. records' = Answered(c, "ALLOW", Matches(t.account)) /\ Matches(t.account) \in BOOLEAN
      BY <2>4, <3>1 DEF CommitProvisioning, Matches
    <3> QED BY <1>3, <3>2, <3>3, Recorders, Scoped
  <2>5. ASSUME NEW t, CreateControlAccount(t) \/ AbortProvisioning(t) PROVE RecordsTyped'
    BY <1>1, <2>5 DEF CreateControlAccount, AbortProvisioning, controlVars
  <2> QED BY <1>8, <2>1, <2>2, <2>3, <2>4, <2>5 DEF AccountStep
<1> QED
  BY <1>1, <1>4, <1>5, <1>6, <1>7, <1>8
  DEF AdministrationNext, administrationVars, vars, Next, controlVars

-----------------------------------------------------------------------------
(* Approvals that were requested, and the audit *)

(* What approvals keep to, and the audit of what they let happen. *)
RequestTypes == due \in SUBSET Approval /\ RequestsFit /\ AuditTyped

(* A step that leaves them alone. *)
LEMMA RequestsStay ==
  ASSUME RequestTypes, UNCHANGED <<approvalVars, audit>>
  PROVE  RequestTypes'
BY DEF RequestTypes, RequestsFit, AuditTyped, approvalVars, Found, Requested, Resources, Call

(* An approval that is consumed was requested. *)
LEMMA ConsumeRequested ==
  ASSUME ApprovalsFit, RequestsFit, due \in SUBSET Approval, NEW a \in Approval, NEW answer,
         answer = "APPROVED" => InStatus(a, "APPROVED"), answer = "EXPIRED" => Found(a),
         ConsumeInTransaction(a, answer)
  PROVE  RequestsFit' /\ due' \in SUBSET Approval
<1>1. desk' = desk /\ due' = due
  BY DEF ConsumeInTransaction
<1>2. CASE approvals' = approvals
  BY <1>1, <1>2 DEF RequestsFit, Found, Requested, Call
<1>3. ASSUME NEW status \in {"EXPIRED", "CONSUMED"}, Found(a),
             status = "CONSUMED" => approvals[a].intent \in Requested,
             approvals' = [approvals EXCEPT ![a].status = status]
      PROVE  RequestsFit'
  <2>1. approvals[a] \in ApprovalRow
    BY <1>3 DEF ApprovalsFit, Found
  <2> DEFINE row == [approvals[a] EXCEPT !.status = status]
  <2>2. row.status = status /\ row.intent = approvals[a].intent
    BY <2>1 DEF ApprovalRow
  <2>3. \A b \in Approval : approvals'[b] = IF b = a THEN row ELSE approvals[b]
    BY <1>3 DEF ApprovalsFit
  <2> HIDE DEF row
  <2>4. status \in AskedFor => status = "CONSUMED"
    BY DEF AskedFor
  <2>5. \A b \in Approval :
          Found(b)' /\ approvals'[b].status \in AskedFor => approvals'[b].intent \in Requested
    BY <1>3, <2>2, <2>3, <2>4 DEF RequestsFit, Found
  <2> QED BY <1>1, <2>5 DEF RequestsFit, Requested, Call, AskedFor
<1>4. CASE answer = "EXPIRED"
  BY <1>1, <1>3, <1>4 DEF ConsumeInTransaction
<1>5. CASE answer = "APPROVED"
  <2>1. Found(a) /\ approvals[a].status = "APPROVED"
    BY <1>5 DEF InStatus
  <2>2. approvals[a].intent \in Requested
    BY <2>1 DEF RequestsFit, AskedFor
  <2> QED BY <1>1, <1>3, <1>5, <2>1, <2>2 DEF ConsumeInTransaction
<1>6. CASE answer \notin {"EXPIRED", "APPROVED"}
  BY <1>1, <1>2, <1>6 DEF ConsumeInTransaction
<1> QED BY <1>1, <1>4, <1>5, <1>6

(* What was approved was asked for. *)
LEMMA ApprovedRequested ==
  ASSUME RequestsFit, NEW a \in Approval, NEW by, NEW intent,
         Consumption(a, by, intent) = "APPROVED"
  PROVE  intent \in Requested
<1>1. Found(a) /\ approvals[a].status = "APPROVED" /\ approvals[a].intent = intent
  BY ConsumptionFacts DEF InStatus
<1> QED BY <1>1 DEF RequestsFit, AskedFor

LEMMA ResourceOf ==
  ASSUME NEW action, NEW resource, NEW version,
         Fingerprint(action, resource, version) \in Requested
  PROVE  resource \in Resources
BY DEF Requested, Resources, Fingerprint

(* A change of a version that is a number is added to the audit. *)
LEMMA AuditGrows ==
  ASSUME AuditTyped, NEW a \in Approval, NEW resource \in Resources, NEW version \in Nat,
         audit' = audit \cup {[approval |-> a, resource |-> resource, version |-> version]}
  PROVE  AuditTyped'
BY DEF AuditTyped, Resources, Call

(* A command that is authorised, or not. *)
LEMMA AuthoriseTyped ==
  ASSUME ApprovalsFit, RequestTypes, NEW c, c.approval \in Approval,
         NEW action, NEW resource, NEW asks, NEW version, NEW verdict, NEW effective,
         verdict = "ALLOW" =>
           /\ Consumption(c.approval, c.by, Fingerprint(action, resource, asks)) = "APPROVED"
           /\ version \in Nat,
         Authorise(c, Fingerprint(action, resource, asks), version, verdict, effective)
  PROVE  RequestTypes'
<1> DEFINE intent == Fingerprint(action, resource, asks)
<1>1. ConsumeInTransaction(c.approval, Consumption(c.approval, c.by, intent))
  BY DEF Authorise
<1>2. RequestsFit' /\ due' \in SUBSET Approval
  BY <1>1, ConsumeRequested, ConsumptionFacts DEF RequestTypes, InStatus
<1>3. CASE UNCHANGED audit
  BY <1>2, <1>3 DEF RequestTypes, AuditTyped, Resources, Call
<1>4. CASE verdict = "ALLOW" /\ audit' = Audited(c, intent, version)
  <2>1. resource \in Resources
    BY <1>4, ApprovedRequested, ResourceOf DEF RequestTypes
  <2>2. audit' = audit \cup {[approval |-> c.approval, resource |-> resource, version |-> version]}
    BY <1>4 DEF Audited, Fingerprint
  <2> QED BY <1>2, <1>4, <2>1, <2>2, AuditGrows DEF RequestTypes
<1> QED BY <1>3, <1>4 DEF Authorise

(* An approval is used for something that is not audited. *)
LEMMA UsedTyped ==
  ASSUME ApprovalsFit, RequestTypes, NEW a \in Approval, NEW by, NEW intent,
         Consumption(a, by, intent) = "APPROVED", ConsumeInTransaction(a, "APPROVED"),
         UNCHANGED audit
  PROVE  RequestTypes'
<1>1. InStatus(a, "APPROVED")
  BY ConsumptionFacts
<1>2. RequestsFit' /\ due' \in SUBSET Approval
  BY <1>1, ConsumeRequested DEF RequestTypes
<1> QED BY <1>2 DEF RequestTypes, AuditTyped, Resources, Call

(* A row on the desk will be of what was requested, if its status says so. *)
LEMMA ReadRequested ==
  ASSUME RequestsFit, NEW c, c.approval \in Approval, Found(c.approval), NEW status,
         status \in AskedFor => approvals[c.approval].status \in AskedFor, Read(c, status)
  PROVE  RequestsFit'
<1> DEFINE s == [approval |-> c.approval, row |-> approvals[c.approval],
                 status |-> status, by |-> c.by]
<1>1. desk' = desk \cup {s} /\ approvals' = approvals
  BY DEF Read
<1>2. s.status \in AskedFor => s.row.intent \in Requested
  BY DEF RequestsFit
<1> HIDE DEF s
<1> QED BY <1>1, <1>2 DEF RequestsFit, Found, Requested, Call, AskedFor

(* The approval service requests what it is asked for. *)
LEMMA ApprovalStepRequested ==
  ASSUME ApprovalsFit, RequestTypes, asked \subseteq Call, ApprovalStep, UNCHANGED audit
  PROVE  RequestTypes'
<1>1. AuditTyped'
  BY DEF RequestTypes, AuditTyped, Resources, Call
<1>2. ASSUME NEW a \in Approval, NEW row, row.status \in AskedFor => row.intent \in Requested,
             approvals' = [approvals EXCEPT ![a] = row], desk' \subseteq desk
      PROVE  RequestsFit'
  <2>1. \A b \in Approval : approvals'[b] = IF b = a THEN row ELSE approvals[b]
    BY <1>2 DEF ApprovalsFit
  <2>2. \A b \in Approval :
          Found(b)' /\ approvals'[b].status \in AskedFor => approvals'[b].intent \in Requested
    BY <1>2, <2>1 DEF RequestsFit, RequestTypes, Found
  <2> QED BY <1>2, <2>2 DEF RequestTypes, RequestsFit, Requested, Call, AskedFor
<1>3. ASSUME NEW c \in Asking("request"), Request(c) PROVE RequestsFit' /\ due' = due
  <2> DEFINE intent == Fingerprint(c.action, c.resource, c.version)
  <2>1. c \in Call /\ c.op = "request" /\ c.approval \in Approval
    BY <1>3, Approvers DEF Asking, Approving
  <2>2. intent \in Requested
    BY <2>1 DEF Requested
  <2>3. NewApproval(c).intent = intent
    BY DEF NewApproval
  <2> HIDE DEF intent
  <2> QED BY <1>2, <1>3, <2>1, <2>2, <2>3 DEF Request
<1>4. ASSUME NEW c \in Asking("emergency"), ActivateEmergencyAccess(c)
      PROVE  RequestsFit' /\ due' = due
  <2> DEFINE row == [status |-> "EMERGENCY_ACTIVE",
                     intent |-> Fingerprint("EMERGENCY", c.resource, 0),
                     requester |-> c.by, by |-> c.by]
  <2>1. c.approval \in Approval
    BY <1>4, Approvers DEF Approving
  <2>2. row.status \notin AskedFor
    BY DEF AskedFor
  <2>3. approvals' = [approvals EXCEPT ![c.approval] = row] /\ desk' = desk /\ due' = due
    BY <1>4 DEF ActivateEmergencyAccess
  <2> HIDE DEF row
  <2> QED BY <1>2, <2>1, <2>2, <2>3
<1>5. ASSUME NEW c \in asked, c.op \in Approving,
             ReadToDecide(c) \/ ReadToExpire(c) \/ ReadToCancel(c) \/ ReadToRevoke(c)
               \/ ReadToConsume(c)
      PROVE  RequestsFit' /\ due' = due
  <2>1. c.approval \in Approval
    BY <1>5, AgendaAssumption
  <2>2. \E status :
          /\ Read(c, status) /\ Found(c.approval)
          /\ status \in AskedFor => approvals[c.approval].status \in AskedFor
    BY <1>5, ConsumptionFacts
    DEF ReadToDecide, ReadToExpire, ReadToCancel, ReadToRevoke, ReadToConsume, InStatus,
        RequiresExpiry, AskedFor
  <2>3. due' = due
    BY <2>2 DEF Read
  <2> QED BY <2>1, <2>2, <2>3, ReadRequested DEF RequestTypes
<1>6. ASSUME NEW s \in desk, Save(s) PROVE RequestsFit' /\ due' = due
  <2>1. s \in Sheet
    BY DEF ApprovalsFit
  <2>2. Saved(s).status = s.status /\ Saved(s).intent = s.row.intent
    BY <2>1 DEF Sheet, Saved, ApprovalRow
  <2>3. /\ s.approval \in Approval /\ approvals' = [approvals EXCEPT ![s.approval] = Saved(s)]
        /\ desk' \subseteq desk /\ due' = due
    BY <1>6, <2>1 DEF Save, Sheet
  <2>4. s.status \in AskedFor => s.row.intent \in Requested
    BY DEF RequestTypes, RequestsFit
  <2> QED BY <1>2, <2>2, <2>3, <2>4
<1>7. ASSUME NEW c \in Asking("lapse"), ExpiryPasses(c.approval)
      PROVE  RequestsFit' /\ due' \in SUBSET Approval
  <2>1. c.approval \in Approval
    BY AgendaAssumption DEF Asking
  <2> QED
    BY <1>7, <2>1 DEF ExpiryPasses, RequestTypes, RequestsFit, Found, Requested, Call
<1>8. \A op \in {"approve", "reject", "cancel", "revoke", "consume"} :
        \A c \in Asking(op) : c \in asked /\ c.op \in Approving
  BY DEF Asking, Approving
<1> QED
  BY <1>1, <1>3, <1>4, <1>5, <1>6, <1>7, <1>8 DEF ApprovalStep, RequestTypes

(* A policy that comes into force, or is retired, is one. *)
LEMMA PolicyTurned ==
  ASSUME NEW row, IsPolicy(row), NEW status,
         \/ row.status = "DRAFT" /\ status = "ACTIVE"
         \/ row.status = "ACTIVE" /\ status = "RETIRED"
  PROVE  IsPolicy(Turned(row, status))
<1>1. PICK old, definition, version :
        row = [status |-> old, definition |-> definition, version |-> version]
  BY DEF IsPolicy
<1>2. PICK next : next = row.version + 1
  OBVIOUS
<1> DEFINE new == [status |-> status, definition |-> definition, version |-> next]
<1>3. Turned(row, status) = new
  <2>1. PICK turned : turned = [status |-> status, definition |-> definition, version |-> version]
    OBVIOUS
  <2>2. [row EXCEPT !.status = status] = turned
    BY <1>1, <2>1
  <2>3. [turned EXCEPT !.version = next] = new
    BY <2>1
  <2> QED BY <1>2, <2>2, <2>3 DEF Turned
<1>4. IsPolicy(new)
  <2>1. (status = "ACTIVE" /\ next = 2) \/ (status = "RETIRED" /\ next = 3)
    BY <1>2 DEF IsPolicy
  <2> QED BY <2>1 DEF IsPolicy
<1> HIDE DEF new
<1> QED BY <1>3, <1>4

(* A policy is new, or comes into force, of the version it was asked for. *)
LEMMA ControlStepTyped ==
  ASSUME ApprovalsFit, RequestTypes, PoliciesFit, asked \subseteq Call, ControlStep
  PROVE  RequestTypes' /\ PoliciesFit'
<1>1. ASSUME NEW c, CreatePolicy(c) PROVE RequestTypes' /\ PoliciesFit'
  <2> DEFINE row == [status |-> "DRAFT", definition |-> c.definition, version |-> 1]
  <2>1. UNCHANGED <<approvalVars, audit>> /\ policies' = [policies EXCEPT ![c.policy] = row]
    BY <1>1 DEF CreatePolicy
  <2>2. IsPolicy(row)
    BY DEF IsPolicy
  <2> HIDE DEF row
  <2>3. PoliciesFit'
    BY <2>1, <2>2 DEF PoliciesFit
  <2> QED BY <2>1, <2>3, RequestsStay
<1>2. ASSUME NEW c \in Asking("activate"), ActivatePolicy(c) PROVE RequestTypes' /\ PoliciesFit'
  <2> DEFINE intent == Fingerprint("POLICY_ACTIVATE", c.policy, c.expected)
  <2>1. c.approval \in Approval /\ c.policy \in Policy
    BY <1>2, Approvers, ControlAssumption DEF Approving, Asking
  <2>2. /\ policies[c.policy] # None /\ policies[c.policy].status = "DRAFT"
        /\ policies[c.policy].version = c.expected
        /\ Consumption(c.approval, c.by, intent) = "APPROVED"
        /\ ConsumeInTransaction(c.approval, "APPROVED")
        /\ policies' = [p \in Policy |->
             CASE p = c.policy -> Turned(policies[p], "ACTIVE")
               [] p \in InForce -> Turned(policies[p], "RETIRED")
               [] OTHER -> policies[p]]
        /\ audit' = audit \cup {[approval |-> c.approval, resource |-> c.policy,
                                 version |-> c.expected]}
    BY <1>2, Zenon DEF ActivatePolicy
  <2>3. IsPolicy(policies[c.policy])
    BY <2>1, <2>2 DEF PoliciesFit
  <2>4. InStatus(c.approval, "APPROVED")
    BY <2>2, ConsumptionFacts
  <2>5. RequestsFit' /\ due' \in SUBSET Approval
    BY <2>1, <2>2, <2>4, ConsumeRequested DEF RequestTypes
  <2>6. c.policy \in Resources /\ c.expected \in Nat
    BY <2>1, <2>2, <2>3, ApprovedRequested, ResourceOf DEF RequestTypes, IsPolicy
  <2>7. AuditTyped'
    BY <2>1, <2>2, <2>6, AuditGrows DEF RequestTypes
  <2>8. c.policy \notin InForce
    BY <2>2 DEF InForce
  <2>9. ASSUME NEW p \in Policy, policies'[p] # None PROVE IsPolicy(policies'[p])
    <3>1. CASE p = c.policy
      <4>1. policies'[p] = Turned(policies[p], "ACTIVE")
        BY <2>2, <2>8, <3>1
      <4> QED BY <2>2, <2>3, <3>1, <4>1, PolicyTurned
    <3>2. CASE p \in InForce
      <4>1. policies'[p] = Turned(policies[p], "RETIRED")
        BY <2>2, <2>8, <3>2
      <4> QED BY <3>2, <4>1, PolicyTurned DEF InForce, PoliciesFit
    <3>3. CASE p # c.policy /\ p \notin InForce
      <4>1. policies'[p] = policies[p]
        BY <2>2, <3>3
      <4> QED BY <2>9, <4>1 DEF PoliciesFit
    <3> QED BY <3>1, <3>2, <3>3
  <2>10. policies' = [p \in Policy |-> policies'[p]]
    BY <2>2
  <2>11. PoliciesFit'
    BY <2>9, <2>10 DEF PoliciesFit
  <2> QED BY <2>5, <2>7, <2>11 DEF RequestTypes
<1> QED BY <1>1, <1>2 DEF ControlStep

(* A period moves under an approval that was requested for it. *)
LEMMA CalendarStepTyped ==
  ASSUME ApprovalsFit, RequestTypes, CalendarInv, closed \in SUBSET Period, CalendarStep
  PROVE  RequestTypes' /\ closed' \in SUBSET Period
<1>1. ASSUME NEW c \in Asking("transition"), TransitionPeriod(c)
      PROVE  RequestTypes' /\ closed' \in SUBSET Period
  <2> DEFINE verdict == Verdict(c, PeriodIntent(c), approvals[c.approval].requester, "small")
  <2>1. c.approval \in Approval
    BY <1>1, Approvers DEF Approving, CalendarInv
  <2>2. c.expected \in Nat
    <3>1. c.period \in Period /\ periods[c.period] # None /\ periods[c.period].version = c.expected
      BY <1>1, CalendarAssumption DEF CalendarInv, Asking, TransitionPeriod, ValidTransition
    <3> QED BY <3>1 DEF CalendarInv, NoPeriod, PeriodRow
  <2>3. Authorise(c, PeriodIntent(c), c.expected, verdict, verdict = "ALLOW")
    BY <1>1 DEF TransitionPeriod
  <2>4. verdict = "ALLOW" => Consumption(c.approval, c.by, PeriodIntent(c)) = "APPROVED"
    BY VerdictFacts
  <2>5. closed' \subseteq closed
    BY <1>1 DEF TransitionPeriod, ApplyTransition, calendar
  <2> HIDE DEF verdict
  <2>6. RequestTypes'
    BY <2>1, <2>2, <2>3, <2>4, AuthoriseTyped DEF PeriodIntent
  <2> QED BY <2>5, <2>6
<1>2. ASSUME NEW c, CreateFiscalYear(c) \/ RejectTransition(c)
      PROVE  RequestTypes' /\ closed' \in SUBSET Period
  BY <1>2, RequestsStay DEF CreateFiscalYear, RejectTransition, calendar
<1>3. ASSUME NEW p \in Period, ReopenExpires(p) PROVE RequestTypes' /\ closed' \in SUBSET Period
  BY <1>3, RequestsStay DEF ReopenExpires, controlVars
<1> QED BY <1>1, <1>2, <1>3 DEF CalendarStep

-----------------------------------------------------------------------------
(* Mappings *)

(* A row in its next status is one, if its version says so. *)
LEMMA AtRow ==
  ASSUME NEW row, IsMapping(row), NEW status \in MappingStatus,
         VersionIn[status] = VersionIn[row.status] + 1
  PROVE  IsMapping(At(row, status))
<1>1. PICK old, account, window, creator, version :
        row = [status |-> old, account |-> account, window |-> window, creator |-> creator,
               version |-> version]
  BY DEF IsMapping
<1>2. PICK next : next = row.version + 1
  OBVIOUS
<1> DEFINE new == [status |-> status, account |-> account, window |-> window,
                   creator |-> creator, version |-> next]
<1>3. At(row, status) = new
  <2>1. PICK turned :
          turned = [status |-> status, account |-> account, window |-> window,
                   creator |-> creator, version |-> version]
    OBVIOUS
  <2>2. [row EXCEPT !.status = status] = turned
    BY <1>1, <2>1
  <2>3. [turned EXCEPT !.version = next] = new
    BY <2>1
  <2> QED BY <1>2, <2>2, <2>3 DEF At
<1>4. /\ old \in MappingStatus /\ version = VersionIn[old]
      /\ window \subseteq Period /\ creator \in Principal
      /\ VersionIn[status] = VersionIn[old] + 1
  BY <1>1 DEF IsMapping
<1>5. next = VersionIn[status]
  BY <1>1, <1>2, <1>4
<1>6. IsMapping(new)
  BY <1>4, <1>5 DEF IsMapping
<1> HIDE DEF new
<1> QED BY <1>3, <1>6

(* A mapping gets a row. *)
LEMMA MappingRowed ==
  ASSUME MappingsTyped, NEW m, NEW row, IsMapping(row), ended' \in SUBSET Mapping,
         mappings' = [mappings EXCEPT ![m] = row]
  PROVE  MappingsTyped'
<1>1. DOMAIN mappings' = Mapping
  BY DEF MappingsTyped
<1>2. ASSUME NEW n \in Mapping, mappings'[n] # None PROVE IsMapping(mappings'[n])
  BY <1>2 DEF MappingsTyped
<1> QED BY <1>1, <1>2 DEF MappingsTyped, IsMapping

(* Mappings that stay. *)
LEMMA MappingsStay ==
  ASSUME MappingsTyped, mappings' = mappings, ended' \in SUBSET Mapping
  PROVE  MappingsTyped'
BY DEF MappingsTyped, IsMapping

(* A mapping that is there goes on to a next status. *)
LEMMA MappingMoves ==
  ASSUME MappingsTyped, NEW m \in Mapping, NEW from \in MappingStatus, MappingIn(m, from),
         NEW to \in MappingStatus, VersionIn[to] = VersionIn[from] + 1,
         mappings' = [mappings EXCEPT ![m] = At(@, to)], ended' = ended
  PROVE  MappingsTyped'
<1>1. IsMapping(mappings[m]) /\ mappings[m].status = from
  BY DEF MappingsTyped, MappingIn
<1>2. IsMapping(At(mappings[m], to))
  BY <1>1, AtRow
<1>3. mappings' = [mappings EXCEPT ![m] = At(mappings[m], to)] /\ ended' \in SUBSET Mapping
  BY DEF MappingsTyped
<1> QED BY <1>2, <1>3, MappingRowed

(* A mapping is decided in a version, or the overlap refused. *)
LEMMA MappingStepTyped ==
  ASSUME ApprovalsFit, RequestTypes, MappingsTyped, asked \subseteq Call, MappingStep
  PROVE  RequestTypes' /\ MappingsTyped'
<1>1. ended \in SUBSET Mapping
  BY DEF MappingsTyped
<1>2. ASSUME NEW c \in Asking("map"), CreateMapping(c) PROVE RequestTypes' /\ MappingsTyped'
  <2> DEFINE row == [status |-> "DRAFT", account |-> c.account, window |-> c.window,
                     creator |-> c.by, version |-> 1]
  <2>1. c.window \subseteq Period /\ c.by \in Principal
    BY <1>2, MappingAssumption DEF Asking
  <2>2. IsMapping(row)
    BY <2>1 DEF IsMapping, MappingStatus, VersionIn
  <2>3. /\ UNCHANGED <<approvalVars, audit, ended>>
        /\ mappings' = [mappings EXCEPT ![c.mapping] = row] \/ mappings' = mappings
    BY <1>2 DEF CreateMapping
  <2> HIDE DEF row
  <2> QED BY <1>1, <2>2, <2>3, MappingRowed, MappingsStay, RequestsStay
<1>3. ASSUME NEW c \in Asking("submitMapping"), SubmitMapping(c)
      PROVE  RequestTypes' /\ MappingsTyped'
  <2>1. c.mapping \in Mapping
    BY <1>3, MappingAssumption DEF Asking
  <2>2. /\ UNCHANGED <<approvalVars, audit, ended>>
        /\ \/ mappings' = mappings
           \/ /\ MappingIn(c.mapping, "DRAFT")
              /\ mappings' = [mappings EXCEPT ![c.mapping] = At(@, "PENDING_APPROVAL")]
    BY <1>3 DEF SubmitMapping
  <2>3. /\ "DRAFT" \in MappingStatus /\ "PENDING_APPROVAL" \in MappingStatus
        /\ VersionIn["PENDING_APPROVAL"] = VersionIn["DRAFT"] + 1
    BY DEF MappingStatus, VersionIn
  <2> QED BY <1>1, <2>1, <2>2, <2>3, MappingMoves, MappingsStay, RequestsStay
<1>4. ASSUME NEW c \in Asking("decideMapping"), DecideMapping(c)
      PROVE  RequestTypes' /\ MappingsTyped'
  <2> DEFINE verdict == Verdict(c, MappingIntent(c), mappings[c.mapping].creator, "small")
             from == DecidedFrom(c.target)
  <2>1. /\ c.approval \in Approval /\ c.mapping \in Mapping
        /\ c.target \in {"ACTIVE", "REJECTED", "REVOKED"}
    BY <1>4, Approvers, MappingAssumption DEF Approving, Asking
  <2>2. MappingIn(c.mapping, from) /\ mappings[c.mapping].version = c.expected
    BY <1>4 DEF DecideMapping, Decided
  <2>3. c.expected \in Nat
    BY <2>1, <2>2 DEF MappingsTyped, MappingIn, IsMapping, MappingStatus, VersionIn
  <2>4. /\ Authorise(c, MappingIntent(c), c.expected, verdict, verdict = "ALLOW")
        /\ \/ mappings' = [mappings EXCEPT ![c.mapping] = At(@, c.target)]
           \/ mappings' = mappings
        /\ ended' = ended
    BY <1>4 DEF DecideMapping
  <2>5. verdict = "ALLOW" => Consumption(c.approval, c.by, MappingIntent(c)) = "APPROVED"
    BY VerdictFacts
  <2>6. /\ from \in MappingStatus /\ c.target \in MappingStatus
        /\ VersionIn[c.target] = VersionIn[from] + 1
    BY <2>1 DEF DecidedFrom, MappingStatus, VersionIn
  <2> HIDE DEF verdict, from
  <2>7. RequestTypes'
    BY <2>1, <2>3, <2>4, <2>5, AuthoriseTyped DEF MappingIntent
  <2>8. MappingsTyped'
    BY <1>1, <2>1, <2>2, <2>4, <2>6, MappingMoves, MappingsStay
  <2> QED BY <2>7, <2>8
<1>5. ASSUME NEW c \in Asking("decideMapping"), RefuseOverlap(c)
      PROVE  RequestTypes' /\ MappingsTyped'
  <2>1. c.approval \in Approval
    BY <1>5, Approvers DEF Approving
  <2>2. /\ Consumption(c.approval, c.by, MappingIntent(c)) = "APPROVED"
        /\ ConsumeInTransaction(c.approval, "APPROVED")
        /\ UNCHANGED <<audit, mappingVars>>
    BY <1>5 DEF RefuseOverlap
  <2> QED BY <1>1, <2>1, <2>2, UsedTyped, MappingsStay DEF mappingVars
<1>6. ASSUME NEW c, RefuseMapping(c) PROVE RequestTypes' /\ MappingsTyped'
  BY <1>1, <1>6, MappingsStay, RequestsStay DEF RefuseMapping, mappingVars
<1>7. ASSUME NEW c \in Asking("pass"), WindowPasses(c.mapping)
      PROVE  RequestTypes' /\ MappingsTyped'
  <2>1. c.mapping \in Mapping
    BY <1>7, MappingAssumption DEF Asking
  <2> QED BY <1>1, <1>7, <2>1, MappingsStay, RequestsStay DEF WindowPasses, controlVars
<1>8. ASSUME NEW m \in Mapping, ExpireMapping(m) PROVE RequestTypes' /\ MappingsTyped'
  <2>1. /\ UNCHANGED <<approvalVars, audit, ended>> /\ MappingIn(m, "ACTIVE")
        /\ mappings' = [mappings EXCEPT ![m] = At(@, "EXPIRED")]
    BY <1>8 DEF ExpireMapping, controlVars
  <2>2. /\ "ACTIVE" \in MappingStatus /\ "EXPIRED" \in MappingStatus
        /\ VersionIn["EXPIRED"] = VersionIn["ACTIVE"] + 1
    BY DEF MappingStatus, VersionIn
  <2> QED BY <2>1, <2>2, MappingMoves, RequestsStay
<1> QED BY <1>2, <1>3, <1>4, <1>5, <1>6, <1>7, <1>8 DEF MappingStep

-----------------------------------------------------------------------------
(* Journals and the control account *)

(* Only a settled posting says that it is unknown, under an approval. *)
LEMMA A5Stays ==
  ASSUME A5Typed, RowsFit, JournalInv, NEW j, NEW row,
         row.state = "POSTING_UNKNOWN" => row.approval \in Approval,
         journals' = [journals EXCEPT ![j] = row] \/ journals' = journals,
         \A i \in Journal : posting'[i] \in {posting[i], None}, a5' = a5
  PROVE  A5Typed'
<1>1. \A i \in Journal : journals'[i] \in {journals[i], row}
  BY DEF RowsFit
<1>2. \A i \in Journal :
        JournalIn(i, "POSTING_UNKNOWN")' => journals'[i].approval \in Approval
  BY <1>1 DEF A5Typed, JournalIn
<1> QED BY <1>2 DEF A5Typed

(* A journal is posted under the approval it names, or is given. *)
LEMMA PostingApproved ==
  ASSUME A5Typed, NEW c, c.approval \in Approval, c.journal \in Journal, Postable(c)
  PROVE  PostingApproval(c) \in Approval
<1>1. JournalIn(c.journal, "PENDING_APPROVAL") \/ JournalIn(c.journal, "POSTING_UNKNOWN")
  BY DEF Postable, JournalIn
<1>2. CASE JournalIn(c.journal, "PENDING_APPROVAL")
  BY <1>2 DEF PostingApproval
<1>3. CASE JournalIn(c.journal, "POSTING_UNKNOWN")
  <2>1. ~ JournalIn(c.journal, "PENDING_APPROVAL") /\ journals[c.journal].approval \in Approval
    BY <1>3 DEF JournalIn, A5Typed
  <2> QED BY <2>1 DEF PostingApproval
<1> QED BY <1>1, <1>2, <1>3

(* Journals are posted, and audited, under approvals. *)
LEMMA JournalStepTyped ==
  ASSUME ApprovalsFit, RequestTypes, A5Typed, RowsFit, JournalInv, asked \subseteq Call,
         JournalStep
  PROVE  RequestTypes' /\ A5Typed'
<1>1. ASSUME UNCHANGED <<journals, a5>>, \A i \in Journal : posting'[i] \in {posting[i], None}
      PROVE  A5Typed'
  BY <1>1 DEF A5Typed, JournalIn
<1>2. ASSUME NEW c, Validate(c) \/ RejectCreation(c) \/ RejectPosting(c)
      PROVE  RequestTypes' /\ A5Typed'
  BY <1>1, <1>2, RequestsStay
  DEF Validate, RejectCreation, RejectPosting, controlVars, journalVars
<1>3. ASSUME NEW c, CreateJournal(c) PROVE RequestTypes' /\ A5Typed'
  <2> DEFINE row == [state |-> "DRAFT", period |-> c.period, amount |-> c.amount,
                     preparer |-> c.by, approval |-> None, version |-> 1]
  <2>1. row.state = "DRAFT"
    OBVIOUS
  <2>2. /\ UNCHANGED <<approvalVars, audit, posting, a5>>
        /\ journals' = [journals EXCEPT ![c.journal] = row] \/ journals' = journals
    BY <1>3 DEF CreateJournal
  <2> HIDE DEF row
  <2> QED BY <2>1, <2>2, A5Stays, RequestsStay
<1>4. ASSUME NEW c, ChangeState(c) PROVE RequestTypes' /\ A5Typed'
  <2> DEFINE row == Into(journals[c.journal], To(c))
  <2>1. UNCHANGED <<approvalVars, audit, posting, a5>>
    BY <1>4 DEF ChangeState
  <2>2. CASE UNCHANGED journals
    BY <1>1, <2>1, <2>2, RequestsStay
  <2>3. CASE /\ JournalIn(c.journal, From(c)) /\ c.journal \in Journal
             /\ journals' = [journals EXCEPT ![c.journal] = row]
    <3>1. journals[c.journal] \in JournalRow
      BY <2>3 DEF RowsFit, JournalIn
    <3>2. row.state = To(c) /\ To(c) # "POSTING_UNKNOWN"
      BY <3>1, IntoRow DEF To, JournalState
    <3> HIDE DEF row
    <3> QED BY <2>1, <2>3, <3>2, A5Stays, RequestsStay
  <2>4. c.journal \notin Journal => UNCHANGED journals
    BY <1>4 DEF ChangeState, RowsFit
  <2> QED BY <1>4, <2>2, <2>3, <2>4 DEF ChangeState
<1>5. ASSUME NEW c \in Asking("post"), Reject(c) PROVE RequestTypes' /\ A5Typed'
  <2> DEFINE row == [Into(journals[c.journal], "REJECTED") EXCEPT !.approval = c.approval]
  <2>1. /\ UNCHANGED <<posting, a5>> /\ JournalIn(c.journal, "PENDING_APPROVAL")
        /\ journals' = [journals EXCEPT ![c.journal] = row]
        /\ Authorise(c, JournalIntent(c), c.expected, JournalVerdict(c), FALSE)
        /\ JournalVerdict(c) # "ALLOW"
    BY <1>5 DEF Reject
  <2>2. c.journal \in Journal /\ c.approval \in Approval
    BY <1>5, JournalAssumption DEF Asking
  <2>3. journals[c.journal] \in JournalRow
    BY <2>1, <2>2 DEF RowsFit, JournalIn
  <2>4. row.state = "REJECTED"
    <3>1. /\ Into(journals[c.journal], "REJECTED") \in JournalRow
          /\ Into(journals[c.journal], "REJECTED").state = "REJECTED"
      BY <2>3, IntoRow DEF JournalState
    <3> QED BY <2>2, <3>1 DEF JournalRow
  <2> HIDE DEF row
  <2>5. A5Typed'
    BY <2>1, <2>4, A5Stays
  <2>6. RequestTypes'
    BY <2>1, <2>2, AuthoriseTyped DEF JournalIntent
  <2> QED BY <2>5, <2>6
<1>6. ASSUME NEW c \in Asking("post"), PostToA5(c) PROVE RequestTypes' /\ A5Typed'
  <2>1. c.journal \in Journal /\ c.approval \in Approval
    BY <1>6, JournalAssumption DEF Asking
  <2>2. /\ Postable(c)
        /\ UNCHANGED <<approvalVars, controlVars, journals>>
    BY <1>6 DEF PostToA5, Approved
  <2>3. PostingApproval(c) \in Approval
    BY <2>1, <2>2, PostingApproved
  <2>4. PICK new, answer :
          /\ new = [key |-> A5Key(c.journal, PostingApproval(c)), journal |-> c.journal,
                    approval |-> PostingApproval(c)]
          /\ a5' = a5 \/ a5' = a5 \cup {new}
          /\ posting' = [posting EXCEPT ![c.journal] = [call |-> c, answer |-> answer]]
    BY <1>6 DEF PostToA5
  <2>5. \A p \in a5' : p.journal \in Journal /\ p.approval \in Approval
    BY <2>1, <2>3, <2>4 DEF A5Typed
  <2>6. \A j \in Journal : posting'[j] # None =>
          posting'[j] = [call |-> posting'[j].call, answer |-> posting'[j].answer]
    BY <2>4 DEF A5Typed, JournalInv
  <2>7. A5Typed'
    BY <2>2, <2>5, <2>6 DEF A5Typed, JournalIn
  <2> QED BY <2>2, <2>7, RequestsStay DEF controlVars
<1>7. ASSUME NEW j \in Journal, CommitPosting(j) PROVE RequestTypes' /\ A5Typed'
  <2>1. PICK c, answer : c = posting[j].call /\ answer = posting[j].answer
    OBVIOUS
  <2> DEFINE row == Settled(journals[j], c, answer)
  <2>2. /\ posting[j] # None /\ Approved(c) /\ journals' = [journals EXCEPT ![j] = row]
        /\ \/ JournalIn(j, "PENDING_APPROVAL")
              /\ Authorise(c, JournalIntent(c), c.expected, "ALLOW", answer = "POSTED")
           \/ UNCHANGED <<approvalVars, audit>>
        /\ posting' = [posting EXCEPT ![j] = None] /\ a5' = a5
    BY <1>7, <2>1 DEF CommitPosting, Locked
  <2>3. c \in Asking("post") /\ c.journal = j /\ journals[j] \in JournalRow
        /\ answer \in JournalState
    BY <2>1, <2>2 DEF RowsFit, JournalInv, PostingFits, JournalState
  <2>4. c.approval \in Approval
    BY <2>3, JournalAssumption DEF Asking
  <2>5. PostingApproval(c) \in Approval
    BY <2>2, <2>3, <2>4, PostingApproved DEF Approved
  <2>6. row.approval = PostingApproval(c)
    <3>1. PICK approval, version, old :
            approval = PostingApproval(c) /\ old = journals[j] /\ version = old.version + 2
      OBVIOUS
    <3>2. old \in JournalRow
      BY <2>3, <3>1
    <3>3. [old EXCEPT !.state = answer, !.version = version, !.approval = approval].approval
            = approval
      BY <3>2 DEF JournalRow
    <3> QED BY <3>1, <3>3 DEF Settled
  <2> HIDE DEF row
  <2>7. \A i \in Journal : posting'[i] \in {posting[i], None}
    BY <2>2 DEF JournalInv
  <2>8. A5Typed'
    BY <2>2, <2>5, <2>6, <2>7, A5Stays
  <2>9. CASE UNCHANGED <<approvalVars, audit>>
    BY <2>8, <2>9, RequestsStay
  <2>10. CASE /\ JournalIn(j, "PENDING_APPROVAL")
              /\ Authorise(c, JournalIntent(c), c.expected, "ALLOW", answer = "POSTED")
    <3>1. Consumption(c.approval, c.by, JournalIntent(c)) = "APPROVED"
      BY <2>2, <2>3, <2>10, VerdictFacts DEF Approved, JournalVerdict
    <3>2. c.expected \in Nat
      BY <2>2, <2>3 DEF Approved, Postable, JournalRow
    <3>3. RequestTypes'
      BY <2>4, <2>10, <3>1, <3>2, AuthoriseTyped DEF JournalIntent
    <3> QED BY <2>8, <3>3
  <2> QED BY <2>2, <2>9, <2>10
<1>8. ASSUME NEW j \in Journal, AbortPosting(j) PROVE RequestTypes' /\ A5Typed'
  <2>1. \A i \in Journal : posting'[i] \in {posting[i], None}
    BY <1>8 DEF AbortPosting, JournalInv
  <2> QED BY <1>1, <1>8, <2>1, RequestsStay DEF AbortPosting, controlVars
<1> QED BY <1>2, <1>3, <1>4, <1>5, <1>6, <1>7, <1>8 DEF JournalStep

(* What was provisioned was asked for, and let through. *)
LEMMA AccountStepTyped ==
  ASSUME ApprovalsFit, RequestTypes, ProvisioningFits, AccountInv, HoldersFit, AccountStep
  PROVE  RequestTypes' /\ ProvisioningFits'
<1>1. ASSUME UNCHANGED accountVars PROVE ProvisioningFits'
  BY <1>1 DEF ProvisioningFits, IsProvisioning, accountVars, ApprovalRow, Resources, Call
<1>2. ASSUME NEW c \in Asking("ledgerAccount"), CreateByHand(c)
      PROVE  RequestTypes' /\ ProvisioningFits'
  <2>1. c.definition \in {"authorized", "other"}
    BY AccountAssumption DEF Asking, AccountInv
  <2> QED
    BY <1>2, <2>1, RequestsStay
    DEF CreateByHand, controlVars, ProvisioningFits, IsProvisioning, ApprovalRow, Resources, Call
<1>3. ASSUME NEW c, RejectDefinition(c) PROVE RequestTypes' /\ ProvisioningFits'
  BY <1>1, <1>3, RequestsStay DEF RejectDefinition
<1>4. ASSUME NEW c \in Asking("provision"), RejectProvisioning(c)
      PROVE  RequestTypes' /\ ProvisioningFits'
  <2>1. c.approval \in Approval
    BY Approvers DEF Approving, AccountInv
  <2>2. /\ Authorise(c, ProvisionIntent, 1, ProvisionVerdict(c), FALSE)
        /\ ProvisionVerdict(c) # "ALLOW" /\ UNCHANGED accountVars
    BY <1>4 DEF RejectProvisioning
  <2>3. RequestTypes'
    BY <2>1, <2>2, AuthoriseTyped DEF ProvisionIntent
  <2> QED BY <1>1, <2>2, <2>3
<1>5. ASSUME NEW c \in Asking("provision"), LookUp(c) PROVE RequestTypes' /\ ProvisioningFits'
  <2>1. PICK t : /\ t = [call |-> c, row |-> approvals[c.approval], account |-> receivables,
                         outcome |-> IF receivables = None THEN "PROVISIONED" ELSE "RECOVERED"]
                 /\ provisioning' = provisioning \cup {t}
    BY <1>5 DEF LookUp
  <2>2. c.approval \in Approval
    BY Approvers DEF Approving, AccountInv
  <2>3. /\ Found(c.approval) /\ approvals[c.approval].status \in {"APPROVED", "CONSUMED"}
        /\ approvals[c.approval].intent = ProvisionIntent
    BY <1>5, ConsumptionFacts DEF LookUp, ProvisionVerdict, Accepted, InStatus
  <2>4. ProvisionIntent \in Requested
    BY <2>2, <2>3 DEF RequestTypes, RequestsFit, AskedFor
  <2>5. "receivables" \in Resources
    BY <2>4, ResourceOf DEF ProvisionIntent
  <2>6. approvals[c.approval] \in ApprovalRow
    BY <2>2, <2>3 DEF ApprovalsFit, Found
  <2>7. IsProvisioning(t)
    <3>1. PICK row, outcome :
            /\ row = approvals[c.approval] /\ outcome \in {"PROVISIONED", "RECOVERED"}
            /\ t = [call |-> c, row |-> row, account |-> receivables, outcome |-> outcome]
      BY <2>1
    <3> QED BY <2>3, <2>6, <3>1 DEF IsProvisioning
  <2>8. UNCHANGED <<approvalVars, audit, receivables, provisioned>>
    BY <1>5 DEF LookUp, controlVars
  <2>9. ProvisioningFits'
    BY <2>1, <2>5, <2>7, <2>8 DEF ProvisioningFits, IsProvisioning, ApprovalRow, Resources, Call
  <2> QED BY <2>8, <2>9, RequestsStay
<1>6. ASSUME NEW t \in provisioning, CreateControlAccount(t)
      PROVE  RequestTypes' /\ ProvisioningFits'
  <2> DEFINE Holding(account, outcome) ==
        provisioning' = (provisioning \ {t})
                          \cup {[t EXCEPT !.account = account, !.outcome = outcome]}
  <2>1. /\ receivables' \in {"authorized", "other", None}
        /\ \/ Holding("authorized", "PROVISIONED") \/ Holding("authorized", "RECOVERED")
           \/ Holding(receivables, "RECOVERED")
    BY <1>6 DEF CreateControlAccount, ProvisioningFits
  <2> HIDE DEF Holding
  <2>2. PICK account, outcome :
          outcome \in {"PROVISIONED", "RECOVERED"} /\ Holding(account, outcome)
    BY <2>1
  <2>3. PICK new : /\ new = [t EXCEPT !.account = account, !.outcome = outcome]
                   /\ provisioning' = (provisioning \ {t}) \cup {new}
    BY <2>2 DEF Holding
  <2>4. IsProvisioning(t)
    BY DEF ProvisioningFits
  <2>5. PICK call, row, before, was :
          t = [call |-> call, row |-> row, account |-> before, outcome |-> was]
    BY <2>4 DEF IsProvisioning
  <2>6. new = [call |-> call, row |-> row, account |-> account, outcome |-> outcome]
    <3>1. PICK held : held = [call |-> call, row |-> row, account |-> account, outcome |-> was]
      OBVIOUS
    <3>2. [t EXCEPT !.account = account] = held
      BY <2>5, <3>1
    <3>3. [held EXCEPT !.outcome = outcome] = [call |-> call, row |-> row, account |-> account,
                                               outcome |-> outcome]
      BY <3>1
    <3> QED BY <2>3, <3>2, <3>3
  <2>7. row \in ApprovalRow /\ row.status \in {"APPROVED", "CONSUMED"}
    BY <2>4, <2>5 DEF IsProvisioning
  <2>8. IsProvisioning(new)
    BY <2>2, <2>6, <2>7 DEF IsProvisioning
  <2>9. UNCHANGED <<approvalVars, audit, provisioned>>
    BY <1>6 DEF CreateControlAccount, controlVars
  <2>10. ProvisioningFits'
    BY <2>1, <2>3, <2>8, <2>9
    DEF ProvisioningFits, IsProvisioning, ApprovalRow, Resources, Call
  <2> QED BY <2>9, <2>10, RequestsStay
<1>7. ASSUME NEW t \in provisioning, CommitProvisioning(t)
      PROVE  RequestTypes' /\ ProvisioningFits'
  <2>1. PICK a, answer : a = t.call.approval /\ answer = t.row.status
    OBVIOUS
  <2>2. IsProvisioning(t) /\ "receivables" \in Resources
    BY DEF ProvisioningFits
  <2>3. a \in Approval /\ Found(a)
    BY <2>1 DEF HoldersFit, LetThrough
  <2>4. /\ answer = "APPROVED" => approvals[a] = t.row
        /\ ConsumeInTransaction(a, answer)
        /\ audit' = audit \cup {[approval |-> a, resource |-> "receivables", version |-> 1]}
        /\ provisioning' \subseteq provisioning /\ UNCHANGED receivables
        /\ \/ UNCHANGED provisioned
           \/ provisioned' = provisioned \cup
                {[key |-> t.call.key, outcome |-> t.outcome, trace |-> t.call.trace]}
    BY <1>7, <2>1 DEF CommitProvisioning, Audited, ProvisionIntent, Fingerprint
  <2>5. answer \in {"APPROVED", "CONSUMED"}
    BY <2>1, <2>2 DEF IsProvisioning
  <2>6. answer = "APPROVED" => InStatus(a, "APPROVED")
    BY <2>1, <2>3, <2>4 DEF InStatus
  <2>7. RequestsFit' /\ due' \in SUBSET Approval
    BY <2>3, <2>4, <2>6, ConsumeRequested DEF RequestTypes
  <2>8. AuditTyped'
    BY <2>2, <2>3, <2>4, AuditGrows DEF RequestTypes
  <2>9. t.outcome \in {"PROVISIONED", "RECOVERED"}
    BY <2>2 DEF IsProvisioning
  <2>10. \A e \in provisioned' : e.outcome \in {"PROVISIONED", "RECOVERED"}
    BY <2>4, <2>9 DEF ProvisioningFits
  <2>11. ProvisioningFits'
    BY <2>2, <2>4, <2>10 DEF ProvisioningFits, IsProvisioning, ApprovalRow, Resources, Call
  <2> QED BY <2>7, <2>8, <2>11 DEF RequestTypes
<1>8. ASSUME NEW t, AbortProvisioning(t) PROVE RequestTypes' /\ ProvisioningFits'
  <2>1. /\ provisioning' \subseteq provisioning
        /\ UNCHANGED <<approvalVars, audit, receivables, provisioned>>
    BY <1>8 DEF AbortProvisioning, controlVars
  <2>2. ProvisioningFits'
    BY <2>1 DEF ProvisioningFits, IsProvisioning, ApprovalRow, Resources, Call
  <2> QED BY <2>1, <2>2, RequestsStay
<1> QED BY <1>2, <1>3, <1>4, <1>5, <1>6, <1>7, <1>8 DEF AccountStep

-----------------------------------------------------------------------------
(* Customers and their bindings *)

(* A row of its table is never gone. *)
CustomersRowed(rows) ==
  rows = customers \/ \E p \in Customer, row \in CustomerRow : rows = [customers EXCEPT ![p] = row]
WalletsRowed(rows) ==
  rows = wallets \/ \E w \in Wallet, row \in WalletRow : rows = [wallets EXCEPT ![w] = row]

LEMMA CustomersChange ==
  ASSUME CustomersTyped, asked \subseteq Call, UNCHANGED asked,
         CustomersRowed(customers'), WalletsRowed(wallets'),
         onboardings' \in [Customer -> Seq(OnboardingState)], evidence' \subseteq Customer \X Nat,
         risks' \in [Customer -> RiskLevel \cup {None}],
         eligibilities' \in [Customer -> EligibilityStatus \cup {None}],
         blacklisted' \subseteq Customer,
         \A s \in sheets' : SheetTyped(s)
  PROVE  CustomersTyped'
<1>1. /\ customers' \in [Customer -> CustomerRow \cup {None}]
      /\ \A p \in Customer : customers[p] # None => customers'[p] # None
  BY CustomerAssumption DEF CustomersRowed, CustomersTyped
<1>2. /\ wallets' \in [Wallet -> WalletRow \cup {None}]
      /\ \A w \in Wallet : wallets[w] # None => wallets'[w] # None
  BY CustomerAssumption DEF WalletsRowed, CustomersTyped
<1>3. ASSUME NEW s \in sheets' PROVE SheetTyped(s)'
  <2>1. SheetTyped(s) /\ s.call \in Call
    BY DEF SheetTyped
  <2>2. /\ s.call.op = "kyc" => s.call.customer \in Customer
        /\ s.call.op = "walletStatus" => s.call.wallet \in Wallet
    BY <2>1, CustomerAssumption DEF OfCustomers
  <2> QED BY <1>1, <1>2, <2>1, <2>2 DEF SheetTyped, CustomerRow, WalletRow
<1> QED BY <1>1, <1>2, <1>3 DEF CustomersTyped

(* A table that stays is one. *)
LEMMA CustomersStay ==
  ASSUME CustomersTyped, asked \subseteq Call, UNCHANGED <<asked, customerVars>>
  PROVE  CustomersTyped'
BY CustomersChange DEF CustomersTyped, CustomersRowed, WalletsRowed, customerVars

(* A change that was checked waits to be saved. *)
LEMMA CheckTyped ==
  ASSUME CustomersTyped, asked \subseteq Call, NEW c \in asked, NEW row, Check(c, row),
         UNCHANGED <<asked, customers, onboardings, evidence, risks, eligibilities, blacklisted,
                     wallets>>,
         SheetTyped([call |-> c, row |-> row])
  PROVE  CustomersTyped'
<1>1. \A s \in sheets' : SheetTyped(s)
  BY DEF Check, CustomersTyped
<1> QED BY <1>1, CustomersChange DEF CustomersTyped, CustomersRowed, WalletsRowed

(* What a change is checked for can be saved. *)
LEMMA ChecksTyped ==
  ASSUME CustomersTyped, asked \subseteq Call, UNCHANGED asked, NEW c \in asked,
         \/ c.op = "kyc" /\ Assess(c)
         \/ c.op = "advance" /\ Advance(c)
         \/ c.op = "review" /\ Review(c)
         \/ c.op = "walletStatus" /\ UpdateWallet(c)
  PROVE  CustomersTyped'
<1>1. CASE c.op = "kyc" /\ Assess(c)
  <2>1. PICK row : row = customers[c.customer]
    OBVIOUS
  <2>2. c.customer \in Customer
    BY <1>1, CustomerAssumption DEF OfCustomers
  <2>3. row # None /\ row \in CustomerRow
    BY <1>1, <2>1, <2>2 DEF Assess, Known, CustomersTyped
  <2>4. c.to \in KycStatus
    BY <1>1 DEF Assess, KycMoves, KycStatus
  <2>5. SheetTyped([call |-> c, row |-> row])
    BY <1>1, <2>1, <2>3, <2>4 DEF SheetTyped
  <2> QED BY <1>1, <2>1, <2>5, CheckTyped DEF Assess
<1>2. CASE c.op = "advance" /\ Advance(c)
  <2>1. PICK row : row = [workflow |-> Latest(c.customer)]
    OBVIOUS
  <2>2. c.to \in OnboardingState
    BY <1>2 DEF Advance, OnboardingMoves, OnboardingState, ActiveOnboarding
  <2>3. SheetTyped([call |-> c, row |-> row])
    BY <1>2, <2>2 DEF SheetTyped
  <2> QED BY <1>2, <2>1, <2>3, CheckTyped DEF Advance
<1>3. CASE c.op = "review" /\ Review(c)
  <2>1. PICK row : row = [status |-> eligibilities[c.customer]]
    OBVIOUS
  <2>2. c.to \in EligibilityStatus
    BY <1>3 DEF Review, EligibilityMoves, EligibilityStatus
  <2>3. SheetTyped([call |-> c, row |-> row])
    BY <1>3, <2>2 DEF SheetTyped
  <2> QED BY <1>3, <2>1, <2>3, CheckTyped DEF Review
<1>4. CASE c.op = "walletStatus" /\ UpdateWallet(c)
  <2>1. PICK row : row = wallets[c.wallet]
    OBVIOUS
  <2>2. c.wallet \in Wallet
    BY <1>4, CustomerAssumption
  <2>3. row # None /\ row \in WalletRow
    BY <1>4, <2>1, <2>2 DEF UpdateWallet, CustomersTyped
  <2>4. c.to \in WalletStatus
    BY <1>4 DEF UpdateWallet, WalletMoves, WalletStatus
  <2>5. SheetTyped([call |-> c, row |-> row])
    BY <1>4, <2>1, <2>3, <2>4 DEF SheetTyped
  <2> QED BY <1>4, <2>1, <2>5, CheckTyped DEF UpdateWallet
<1> QED BY <1>1, <1>2, <1>3, <1>4

(* Versions that are saved are versions. *)
LEMMA VersionsTyped ==
  ASSUME NEW read \in 1..MaxVersion, NEW current \in 1..MaxVersion,
         NEW v \in VersionsSaved(read, current), v <= MaxVersion
  PROVE  v \in 1..MaxVersion
BY CustomerAssumption DEF VersionsSaved

LEMMA AssessedTyped ==
  ASSUME NEW old \in CustomerRow, NEW to \in KycStatus, NEW v \in 1..MaxVersion
  PROVE  Assessed(old, to, v) \in CustomerRow
<1>1. PICK n : n = old.assessments + 1
  OBVIOUS
<1>2. n \in Nat
  BY <1>1 DEF CustomerRow
<1>3. Assessed(old, to, v) = [old EXCEPT !.kyc = to, !.assessments = n, !.version = v]
  BY <1>1 DEF Assessed, CustomerRow
<1> QED BY <1>2, <1>3 DEF CustomerRow

(* A workflow that is there, or not, is moved on. *)
LEMMA StatesTyped ==
  ASSUME NEW S, NEW states \in Seq(S), NEW n, NEW to \in S
  PROVE  [states EXCEPT ![n] = to] \in Seq(S)
<1>1. CASE n \in 1..Len(states)
  BY <1>1, ExceptSeq
<1>2. CASE n \notin 1..Len(states)
  <2>1. states = [i \in 1..Len(states) |-> states[i]]
    OBVIOUS
  <2>2. [states EXCEPT ![n] = to] = [i \in 1..Len(states) |-> states[i]]
    BY <1>2
  <2> QED BY <2>1, <2>2
<1> QED BY <1>1, <1>2

(* A change is saved over a row, whatever has become of it. *)
LEMMA SavesTyped ==
  ASSUME CustomersTyped, asked \subseteq Call, UNCHANGED asked, NEW s \in sheets, SaveStep(s)
  PROVE  CustomersTyped'
<1>1. SheetTyped(s) /\ s.call \in Call
  BY DEF CustomersTyped, SheetTyped
<1>2. \A r \in sheets' : SheetTyped(r)
  BY DEF SaveStep, CustomersTyped
<1>3. CASE s.call.op = "kyc" /\ SaveAssessment(s)
  <2>1. PICK p, old, to : p = s.call.customer /\ old = s.row /\ to = s.call.to
    OBVIOUS
  <2>2. /\ p \in Customer /\ old \in CustomerRow /\ to \in KycStatus /\ customers[p] # None
    BY <1>1, <1>3, <2>1, CustomerAssumption DEF SheetTyped, OfCustomers
  <2>3. customers[p] \in CustomerRow
    BY <2>2 DEF CustomersTyped
  <2>4. PICK v \in VersionsSaved(old.version, customers[p].version) :
          /\ v <= MaxVersion
          /\ customers' = [customers EXCEPT ![p] = Assessed(old, to, v)]
    BY <1>3, <2>1 DEF SaveAssessment
  <2>5. v \in 1..MaxVersion
    BY <2>2, <2>3, <2>4, VersionsTyped DEF CustomerRow
  <2>6. PICK row : row = Assessed(old, to, v)
    OBVIOUS
  <2>7. row \in CustomerRow
    BY <2>2, <2>5, <2>6, AssessedTyped
  <2>8. CustomersRowed(customers')
    BY <2>2, <2>4, <2>6, <2>7 DEF CustomersRowed
  <2> QED
    BY <1>2, <1>3, <2>8, CustomersChange DEF SaveAssessment, CustomersTyped, WalletsRowed
<1>4. CASE s.call.op = "advance" /\ SaveOnboarding(s)
  <2>1. PICK p, n, to : p = s.call.customer /\ n = s.row.workflow /\ to = s.call.to
    OBVIOUS
  <2>2. p \in Customer /\ to \in OnboardingState
    BY <1>1, <1>4, <2>1, CustomerAssumption DEF SheetTyped, OfCustomers
  <2>3. PICK states : states = [onboardings[p] EXCEPT ![n] = to]
    OBVIOUS
  <2>4. onboardings' = [onboardings EXCEPT ![p] = states]
    BY <1>4, <2>1, <2>3 DEF SaveOnboarding
  <2>5. onboardings[p] \in Seq(OnboardingState)
    BY <2>2 DEF CustomersTyped
  <2>6. states \in Seq(OnboardingState)
    BY <2>2, <2>3, <2>5, StatesTyped
  <2>7. onboardings' \in [Customer -> Seq(OnboardingState)]
    BY <2>2, <2>4, <2>6 DEF CustomersTyped
  <2> QED
    BY <1>2, <1>4, <2>7, CustomersChange
    DEF SaveOnboarding, CustomersTyped, CustomersRowed, WalletsRowed
<1>5. CASE s.call.op = "review" /\ SaveReview(s)
  <2>1. s.call.to \in EligibilityStatus
    BY <1>1, <1>5 DEF SheetTyped
  <2>2. eligibilities' \in [Customer -> EligibilityStatus \cup {None}]
    BY <1>5, <2>1 DEF SaveReview, CustomersTyped
  <2> QED
    BY <1>2, <1>5, <2>2, CustomersChange
    DEF SaveReview, CustomersTyped, CustomersRowed, WalletsRowed
<1>6. CASE s.call.op = "walletStatus" /\ SaveWallet(s)
  <2>1. PICK w, old, to : w = s.call.wallet /\ old = s.row /\ to = s.call.to
    OBVIOUS
  <2>2. /\ w \in Wallet /\ old \in WalletRow /\ to \in WalletStatus /\ wallets[w] # None
    BY <1>1, <1>6, <2>1, CustomerAssumption DEF SheetTyped
  <2>3. wallets[w] \in WalletRow
    BY <2>2 DEF CustomersTyped
  <2>4. PICK v \in VersionsSaved(old.version, wallets[w].version) :
          /\ v <= MaxVersion
          /\ wallets' = [wallets EXCEPT ![w] = Restated(old, to, v)]
    BY <1>6, <2>1 DEF SaveWallet
  <2>5. v \in 1..MaxVersion
    BY <2>2, <2>3, <2>4, VersionsTyped DEF WalletRow
  <2>6. PICK row : row = Restated(old, to, v)
    OBVIOUS
  <2>7. row \in WalletRow
    BY <2>2, <2>5, <2>6 DEF Restated, WalletRow
  <2>8. WalletsRowed(wallets')
    BY <2>2, <2>4, <2>6, <2>7 DEF WalletsRowed
  <2> QED
    BY <1>2, <1>6, <2>8, CustomersChange DEF SaveWallet, CustomersTyped, CustomersRowed
<1> QED BY <1>3, <1>4, <1>5, <1>6 DEF SaveStep

(* Every change of a customer leaves rows of their tables. *)
LEMMA CustomerStepTyped ==
  ASSUME CustomersTyped, asked \subseteq Call, UNCHANGED asked, CustomerStep
  PROVE  CustomersTyped'
<1>1. \A c \in asked : c.op \in OfCustomers => c.customer \in Customer
  BY CustomerAssumption
<1>2. \A s \in sheets : SheetTyped(s)
  BY DEF CustomersTyped
<1>3. ASSUME NEW c \in Asking("customer"), Register(c) PROVE CustomersTyped'
  <2>1. PICK row : row = [status |-> c.status, kyc |-> "NOT_STARTED", assessments |-> 0,
                          version |-> 1]
    OBVIOUS
  <2>2. c.customer \in Customer /\ c.status \in CustomerStatus
    BY <1>1, CustomerAssumption DEF Asking, OfCustomers
  <2>3. row \in CustomerRow
    BY <2>1, <2>2, CustomerAssumption DEF CustomerRow, KycStatus
  <2>4. CustomersRowed(customers')
    BY <1>3, <2>1, <2>2, <2>3 DEF Register, CustomersRowed
  <2> QED BY <1>2, <1>3, <2>4, CustomersChange DEF Register, CustomersTyped, WalletsRowed
<1>4. ASSUME NEW c \in Asking("status"), UpdateStatus(c) PROVE CustomersTyped'
  <2>1. PICK p, to, old : p = c.customer /\ to = c.to /\ old = customers[p]
    OBVIOUS
  <2>2. p \in Customer
    BY <1>1, <2>1 DEF Asking, OfCustomers
  <2>3. old \in CustomerRow /\ old.version < MaxVersion /\ to \in CustomerStatus
    BY <1>4, <2>1, <2>2
    DEF UpdateStatus, Known, CustomersTyped, CustomerMoves, CustomerStatus
  <2>4. PICK v : v = old.version + 1
    OBVIOUS
  <2>5. v \in 1..MaxVersion
    BY <2>3, <2>4, CustomerAssumption DEF CustomerRow
  <2>6. PICK row : row = [old EXCEPT !.status = to, !.version = v]
    OBVIOUS
  <2>7. row \in CustomerRow
    BY <2>3, <2>5, <2>6 DEF CustomerRow
  <2>8. customers' = [customers EXCEPT ![p] = row]
    BY <1>4, <2>1, <2>2, <2>4, <2>6 DEF UpdateStatus, CustomersTyped
  <2>9. CustomersRowed(customers')
    BY <2>2, <2>7, <2>8 DEF CustomersRowed
  <2> QED BY <1>2, <1>4, <2>9, CustomersChange DEF UpdateStatus, CustomersTyped, WalletsRowed
<1>5. ASSUME NEW c \in Asking("onboard"), StartOnboarding(c) PROVE CustomersTyped'
  <2>1. c.customer \in Customer
    BY <1>1 DEF Asking, OfCustomers
  <2>2. "NOT_STARTED" \in OnboardingState
    BY DEF OnboardingState, ActiveOnboarding
  <2>3. Append(onboardings[c.customer], "NOT_STARTED") \in Seq(OnboardingState)
    BY <2>1, <2>2 DEF CustomersTyped
  <2>4. onboardings' \in [Customer -> Seq(OnboardingState)]
    BY <1>5, <2>1, <2>3 DEF StartOnboarding, CustomersTyped
  <2> QED
    BY <1>2, <1>5, <2>4, CustomersChange
    DEF StartOnboarding, CustomersTyped, CustomersRowed, WalletsRowed
<1>6. ASSUME NEW c \in Asking("evidence"), GiveEvidence(c) PROVE CustomersTyped'
  <2>1. c.customer \in Customer
    BY <1>1 DEF Asking, OfCustomers
  <2>2. Latest(c.customer) \in Nat
    BY <2>1 DEF Latest, CustomersTyped
  <2>3. evidence' \subseteq Customer \X Nat
    BY <1>6, <2>1, <2>2 DEF GiveEvidence, CustomersTyped
  <2> QED
    BY <1>2, <1>6, <2>3, CustomersChange
    DEF GiveEvidence, CustomersTyped, CustomersRowed, WalletsRowed
<1>7. ASSUME NEW c \in Asking("risk"), CreateRiskProfile(c) PROVE CustomersTyped'
  <2>1. c.level \in RiskLevel
    BY CustomerAssumption DEF Asking
  <2>2. risks' \in [Customer -> RiskLevel \cup {None}]
    BY <1>7, <2>1 DEF CreateRiskProfile, CustomersTyped
  <2> QED
    BY <1>2, <1>7, <2>2, CustomersChange
    DEF CreateRiskProfile, CustomersTyped, CustomersRowed, WalletsRowed
<1>8. ASSUME NEW c \in Asking("eligibility"), CreateEligibility(c) PROVE CustomersTyped'
  <2>1. c.status \in EligibilityStatus
    BY CustomerAssumption DEF Asking
  <2>2. eligibilities' \in [Customer -> EligibilityStatus \cup {None}]
    BY <1>8, <2>1 DEF CreateEligibility, CustomersTyped
  <2> QED
    BY <1>2, <1>8, <2>2, CustomersChange
    DEF CreateEligibility, CustomersTyped, CustomersRowed, WalletsRowed
<1>9. ASSUME NEW c \in Asking("blacklist"), Blacklist(c) PROVE CustomersTyped'
  <2>1. c.customer \in Customer
    BY <1>1 DEF Asking, OfCustomers
  <2> QED
    BY <1>2, <1>9, <2>1, CustomersChange
    DEF Blacklist, CustomersTyped, CustomersRowed, WalletsRowed
<1>10. ASSUME NEW c \in Asking("wallet"), CreateCustomerWallet(c) PROVE CustomersTyped'
  <2>1. PICK row : row = [customer |-> c.customer, type |-> c.type, status |-> c.status,
                          version |-> 1]
    OBVIOUS
  <2>2. /\ c.customer \in Customer /\ c.wallet \in Wallet
        /\ c.type \in WalletType /\ c.status \in WalletStatus
    BY <1>1, CustomerAssumption DEF Asking, OfCustomers
  <2>3. row \in WalletRow
    BY <2>1, <2>2, CustomerAssumption DEF WalletRow
  <2>4. WalletsRowed(wallets')
    BY <1>10, <2>1, <2>2, <2>3 DEF CreateCustomerWallet, WalletsRowed
  <2> QED
    BY <1>2, <1>10, <2>4, CustomersChange DEF CreateCustomerWallet, CustomersTyped, CustomersRowed
<1>11. /\ \A c \in Asking("kyc") : c \in asked /\ c.op = "kyc"
       /\ \A c \in Asking("advance") : c \in asked /\ c.op = "advance"
       /\ \A c \in Asking("review") : c \in asked /\ c.op = "review"
       /\ \A c \in Asking("walletStatus") : c \in asked /\ c.op = "walletStatus"
  BY DEF Asking
<1> QED
  BY <1>3, <1>4, <1>5, <1>6, <1>7, <1>8, <1>9, <1>10, <1>11, ChecksTyped, SavesTyped
  DEF CustomerStep

(* What is bound is in a row, of the customer and the wallet it is bound   *)
(* for.                                                                    *)
BindingRow ==
  [customer : Customer, state : {"ACTIVE", "CLOSED"}, customerVersion : 1..MaxVersion,
   walletVersion : 1..MaxVersion, version : 1..2]

LEMMA ClosedTyped ==
  ASSUME NEW row \in BindingRow, row.version = 1
  PROVE  Closed(row) \in BindingRow /\ Closed(row).state = "CLOSED"
<1>1. PICK n : n = row.version + 1
  OBVIOUS
<1>2. n \in 1..2
  BY <1>1
<1>3. Closed(row) = [row EXCEPT !.state = "CLOSED", !.version = n]
  BY <1>1 DEF Closed, BindingRow
<1> QED BY <1>2, <1>3 DEF BindingRow

LEMMA BoundTyped ==
  ASSUME BindingsFit, NEW w \in Wallet, NEW row \in BindingRow,
         row.state = "ACTIVE" => row.version = 1,
         bindings' = [bindings EXCEPT ![w] = row],
         moved' = moved, accounts \subseteq accounts', accounts' \subseteq Customer,
         reports' \subseteq reports, UNCHANGED asked
  PROVE  BindingsFit'
<1>1. bindings' \in [Wallet -> BindingRow \cup {None}]
  BY DEF BindingsFit, BindingsTyped, BindingRow
<1>2. BindingsTyped'
  BY <1>1 DEF BindingsFit, BindingsTyped, BindingRow
<1>3. \A v \in Wallet : v # w => bindings'[v] = bindings[v]
  BY DEF BindingsFit, BindingsTyped
<1>4. bindings'[w] = row
  BY DEF BindingsFit, BindingsTyped
<1> QED BY <1>2, <1>3, <1>4 DEF BindingsFit, Active

LEMMA BindingsStay ==
  ASSUME BindingsFit, UNCHANGED <<asked, bindings>>,
         moved' \subseteq accounts', accounts' \subseteq Customer,
         reports' \subseteq {c \in asked : c.op = "close"}
  PROVE  BindingsFit'
BY DEF BindingsFit, BindingsTyped, Active

(* Every step of a binding leaves rows of its table. *)
LEMMA BindingStepTyped ==
  ASSUME ApprovalsFit, RequestTypes, CustomersTyped, BindingsFit, asked \subseteq Call,
         BindingStep, UNCHANGED audit
  PROVE  RequestTypes' /\ BindingsFit'
<1>1. ASSUME NEW c \in Asking("account"), OpenAccount(c), UNCHANGED <<asked, approvalVars>>
      PROVE  RequestTypes' /\ BindingsFit'
  <2>1. c.customer \in Customer
    BY BindingAssumption DEF Asking
  <2>2. BindingsFit'
    BY <1>1, <2>1, BindingsStay DEF OpenAccount, BindingsFit, BindingsTyped
  <2> QED BY <1>1, <2>2, RequestsStay
<1>2. ASSUME NEW c \in Asking("funds"), MoveFunds(c), UNCHANGED <<asked, approvalVars>>
      PROVE  RequestTypes' /\ BindingsFit'
  <2>1. BindingsFit'
    BY <1>2, BindingsStay DEF MoveFunds, BindingsFit, BindingsTyped
  <2> QED BY <1>2, <2>1, RequestsStay
<1>3. ASSUME NEW c \in Asking("bind"), Bind(c), UNCHANGED <<asked, approvalVars>>
      PROVE  RequestTypes' /\ BindingsFit'
  <2>1. PICK p, w : p = c.customer /\ w = c.wallet
    OBVIOUS
  <2>2. p \in Customer /\ w \in Wallet
    BY <2>1, BindingAssumption DEF Asking
  <2>3. customers[p] \in CustomerRow /\ wallets[w] \in WalletRow
    BY <1>3, <2>1, <2>2 DEF Bind, SourcesActive, CustomerIs, WalletIs, CustomersTyped
  <2>4. PICK row : row = [customer |-> p, state |-> "ACTIVE",
                          customerVersion |-> customers[p].version,
                          walletVersion |-> wallets[w].version, version |-> 1]
    OBVIOUS
  <2>5. row \in BindingRow /\ row.version = 1
    BY <2>2, <2>3, <2>4 DEF BindingRow, CustomerRow, WalletRow
  <2>6. bindings' = [bindings EXCEPT ![w] = row]
    BY <1>3, <2>1, <2>4 DEF Bind
  <2>7. /\ accounts' = accounts \cup {p} /\ accounts' \subseteq Customer
        /\ UNCHANGED <<moved, reports>>
    BY <1>3, <2>1, <2>2 DEF Bind, BindingsFit, BindingsTyped
  <2>8. BindingsFit'
    BY <1>3, <2>2, <2>5, <2>6, <2>7, BoundTyped
  <2> QED BY <1>3, <2>8, RequestsStay
<1>4. ASSUME NEW c \in Asking("close"), ReadReport(c), UNCHANGED <<asked, approvalVars>>
      PROVE  RequestTypes' /\ BindingsFit'
  <2>1. reports' \subseteq {d \in asked : d.op = "close"}
    BY <1>4 DEF ReadReport, BindingsFit, BindingsTyped, Asking
  <2>2. BindingsFit'
    BY <1>4, <2>1, BindingsStay DEF ReadReport, BindingsFit, BindingsTyped
  <2> QED BY <1>4, <2>2, RequestsStay
<1>5. ASSUME NEW c \in Asking("close"), Close(c) PROVE RequestTypes' /\ BindingsFit'
  <2>1. PICK w, row : w = c.wallet /\ row = bindings[w]
    OBVIOUS
  <2>2. w \in Wallet
    BY <2>1, BindingAssumption DEF Asking
  <2>3. row \in BindingRow /\ row.version = 1
    BY <1>5, <2>1, <2>2 DEF Close, Active, BindingsFit, BindingsTyped, BindingRow
  <2>4. Closed(row) \in BindingRow /\ Closed(row).state = "CLOSED"
    BY <2>3, ClosedTyped
  <2>5. /\ bindings' = [bindings EXCEPT ![w] = Closed(row)]
        /\ reports' \subseteq reports /\ UNCHANGED <<asked, accounts, moved>>
    BY <1>5, <2>1, <2>2 DEF Close, BindingsFit, BindingsTyped
  <2>6. accounts' \subseteq Customer
    BY <2>5 DEF BindingsFit, BindingsTyped
  <2>7. BindingsFit'
    BY <2>2, <2>4, <2>5, <2>6, BoundTyped
  <2>8. c.approval \in Approval
    BY Approvers DEF Approving
  <2>9. PICK intent : intent = Fingerprint("CLOSE", c.wallet, c.expected)
    OBVIOUS
  <2>10. /\ Consumption(c.approval, c.by, intent) = "APPROVED"
         /\ ConsumeInTransaction(c.approval, "APPROVED")
    BY <1>5, <2>9 DEF Close
  <2>11. RequestTypes'
    BY <2>8, <2>10, UsedTyped
  <2> QED BY <2>7, <2>11
<1> QED BY <1>1, <1>2, <1>3, <1>4, <1>5 DEF BindingStep

-----------------------------------------------------------------------------
(* Every variable, over every step *)

(* What each group of variables becomes in a step of another group. *)
LEMMA OthersStay ==
  ASSUME TypeInv, UNCHANGED asked
  PROVE  /\ UNCHANGED <<approvalVars, audit>> => RequestTypes'
         /\ UNCHANGED policies => PoliciesFit'
         /\ UNCHANGED closed => closed' \in SUBSET Period
         /\ UNCHANGED mappingVars => MappingsTyped'
         /\ UNCHANGED journalVars => A5Typed'
         /\ UNCHANGED accountVars => ProvisioningFits'
         /\ UNCHANGED customerVars => CustomersTyped'
         /\ UNCHANGED bindingVars => BindingsFit'
<1>1. asked \subseteq Call
  BY DEF TypeInv, Call
<1>2. UNCHANGED <<approvalVars, audit>> => RequestTypes'
  BY RequestsStay DEF TypeInv, RequestTypes
<1>3. UNCHANGED policies => PoliciesFit'
  BY DEF TypeInv, PoliciesFit, IsPolicy
<1>4. UNCHANGED mappingVars => MappingsTyped'
  BY MappingsStay DEF TypeInv, mappingVars, MappingsTyped
<1>5. UNCHANGED journalVars => A5Typed'
  BY DEF TypeInv, A5Typed, journalVars, JournalIn
<1>6. UNCHANGED accountVars => ProvisioningFits'
  BY DEF TypeInv, ProvisioningFits, IsProvisioning, accountVars, ApprovalRow, Resources, Call
<1>7. UNCHANGED customerVars => CustomersTyped'
  BY <1>1, CustomersStay DEF TypeInv
<1>8. UNCHANGED bindingVars => BindingsFit'
  BY DEF TypeInv, BindingsFit, BindingsTyped, bindingVars, Active
<1> QED
  BY <1>2, <1>3, <1>4, <1>5, <1>6, <1>7, <1>8 DEF TypeInv

LEMMA TypesStart == AdministrationInit => TypeInv
<1> SUFFICES ASSUME AdministrationInit PROVE TypeInv
  OBVIOUS
<1>1. PICK s \in Agenda :
        InitApprovals(s.calls) /\ InitCalendar(s.periods) /\ InitMappings(s.mappings)
  BY DEF AdministrationInit, Init
<1>2. asked \in {r.calls : r \in Agenda}
  BY <1>1 DEF InitApprovals
<1>3. due \in SUBSET Approval /\ RequestsFit
  BY <1>1 DEF InitApprovals, RequestsFit, Found
<1>4. PoliciesFit
  <2>1. policies = [p \in Policy |->
          IF p \in DOMAIN Given
          THEN [status |-> "ACTIVE", definition |-> Given[p], version |-> 2] ELSE None]
    BY DEF AdministrationInit, Init, InitControls
  <2> QED BY <2>1 DEF PoliciesFit, IsPolicy
<1>5. RecordsTyped
  <2>1. records = [k \in RecordKeys |-> NoRecord]
    BY DEF AdministrationInit, Init, InitControls
  <2> QED BY <2>1 DEF RecordsTyped, Records
<1>6. AuditTyped
  BY DEF AdministrationInit, Init, InitControls, AuditTyped
<1>7. closed \in SUBSET Period
  BY <1>1 DEF InitCalendar
<1>8. MappingsTyped
  BY <1>1, MappingAssumption DEF InitMappings, MappingsTyped
<1>9. A5Typed
  BY DEF AdministrationInit, Init, A5Typed, JournalIn
<1>10. ProvisioningFits
  BY DEF AdministrationInit, InitAccounts, ProvisioningFits
<1>11. CustomersTyped
  BY DEF AdministrationInit, InitCustomers, CustomersTyped
<1>12. BindingsFit
  BY DEF AdministrationInit, InitBindings, BindingsFit, BindingsTyped, Active
<1> QED
  BY <1>2, <1>3, <1>4, <1>5, <1>6, <1>7, <1>8, <1>9, <1>10, <1>11, <1>12 DEF TypeInv

(* Every step keeps every variable to what it can hold. *)
LEMMA TypesInductive ==
  /\ AdministrationInit => TypeInv
  /\ TypeInv /\ ApprovalInv /\ JournalInv /\ AccountInv /\ CalendarInv
       /\ [AdministrationNext]_administrationVars => TypeInv'
<1>1. ASSUME TypeInv, ApprovalInv, JournalInv, AccountInv, CalendarInv,
             [AdministrationNext]_administrationVars
      PROVE  TypeInv'
  <2>1. UNCHANGED asked
    BY <1>1, CallsStay
  <2>2. asked \subseteq Call
    BY <1>1 DEF AccountInv
  <2>3. /\ ApprovalsFit /\ HoldersFit /\ RowsFit
        /\ RequestTypes /\ PoliciesFit /\ closed \in SUBSET Period /\ MappingsTyped /\ A5Typed
        /\ ProvisioningFits /\ CustomersTyped /\ BindingsFit
    BY <1>1 DEF ApprovalInv, TypeInv, RequestTypes
  <2>4. RecordsTyped'
    BY <1>1, <2>2, <2>3, RecordsKeep DEF TypeInv
  <2>5. /\ UNCHANGED <<approvalVars, audit>> => RequestTypes'
        /\ UNCHANGED policies => PoliciesFit'
        /\ UNCHANGED closed => closed' \in SUBSET Period
        /\ UNCHANGED mappingVars => MappingsTyped'
        /\ UNCHANGED journalVars => A5Typed'
        /\ UNCHANGED accountVars => ProvisioningFits'
        /\ UNCHANGED customerVars => CustomersTyped'
        /\ UNCHANGED bindingVars => BindingsFit'
    BY <1>1, <2>1, OthersStay
  <2>6. RequestTypes'
    <3>1. CASE ApprovalStep /\ UNCHANGED controlVars
      BY <2>2, <2>3, <3>1, ApprovalStepRequested DEF controlVars
    <3>2. CASE ControlStep
      BY <2>2, <2>3, <3>2, ControlStepTyped
    <3>3. CASE CalendarStep
      BY <1>1, <2>3, <3>3, CalendarStepTyped
    <3>4. CASE MappingStep
      BY <2>2, <2>3, <3>4, MappingStepTyped
    <3>5. CASE JournalStep
      BY <1>1, <2>2, <2>3, <3>5, JournalStepTyped
    <3>6. CASE AccountStep
      BY <1>1, <2>3, <3>6, AccountStepTyped
    <3>7. CASE BindingStep /\ UNCHANGED controlVars
      BY <2>2, <2>3, <3>7, BindingStepTyped DEF controlVars
    <3>8. CASE UNCHANGED <<approvalVars, audit>>
      BY <2>5, <3>8
    <3> QED
      BY <1>1, <3>1, <3>2, <3>3, <3>4, <3>5, <3>6, <3>7, <3>8
      DEF AdministrationNext, administrationVars, vars, Next, controlVars
  <2>7. PoliciesFit'
    <3>1. CASE ControlStep
      BY <2>2, <2>3, <3>1, ControlStepTyped
    <3>2. ControlStep \/ UNCHANGED policies
      <4>1. CalendarStep => UNCHANGED policies
        BY DEF CalendarStep, CreateFiscalYear, TransitionPeriod, RejectTransition, ReopenExpires,
               controlVars
      <4>2. MappingStep => UNCHANGED policies
        BY DEF MappingStep, CreateMapping, SubmitMapping, DecideMapping, RefuseOverlap,
               RefuseMapping, WindowPasses, ExpireMapping, controlVars
      <4>3. JournalStep => UNCHANGED policies
        <5>1. ASSUME NEW c, \/ Validate(c) \/ CreateJournal(c) \/ RejectCreation(c)
                            \/ ChangeState(c) \/ RejectPosting(c) \/ Reject(c) \/ PostToA5(c)
              PROVE  UNCHANGED policies
          BY <5>1 DEF Validate, CreateJournal, RejectCreation, ChangeState, RejectPosting,
                      Reject, PostToA5, controlVars
        <5>2. ASSUME NEW j, CommitPosting(j) \/ AbortPosting(j) PROVE UNCHANGED policies
          BY <5>2 DEF CommitPosting, AbortPosting, controlVars
        <5> QED BY <5>1, <5>2 DEF JournalStep
      <4>4. AccountStep => UNCHANGED policies
        <5>1. ASSUME NEW c, \/ CreateByHand(c) \/ RejectDefinition(c) \/ RejectProvisioning(c)
                            \/ LookUp(c)
              PROVE  UNCHANGED policies
          BY <5>1 DEF CreateByHand, RejectDefinition, RejectProvisioning, LookUp, controlVars
        <5>2. ASSUME NEW t, \/ CreateControlAccount(t) \/ CommitProvisioning(t)
                            \/ AbortProvisioning(t)
              PROVE  UNCHANGED policies
          BY <5>2 DEF CreateControlAccount, CommitProvisioning, AbortProvisioning, controlVars
        <5> QED BY <5>1, <5>2 DEF AccountStep
      <4> QED
        BY <1>1, <4>1, <4>2, <4>3, <4>4
        DEF AdministrationNext, administrationVars, vars, Next, controlVars
    <3> QED BY <2>5, <3>1, <3>2
  <2>8. closed' \in SUBSET Period
    <3>1. CASE CalendarStep
      BY <1>1, <2>3, <3>1, CalendarStepTyped
    <3>2. CalendarStep \/ UNCHANGED closed
      <4>1. Next => CalendarStep \/ UNCHANGED closed
        <5>1. MappingStep => UNCHANGED closed
          BY DEF MappingStep, CreateMapping, SubmitMapping, DecideMapping, RefuseOverlap,
                 RefuseMapping, WindowPasses, ExpireMapping, calendar
        <5>2. JournalStep => UNCHANGED closed
          <6>1. ASSUME NEW c, \/ Validate(c) \/ CreateJournal(c) \/ RejectCreation(c)
                              \/ ChangeState(c) \/ RejectPosting(c) \/ Reject(c) \/ PostToA5(c)
                PROVE  UNCHANGED closed
            BY <6>1 DEF Validate, CreateJournal, RejectCreation, ChangeState, RejectPosting,
                        Reject, PostToA5, outside, calendar
          <6>2. ASSUME NEW j, CommitPosting(j) \/ AbortPosting(j) PROVE UNCHANGED closed
            BY <6>2 DEF CommitPosting, AbortPosting, outside, calendar
          <6> QED BY <6>1, <6>2 DEF JournalStep
        <5> QED BY <5>1, <5>2 DEF Next, calendar
      <4> QED BY <1>1, <4>1 DEF AdministrationNext, administrationVars, vars, governed, calendar
    <3> QED BY <2>5, <3>1, <3>2
  <2>9. MappingsTyped'
    <3>1. CASE MappingStep
      BY <2>2, <2>3, <3>1, MappingStepTyped
    <3>2. MappingStep \/ UNCHANGED mappingVars
      <4>1. JournalStep => UNCHANGED mappingVars
        <5>1. ASSUME NEW c, \/ Validate(c) \/ CreateJournal(c) \/ RejectCreation(c)
                            \/ ChangeState(c) \/ RejectPosting(c) \/ Reject(c) \/ PostToA5(c)
              PROVE  UNCHANGED mappingVars
          BY <5>1 DEF Validate, CreateJournal, RejectCreation, ChangeState, RejectPosting,
                      Reject, PostToA5, outside
        <5>2. ASSUME NEW j, CommitPosting(j) \/ AbortPosting(j) PROVE UNCHANGED mappingVars
          BY <5>2 DEF CommitPosting, AbortPosting, outside
        <5> QED BY <5>1, <5>2 DEF JournalStep
      <4> QED
        BY <1>1, <4>1 DEF AdministrationNext, administrationVars, vars, Next, governed
    <3> QED BY <2>5, <3>1, <3>2
  <2>10. A5Typed'
    <3>1. CASE JournalStep
      BY <1>1, <2>2, <2>3, <3>1, JournalStepTyped
    <3>2. JournalStep \/ UNCHANGED journalVars
      BY <1>1 DEF AdministrationNext, administrationVars, vars, Next, governed
    <3> QED BY <2>5, <3>1, <3>2
  <2>11. ProvisioningFits'
    <3>1. CASE AccountStep
      BY <1>1, <2>3, <3>1, AccountStepTyped
    <3>2. AccountStep \/ UNCHANGED accountVars
      BY <1>1 DEF AdministrationNext, administrationVars
    <3> QED BY <2>5, <3>1, <3>2
  <2>12. CustomersTyped'
    <3>1. CASE CustomerStep
      BY <2>1, <2>2, <2>3, <3>1, CustomerStepTyped
    <3>2. CustomerStep \/ UNCHANGED customerVars
      BY <1>1 DEF AdministrationNext, administrationVars
    <3> QED BY <2>5, <3>1, <3>2
  <2>13. BindingsFit'
    <3>1. CASE BindingStep /\ UNCHANGED controlVars
      BY <2>2, <2>3, <3>1, BindingStepTyped DEF controlVars
    <3>2. (BindingStep /\ UNCHANGED controlVars) \/ UNCHANGED bindingVars
      BY <1>1 DEF AdministrationNext, administrationVars
    <3> QED BY <2>5, <3>1, <3>2
  <2> QED
    BY <1>1, <2>1, <2>4, <2>6, <2>7, <2>8, <2>9, <2>10, <2>11, <2>12, <2>13
    DEF TypeInv, RequestTypes
<1> QED BY <1>1, TypesStart

(* Every variable holds what its table, or its process, can hold.          *)
THEOREM TypesHold == AdministrationSpec => []AdministrationTypeOK
<1>1. ASSUME TypeInv, ApprovalInv, JournalInv, AccountInv, CalendarInv
      PROVE  AdministrationTypeOK
  <2>1. ApprovalsTyped
    BY <1>1 DEF TypeInv, ApprovalInv, ApprovalsFit, ApprovalsTyped, Sheet
  <2>2. ControlsTyped
    BY <1>1 DEF TypeInv, PoliciesFit, IsPolicy, RecordsTyped, AuditTyped, Resources,
                ControlsTyped
  <2>3. CalendarTyped
    BY <1>1 DEF TypeInv, CalendarInv, NoPeriod, CalendarTyped
  <2>4. MappingsTyped /\ CustomersTyped /\ BindingsTyped
    BY <1>1 DEF TypeInv, BindingsFit
  <2>5. journals \in [Journal -> JournalRow \cup {None}]
    BY <1>1 DEF ApprovalInv, RowsFit
  <2>6. drafting \subseteq {c \in Call : c.op = "prepare"}
    BY <1>1 DEF ApprovalInv, RowsFit, AccountInv, Asking
  <2>7. posting \in [Journal -> [call : {c \in Call : c.op = "post"},
                                 answer : {"POSTED", "FAILED", "POSTING_UNKNOWN"}] \cup {None}]
    <3>1. ASSUME NEW j \in Journal, posting[j] # None
          PROVE  posting[j] \in [call : {c \in Call : c.op = "post"},
                                 answer : {"POSTED", "FAILED", "POSTING_UNKNOWN"}]
      <4>1. posting[j].call \in {c \in Call : c.op = "post"}
        BY <1>1, <3>1 DEF ApprovalInv, RowsFit, AccountInv, Asking
      <4>2. posting[j].answer \in {"POSTED", "FAILED", "POSTING_UNKNOWN"}
        BY <1>1, <3>1 DEF JournalInv, PostingFits
      <4>3. posting[j] = [call |-> posting[j].call, answer |-> posting[j].answer]
        BY <1>1, <3>1 DEF TypeInv, A5Typed
      <4> QED BY <4>1, <4>2, <4>3
    <3>2. posting = [j \in Journal |-> posting[j]]
      BY <1>1 DEF JournalInv
    <3> QED BY <3>1, <3>2
  <2>8. \A p \in a5 : p.journal \in Journal /\ p.approval \in Approval
    BY <1>1 DEF TypeInv, A5Typed
  <2>9. AccountsTyped
    BY <1>1 DEF TypeInv, ProvisioningFits, IsProvisioning, AccountInv, Provisioner,
                AccountsTyped
  <2> QED
    BY <2>1, <2>2, <2>3, <2>4, <2>5, <2>6, <2>7, <2>8, <2>9
    DEF AdministrationTypeOK, FinanceTypeOK
<1> QED
  BY <1>1, JournalsInductive, AccountsInductive, CalendarInductive, ApprovalsInductive,
     TypesInductive, PTL
  DEF AdministrationSpec
=============================================================================
