------------------------------ MODULE Customers ------------------------------
(***************************************************************************)
(* CustomerService, CustomerOnboardingService, CustomerEligibilityService  *)
(* and CustomerWalletService: a customer is onboarded, found eligible and  *)
(* given wallets.                                                          *)
(*                                                                         *)
(* A change of a customer's status locks the row.  Every other change is a *)
(* READ COMMITTED transaction that reads without a lock, checks what it    *)
(* read and saves the row whole: what has become of the row, or of another *)
(* row it checked, since the read is not looked at, and is overwritten.    *)
(* A creation is one step, where it reads: what it adds is looked for by   *)
(* other creations only, which a unique index then refuses.                *)
(***************************************************************************)
EXTENDS Approvals, Sequences

CONSTANTS
  Customer, Wallet,
  MaxVersion         \* bound on the version of a row

VARIABLES
  customers,      \* customers: Customer -> row or None
  onboardings,    \* customer_onboardings: Customer -> states of its workflows
  evidence,       \* workflows, as <<customer, n>>, with all that readiness asks for
  risks,          \* customer_risk_profiles: Customer -> current level or None
  eligibilities,  \* customer_eligibilities: Customer -> status or None
  blacklisted,    \* customers with an active BLACKLISTED restriction
  wallets,        \* customer_wallets: Wallet -> row or None
  sheets          \* changes that were checked, with the row they read, not saved yet

customerVars ==
  <<customers, onboardings, evidence, risks, eligibilities, blacklisted, wallets, sheets>>

InitCustomers ==
  /\ customers = [p \in Customer |-> None]
  /\ onboardings = [p \in Customer |-> <<>>]
  /\ evidence = {}
  /\ risks = [p \in Customer |-> None]
  /\ eligibilities = [p \in Customer |-> None]
  /\ blacklisted = {}
  /\ wallets = [w \in Wallet |-> None]
  /\ sheets = {}

Check(c, row) == sheets' = sheets \cup {[call |-> c, row |-> row]}

-----------------------------------------------------------------------------
(* Rows *)

CustomerStatus == {"DRAFT", "ACTIVE", "SUSPENDED", "CLOSED"}
KycStatus == {"NOT_STARTED", "PENDING", "APPROVED", "REJECTED"}
RiskLevel == {"LOW", "MEDIUM", "HIGH", "PROHIBITED"}
EligibilityStatus == {"PENDING", "ELIGIBLE", "INELIGIBLE", "SUSPENDED", "REVOKED"}
WalletType == {"PRIMARY", "SAVINGS", "BUSINESS", "ESCROW"}
WalletStatus == {"PENDING", "ACTIVE", "SUSPENDED", "CLOSED"}

CustomerRow ==
  [status : CustomerStatus, kyc : KycStatus, assessments : Nat, version : 1..MaxVersion]
WalletRow ==
  [customer : Customer, type : WalletType, status : WalletStatus, version : 1..MaxVersion]

OfCustomers ==
  {"customer", "status", "kyc", "onboard", "evidence", "risk", "advance", "eligibility", "review",
   "blacklist", "wallet"}

(* null is no row and no level; calls name customers and wallets by their  *)
(* identifiers, and what they create in a value of its enumeration.        *)
ASSUME CustomerAssumption ==
  /\ MaxVersion \in Nat \ {0}
  /\ None \notin CustomerRow /\ None \notin WalletRow
  /\ \A c \in Call : c.op \in OfCustomers => c.customer \in Customer
  /\ \A c \in Call : c.op \in {"wallet", "walletStatus"} => c.wallet \in Wallet
  /\ \A c \in Call : c.op = "customer" => c.status \in CustomerStatus
  /\ \A c \in Call : c.op = "risk" => c.level \in RiskLevel
  /\ \A c \in Call : c.op = "eligibility" => c.status \in EligibilityStatus
  /\ \A c \in Call : c.op = "wallet" => c.type \in WalletType /\ c.status \in WalletStatus

-----------------------------------------------------------------------------
(* The version a save leaves: the next one; or, in a row that has changed  *)
(* since it was read, the version that was read, written back.             *)
VersionsSaved(read, current) ==
  {current + 1} \cup (IF read # current THEN {read} ELSE {})

-----------------------------------------------------------------------------
(* Customers *)

CustomerMoves ==
  {<<"DRAFT", "ACTIVE">>, <<"DRAFT", "SUSPENDED">>, <<"DRAFT", "CLOSED">>,
   <<"ACTIVE", "SUSPENDED">>, <<"ACTIVE", "CLOSED">>,
   <<"SUSPENDED", "ACTIVE">>, <<"SUSPENDED", "CLOSED">>}

KycMoves ==
  {<<"NOT_STARTED", "PENDING">>, <<"PENDING", "APPROVED">>, <<"PENDING", "REJECTED">>,
   <<"APPROVED", "PENDING">>, <<"REJECTED", "PENDING">>}

(* A closed customer is deleted softly: nothing finds it again. *)
Known(p) == customers[p] # None /\ customers[p].status # "CLOSED"
CustomerIs(p, status) == customers[p] # None /\ customers[p].status = status

Register(c) ==
  /\ customers[c.customer] = None
  /\ customers' = [customers EXCEPT ![c.customer] =
       [status |-> c.status, kyc |-> "NOT_STARTED", assessments |-> 0, version |-> 1]]
  /\ UNCHANGED <<onboardings, evidence, risks, eligibilities, blacklisted, wallets, sheets>>

UpdateStatus(c) ==
  /\ Known(c.customer)
  /\ <<customers[c.customer].status, c.to>> \in CustomerMoves
  /\ customers[c.customer].version < MaxVersion
  /\ customers' = [customers EXCEPT ![c.customer].status = c.to,
                                    ![c.customer].version = @ + 1]
  /\ UNCHANGED <<onboardings, evidence, risks, eligibilities, blacklisted, wallets, sheets>>

(* createKycAssessment, up to the save of the customer it read *)
Assess(c) ==
  /\ Known(c.customer)
  /\ <<customers[c.customer].kyc, c.to>> \in KycMoves
  /\ Check(c, customers[c.customer])
  /\ UNCHANGED <<customers, onboardings, evidence, risks, eligibilities, blacklisted, wallets>>

Assessed(row, kyc, version) ==
  [row EXCEPT !.kyc = kyc, !.assessments = @ + 1, !.version = version]

(* A customer has one current assessment: the second of two that replace   *)
(* the same one is refused.                                                *)
SaveAssessment(s) ==
  LET p == s.call.customer IN
  /\ s.row.assessments = customers[p].assessments
  /\ \E v \in VersionsSaved(s.row.version, customers[p].version) :
       /\ v <= MaxVersion
       /\ customers' = [customers EXCEPT ![p] = Assessed(s.row, s.call.to, v)]
  /\ UNCHANGED <<onboardings, evidence, risks, eligibilities, blacklisted, wallets>>

-----------------------------------------------------------------------------
(* Onboarding *)

OnboardingMoves ==
  {<<"NOT_STARTED", "IN_PROGRESS">>, <<"IN_PROGRESS", "AWAITING_REVIEW">>,
   <<"IN_PROGRESS", "REJECTED">>, <<"AWAITING_REVIEW", "APPROVED">>,
   <<"AWAITING_REVIEW", "REJECTED">>, <<"APPROVED", "COMPLETED">>}

ActiveOnboarding == {"NOT_STARTED", "IN_PROGRESS", "AWAITING_REVIEW", "APPROVED"}

OnboardingState == ActiveOnboarding \cup {"REJECTED", "COMPLETED"}

ActiveWorkflows(p) == {n \in DOMAIN onboardings[p] : onboardings[p][n] \in ActiveOnboarding}
Latest(p) == Len(onboardings[p])
CompletedOnboarding(p) == \E n \in DOMAIN onboardings[p] : onboardings[p][n] = "COMPLETED"

StartOnboarding(c) ==
  /\ Known(c.customer) /\ ActiveWorkflows(c.customer) = {}
  /\ Latest(c.customer) < MaxVersion
  /\ onboardings' = [onboardings EXCEPT ![c.customer] = Append(@, "NOT_STARTED")]
  /\ UNCHANGED <<customers, evidence, risks, eligibilities, blacklisted, wallets, sheets>>

(* The profile, address and document of the customer, and the agreements   *)
(* and tasks of its workflow.                                              *)
GiveEvidence(c) ==
  /\ Known(c.customer) /\ ActiveWorkflows(c.customer) # {}
  /\ evidence' = evidence \cup {<<c.customer, Latest(c.customer)>>}
  /\ UNCHANGED <<customers, onboardings, risks, eligibilities, blacklisted, wallets, sheets>>

CreateRiskProfile(c) ==
  /\ Known(c.customer) /\ ActiveWorkflows(c.customer) # {}
  /\ risks[c.customer] = None
  /\ risks' = [risks EXCEPT ![c.customer] = c.level]
  /\ UNCHANGED <<customers, onboardings, evidence, eligibilities, blacklisted, wallets, sheets>>

CanComplete(p) ==
  /\ CustomerIs(p, "ACTIVE")
  /\ <<p, Latest(p)>> \in evidence
  /\ risks[p] # "PROHIBITED"

(* updateOnboarding, up to the save *)
Advance(c) ==
  LET p == c.customer
      n == Latest(p)
  IN  /\ Known(p) /\ n > 0
      /\ <<onboardings[p][n], c.to>> \in OnboardingMoves
      /\ c.to = "APPROVED" => risks[p] # "PROHIBITED"
      /\ c.to = "COMPLETED" => CanComplete(p)
      /\ Check(c, [workflow |-> n])
      /\ UNCHANGED <<customers, onboardings, evidence, risks, eligibilities, blacklisted, wallets>>

(* A workflow cannot be made active again while another one is. *)
SaveOnboarding(s) ==
  LET p == s.call.customer IN
  /\ s.call.to \in ActiveOnboarding => ActiveWorkflows(p) \subseteq {s.row.workflow}
  /\ onboardings' = [onboardings EXCEPT ![p][s.row.workflow] = s.call.to]
  /\ UNCHANGED <<customers, evidence, risks, eligibilities, blacklisted, wallets>>

-----------------------------------------------------------------------------
(* Eligibility *)

EligibilityMoves ==
  {<<"PENDING", "ELIGIBLE">>, <<"PENDING", "INELIGIBLE">>, <<"PENDING", "SUSPENDED">>,
   <<"PENDING", "REVOKED">>, <<"ELIGIBLE", "INELIGIBLE">>, <<"ELIGIBLE", "SUSPENDED">>,
   <<"ELIGIBLE", "REVOKED">>, <<"INELIGIBLE", "PENDING">>, <<"INELIGIBLE", "SUSPENDED">>,
   <<"INELIGIBLE", "REVOKED">>, <<"SUSPENDED", "PENDING">>, <<"SUSPENDED", "ELIGIBLE">>,
   <<"SUSPENDED", "INELIGIBLE">>, <<"SUSPENDED", "REVOKED">>}

CanBecomeEligible(p) == p \notin blacklisted /\ CompletedOnboarding(p)

CreateEligibility(c) ==
  /\ Known(c.customer) /\ eligibilities[c.customer] = None
  /\ c.status = "ELIGIBLE" => CanBecomeEligible(c.customer)
  /\ eligibilities' = [eligibilities EXCEPT ![c.customer] = c.status]
  /\ UNCHANGED <<customers, onboardings, evidence, risks, blacklisted, wallets, sheets>>

Review(c) ==
  /\ Known(c.customer)
  /\ <<eligibilities[c.customer], c.to>> \in EligibilityMoves
  /\ c.to = "ELIGIBLE" => CanBecomeEligible(c.customer)
  /\ Check(c, [status |-> eligibilities[c.customer]])
  /\ UNCHANGED <<customers, onboardings, evidence, risks, eligibilities, blacklisted, wallets>>

SaveReview(s) ==
  /\ eligibilities' = [eligibilities EXCEPT ![s.call.customer] = s.call.to]
  /\ UNCHANGED <<customers, onboardings, evidence, risks, blacklisted, wallets>>

Blacklist(c) ==
  /\ Known(c.customer) /\ c.customer \notin blacklisted
  /\ blacklisted' = blacklisted \cup {c.customer}
  /\ UNCHANGED <<customers, onboardings, evidence, risks, eligibilities, wallets, sheets>>

-----------------------------------------------------------------------------
(* Customer wallets *)

WalletMoves ==
  {<<"PENDING", "ACTIVE">>, <<"PENDING", "SUSPENDED">>, <<"PENDING", "CLOSED">>,
   <<"ACTIVE", "SUSPENDED">>, <<"ACTIVE", "CLOSED">>,
   <<"SUSPENDED", "ACTIVE">>, <<"SUSPENDED", "CLOSED">>}

Restated(row, status, version) == [row EXCEPT !.status = status, !.version = version]

WalletIs(w, status) == wallets[w] # None /\ wallets[w].status = status

EligibleProvisioning(p) == CompletedOnboarding(p) /\ eligibilities[p] = "ELIGIBLE"

CreateCustomerWallet(c) ==
  /\ wallets[c.wallet] = None
  /\ Known(c.customer) /\ EligibleProvisioning(c.customer)
  /\ c.type = "PRIMARY" => \A w \in Wallet :
       wallets[w] # None => wallets[w].customer # c.customer \/ wallets[w].type # "PRIMARY"
  /\ wallets' = [wallets EXCEPT ![c.wallet] =
       [customer |-> c.customer, type |-> c.type, status |-> c.status, version |-> 1]]
  /\ UNCHANGED <<customers, onboardings, evidence, risks, eligibilities, blacklisted, sheets>>

UpdateWallet(c) ==
  LET row == wallets[c.wallet] IN
  /\ row # None /\ Known(row.customer)
  /\ <<row.status, c.to>> \in WalletMoves
  /\ c.to = "ACTIVE" => EligibleProvisioning(row.customer)
  /\ Check(c, row)
  /\ UNCHANGED <<customers, onboardings, evidence, risks, eligibilities, blacklisted, wallets>>

SaveWallet(s) ==
  /\ \E v \in VersionsSaved(s.row.version, wallets[s.call.wallet].version) :
       /\ v <= MaxVersion
       /\ wallets' = [wallets EXCEPT ![s.call.wallet] = Restated(s.row, s.call.to, v)]
  /\ UNCHANGED <<customers, onboardings, evidence, risks, eligibilities, blacklisted>>

-----------------------------------------------------------------------------
SaveStep(s) ==
  /\ \/ s.call.op = "kyc" /\ SaveAssessment(s)
     \/ s.call.op = "advance" /\ SaveOnboarding(s)
     \/ s.call.op = "review" /\ SaveReview(s)
     \/ s.call.op = "walletStatus" /\ SaveWallet(s)
  /\ sheets' = sheets \ {s}

CustomerStep ==
  \/ \E c \in Asking("customer") : Register(c)
  \/ \E c \in Asking("status") : UpdateStatus(c)
  \/ \E c \in Asking("kyc") : Assess(c)
  \/ \E c \in Asking("onboard") : StartOnboarding(c)
  \/ \E c \in Asking("evidence") : GiveEvidence(c)
  \/ \E c \in Asking("risk") : CreateRiskProfile(c)
  \/ \E c \in Asking("advance") : Advance(c)
  \/ \E c \in Asking("eligibility") : CreateEligibility(c)
  \/ \E c \in Asking("review") : Review(c)
  \/ \E c \in Asking("blacklist") : Blacklist(c)
  \/ \E c \in Asking("wallet") : CreateCustomerWallet(c)
  \/ \E c \in Asking("walletStatus") : UpdateWallet(c)
  \/ \E s \in sheets : SaveStep(s)

(* A change that was checked can be made to the row it was checked for. *)
SheetTyped(s) ==
  /\ s.call \in asked
  /\ \/ /\ s.call.op = "kyc" /\ s.row \in CustomerRow /\ s.call.to \in KycStatus
        /\ customers[s.call.customer] # None
     \/ s.call.op = "advance" /\ s.call.to \in OnboardingState
     \/ s.call.op = "review" /\ s.call.to \in EligibilityStatus
     \/ /\ s.call.op = "walletStatus" /\ s.row \in WalletRow /\ s.call.to \in WalletStatus
        /\ wallets[s.call.wallet] # None

CustomersTyped ==
  /\ customers \in [Customer -> CustomerRow \cup {None}]
  /\ onboardings \in [Customer -> Seq(OnboardingState)]
  /\ evidence \subseteq Customer \X Nat
  /\ risks \in [Customer -> RiskLevel \cup {None}]
  /\ eligibilities \in [Customer -> EligibilityStatus \cup {None}]
  /\ blacklisted \subseteq Customer
  /\ wallets \in [Wallet -> WalletRow \cup {None}]
  /\ \A s \in sheets : SheetTyped(s)

(* A wallet that is closed cannot become active again. *)
ClosedWalletsStayClosed ==
  [][\A w \in Wallet : WalletIs(w, "CLOSED") => ~ WalletIs(w, "ACTIVE")']_wallets
=============================================================================
