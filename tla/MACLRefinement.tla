--------------------------- MODULE MACLRefinement ---------------------------
(***************************************************************************)
(* The contracts implement the two abstract promises.  The mapping of a    *)
(* record forgets the counters, the window and the clock; the mapping of a *)
(* request forgets who voted and the committed figure kept per agreement.  *)
(***************************************************************************)
EXTENDS MACL

RecordStatus ==
    [r \in RecordIds |->
        IF ~RecordExists(r) THEN "none"
        ELSE IF records[r].finalised THEN "verified"
        ELSE IF records[r].unverified THEN "lapsed"
        ELSE "open"]

Verification == INSTANCE RecordVerification WITH
    Parties <- Accounts,
    Records <- RecordIds,
    Quorum <- 2,
    status <- RecordStatus,
    support <- hasEndorsed,
    dissent <- hasDeclined

\* Every behaviour of the contracts is one the workflow promises: the count
\* that endorse keeps and compares for equality decides like the number of
\* distinct endorsers, and time and the window only ever close records.
ImplementsVerification == Verification!Spec

RequestStage ==
    [q \in SpendRequestIds |->
        IF ~SpendRequestExists(q) THEN "none"
        ELSE IF spendRequests[q].spent THEN "spent"
        ELSE IF spendRequests[q].approved THEN "approved"
        ELSE "pending"]

Budget == INSTANCE SpendBudget WITH
    Agreements <- AgreementIds,
    Requests <- SpendRequestIds,
    budget <- [id \in AgreementIds |-> agreements[id].budget],
    locked <- {id \in AgreementIds : IsFinalised(id)},
    stage <- RequestStage,
    charge <- [q \in SpendRequestIds |->
                [agreement |-> spendRequests[q].agreementId,
                 amount |-> spendRequests[q].amount]]

\* The committed figure that commitSpend checks and advances decides like
\* the sum of the approved requests would.
ImplementsBudget == Budget!Spec

=============================================================================
