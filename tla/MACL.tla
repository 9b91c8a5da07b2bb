-------------------------------- MODULE MACL --------------------------------
(***************************************************************************)
(* The three contracts on one ledger.  A step is one transaction, or the   *)
(* block clock moving on.  Spec starts from the three constructors, so the *)
(* wiring and registration that contracts/scripts/deploy.js sends are      *)
(* ordinary transactions of its owner and may be interleaved with anyone   *)
(* else's; DeployedSpec starts after that script has run.                  *)
(***************************************************************************)
EXTENDS VerificationWorkflowContract

CONSTANTS
    SeedRoles,  \* account -> role, for the organisations deploy.js registers
    SeedOrder   \* those accounts in the order deploy.js registers them

\* Every seed organisation is registered once.
ASSUME SeedAssumption ==
    /\ SeedOrder \in Seq(Accounts)
    /\ DOMAIN SeedRoles = {SeedOrder[i] : i \in 1 .. Len(SeedOrder)}
    /\ \A i, j \in 1 .. Len(SeedOrder) : SeedOrder[i] = SeedOrder[j] => i = j
    /\ \A a \in DOMAIN SeedRoles : SeedRoles[a] \in OrgTypes

vars == <<agreementVars, complianceVars, verificationVars, now>>

Init == AgreementInit /\ ComplianceInit /\ VerificationInit

\* What deploy.js leaves behind: both contracts wired, the seed organisations
\* registered, the default window in force.
DeployedInit ==
    /\ organisations = [a \in Accounts |->
            IF a \in DOMAIN SeedRoles
            THEN [registered |-> TRUE, orgType |-> SeedRoles[a]]
            ELSE UnsetOrganisation]
    /\ orgList = SeedOrder
    /\ nextAgreementId = 1
    /\ agreements = [id \in AgreementIds |-> UnsetAgreement]
    /\ agreementTargets = [id \in AgreementIds |-> <<>>]
    /\ complianceContract = ComplianceAddress
    /\ now = 1
    /\ nextRecordId = 1
    /\ records = [r \in RecordIds |-> UnsetRecord]
    /\ failingRecordCount = [id \in AgreementIds |-> 0]
    /\ nextSpendRequestId = 1
    /\ spendRequests = [q \in SpendRequestIds |-> UnsetSpendRequest]
    /\ verificationContract = VerificationAddress
    /\ VerificationInit

\* A new block; timestamps of successive blocks increase.
NextBlock ==
    /\ now < MaxTime
    /\ now' = now + 1
    /\ UNCHANGED <<agreementVars, complianceVars, verificationVars>>

AgreementTx ==
    /\ AgreementNext
    /\ UNCHANGED <<complianceVars, verificationVars, now>>

ComplianceTx ==
    /\ ComplianceNext
    /\ UNCHANGED <<verificationVars, now>>

VerificationTx ==
    /\ VerificationNext
    /\ UNCHANGED now

Next ==
    \/ AgreementTx
    \/ ComplianceTx
    \/ VerificationTx
    \/ NextBlock

Spec == Init /\ [][Next]_vars

DeployedSpec == DeployedInit /\ [][Next]_vars

-----------------------------------------------------------------------------
(* Types. *)

\* Every variable of the three contracts stays in its type, and no id is
\* handed out beyond its bound.
TypeOK ==
    /\ AgreementTypeOK
    /\ ComplianceTypeOK
    /\ VerificationTypeOK

-----------------------------------------------------------------------------
(* Compliance records. *)

\* A record is final exactly when two distinct signatories of its agreement
\* stand behind it, none of whom also disputed it: the counter endorse
\* compares with the threshold, kept apart from the flags it counts, never
\* lets one organisation, or a stranger, finalise alone.
FinalisedByTwoSignatories ==
    \A r \in RecordIds :
        /\ records[r].finalised <=> Cardinality(hasEndorsed[r]) >= 2
        /\ hasEndorsed[r] \cup hasDeclined[r] # {} =>
                /\ RecordExists(r)
                /\ hasEndorsed[r] \cup hasDeclined[r]
                        \subseteq agreements[records[r].agreementId].signatories
        /\ hasEndorsed[r] \cap hasDeclined[r] = {}

\* The two outcomes of a record exclude each other, although the owner may
\* lengthen the window of a record already closed as unverified and
\* markFinalised itself does not look at that flag.
OutcomesExclusive ==
    \A r \in RecordIds : ~(records[r].finalised /\ records[r].unverified)

\* The verdict of a record can be recomputed at any later time from the
\* terms the agreement carries now: the target it was judged against still
\* exists, in the same place and with the same threshold and deadline.
VerdictRecomputable ==
    \A r \in RecordIds :
        RecordExists(r) =>
            LET rec == records[r]
            IN  /\ rec.targetIndex < TargetCount(rec.agreementId)
                /\ rec.result = Evaluate(rec.reportedValue,
                                         GetTarget(rec.agreementId,
                                                   rec.targetIndex),
                                         rec.evaluatedAt)

\* The counter behind hasFailingRecords is the number of failing records of
\* the agreement, whatever happened to them in verification.
FailingCountExact ==
    \A id \in AgreementIds :
        failingRecordCount[id] =
            Cardinality({r \in RecordIds : /\ records[r].agreementId = id
                                           /\ records[r].result = "FAIL"})

-----------------------------------------------------------------------------
(* Spend requests and the budget. *)

\* A request is approved exactly when two signatories other than its
\* requester endorsed it and did not decline it.
ApprovedByTwoOthers ==
    \A q \in SpendRequestIds :
        /\ spendRequests[q].approved <=> Cardinality(hasEndorsedSpend[q]) >= 2
        /\ hasEndorsedSpend[q] \cup hasDeclinedSpend[q] # {} =>
                /\ SpendRequestExists(q)
                /\ hasEndorsedSpend[q] \cup hasDeclinedSpend[q] \subseteq
                        agreements[spendRequests[q].agreementId].signatories
                /\ spendRequests[q].requester \notin hasEndorsedSpend[q]
        /\ hasEndorsedSpend[q] \cap hasDeclinedSpend[q] = {}

ApprovedRequests(id) ==
    {q \in SpendRequestIds : /\ spendRequests[q].agreementId = id
                             /\ spendRequests[q].approved}

\* The committed figure of an agreement is the sum of its approved requests:
\* an approval and its commit succeed or revert together, across the three
\* contracts, and nothing is committed twice.
CommittedIsApproved ==
    \A id \in AgreementIds :
        agreements[id].committedSpend =
            MapThenSumSet(LAMBDA q : spendRequests[q].amount,
                          ApprovedRequests(id))

\* Approvals never exceed the budget, although several pending requests may
\* each have fitted in it when they were raised and a donor sets the budget
\* without looking at what is committed.
NeverOverspent ==
    \A id \in AgreementIds :
        agreements[id].committedSpend <= agreements[id].budget

\* On a ledger whose deployment stopped half-way nothing is settled: no
\* record is final and no request approved before the contract that settles
\* it is wired, and no commit happens before both links are.
WiredBeforeSettling ==
    /\ (\E r \in RecordIds : records[r].finalised \/ records[r].unverified)
            => verificationContract = VerificationAddress
    /\ (\E q \in SpendRequestIds : spendRequests[q].approved)
            => /\ verificationContract = VerificationAddress
               /\ complianceContract = ComplianceAddress

-----------------------------------------------------------------------------
(* What no transaction may do. *)

TermsOf(id) ==
    <<agreements[id].creator, agreements[id].startDate, agreements[id].endDate,
      agreements[id].signatories, agreements[id].budget, agreementTargets[id]>>

\* Finalisation is final: the terms of a finalised agreement, its parties
\* and budget included, are never touched again by anyone.
TermsFrozen ==
    [][\A id \in AgreementIds :
            IsFinalised(id) => /\ IsFinalised(id)'
                               /\ TermsOf(id)' = TermsOf(id)]_vars

FactsOfRecord(r) ==
    [f \in DOMAIN UnsetRecord \ {"finalised", "unverified"} |-> records[r][f]]

FactsOfRequest(q) ==
    [f \in DOMAIN UnsetSpendRequest \ {"approved", "spent", "receiptHash"} |->
        spendRequests[q][f]]

\* What was reported or requested is never rewritten, an outcome never
\* withdrawn, a vote never taken back and a pinned receipt never replaced:
\* in particular no id is handed out twice.
HistoryAppendOnly ==
    [][/\ \A r \in RecordIds :
            RecordExists(r) =>
                /\ FactsOfRecord(r)' = FactsOfRecord(r)
                /\ records[r].finalised => records'[r].finalised
                /\ records[r].unverified => records'[r].unverified
                /\ hasEndorsed[r] \subseteq hasEndorsed'[r]
                /\ hasDeclined[r] \subseteq hasDeclined'[r]
       /\ \A q \in SpendRequestIds :
            SpendRequestExists(q) =>
                /\ FactsOfRequest(q)' = FactsOfRequest(q)
                /\ spendRequests[q].approved => spendRequests'[q].approved
                /\ spendRequests[q].spent =>
                        spendRequests'[q] = spendRequests[q]
                /\ hasEndorsedSpend[q] \subseteq hasEndorsedSpend'[q]
                /\ hasDeclinedSpend[q] \subseteq hasDeclinedSpend'[q]]_vars

\* The ledger reference of a record is pinned by the very transaction that
\* finalises it and by no later one: the endorsement of the third party is
\* recorded but moves nothing.
PinnedAtTheThreshold ==
    [][\A r \in RecordIds :
            (finalisedBlockHash'[r] # finalisedBlockHash[r])
                <=> (records'[r].finalised /\ ~records[r].finalised)]_vars

\* A record is finalised no later, and closed as unverified only later, than
\* the window in force allows, also when the owner has set a window so long
\* that the deadline exceeds the largest integer of the machine.
SettledOnItsSideOfTheDeadline ==
    [][\A r \in RecordIds :
            LET deadline == records[r].evaluatedAt + verificationWindow
            IN  /\ records'[r].finalised /\ ~records[r].finalised
                        => now <= deadline
                /\ records'[r].unverified /\ ~records[r].unverified
                        => now > deadline]_vars

\* A pending request that no longer fits the budget is lost for good: no
\* sequence of votes, settlements or budget changes makes it affordable.
Unaffordable(q) ==
    /\ SpendRequestExists(q)
    /\ ~spendRequests[q].approved
    /\ spendRequests[q].amount > RemainingBudget(spendRequests[q].agreementId)

UnaffordableForGood ==
    [][\A q \in SpendRequestIds : Unaffordable(q) => Unaffordable(q)']_vars

-----------------------------------------------------------------------------
(* The inductive invariant from which the safety properties are proved.    *)

\* Ids are handed out in order; what is not handed out is still zero.
AgreementsInOrder ==
    \A id \in AgreementIds :
        id >= nextAgreementId => agreements[id] = UnsetAgreement

RecordsInOrder ==
    \A r \in RecordIds :
        /\ r < nextRecordId => /\ records[r].id = r
                               /\ records[r].agreementId \in AgreementIds
                               /\ IsFinalised(records[r].agreementId)
        /\ r >= nextRecordId => records[r] = UnsetRecord

RequestsInOrder ==
    \A q \in SpendRequestIds :
        /\ q < nextSpendRequestId =>
                /\ spendRequests[q].id = q
                /\ spendRequests[q].agreementId \in AgreementIds
                /\ IsFinalised(spendRequests[q].agreementId)
        /\ q >= nextSpendRequestId => spendRequests[q] = UnsetSpendRequest

\* The counters are the sizes of the sets of flags they are kept beside.
VotesCounted ==
    /\ \A r \in RecordIds :
            endorsementCount[r] = Cardinality(hasEndorsed[r])
    /\ \A q \in SpendRequestIds :
            spendEndorsementCount[q] = Cardinality(hasEndorsedSpend[q])

\* Nothing is committed before the budget is fixed.
CommittedAfterFinalisation ==
    \A id \in AgreementIds :
        ~IsFinalised(id) => agreements[id].committedSpend = 0

\* The properties above with what makes them inductive: ids in order, so a
\* new record or request never inherits votes; counters exact, so comparing
\* a counter with the threshold is comparing the number of parties; and
\* every record and request hanging on an agreement that is frozen.
LedgerInv ==
    /\ AgreementsInOrder
    /\ RecordsInOrder
    /\ RequestsInOrder
    /\ VotesCounted
    /\ FinalisedByTwoSignatories
    /\ OutcomesExclusive
    /\ ApprovedByTwoOthers
    /\ CommittedAfterFinalisation
    /\ NeverOverspent

=============================================================================
