-------------------- MODULE ComplianceEvaluationContract --------------------
(***************************************************************************)
(* The Compliance Evaluation contract                                      *)
(* (contracts/contracts/ComplianceEvaluationContract.sol): reports judged  *)
(* against the targets of a finalised agreement, and requests to spend     *)
(* from its budget.  It reads the Agreement contract through its views and *)
(* calls its commitSpend; a call is a conjunct of the caller's action, so  *)
(* a revert of the callee disables, that is reverts, the whole             *)
(* transaction.                                                            *)
(*                                                                         *)
(* The purpose of a request and the times createdAt and spentAt are left   *)
(* out: the contracts only store them.                                     *)
(***************************************************************************)
EXTENDS AgreementContract

CONSTANTS
    VerificationAddress,  \* where the Verification contract is deployed
    NoHash,               \* bytes32(0)
    DocumentHashes,       \* fingerprints a report or a request may carry
    ReceiptHashes,        \* fingerprints a settled request may carry
    ReportedValues,       \* values an NGO may report
    Amounts,              \* amounts an NGO may ask for
    MaxRecords,           \* bound: compliance records submitted
    MaxSpendRequests      \* bound: spend requests raised

Results == {"PENDING", "PASS", "FAIL", "FLAG"}

RecordIds == 1 .. MaxRecords

SpendRequestIds == 1 .. MaxSpendRequests

ASSUME ReportsAssumption ==
    /\ VerificationAddress \notin Accounts \cup {ZeroAddress}
    /\ NoHash \notin DocumentHashes \cup ReceiptHashes
    /\ ReportedValues \subseteq Nat
    /\ Amounts \subseteq Nat

ASSUME ComplianceBoundsAssumption ==
    /\ MaxRecords \in Nat
    /\ MaxSpendRequests \in Nat

VARIABLES
    now,                 \* block.timestamp of the block being built
    nextRecordId,        \* id the next record will get
    records,             \* id -> compliance record
    failingRecordCount,  \* agreement id -> records that evaluated to FAIL
    nextSpendRequestId,  \* id the next spend request will get
    spendRequests,       \* id -> spend request
    verificationContract \* the one address that may settle both

complianceVars ==
    <<nextRecordId, records, failingRecordCount, nextSpendRequestId,
      spendRequests, verificationContract>>

-----------------------------------------------------------------------------

ComplianceRecord ==
    [id : Nat,
     agreementId : Nat,
     targetIndex : Nat,
     reportedValue : Nat,
     result : Results,
     evaluatedAt : Nat,
     submitter : Accounts \cup {ZeroAddress},
     finalised : BOOLEAN,
     documentHash : DocumentHashes \cup {NoHash},
     unverified : BOOLEAN]

UnsetRecord ==
    [id |-> 0, agreementId |-> 0, targetIndex |-> 0, reportedValue |-> 0,
     result |-> "PENDING", evaluatedAt |-> 0, submitter |-> ZeroAddress,
     finalised |-> FALSE, documentHash |-> NoHash, unverified |-> FALSE]

SpendRequest ==
    [id : Nat,
     agreementId : Nat,
     amount : Nat,
     documentHash : DocumentHashes \cup {NoHash},
     requester : Accounts \cup {ZeroAddress},
     approved : BOOLEAN,
     spent : BOOLEAN,
     receiptHash : ReceiptHashes \cup {NoHash}]

UnsetSpendRequest ==
    [id |-> 0, agreementId |-> 0, amount |-> 0, documentHash |-> NoHash,
     requester |-> ZeroAddress, approved |-> FALSE, spent |-> FALSE,
     receiptHash |-> NoHash]

ComplianceTypeOK ==
    /\ now \in Nat \ {0}
    /\ nextRecordId \in 1 .. MaxRecords + 1
    /\ records \in [RecordIds -> ComplianceRecord]
    /\ failingRecordCount \in [AgreementIds -> Nat]
    /\ nextSpendRequestId \in 1 .. MaxSpendRequests + 1
    /\ spendRequests \in [SpendRequestIds -> SpendRequest]
    /\ verificationContract \in {ZeroAddress, VerificationAddress}

ComplianceInit ==
    /\ now = 1
    /\ nextRecordId = 1
    /\ records = [r \in RecordIds |-> UnsetRecord]
    /\ failingRecordCount = [id \in AgreementIds |-> 0]
    /\ nextSpendRequestId = 1
    /\ spendRequests = [q \in SpendRequestIds |-> UnsetSpendRequest]
    /\ verificationContract = ZeroAddress

RecordExists(r) == records[r].id # 0

SpendRequestExists(q) == spendRequests[q].id # 0

-----------------------------------------------------------------------------
(* Reports. *)

\* A value at the threshold passes, and one reported in the deadline's own
\* second is still on time.
Evaluate(value, target, timestamp) ==
    IF value < target.threshold THEN "FAIL"
    ELSE IF timestamp > target.deadline THEN "FLAG" ELSE "PASS"

Failures(id, result) ==
    IF result = "FAIL"
    THEN [failingRecordCount EXCEPT ![id] = @ + 1]
    ELSE failingRecordCount

SubmitReport(sender, id, index, value, documentHash) ==
    LET result == Evaluate(value, GetTarget(id, index), now)
    IN  /\ IsOrgType(sender, "NGO")
        /\ IsFinalised(id)
        /\ index < TargetCount(id)
        /\ nextRecordId \in RecordIds
        /\ records' = [records EXCEPT ![nextRecordId] =
                [id |-> nextRecordId,
                 agreementId |-> id,
                 targetIndex |-> index,
                 reportedValue |-> value,
                 result |-> result,
                 evaluatedAt |-> now,
                 submitter |-> sender,
                 finalised |-> FALSE,
                 documentHash |-> documentHash,
                 unverified |-> FALSE]]
        /\ nextRecordId' = nextRecordId + 1
        /\ failingRecordCount' = Failures(id, result)
        /\ UNCHANGED agreementVars
        /\ UNCHANGED <<nextSpendRequestId, spendRequests,
                       verificationContract>>

AllButRecords ==
    <<agreementVars, nextRecordId, failingRecordCount, nextSpendRequestId,
      spendRequests, verificationContract>>

\* Mutant: finalising restamps the evaluation time.
MarkFinalisedNow(sender, r) ==
    /\ sender = verificationContract
    /\ RecordExists(r)
    /\ records' = [records EXCEPT ![r].finalised = TRUE,
                                  ![r].evaluatedAt = now]
    /\ UNCHANGED AllButRecords

\* There is no check of unverified here: the Verification contract makes it.
MayMarkFinalised(sender, r) ==
    /\ sender = verificationContract
    /\ RecordExists(r)

MarkFinalised(sender, r) ==
    /\ MayMarkFinalised(sender, r)
    /\ records' = [records EXCEPT ![r].finalised = TRUE]
    /\ UNCHANGED AllButRecords

MayMarkUnverified(sender, r) ==
    /\ sender = verificationContract
    /\ RecordExists(r)
    /\ ~records[r].finalised

MarkUnverified(sender, r) ==
    /\ MayMarkUnverified(sender, r)
    /\ records' = [records EXCEPT ![r].unverified = TRUE]
    /\ UNCHANGED AllButRecords

-----------------------------------------------------------------------------
(* Spend requests. *)

CreateSpendRequest(sender, id, amount, documentHash) ==
    /\ IsOrgType(sender, "NGO")
    /\ IsFinalised(id)
    /\ amount > 0
    /\ amount <= RemainingBudget(id)
    /\ nextSpendRequestId \in SpendRequestIds
    /\ spendRequests' = [spendRequests EXCEPT ![nextSpendRequestId] =
            [id |-> nextSpendRequestId,
             agreementId |-> id,
             amount |-> amount,
             documentHash |-> documentHash,
             requester |-> sender,
             approved |-> FALSE,
             spent |-> FALSE,
             receiptHash |-> NoHash]]
    /\ nextSpendRequestId' = nextSpendRequestId + 1
    /\ UNCHANGED agreementVars
    /\ UNCHANGED <<nextRecordId, records, failingRecordCount,
                   verificationContract>>

MayMarkSpendApproved(sender, q) ==
    /\ sender = verificationContract
    /\ SpendRequestExists(q)
    /\ ~spendRequests[q].approved

\* Approving and committing are one transaction: a commit that would
\* overspend takes the approval down with it.
MarkSpendApproved(sender, q) ==
    /\ MayMarkSpendApproved(sender, q)
    /\ spendRequests' = [spendRequests EXCEPT ![q].approved = TRUE]
    /\ CommitSpend(ComplianceAddress, spendRequests[q].agreementId,
                   spendRequests[q].amount)
    /\ UNCHANGED <<nextRecordId, records, failingRecordCount,
                   nextSpendRequestId, verificationContract>>

PinReceipt(q, receiptHash) ==
    /\ spendRequests' = [spendRequests EXCEPT ![q].spent = TRUE,
                                              ![q].receiptHash = receiptHash]
    /\ UNCHANGED <<agreementVars, nextRecordId, records, failingRecordCount,
                   nextSpendRequestId, verificationContract>>

\* Mutant: a settled request can be settled again.
MarkSpentAgain(sender, q, receiptHash) ==
    /\ spendRequests[q].approved
    /\ sender = spendRequests[q].requester
    /\ receiptHash # NoHash
    /\ PinReceipt(q, receiptHash)

MayMarkSpent(sender, q, receiptHash) ==
    /\ SpendRequestExists(q)
    /\ spendRequests[q].approved
    /\ sender = spendRequests[q].requester
    /\ ~spendRequests[q].spent
    /\ receiptHash # NoHash

MarkSpent(sender, q, receiptHash) ==
    /\ MayMarkSpent(sender, q, receiptHash)
    /\ PinReceipt(q, receiptHash)

SetVerificationContract(sender, v) ==
    /\ sender = Owner
    /\ verificationContract = ZeroAddress
    /\ verificationContract' = v
    /\ UNCHANGED agreementVars
    /\ UNCHANGED <<nextRecordId, records, failingRecordCount,
                   nextSpendRequestId, spendRequests>>

-----------------------------------------------------------------------------

\* The transactions an account can send to this contract.
ComplianceNext ==
    \E sender \in Accounts :
        \/ \E id \in AgreementIds, hash \in DocumentHashes \cup {NoHash} :
                \/ \E index \in 0 .. MaxTargets - 1,
                      value \in ReportedValues :
                        SubmitReport(sender, id, index, value, hash)
                \/ \E amount \in Amounts :
                        CreateSpendRequest(sender, id, amount, hash)
        \/ \E q \in SpendRequestIds, hash \in ReceiptHashes \cup {NoHash} :
                MarkSpent(sender, q, hash)
        \/ SetVerificationContract(sender, VerificationAddress)

=============================================================================
