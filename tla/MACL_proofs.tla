----------------------------- MODULE MACL_proofs -----------------------------
(***************************************************************************)
(* Type correctness of the ledger of MACL, contract by contract, and its   *)
(* inductive invariant LedgerInv with what follows from it, for every set  *)
(* of accounts, every terms and every bound.                               *)
(*                                                                         *)
(* The argument goes transaction by transaction.  A transaction to the     *)
(* Agreement contract leaves finalised agreements and committed figures    *)
(* alone (AgreementNextFrame), and every record and request hangs on a     *)
(* finalised agreement.  A new record or request takes an id nobody could  *)
(* have voted on.  A vote is counted once because the voter's flag was     *)
(* down, so the counter equals the number of voters, and it settles its    *)
(* subject exactly when it makes two.                                      *)
(***************************************************************************)
EXTENDS MACL, FiniteSetTheorems, TLAPS

-----------------------------------------------------------------------------
(* The Agreement contract keeps its types. *)

LEMMA RegistryTxType ==
  ASSUME AgreementTypeOK, NEW sender \in Accounts, RegistryTx(sender)
  PROVE  AgreementTypeOK'
<1>1. ASSUME NEW account \in Registrable, NEW orgType \in OrgTypes,
             RegisterOrganisation(sender, account, orgType)
      PROVE  AgreementTypeOK'
  BY <1>1, AccountsAssumption
  DEF RegisterOrganisation, AgreementTypeOK, Organisation
<1>2. ASSUME NEW account \in Registrable, RemoveOrganisation(sender, account)
      PROVE  AgreementTypeOK'
  BY <1>2, AccountsAssumption
  DEF RemoveOrganisation, AgreementTypeOK, Organisation
<1>3. QED
  BY <1>1, <1>2 DEF RegistryTx

LEMMA CreateAgreementType ==
  ASSUME AgreementTypeOK, NEW sender \in Accounts,
         NEW start \in Nat, NEW end \in Nat,
         NEW signatories \in SUBSET Accounts,
         CreateAgreement(sender, start, end, signatories)
  PROVE  AgreementTypeOK'
<1> DEFINE n == nextAgreementId
           new == [agreements[n] EXCEPT !.id = n, !.creator = sender,
                                        !.startDate = start,
                                        !.endDate = end,
                                        !.signatories = signatories]
<1>1. n \in AgreementIds /\ n \in Nat /\ agreements[n] \in Agreement
  BY DEF CreateAgreement, AgreementTypeOK, AgreementIds
<1>2. new \in Agreement
  BY <1>1 DEF Agreement
<1>3. agreements' = [agreements EXCEPT ![n] = new]
  BY DEF CreateAgreement
<1>4. agreements' \in [AgreementIds -> Agreement]
  BY <1>1, <1>2, <1>3 DEF AgreementTypeOK
<1>5. nextAgreementId' \in 1 .. MaxAgreements + 1
  BY <1>1, AgreementBoundsAssumption
  DEF CreateAgreement, AgreementTypeOK, AgreementIds
<1>6. QED
  BY <1>4, <1>5 DEF CreateAgreement, AgreementTypeOK

LEMMA DraftTxType ==
  ASSUME AgreementTypeOK, NEW sender \in Accounts, NEW id \in AgreementIds,
         DraftTx(sender, id)
  PROVE  AgreementTypeOK'
<1>1. ASSUME NEW t \in Thresholds, NEW d \in Deadlines,
             AddTarget(sender, id, [threshold |-> t, deadline |-> d])
      PROVE  AgreementTypeOK'
  BY <1>1, TermsAssumption DEF AddTarget, AgreementTypeOK, Target
<1>2. ASSUME NEW t \in Thresholds, NEW d \in Deadlines,
             NEW index \in 0 .. MaxTargets - 1,
             EditTarget(sender, id, index, [threshold |-> t, deadline |-> d])
      PROVE  AgreementTypeOK'
  <2>1. /\ index + 1 \in DOMAIN agreementTargets[id]
        /\ agreementTargets[id] \in Seq(Target)
    BY <1>2, AgreementBoundsAssumption
    DEF EditTarget, AgreementTypeOK, TargetCount
  <2>2. [threshold |-> t, deadline |-> d] \in Target
    BY TermsAssumption DEF Target
  <2>3. agreementTargets' \in [AgreementIds -> Seq(Target)]
    BY <1>2, <2>1, <2>2 DEF EditTarget, AgreementTypeOK
  <2>4. QED
    BY <1>2, <2>3 DEF EditTarget, AgreementTypeOK
<1>3. ASSUME NEW index \in 0 .. MaxTargets - 1, RemoveTarget(sender, id, index)
      PROVE  AgreementTypeOK'
  BY <1>3, AgreementBoundsAssumption
  DEF RemoveTarget, AgreementTypeOK, RemoveAt, TargetCount
<1>4. ASSUME NEW start \in Dates, NEW end \in Dates,
             UpdateDates(sender, id, start, end)
      PROVE  AgreementTypeOK'
  <2> DEFINE new == [agreements[id] EXCEPT !.startDate = start,
                                           !.endDate = end]
  <2>1. agreements[id] \in Agreement /\ start \in Nat /\ end \in Nat
    BY TermsAssumption DEF AgreementTypeOK
  <2>2. new \in Agreement
    BY <2>1 DEF Agreement
  <2>3. agreements' = [agreements EXCEPT ![id] = new]
    BY <1>4 DEF UpdateDates, AgreementTypeOK
  <2>4. QED
    BY <1>4, <2>2, <2>3 DEF UpdateDates, AgreementTypeOK
<1>5. ASSUME NEW budget \in Budgets, SetBudget(sender, id, budget)
      PROVE  AgreementTypeOK'
  <2> DEFINE new == [agreements[id] EXCEPT !.budget = budget]
  <2>1. agreements[id] \in Agreement /\ budget \in Nat
    BY TermsAssumption DEF AgreementTypeOK
  <2>2. new \in Agreement
    BY <2>1 DEF Agreement
  <2>3. agreements' = [agreements EXCEPT ![id] = new]
    BY <1>5 DEF SetBudget, AgreementTypeOK
  <2>4. QED
    BY <1>5, <2>2, <2>3 DEF SetBudget, AgreementTypeOK
<1>6. ASSUME FinaliseAgreement(sender, id)
      PROVE  AgreementTypeOK'
  BY <1>6 DEF FinaliseAgreement, AgreementTypeOK, Agreement
<1>7. QED
  BY <1>1, <1>2, <1>3, <1>4, <1>5, <1>6 DEF DraftTx

LEMMA AgreementNextType ==
  ASSUME AgreementTypeOK, AgreementNext
  PROVE  AgreementTypeOK'
<1>1. ASSUME NEW sender \in Accounts,
             SetComplianceContract(sender, ComplianceAddress)
      PROVE  AgreementTypeOK'
  BY <1>1 DEF SetComplianceContract, AgreementTypeOK
<1>2. ASSUME NEW sender \in Accounts, NEW start \in Dates, NEW end \in Dates,
             NEW signatories \in SignatorySets,
             CreateAgreement(sender, start, end, signatories)
      PROVE  AgreementTypeOK'
  <2>1. start \in Nat /\ end \in Nat /\ signatories \in SUBSET Accounts
    BY TermsAssumption
  <2>2. QED
    BY <1>2, <2>1, CreateAgreementType
<1>3. QED
  BY <1>1, <1>2, RegistryTxType, DraftTxType DEF AgreementNext

\* commitSpend keeps the types whoever calls it, for whatever agreement.
LEMMA CommitSpendType ==
  ASSUME AgreementTypeOK, NEW caller, NEW id, NEW amount \in Nat,
         CommitSpend(caller, id, amount)
  PROVE  AgreementTypeOK'
<1>1. CASE id \notin AgreementIds
  <2>1. agreements' = agreements
    BY <1>1 DEF CommitSpend, MayCommit, AddToCommitted, AgreementTypeOK
  <2>2. QED
    BY <2>1 DEF CommitSpend, MayCommit, AddToCommitted, AgreementTypeOK
<1>2. CASE id \in AgreementIds
  <2> DEFINE new == [agreements[id] EXCEPT
                        !.committedSpend = agreements[id].committedSpend
                                           + amount]
  <2>1. agreements[id] \in Agreement
    BY <1>2 DEF AgreementTypeOK
  <2>2. agreements[id].committedSpend + amount \in Nat
    BY <2>1 DEF Agreement
  <2>3. new \in Agreement
    BY <2>1, <2>2 DEF Agreement
  <2>4. agreements' = [agreements EXCEPT ![id] = new]
    BY <1>2 DEF CommitSpend, MayCommit, AddToCommitted, AgreementTypeOK
  <2>5. QED
    BY <2>3, <2>4, <1>2 DEF CommitSpend, MayCommit, AddToCommitted,
          AgreementTypeOK
<1>3. QED
  BY <1>1, <1>2

-----------------------------------------------------------------------------
(* The Compliance contract keeps its types, and those of the contract it   *)
(* calls.                                                                  *)

LEMMA SubmitReportType ==
  ASSUME AgreementTypeOK, ComplianceTypeOK, NEW sender \in Accounts,
         NEW id \in AgreementIds, NEW index \in Nat, NEW value \in Nat,
         NEW hash \in DocumentHashes \cup {NoHash},
         SubmitReport(sender, id, index, value, hash), now' = now
  PROVE  ComplianceTypeOK'
<1> DEFINE n == nextRecordId
           verdict == Evaluate(value, GetTarget(id, index), now)
           new == [id |-> n, agreementId |-> id, targetIndex |-> index,
                   reportedValue |-> value, result |-> verdict,
                   evaluatedAt |-> now, submitter |-> sender,
                   finalised |-> FALSE, documentHash |-> hash,
                   unverified |-> FALSE]
<1>1. verdict \in Results
  BY DEF Evaluate, Results
<1>2. n \in RecordIds /\ n \in Nat /\ id \in Nat /\ now \in Nat
  BY AgreementBoundsAssumption
  DEF SubmitReport, ComplianceTypeOK, AgreementIds, RecordIds
<1>3. new \in ComplianceRecord
  BY <1>1, <1>2 DEF ComplianceRecord
<1>4. records' = [records EXCEPT ![n] = new]
  BY DEF SubmitReport
<1>5. records' \in [RecordIds -> ComplianceRecord]
  BY <1>2, <1>3, <1>4 DEF ComplianceTypeOK
<1>6. failingRecordCount' \in [AgreementIds -> Nat]
  BY DEF SubmitReport, Failures, ComplianceTypeOK
<1>7. nextRecordId' \in 1 .. MaxRecords + 1
  BY <1>2, ComplianceBoundsAssumption DEF SubmitReport, RecordIds
<1>8. QED
  BY <1>5, <1>6, <1>7 DEF SubmitReport, ComplianceTypeOK

LEMMA CreateSpendRequestType ==
  ASSUME AgreementTypeOK, ComplianceTypeOK, NEW sender \in Accounts,
         NEW id \in AgreementIds, NEW amount \in Nat,
         NEW hash \in DocumentHashes \cup {NoHash},
         CreateSpendRequest(sender, id, amount, hash), now' = now
  PROVE  ComplianceTypeOK'
<1> DEFINE n == nextSpendRequestId
           new == [id |-> n, agreementId |-> id, amount |-> amount,
                   documentHash |-> hash, requester |-> sender,
                   approved |-> FALSE, spent |-> FALSE,
                   receiptHash |-> NoHash]
<1>1. n \in SpendRequestIds /\ n \in Nat /\ id \in Nat
  BY AgreementBoundsAssumption
  DEF CreateSpendRequest, ComplianceTypeOK, AgreementIds, SpendRequestIds
<1>2. new \in SpendRequest
  BY <1>1 DEF SpendRequest
<1>3. spendRequests' = [spendRequests EXCEPT ![n] = new]
  BY DEF CreateSpendRequest
<1>4. spendRequests' \in [SpendRequestIds -> SpendRequest]
  BY <1>1, <1>2, <1>3 DEF ComplianceTypeOK
<1>5. nextSpendRequestId' \in 1 .. MaxSpendRequests + 1
  BY <1>1, ComplianceBoundsAssumption DEF CreateSpendRequest, SpendRequestIds
<1>6. QED
  BY <1>4, <1>5 DEF CreateSpendRequest, ComplianceTypeOK

LEMMA MarkSpentType ==
  ASSUME AgreementTypeOK, ComplianceTypeOK, NEW sender \in Accounts,
         NEW q \in SpendRequestIds, NEW hash \in ReceiptHashes \cup {NoHash},
         MarkSpent(sender, q, hash), now' = now
  PROVE  ComplianceTypeOK'
<1> DEFINE new == [spendRequests[q] EXCEPT !.spent = TRUE,
                                           !.receiptHash = hash]
<1>1. spendRequests[q] \in SpendRequest
  BY DEF ComplianceTypeOK
<1>2. new \in SpendRequest
  BY <1>1 DEF SpendRequest
<1>3. spendRequests' = [spendRequests EXCEPT ![q] = new]
  BY DEF MarkSpent, MayMarkSpent, PinReceipt, ComplianceTypeOK
<1>4. QED
  BY <1>2, <1>3 DEF MarkSpent, MayMarkSpent, PinReceipt, ComplianceTypeOK

LEMMA ComplianceNextType ==
  ASSUME AgreementTypeOK, ComplianceTypeOK, ComplianceNext, now' = now
  PROVE  AgreementTypeOK' /\ ComplianceTypeOK'
<1>1. UNCHANGED agreementVars
  <2>1. ASSUME NEW sender, NEW id, NEW index, NEW value, NEW hash,
               SubmitReport(sender, id, index, value, hash)
        PROVE  UNCHANGED agreementVars
    BY <2>1 DEF SubmitReport
  <2>2. ASSUME NEW sender, NEW id, NEW amount, NEW hash,
               CreateSpendRequest(sender, id, amount, hash)
        PROVE  UNCHANGED agreementVars
    BY <2>2 DEF CreateSpendRequest
  <2>3. ASSUME NEW sender, NEW q, NEW hash, MarkSpent(sender, q, hash)
        PROVE  UNCHANGED agreementVars
    BY <2>3 DEF MarkSpent, MayMarkSpent, PinReceipt
  <2>4. QED
    BY <2>1, <2>2, <2>3 DEF ComplianceNext, SetVerificationContract
<1>2. AgreementTypeOK'
  BY <1>1 DEF agreementVars, AgreementTypeOK
<1>3. ASSUME NEW sender \in Accounts, NEW id \in AgreementIds,
             NEW hash \in DocumentHashes \cup {NoHash},
             NEW index \in 0 .. MaxTargets - 1, NEW value \in ReportedValues,
             SubmitReport(sender, id, index, value, hash)
      PROVE  ComplianceTypeOK'
  <2>1. index \in Nat /\ value \in Nat
    BY AgreementBoundsAssumption, ReportsAssumption
  <2>2. QED
    BY <1>3, <2>1, SubmitReportType
<1>4. ASSUME NEW sender \in Accounts, NEW id \in AgreementIds,
             NEW hash \in DocumentHashes \cup {NoHash}, NEW amount \in Amounts,
             CreateSpendRequest(sender, id, amount, hash)
      PROVE  ComplianceTypeOK'
  <2>1. amount \in Nat
    BY ReportsAssumption
  <2>2. QED
    BY <1>4, <2>1, CreateSpendRequestType
<1>5. ASSUME NEW sender \in Accounts,
             SetVerificationContract(sender, VerificationAddress)
      PROVE  ComplianceTypeOK'
  BY <1>5 DEF SetVerificationContract, ComplianceTypeOK
<1>6. QED
  BY <1>2, <1>3, <1>4, <1>5, MarkSpentType DEF ComplianceNext

\* The entry points of the Verification contract keep the types whoever
\* calls them.
LEMMA MarkFinalisedType ==
  ASSUME AgreementTypeOK, ComplianceTypeOK, NEW caller, NEW r \in RecordIds,
         MarkFinalised(caller, r) \/ MarkUnverified(caller, r), now' = now
  PROVE  AgreementTypeOK' /\ ComplianceTypeOK'
<1>1. UNCHANGED AllButRecords
  BY DEF MarkFinalised, MayMarkFinalised, MarkUnverified, MayMarkUnverified
<1>2. AgreementTypeOK'
  BY <1>1 DEF AllButRecords, agreementVars, AgreementTypeOK
<1>3. PICK f \in {"finalised", "unverified"} :
           records' = [records EXCEPT ![r] = [records[r] EXCEPT ![f] = TRUE]]
  <2>1. CASE MarkFinalised(caller, r)
    BY <2>1 DEF MarkFinalised, MayMarkFinalised, ComplianceTypeOK
  <2>2. CASE MarkUnverified(caller, r)
    BY <2>2 DEF MarkUnverified, MayMarkUnverified, ComplianceTypeOK
  <2>3. QED
    BY <2>1, <2>2
<1>4. [records[r] EXCEPT ![f] = TRUE] \in ComplianceRecord
  BY DEF ComplianceTypeOK, ComplianceRecord
<1>5. records' \in [RecordIds -> ComplianceRecord]
  BY <1>3, <1>4 DEF ComplianceTypeOK
<1>6. QED
  BY <1>1, <1>2, <1>5 DEF AllButRecords, ComplianceTypeOK

LEMMA MarkSpendApprovedType ==
  ASSUME AgreementTypeOK, ComplianceTypeOK, NEW caller,
         NEW q \in SpendRequestIds, MarkSpendApproved(caller, q), now' = now
  PROVE  AgreementTypeOK' /\ ComplianceTypeOK'
<1>1. spendRequests[q] \in SpendRequest /\ spendRequests[q].amount \in Nat
  BY DEF ComplianceTypeOK, SpendRequest
<1>2. AgreementTypeOK'
  BY <1>1, CommitSpendType DEF MarkSpendApproved, MayMarkSpendApproved
<1>3. spendRequests' \in [SpendRequestIds -> SpendRequest]
  BY <1>1 DEF MarkSpendApproved, MayMarkSpendApproved, ComplianceTypeOK,
        SpendRequest
<1>4. QED
  BY <1>2, <1>3 DEF MarkSpendApproved, MayMarkSpendApproved, ComplianceTypeOK

-----------------------------------------------------------------------------
(* The Verification contract keeps its types, and those of the contract it *)
(* calls.                                                                  *)

LEMMA EndorseType ==
  ASSUME TypeOK, NEW sender \in Accounts, NEW r \in RecordIds,
         Endorse(sender, r), now' = now
  PROVE  TypeOK'
<1>1. CASE endorsementCount[r] + 1 = ENDORSEMENT_THRESHOLD
  <2>1. MarkFinalised(VerificationAddress, r)
    BY <1>1 DEF Endorse, MayEndorse, CountEndorsement, FinaliseAtThreshold,
          PinAndFinalise
  <2>2. AgreementTypeOK' /\ ComplianceTypeOK'
    BY <2>1, MarkFinalisedType DEF TypeOK
  <2>3. now \in Nat
    BY DEF TypeOK, ComplianceTypeOK
  <2>4. VerificationTypeOK'
    BY <1>1, <2>3
    DEF Endorse, MayEndorse, CountEndorsement, FinaliseAtThreshold,
        PinAndFinalise, ParentBlockHash, TypeOK, VerificationTypeOK, spendVotes
  <2>5. QED
    BY <2>2, <2>4 DEF TypeOK
<1>2. CASE endorsementCount[r] + 1 # ENDORSEMENT_THRESHOLD
  <2>1. UNCHANGED <<finalisedBlockHash, agreementVars, complianceVars>>
    BY <1>2 DEF Endorse, MayEndorse, CountEndorsement, FinaliseAtThreshold
  <2>2. AgreementTypeOK' /\ ComplianceTypeOK'
    BY <2>1
    DEF TypeOK, agreementVars, complianceVars, AgreementTypeOK,
        ComplianceTypeOK
  <2>3. VerificationTypeOK'
    BY <2>1
    DEF Endorse, MayEndorse, CountEndorsement, TypeOK, VerificationTypeOK,
        spendVotes
  <2>4. QED
    BY <2>2, <2>3 DEF TypeOK
<1>3. QED
  BY <1>1, <1>2

LEMMA EndorseSpendType ==
  ASSUME TypeOK, NEW sender \in Accounts, NEW q \in SpendRequestIds,
         EndorseSpend(sender, q), now' = now
  PROVE  TypeOK'
<1>1. AgreementTypeOK' /\ ComplianceTypeOK'
  <2>1. CASE MarkSpendApproved(VerificationAddress, q)
    BY <2>1, MarkSpendApprovedType DEF TypeOK
  <2>2. CASE UNCHANGED <<agreementVars, complianceVars>>
    BY <2>2
    DEF TypeOK, agreementVars, complianceVars, AgreementTypeOK,
        ComplianceTypeOK
  <2>3. QED
    BY <2>1, <2>2 DEF EndorseSpend, MayEndorseSpend, CountSpendEndorsement
<1>2. VerificationTypeOK'
  BY DEF EndorseSpend, MayEndorseSpend, CountSpendEndorsement, TypeOK,
        VerificationTypeOK, recordVotes
<1>3. QED
  BY <1>1, <1>2 DEF TypeOK

LEMMA DeclineType ==
  ASSUME TypeOK, NEW sender \in Accounts,
         \/ \E r \in RecordIds : Decline(sender, r)
         \/ \E q \in SpendRequestIds : DeclineSpend(sender, q),
         now' = now
  PROVE  TypeOK'
<1>1. UNCHANGED <<agreementVars, complianceVars>>
  BY DEF Decline, MayDecline, DeclineSpend, MayDeclineSpend
<1>2. AgreementTypeOK' /\ ComplianceTypeOK'
  BY <1>1
  DEF TypeOK, agreementVars, complianceVars, AgreementTypeOK, ComplianceTypeOK
<1>3. VerificationTypeOK'
  BY DEF Decline, MayDecline, DeclineSpend, MayDeclineSpend, TypeOK,
        VerificationTypeOK, recordVotes, spendVotes
<1>4. QED
  BY <1>2, <1>3 DEF TypeOK

LEMMA VerificationNextType ==
  ASSUME TypeOK, VerificationNext, now' = now
  PROVE  TypeOK'
<1>1. ASSUME NEW sender \in Accounts, NEW window \in Windows,
             SetVerificationWindow(sender, window)
      PROVE  TypeOK'
  <2>1. window \in Nat \ {0}
    BY <1>1, WindowAssumption DEF SetVerificationWindow
  <2>2. UNCHANGED <<agreementVars, complianceVars, recordVotes, spendVotes>>
    BY <1>1 DEF SetVerificationWindow
  <2>3. AgreementTypeOK' /\ ComplianceTypeOK'
    BY <2>2
    DEF TypeOK, agreementVars, complianceVars, AgreementTypeOK,
        ComplianceTypeOK
  <2>4. VerificationTypeOK'
    BY <1>1, <2>1, <2>2
    DEF SetVerificationWindow, TypeOK, VerificationTypeOK, recordVotes,
        spendVotes
  <2>5. QED
    BY <2>3, <2>4 DEF TypeOK
<1>2. ASSUME NEW sender \in Accounts, NEW r \in RecordIds,
             MarkRecordUnverified(sender, r)
      PROVE  TypeOK'
  <2>1. AgreementTypeOK' /\ ComplianceTypeOK'
    BY <1>2, MarkFinalisedType DEF MarkRecordUnverified,
          MayMarkRecordUnverified, TypeOK
  <2>2. VerificationTypeOK'
    BY <1>2
    DEF MarkRecordUnverified, MayMarkRecordUnverified, TypeOK,
        VerificationTypeOK, verificationVars, recordVotes, spendVotes
  <2>3. QED
    BY <2>1, <2>2 DEF TypeOK
<1>3. QED
  BY <1>1, <1>2, EndorseType, EndorseSpendType, DeclineType
  DEF VerificationNext

-----------------------------------------------------------------------------
(* Type correctness of the whole ledger. *)

LEMMA InitTypeOK == Init => TypeOK
  BY AgreementBoundsAssumption, ComplianceBoundsAssumption, WindowAssumption
  DEF Init, AgreementInit, ComplianceInit, VerificationInit, TypeOK,
      AgreementTypeOK, ComplianceTypeOK, VerificationTypeOK, Organisation,
      OrgTypes, Agreement, ComplianceRecord, SpendRequest, Results,
      UnsetOrganisation, UnsetAgreement, UnsetRecord, UnsetSpendRequest

LEMMA DeployedInitTypeOK == DeployedInit => TypeOK
  BY SeedAssumption, AgreementBoundsAssumption, ComplianceBoundsAssumption,
     WindowAssumption
  DEF DeployedInit, VerificationInit, TypeOK, AgreementTypeOK,
      ComplianceTypeOK, VerificationTypeOK, Organisation, OrgTypes,
      Agreement, ComplianceRecord, SpendRequest, Results, UnsetOrganisation,
      UnsetAgreement, UnsetRecord, UnsetSpendRequest

LEMMA NextTypeOK == TypeOK /\ [Next]_vars => TypeOK'
<1> SUFFICES ASSUME TypeOK, [Next]_vars
             PROVE  TypeOK'
  OBVIOUS
<1>1. CASE AgreementTx
  <2>1. AgreementTypeOK'
    BY <1>1, AgreementNextType DEF AgreementTx, TypeOK
  <2>2. ComplianceTypeOK' /\ VerificationTypeOK'
    BY <1>1
    DEF AgreementTx, TypeOK, complianceVars, verificationVars, recordVotes,
        spendVotes, ComplianceTypeOK, VerificationTypeOK
  <2>3. QED
    BY <2>1, <2>2 DEF TypeOK
<1>2. CASE ComplianceTx
  <2>1. AgreementTypeOK' /\ ComplianceTypeOK'
    BY <1>2, ComplianceNextType DEF ComplianceTx, TypeOK
  <2>2. VerificationTypeOK'
    BY <1>2
    DEF ComplianceTx, TypeOK, verificationVars, recordVotes, spendVotes,
        VerificationTypeOK
  <2>3. QED
    BY <2>1, <2>2 DEF TypeOK
<1>3. CASE VerificationTx
  BY <1>3, VerificationNextType DEF VerificationTx
<1>4. CASE NextBlock
  <2>1. AgreementTypeOK' /\ VerificationTypeOK'
    BY <1>4
    DEF NextBlock, TypeOK, agreementVars, verificationVars, recordVotes,
        spendVotes, AgreementTypeOK, VerificationTypeOK
  <2>2. ComplianceTypeOK'
    BY <1>4 DEF NextBlock, TypeOK, complianceVars, ComplianceTypeOK
  <2>3. QED
    BY <2>1, <2>2 DEF TypeOK
<1>5. CASE UNCHANGED vars
  BY <1>5
  DEF vars, agreementVars, complianceVars, verificationVars, recordVotes,
      spendVotes, TypeOK, AgreementTypeOK, ComplianceTypeOK,
      VerificationTypeOK
<1>6. QED
  BY <1>1, <1>2, <1>3, <1>4, <1>5 DEF Next

\* The contracts keep every value in its type: from their constructors, and
\* from the state the deployment script leaves, no sequence of transactions
\* of any accounts corrupts a record or hands out an id out of range.
THEOREM TypeCorrect == Spec => []TypeOK
<1>1. QED
  BY InitTypeOK, NextTypeOK, PTL DEF Spec

THEOREM DeployedTypeCorrect == DeployedSpec => []TypeOK
<1>1. QED
  BY DeployedInitTypeOK, NextTypeOK, PTL DEF DeployedSpec

-----------------------------------------------------------------------------
(* Counting votes. *)

LEMMA VotersFinite ==
  ASSUME NEW S \in SUBSET Accounts
  PROVE  IsFiniteSet(S) /\ Cardinality(S) \in Nat
  BY AccountsAssumption, FS_Subset, FS_CardinalityType

LEMMA OneMoreVoter ==
  ASSUME NEW S \in SUBSET Accounts, NEW sender \in Accounts, sender \notin S
  PROVE  Cardinality(S \cup {sender}) = Cardinality(S) + 1
  BY VotersFinite, FS_AddElement

-----------------------------------------------------------------------------
(* What a transaction to the Agreement contract leaves alone. *)

\* What is finalised stays as it is, and what is committed stays committed.
Untouched(id) ==
    /\ IsFinalised(id) => /\ agreements'[id] = agreements[id]
                          /\ agreementTargets'[id] = agreementTargets[id]
    /\ agreements'[id].committedSpend = agreements[id].committedSpend

LEMMA AgreementNextFrame ==
  ASSUME TypeOK, AgreementsInOrder, AgreementNext
  PROVE  AgreementsInOrder' /\ \A id \in AgreementIds : Untouched(id)
<1> DEFINE Goal == AgreementsInOrder' /\ \A id \in AgreementIds : Untouched(id)
<1> USE DEF Untouched
<1>1. nextAgreementId \in Nat /\ AgreementIds \subseteq Nat
  BY AgreementBoundsAssumption DEF TypeOK, AgreementTypeOK, AgreementIds
<1>2. ASSUME NEW sender \in Accounts,
             RegistryTx(sender)
                \/ SetComplianceContract(sender, ComplianceAddress)
      PROVE  Goal
  BY <1>2
  DEF RegistryTx, RegisterOrganisation, RemoveOrganisation,
      SetComplianceContract, AgreementsInOrder
<1>3. ASSUME NEW sender \in Accounts, NEW start \in Dates, NEW end \in Dates,
             NEW signatories \in SignatorySets,
             CreateAgreement(sender, start, end, signatories)
      PROVE  Goal
  <2> DEFINE n == nextAgreementId
             new == [agreements[n] EXCEPT !.id = n, !.creator = sender,
                                          !.startDate = start,
                                          !.endDate = end,
                                          !.signatories = signatories]
  <2>1. n \in AgreementIds /\ agreements[n] = UnsetAgreement
    BY <1>1, <1>3 DEF CreateAgreement, AgreementsInOrder
  <2>2. agreements' = [agreements EXCEPT ![n] = new]
    BY <1>3 DEF CreateAgreement
  <2>3. ~IsFinalised(n) /\ new.committedSpend = agreements[n].committedSpend
    BY <2>1 DEF IsFinalised, UnsetAgreement
  <2>4. agreements'[n] = new
    BY <2>1, <2>2 DEF TypeOK, AgreementTypeOK
  <2>5. \A id \in AgreementIds : id # n => agreements'[id] = agreements[id]
    BY <2>2 DEF TypeOK, AgreementTypeOK
  <2>6. /\ nextAgreementId' = n + 1
        /\ agreementTargets' = agreementTargets
    BY <1>3 DEF CreateAgreement
  <2>7. AgreementsInOrder'
    BY <1>1, <2>1, <2>5, <2>6 DEF AgreementsInOrder
  <2>8. QED
    BY <2>3, <2>4, <2>5, <2>6, <2>7
<1>4. ASSUME NEW sender \in Accounts, NEW id \in AgreementIds,
             DraftTx(sender, id)
      PROVE  Goal
  <2>1. agreements[id].id # 0 /\ nextAgreementId' = nextAgreementId
    BY <1>4
    DEF DraftTx, MayEditDraft, AddTarget, EditTarget, RemoveTarget,
        UpdateDates, SetBudget, FinaliseAgreement
  <2>2. \A i \in AgreementIds :
            i # id => /\ agreements'[i] = agreements[i]
                      /\ agreementTargets'[i] = agreementTargets[i]
    BY <1>4
    DEF DraftTx, AddTarget, EditTarget, RemoveTarget, UpdateDates, SetBudget,
        FinaliseAgreement, TypeOK, AgreementTypeOK
  <2>3. ~(id >= nextAgreementId)
    BY <2>1 DEF AgreementsInOrder, UnsetAgreement
  <2>4. AgreementsInOrder'
    BY <2>1, <2>2, <2>3 DEF AgreementsInOrder
  <2>5. agreements[id] \in Agreement
    BY DEF TypeOK, AgreementTypeOK
  <2>6. agreements'[id].committedSpend = agreements[id].committedSpend
    BY <1>4, <2>5
    DEF DraftTx, AddTarget, EditTarget, RemoveTarget, UpdateDates, SetBudget,
        FinaliseAgreement, TypeOK, AgreementTypeOK, Agreement
  <2>7. ASSUME IsFinalised(id)
        PROVE  /\ agreements'[id] = agreements[id]
               /\ agreementTargets'[id] = agreementTargets[id]
    <3>1. FinaliseAgreement(sender, id)
      BY <1>4, <2>7
      DEF DraftTx, MayEditDraft, IsFinalised, AddTarget, EditTarget,
          RemoveTarget, UpdateDates, SetBudget
    <3>2. [agreements[id] EXCEPT !.finalised = TRUE] = agreements[id]
      BY <2>5, <2>7 DEF Agreement, IsFinalised
    <3>3. QED
      BY <3>1, <3>2 DEF FinaliseAgreement, TypeOK, AgreementTypeOK
  <2>8. QED
    BY <2>2, <2>4, <2>6, <2>7
<1>5. QED
  BY <1>2, <1>3, <1>4 DEF AgreementNext

-----------------------------------------------------------------------------
(* The contracts above keep their part of the invariant when the           *)
(* agreements they refer to are finalised and so untouched.                *)

LEMMA RecordHasItsAgreement ==
  ASSUME TypeOK, RecordsInOrder, NEW r \in RecordIds, RecordExists(r)
  PROVE  /\ r < nextRecordId
         /\ records[r].id = r
         /\ records[r].agreementId \in AgreementIds
         /\ IsFinalised(records[r].agreementId)
<1>1. r \in Int /\ nextRecordId \in Int
  BY ComplianceBoundsAssumption DEF TypeOK, ComplianceTypeOK, RecordIds
<1>2. ~(r >= nextRecordId)
  BY DEF RecordsInOrder, RecordExists, UnsetRecord
<1>3. QED
  BY <1>1, <1>2 DEF RecordsInOrder

LEMMA RequestHasItsAgreement ==
  ASSUME TypeOK, RequestsInOrder, NEW q \in SpendRequestIds,
         SpendRequestExists(q)
  PROVE  /\ q < nextSpendRequestId
         /\ spendRequests[q].id = q
         /\ spendRequests[q].agreementId \in AgreementIds
         /\ IsFinalised(spendRequests[q].agreementId)
<1>1. q \in Int /\ nextSpendRequestId \in Int
  BY ComplianceBoundsAssumption
  DEF TypeOK, ComplianceTypeOK, SpendRequestIds
<1>2. ~(q >= nextSpendRequestId)
  BY DEF RequestsInOrder, SpendRequestExists, UnsetSpendRequest
<1>3. QED
  BY <1>1, <1>2 DEF RequestsInOrder

LEMMA AgreementTxInv ==
  ASSUME TypeOK, TypeOK', LedgerInv, AgreementTx
  PROVE  LedgerInv'
<1>1. AgreementsInOrder' /\ \A id \in AgreementIds : Untouched(id)
  BY AgreementNextFrame DEF AgreementTx, LedgerInv
<1>2. UNCHANGED <<nextRecordId, records, nextSpendRequestId, spendRequests,
                  hasEndorsed, endorsementCount, hasDeclined,
                  hasEndorsedSpend, spendEndorsementCount, hasDeclinedSpend>>
  BY DEF AgreementTx, complianceVars, verificationVars, recordVotes,
         spendVotes
<1>3. RecordsInOrder'
  BY <1>1, <1>2 DEF LedgerInv, RecordsInOrder, Untouched, IsFinalised
<1>4. RequestsInOrder'
  BY <1>1, <1>2 DEF LedgerInv, RequestsInOrder, Untouched, IsFinalised
<1>5. VotesCounted' /\ OutcomesExclusive'
  BY <1>2 DEF LedgerInv, VotesCounted, OutcomesExclusive
<1>6. FinalisedByTwoSignatories'
  <2>1. ASSUME NEW r \in RecordIds, RecordExists(r)
        PROVE  agreements'[records[r].agreementId]
                    = agreements[records[r].agreementId]
    BY <1>1, <2>1, RecordHasItsAgreement DEF LedgerInv, Untouched
  <2>2. QED
    BY <1>2, <2>1 DEF LedgerInv, FinalisedByTwoSignatories, RecordExists
<1>7. ApprovedByTwoOthers'
  <2>1. ASSUME NEW q \in SpendRequestIds, SpendRequestExists(q)
        PROVE  agreements'[spendRequests[q].agreementId]
                    = agreements[spendRequests[q].agreementId]
    BY <1>1, <2>1, RequestHasItsAgreement DEF LedgerInv, Untouched
  <2>2. QED
    BY <1>2, <2>1 DEF LedgerInv, ApprovedByTwoOthers, SpendRequestExists
<1>8. CommittedAfterFinalisation'
  BY <1>1 DEF LedgerInv, CommittedAfterFinalisation, Untouched, IsFinalised
<1>9. NeverOverspent'
  <2> SUFFICES ASSUME NEW id \in AgreementIds
               PROVE  agreements'[id].committedSpend <= agreements'[id].budget
    BY DEF NeverOverspent
  <2>1. CASE IsFinalised(id)
    BY <1>1, <2>1 DEF LedgerInv, NeverOverspent, Untouched
  <2>2. CASE ~IsFinalised(id)
    <3>1. agreements'[id].committedSpend = 0
      BY <1>1, <2>2 DEF LedgerInv, CommittedAfterFinalisation, Untouched
    <3>2. agreements'[id].budget \in Nat
      BY DEF TypeOK, AgreementTypeOK, Agreement
    <3>3. QED
      BY <3>1, <3>2
  <2>3. QED
    BY <2>1, <2>2
<1>10. QED
  BY <1>1, <1>3, <1>4, <1>5, <1>6, <1>7, <1>8, <1>9 DEF LedgerInv

\* A transaction that leaves the agreements alone keeps what the invariant
\* says of them.
LEMMA SameAgreements ==
  ASSUME LedgerInv, UNCHANGED agreementVars
  PROVE  AgreementsInOrder' /\ CommittedAfterFinalisation' /\ NeverOverspent'
  BY DEF LedgerInv, agreementVars, AgreementsInOrder,
         CommittedAfterFinalisation, NeverOverspent, IsFinalised

LEMMA SameRequests ==
  ASSUME LedgerInv, UNCHANGED agreementVars,
         UNCHANGED <<nextSpendRequestId, spendRequests, hasEndorsedSpend,
                     hasDeclinedSpend>>
  PROVE  RequestsInOrder' /\ ApprovedByTwoOthers'
  BY DEF LedgerInv, agreementVars, RequestsInOrder, ApprovedByTwoOthers,
         IsFinalised, SpendRequestExists

LEMMA SameRecords ==
  ASSUME LedgerInv, UNCHANGED agreementVars,
         UNCHANGED <<nextRecordId, records, hasEndorsed, hasDeclined>>
  PROVE  RecordsInOrder' /\ FinalisedByTwoSignatories' /\ OutcomesExclusive'
  BY DEF LedgerInv, agreementVars, RecordsInOrder, FinalisedByTwoSignatories,
         OutcomesExclusive, IsFinalised, RecordExists

LEMMA SubmitReportInv ==
  ASSUME TypeOK, LedgerInv, NEW sender, NEW id \in AgreementIds, NEW index,
         NEW value, NEW hash, SubmitReport(sender, id, index, value, hash),
         UNCHANGED verificationVars
  PROVE  LedgerInv'
<1> DEFINE n == nextRecordId
<1>1. n \in RecordIds /\ n \in Nat /\ RecordIds \subseteq Nat
  BY ComplianceBoundsAssumption
  DEF SubmitReport, TypeOK, ComplianceTypeOK, RecordIds
<1>2. UNCHANGED agreementVars
  BY DEF SubmitReport
<1>3. /\ records'[n].id = n
      /\ records'[n].agreementId = id
      /\ ~records'[n].finalised
      /\ ~records'[n].unverified
  BY <1>1 DEF SubmitReport, TypeOK, ComplianceTypeOK
<1>4. \A r \in RecordIds : r # n => records'[r] = records[r]
  BY DEF SubmitReport, TypeOK, ComplianceTypeOK
<1>5. UNCHANGED <<nextSpendRequestId, spendRequests, hasEndorsed,
                  endorsementCount, hasDeclined, hasEndorsedSpend,
                  spendEndorsementCount, hasDeclinedSpend>>
  BY DEF SubmitReport, verificationVars, recordVotes, spendVotes
<1>6. records[n] = UnsetRecord /\ hasEndorsed[n] \cup hasDeclined[n] = {}
  <2>1. records[n] = UnsetRecord
    BY <1>1 DEF LedgerInv, RecordsInOrder
  <2>2. ~RecordExists(n)
    BY <2>1 DEF RecordExists, UnsetRecord
  <2>3. QED
    BY <1>1, <2>1, <2>2 DEF LedgerInv, FinalisedByTwoSignatories
<1>7. RecordsInOrder'
  <2>1. IsFinalised(id)' /\ nextRecordId' = n + 1
    BY <1>2 DEF SubmitReport, agreementVars, IsFinalised
  <2>2. ASSUME NEW r \in RecordIds
        PROVE  /\ r < n + 1 => /\ records'[r].id = r
                               /\ records'[r].agreementId \in AgreementIds
                               /\ agreements[records'[r].agreementId].finalised
               /\ r >= n + 1 => records'[r] = UnsetRecord
    <3>1. r \in Nat
      BY <1>1
    <3>2. CASE r = n
      BY <1>1, <1>3, <3>1, <3>2 DEF SubmitReport, IsFinalised
    <3>3. CASE r # n
      BY <1>1, <1>4, <3>1, <3>3 DEF LedgerInv, RecordsInOrder, IsFinalised
    <3>4. QED
      BY <3>2, <3>3
  <2>3. QED
    BY <1>2, <2>1, <2>2 DEF RecordsInOrder, agreementVars, IsFinalised
<1>8. FinalisedByTwoSignatories'
  <2>1. ~(Cardinality(hasEndorsed[n]) >= 2)
    BY <1>1, <1>6 DEF LedgerInv, FinalisedByTwoSignatories, UnsetRecord
  <2>2. QED
    BY <1>2, <1>3, <1>4, <1>5, <1>6, <2>1
    DEF LedgerInv, FinalisedByTwoSignatories, agreementVars, RecordExists
<1>9. OutcomesExclusive'
  BY <1>3, <1>4 DEF LedgerInv, OutcomesExclusive
<1>10. VotesCounted'
  BY <1>5 DEF LedgerInv, VotesCounted
<1>11. QED
  BY <1>2, <1>5, <1>7, <1>8, <1>9, <1>10, SameAgreements, SameRequests
  DEF LedgerInv

LEMMA CreateSpendRequestInv ==
  ASSUME TypeOK, LedgerInv, NEW sender, NEW id \in AgreementIds, NEW amount,
         NEW hash, CreateSpendRequest(sender, id, amount, hash),
         UNCHANGED verificationVars
  PROVE  LedgerInv'
<1> DEFINE n == nextSpendRequestId
<1>1. n \in SpendRequestIds /\ n \in Nat /\ SpendRequestIds \subseteq Nat
  BY ComplianceBoundsAssumption
  DEF CreateSpendRequest, TypeOK, ComplianceTypeOK, SpendRequestIds
<1>2. UNCHANGED agreementVars
  BY DEF CreateSpendRequest
<1>3. /\ spendRequests'[n].id = n
      /\ spendRequests'[n].agreementId = id
      /\ ~spendRequests'[n].approved
  BY <1>1 DEF CreateSpendRequest, TypeOK, ComplianceTypeOK
<1>4. \A q \in SpendRequestIds : q # n => spendRequests'[q] = spendRequests[q]
  BY DEF CreateSpendRequest, TypeOK, ComplianceTypeOK
<1>5. UNCHANGED <<nextRecordId, records, hasEndorsed, endorsementCount,
                  hasDeclined, hasEndorsedSpend, spendEndorsementCount,
                  hasDeclinedSpend>>
  BY DEF CreateSpendRequest, verificationVars, recordVotes, spendVotes
<1>6. /\ spendRequests[n] = UnsetSpendRequest
      /\ hasEndorsedSpend[n] \cup hasDeclinedSpend[n] = {}
  <2>1. spendRequests[n] = UnsetSpendRequest
    BY <1>1 DEF LedgerInv, RequestsInOrder
  <2>2. ~SpendRequestExists(n)
    BY <2>1 DEF SpendRequestExists, UnsetSpendRequest
  <2>3. QED
    BY <1>1, <2>1, <2>2 DEF LedgerInv, ApprovedByTwoOthers
<1>7. RequestsInOrder'
  <2>1. IsFinalised(id)' /\ nextSpendRequestId' = n + 1
    BY <1>2 DEF CreateSpendRequest, agreementVars, IsFinalised
  <2>2. ASSUME NEW q \in SpendRequestIds
        PROVE  /\ q < n + 1 =>
                    /\ spendRequests'[q].id = q
                    /\ spendRequests'[q].agreementId \in AgreementIds
                    /\ agreements[spendRequests'[q].agreementId].finalised
               /\ q >= n + 1 => spendRequests'[q] = UnsetSpendRequest
    <3>1. q \in Nat
      BY <1>1
    <3>2. CASE q = n
      BY <1>1, <1>3, <3>1, <3>2 DEF CreateSpendRequest, IsFinalised
    <3>3. CASE q # n
      BY <1>1, <1>4, <3>1, <3>3 DEF LedgerInv, RequestsInOrder, IsFinalised
    <3>4. QED
      BY <3>2, <3>3
  <2>3. QED
    BY <1>2, <2>1, <2>2 DEF RequestsInOrder, agreementVars, IsFinalised
<1>8. ApprovedByTwoOthers'
  <2>1. ~(Cardinality(hasEndorsedSpend[n]) >= 2)
    BY <1>1, <1>6 DEF LedgerInv, ApprovedByTwoOthers, UnsetSpendRequest
  <2>2. QED
    BY <1>2, <1>3, <1>4, <1>5, <1>6, <2>1
    DEF LedgerInv, ApprovedByTwoOthers, agreementVars, SpendRequestExists
<1>9. VotesCounted'
  BY <1>5 DEF LedgerInv, VotesCounted
<1>10. QED
  BY <1>2, <1>5, <1>7, <1>8, <1>9, SameAgreements, SameRecords
  DEF LedgerInv

LEMMA ComplianceTxInv ==
  ASSUME TypeOK, LedgerInv, ComplianceTx
  PROVE  LedgerInv'
<1>1. UNCHANGED verificationVars
  BY DEF ComplianceTx
<1>2. ASSUME NEW sender \in Accounts, NEW q \in SpendRequestIds, NEW hash,
             MarkSpent(sender, q, hash)
      PROVE  LedgerInv'
  <2>1. /\ UNCHANGED agreementVars
        /\ UNCHANGED <<nextRecordId, records, nextSpendRequestId, hasEndorsed,
                       endorsementCount, hasDeclined, hasEndorsedSpend,
                       spendEndorsementCount, hasDeclinedSpend>>
    BY <1>1, <1>2
    DEF MarkSpent, MayMarkSpent, PinReceipt, verificationVars, recordVotes,
        spendVotes, agreementVars
  <2>2. /\ spendRequests[q] \in SpendRequest
        /\ SpendRequestExists(q)
        /\ q \in Int /\ nextSpendRequestId \in Int
    BY <1>2, ComplianceBoundsAssumption
    DEF MarkSpent, MayMarkSpent, TypeOK, ComplianceTypeOK, SpendRequestIds
  <2>3. /\ \A p \in SpendRequestIds :
                /\ spendRequests'[p].id = spendRequests[p].id
                /\ spendRequests'[p].agreementId = spendRequests[p].agreementId
                /\ spendRequests'[p].requester = spendRequests[p].requester
                /\ spendRequests'[p].approved = spendRequests[p].approved
        /\ \A p \in SpendRequestIds :
                p # q => spendRequests'[p] = spendRequests[p]
    BY <1>2, <2>2
    DEF MarkSpent, MayMarkSpent, PinReceipt, TypeOK, ComplianceTypeOK,
        SpendRequest
  <2>4. RequestsInOrder'
    <3>1. q < nextSpendRequestId /\ ~(q >= nextSpendRequestId)
      BY <2>2, RequestHasItsAgreement DEF LedgerInv
    <3>2. ASSUME NEW p \in SpendRequestIds
          PROVE  /\ p < nextSpendRequestId =>
                    /\ spendRequests'[p].id = p
                    /\ spendRequests'[p].agreementId \in AgreementIds
                    /\ IsFinalised(spendRequests'[p].agreementId)
                 /\ p >= nextSpendRequestId =>
                        spendRequests'[p] = UnsetSpendRequest
      BY <2>3, <3>1 DEF LedgerInv, RequestsInOrder
    <3>3. QED
      BY <2>1, <3>2 DEF RequestsInOrder, agreementVars, IsFinalised
  <2>5. ApprovedByTwoOthers'
    BY <2>1, <2>3
    DEF LedgerInv, ApprovedByTwoOthers, agreementVars, SpendRequestExists
  <2>6. VotesCounted'
    BY <2>1 DEF LedgerInv, VotesCounted
  <2>7. QED
    BY <2>1, <2>4, <2>5, <2>6, SameAgreements, SameRecords DEF LedgerInv
<1>3. ASSUME NEW sender \in Accounts,
             SetVerificationContract(sender, VerificationAddress)
      PROVE  LedgerInv'
  <2>1. /\ UNCHANGED agreementVars
        /\ UNCHANGED <<nextRecordId, records, nextSpendRequestId,
                       spendRequests, hasEndorsed, endorsementCount,
                       hasDeclined, hasEndorsedSpend, spendEndorsementCount,
                       hasDeclinedSpend>>
    BY <1>1, <1>3
    DEF SetVerificationContract, verificationVars, recordVotes, spendVotes
  <2>2. VotesCounted'
    BY <2>1 DEF LedgerInv, VotesCounted
  <2>3. QED
    BY <2>1, <2>2, SameAgreements, SameRecords, SameRequests DEF LedgerInv
<1>4. QED
  BY <1>1, <1>2, <1>3, SubmitReportInv, CreateSpendRequestInv
  DEF ComplianceTx, ComplianceNext

-----------------------------------------------------------------------------
(* Votes on records. *)

LEMMA EndorseInv ==
  ASSUME TypeOK, LedgerInv, NEW sender \in Accounts, NEW r \in RecordIds,
         Endorse(sender, r)
  PROVE  LedgerInv'
<1> DEFINE S == hasEndorsed[r]
<1>1. /\ records[r] \in ComplianceRecord
      /\ S \in SUBSET Accounts
      /\ r \in Int /\ nextRecordId \in Int
  BY ComplianceBoundsAssumption
  DEF TypeOK, ComplianceTypeOK, VerificationTypeOK, RecordIds
<1>2. /\ r < nextRecordId
      /\ RecordExists(r)
  BY RecordHasItsAgreement DEF Endorse, MayEndorse, LedgerInv
<1>3. /\ Cardinality(S) \in Nat
      /\ Cardinality(S \cup {sender}) = Cardinality(S) + 1
      /\ endorsementCount[r] = Cardinality(S)
  BY <1>1, VotersFinite, OneMoreVoter DEF Endorse, MayEndorse, LedgerInv,
        VotesCounted
<1>4. /\ UNCHANGED agreementVars
      /\ UNCHANGED <<nextRecordId, hasDeclined, nextSpendRequestId,
                     spendRequests, hasEndorsedSpend, spendEndorsementCount,
                     hasDeclinedSpend>>
  BY DEF Endorse, MayEndorse, CountEndorsement, FinaliseAtThreshold,
        PinAndFinalise, MarkFinalised, MayMarkFinalised, AllButRecords,
        complianceVars, spendVotes
<1>5. /\ hasEndorsed'[r] = S \cup {sender}
      /\ endorsementCount'[r] = endorsementCount[r] + 1
      /\ \A p \in RecordIds :
            p # r => /\ hasEndorsed'[p] = hasEndorsed[p]
                     /\ endorsementCount'[p] = endorsementCount[p]
  BY DEF Endorse, MayEndorse, CountEndorsement, TypeOK, VerificationTypeOK
<1>6. /\ records'[r].id = records[r].id
      /\ records'[r].agreementId = records[r].agreementId
      /\ records'[r].unverified = records[r].unverified
      /\ \A p \in RecordIds : p # r => records'[p] = records[p]
  <2>1. CASE endorsementCount[r] + 1 = ENDORSEMENT_THRESHOLD
    BY <1>1, <2>1
    DEF Endorse, MayEndorse, CountEndorsement, FinaliseAtThreshold,
        PinAndFinalise, MarkFinalised, MayMarkFinalised, TypeOK,
        ComplianceTypeOK, ComplianceRecord
  <2>2. CASE endorsementCount[r] + 1 # ENDORSEMENT_THRESHOLD
    BY <2>2
    DEF Endorse, MayEndorse, CountEndorsement, FinaliseAtThreshold,
        complianceVars
  <2>3. QED
    BY <2>1, <2>2
<1>7. records'[r].finalised <=> Cardinality(hasEndorsed'[r]) >= 2
  <2>1. CASE endorsementCount[r] + 1 = 2
    <3>1. records' = [records EXCEPT ![r].finalised = TRUE]
      BY <2>1
      DEF Endorse, MayEndorse, CountEndorsement, FinaliseAtThreshold,
          PinAndFinalise, MarkFinalised, MayMarkFinalised,
          ENDORSEMENT_THRESHOLD
    <3>2. records'[r].finalised
      BY <1>1, <3>1 DEF TypeOK, ComplianceTypeOK, ComplianceRecord
    <3>3. QED
      BY <1>3, <1>5, <2>1, <3>2
  <2>2. CASE endorsementCount[r] + 1 # 2
    <3>1. records' = records
      BY <2>2
      DEF Endorse, MayEndorse, CountEndorsement, FinaliseAtThreshold,
          complianceVars, ENDORSEMENT_THRESHOLD
    <3>2. records[r].finalised <=> Cardinality(S) >= 2
      BY DEF LedgerInv, FinalisedByTwoSignatories
    <3>3. Cardinality(S) >= 2 <=> Cardinality(hasEndorsed'[r]) >= 2
      BY <1>3, <1>5, <2>2
    <3>4. QED
      BY <3>1, <3>2, <3>3
  <2>3. QED
    BY <2>1, <2>2
<1>8. RecordsInOrder'
  <2>1. ASSUME NEW p \in RecordIds
        PROVE  /\ p < nextRecordId =>
                    /\ records'[p].id = p
                    /\ records'[p].agreementId \in AgreementIds
                    /\ IsFinalised(records'[p].agreementId)
               /\ p >= nextRecordId => records'[p] = UnsetRecord
    BY <1>1, <1>2, <1>6 DEF LedgerInv, RecordsInOrder
  <2>2. QED
    BY <1>4, <2>1 DEF RecordsInOrder, agreementVars, IsFinalised
<1>9. FinalisedByTwoSignatories'
  <2>1. ASSUME NEW p \in RecordIds, p # r
        PROVE  /\ records[p] = records'[p]
               /\ hasEndorsed[p] = hasEndorsed'[p]
               /\ hasDeclined[p] = hasDeclined'[p]
    BY <1>4, <1>5, <1>6, <2>1
  <2>2. /\ hasEndorsed'[r] \cup hasDeclined'[r]
                \subseteq agreements[records[r].agreementId].signatories
        /\ hasEndorsed'[r] \cap hasDeclined'[r] = {}
    BY <1>4, <1>5
    DEF Endorse, MayEndorse, IsSignatory, LedgerInv, FinalisedByTwoSignatories
  <2>3. QED
    BY <1>2, <1>4, <1>6, <1>7, <2>1, <2>2
    DEF LedgerInv, FinalisedByTwoSignatories, agreementVars, RecordExists
<1>10. OutcomesExclusive'
  <2>1. ~records[r].unverified
    BY DEF Endorse, MayEndorse, StillVerifiable, LedgerInv, OutcomesExclusive
  <2>2. QED
    BY <1>6, <2>1 DEF LedgerInv, OutcomesExclusive
<1>11. VotesCounted'
  BY <1>3, <1>4, <1>5 DEF LedgerInv, VotesCounted
<1>12. QED
  BY <1>4, <1>8, <1>9, <1>10, <1>11, SameAgreements, SameRequests
  DEF LedgerInv

LEMMA DeclineInv ==
  ASSUME TypeOK, LedgerInv, NEW sender \in Accounts, NEW r \in RecordIds,
         Decline(sender, r)
  PROVE  LedgerInv'
<1>1. /\ UNCHANGED agreementVars
      /\ UNCHANGED <<nextRecordId, records, hasEndorsed, endorsementCount,
                     nextSpendRequestId, spendRequests, hasEndorsedSpend,
                     spendEndorsementCount, hasDeclinedSpend>>
  BY DEF Decline, MayDecline, complianceVars, spendVotes
<1>2. /\ hasDeclined'[r] = hasDeclined[r] \cup {sender}
      /\ \A p \in RecordIds : p # r => hasDeclined'[p] = hasDeclined[p]
  BY DEF Decline, MayDecline, TypeOK, VerificationTypeOK
<1>3. FinalisedByTwoSignatories'
  BY <1>1, <1>2
  DEF Decline, MayDecline, IsSignatory, LedgerInv, FinalisedByTwoSignatories,
      agreementVars, RecordExists
<1>4. RecordsInOrder' /\ OutcomesExclusive' /\ VotesCounted'
  BY <1>1
  DEF LedgerInv, RecordsInOrder, OutcomesExclusive, VotesCounted,
      agreementVars, IsFinalised
<1>5. QED
  BY <1>1, <1>3, <1>4, SameAgreements, SameRequests DEF LedgerInv

LEMMA MarkRecordUnverifiedInv ==
  ASSUME TypeOK, LedgerInv, NEW sender \in Accounts, NEW r \in RecordIds,
         MarkRecordUnverified(sender, r)
  PROVE  LedgerInv'
<1>1. /\ records[r] \in ComplianceRecord
      /\ r \in Int /\ nextRecordId \in Int
  BY ComplianceBoundsAssumption DEF TypeOK, ComplianceTypeOK, RecordIds
<1>2. r < nextRecordId /\ ~records[r].finalised
  BY RecordHasItsAgreement DEF MarkRecordUnverified, MayMarkRecordUnverified,
        LedgerInv
<1>3. /\ UNCHANGED agreementVars
      /\ UNCHANGED <<nextRecordId, hasEndorsed, endorsementCount, hasDeclined,
                     nextSpendRequestId, spendRequests, hasEndorsedSpend,
                     spendEndorsementCount, hasDeclinedSpend>>
  BY DEF MarkRecordUnverified, MayMarkRecordUnverified, MarkUnverified,
        MayMarkUnverified, AllButRecords, verificationVars, recordVotes,
        spendVotes
<1>4. /\ records'[r].id = records[r].id
      /\ records'[r].agreementId = records[r].agreementId
      /\ records'[r].finalised = records[r].finalised
      /\ \A p \in RecordIds : p # r => records'[p] = records[p]
  BY <1>1
  DEF MarkRecordUnverified, MayMarkRecordUnverified, MarkUnverified,
      MayMarkUnverified, TypeOK, ComplianceTypeOK, ComplianceRecord
<1>5. RecordsInOrder'
  <2>1. ASSUME NEW p \in RecordIds
        PROVE  /\ p < nextRecordId =>
                    /\ records'[p].id = p
                    /\ records'[p].agreementId \in AgreementIds
                    /\ IsFinalised(records'[p].agreementId)
               /\ p >= nextRecordId => records'[p] = UnsetRecord
    BY <1>1, <1>2, <1>4 DEF LedgerInv, RecordsInOrder
  <2>2. QED
    BY <1>3, <2>1 DEF RecordsInOrder, agreementVars, IsFinalised
<1>6. FinalisedByTwoSignatories'
  BY <1>3, <1>4
  DEF LedgerInv, FinalisedByTwoSignatories, agreementVars, RecordExists
<1>7. OutcomesExclusive' /\ VotesCounted'
  BY <1>2, <1>3, <1>4 DEF LedgerInv, OutcomesExclusive, VotesCounted
<1>8. QED
  BY <1>3, <1>5, <1>6, <1>7, SameAgreements, SameRequests DEF LedgerInv

-----------------------------------------------------------------------------
(* Votes on spend requests. *)

\* A commit adds to one finalised agreement and to nothing else of it; that
\* it fits the budget is what commitSpend requires.
LEMMA CommitSpendInv ==
  ASSUME TypeOK, LedgerInv, NEW caller, NEW id \in AgreementIds,
         NEW amount \in Nat, IsFinalised(id), CommitSpend(caller, id, amount)
  PROVE  /\ AgreementsInOrder'
         /\ CommittedAfterFinalisation'
         /\ NeverOverspent'
         /\ \A i \in AgreementIds :
                /\ IsFinalised(i)' = IsFinalised(i)
                /\ agreements'[i].signatories = agreements[i].signatories
<1>1. agreements[id] \in Agreement
  BY DEF TypeOK, AgreementTypeOK
<1>2. /\ \A i \in AgreementIds : i # id => agreements'[i] = agreements[i]
      /\ agreements'[id].finalised = agreements[id].finalised
      /\ agreements'[id].signatories = agreements[id].signatories
      /\ agreements'[id].budget = agreements[id].budget
      /\ agreements'[id].committedSpend
            = agreements[id].committedSpend + amount
      /\ nextAgreementId' = nextAgreementId
  BY <1>1 DEF CommitSpend, MayCommit, AddToCommitted, TypeOK, AgreementTypeOK,
        Agreement
<1>3. ~(id >= nextAgreementId)
  BY DEF CommitSpend, MayCommit, LedgerInv, AgreementsInOrder, UnsetAgreement
<1>4. AgreementsInOrder'
  BY <1>2, <1>3 DEF LedgerInv, AgreementsInOrder
<1>5. CommittedAfterFinalisation'
  BY <1>2 DEF LedgerInv, CommittedAfterFinalisation, IsFinalised
<1>6. NeverOverspent'
  <2>1. agreements[id].committedSpend + amount <= agreements[id].budget
    BY <1>1 DEF CommitSpend, MayCommit, RemainingBudget, Agreement
  <2>2. QED
    BY <1>2, <2>1 DEF LedgerInv, NeverOverspent
<1>7. QED
  BY <1>2, <1>4, <1>5, <1>6 DEF IsFinalised

LEMMA EndorseSpendInv ==
  ASSUME TypeOK, LedgerInv, NEW sender \in Accounts,
         NEW q \in SpendRequestIds, EndorseSpend(sender, q)
  PROVE  LedgerInv'
<1> DEFINE S == hasEndorsedSpend[q]
           id == spendRequests[q].agreementId
<1>1. /\ spendRequests[q] \in SpendRequest
      /\ spendRequests[q].amount \in Nat
      /\ S \in SUBSET Accounts
      /\ q \in Int /\ nextSpendRequestId \in Int
  BY ComplianceBoundsAssumption
  DEF TypeOK, ComplianceTypeOK, VerificationTypeOK, SpendRequestIds,
      SpendRequest
<1>2. /\ SpendRequestExists(q)
      /\ q < nextSpendRequestId
      /\ id \in AgreementIds
      /\ IsFinalised(id)
  BY RequestHasItsAgreement DEF EndorseSpend, MayEndorseSpend, LedgerInv
<1>3. /\ Cardinality(S) \in Nat
      /\ Cardinality(S \cup {sender}) = Cardinality(S) + 1
      /\ spendEndorsementCount[q] = Cardinality(S)
  BY <1>1, VotersFinite, OneMoreVoter DEF EndorseSpend, MayEndorseSpend,
        LedgerInv, VotesCounted
<1>4. UNCHANGED <<nextRecordId, records, hasEndorsed, endorsementCount,
                  hasDeclined, nextSpendRequestId, hasDeclinedSpend>>
  BY DEF EndorseSpend, MayEndorseSpend, CountSpendEndorsement,
        MarkSpendApproved, MayMarkSpendApproved, complianceVars, recordVotes
<1>5. /\ hasEndorsedSpend'[q] = S \cup {sender}
      /\ spendEndorsementCount'[q] = spendEndorsementCount[q] + 1
      /\ \A p \in SpendRequestIds :
            p # q => /\ hasEndorsedSpend'[p] = hasEndorsedSpend[p]
                     /\ spendEndorsementCount'[p] = spendEndorsementCount[p]
  BY DEF EndorseSpend, MayEndorseSpend, CountSpendEndorsement, TypeOK,
        VerificationTypeOK
<1>6. CASE spendEndorsementCount[q] + 1 = 2
  <2>1. /\ spendRequests' = [spendRequests EXCEPT ![q].approved = TRUE]
        /\ CommitSpend(ComplianceAddress, id, spendRequests[q].amount)
    BY <1>6
    DEF EndorseSpend, MayEndorseSpend, CountSpendEndorsement,
        MarkSpendApproved, MayMarkSpendApproved, ENDORSEMENT_THRESHOLD
  <2>2. /\ spendRequests'[q].id = spendRequests[q].id
        /\ spendRequests'[q].agreementId = id
        /\ spendRequests'[q].requester = spendRequests[q].requester
        /\ spendRequests'[q].approved
        /\ \A p \in SpendRequestIds :
                p # q => spendRequests'[p] = spendRequests[p]
    BY <1>1, <2>1 DEF TypeOK, ComplianceTypeOK, SpendRequest
  <2>3. /\ AgreementsInOrder'
        /\ CommittedAfterFinalisation'
        /\ NeverOverspent'
        /\ \A i \in AgreementIds :
                /\ IsFinalised(i)' = IsFinalised(i)
                /\ agreements'[i].signatories = agreements[i].signatories
    BY <1>1, <1>2, <2>1, CommitSpendInv
  <2>4. RecordsInOrder' /\ OutcomesExclusive'
    BY <1>4, <2>3
    DEF LedgerInv, RecordsInOrder, OutcomesExclusive, IsFinalised
  <2>5. FinalisedByTwoSignatories'
    <3>1. ASSUME NEW r \in RecordIds, RecordExists(r)
          PROVE  agreements'[records[r].agreementId].signatories
                    = agreements[records[r].agreementId].signatories
      BY <2>3, <3>1, RecordHasItsAgreement DEF LedgerInv
    <3>2. QED
      BY <1>4, <3>1 DEF LedgerInv, FinalisedByTwoSignatories, RecordExists
  <2>6. RequestsInOrder'
    <3>1. ASSUME NEW p \in SpendRequestIds
          PROVE  /\ p < nextSpendRequestId =>
                    /\ spendRequests'[p].id = p
                    /\ spendRequests'[p].agreementId \in AgreementIds
                    /\ IsFinalised(spendRequests'[p].agreementId)
                 /\ p >= nextSpendRequestId =>
                        spendRequests'[p] = UnsetSpendRequest
      BY <1>1, <1>2, <2>2 DEF LedgerInv, RequestsInOrder
    <3>2. QED
      BY <1>4, <2>3, <3>1 DEF RequestsInOrder, IsFinalised
  <2>7. ApprovedByTwoOthers'
    <3>1. ASSUME NEW p \in SpendRequestIds, SpendRequestExists(p)
          PROVE  agreements'[spendRequests[p].agreementId].signatories
                    = agreements[spendRequests[p].agreementId].signatories
      BY <2>3, <3>1, RequestHasItsAgreement DEF LedgerInv
    <3>2. /\ spendRequests'[q].approved <=> Cardinality(hasEndorsedSpend'[q]) >= 2
          /\ hasEndorsedSpend'[q] \cup hasDeclinedSpend'[q]
                \subseteq agreements[id].signatories
          /\ spendRequests'[q].requester \notin hasEndorsedSpend'[q]
          /\ hasEndorsedSpend'[q] \cap hasDeclinedSpend'[q] = {}
      <4>1. spendRequests'[q].approved <=> Cardinality(hasEndorsedSpend'[q]) >= 2
        BY <1>3, <1>5, <1>6, <2>2
      <4>2. QED
        BY <1>4, <1>5, <2>2, <4>1
        DEF EndorseSpend, MayEndorseSpend, IsSignatory, LedgerInv,
            ApprovedByTwoOthers
    <3>3. ASSUME NEW p \in SpendRequestIds, p # q
          PROVE  /\ spendRequests[p] = spendRequests'[p]
                 /\ hasEndorsedSpend[p] = hasEndorsedSpend'[p]
                 /\ hasDeclinedSpend[p] = hasDeclinedSpend'[p]
      BY <1>4, <1>5, <2>2, <3>3
    <3>4. QED
      BY <1>2, <2>2, <3>1, <3>2, <3>3
      DEF LedgerInv, ApprovedByTwoOthers, SpendRequestExists
  <2>8. VotesCounted'
    BY <1>3, <1>4, <1>5 DEF LedgerInv, VotesCounted
  <2>9. QED
    BY <2>3, <2>4, <2>5, <2>6, <2>7, <2>8 DEF LedgerInv
<1>7. CASE spendEndorsementCount[q] + 1 # 2
  <2>1. UNCHANGED agreementVars /\ spendRequests' = spendRequests
    BY <1>7
    DEF EndorseSpend, MayEndorseSpend, CountSpendEndorsement, complianceVars,
        ENDORSEMENT_THRESHOLD
  <2>2. RequestsInOrder'
    BY <1>4, <2>1
    DEF LedgerInv, RequestsInOrder, agreementVars, IsFinalised
  <2>3. ApprovedByTwoOthers'
    <3>1. spendRequests[q].approved <=> Cardinality(S) >= 2
      BY DEF LedgerInv, ApprovedByTwoOthers
    <3>2. spendRequests[q].approved <=> Cardinality(hasEndorsedSpend'[q]) >= 2
      BY <1>3, <1>5, <1>7, <3>1
    <3>3. /\ hasEndorsedSpend'[q] \cup hasDeclinedSpend'[q]
                \subseteq agreements[id].signatories
          /\ spendRequests[q].requester \notin hasEndorsedSpend'[q]
          /\ hasEndorsedSpend'[q] \cap hasDeclinedSpend'[q] = {}
      BY <1>4, <1>5
      DEF EndorseSpend, MayEndorseSpend, IsSignatory, LedgerInv,
          ApprovedByTwoOthers
    <3>4. QED
      BY <1>2, <1>4, <1>5, <2>1, <3>2, <3>3
      DEF LedgerInv, ApprovedByTwoOthers, agreementVars, SpendRequestExists
  <2>4. VotesCounted'
    BY <1>3, <1>4, <1>5 DEF LedgerInv, VotesCounted
  <2>5. QED
    BY <1>4, <2>1, <2>2, <2>3, <2>4, SameAgreements, SameRecords
    DEF LedgerInv
<1>8. QED
  BY <1>6, <1>7

LEMMA DeclineSpendInv ==
  ASSUME TypeOK, LedgerInv, NEW sender \in Accounts,
         NEW q \in SpendRequestIds, DeclineSpend(sender, q)
  PROVE  LedgerInv'
<1>1. /\ UNCHANGED agreementVars
      /\ UNCHANGED <<nextRecordId, records, hasEndorsed, endorsementCount,
                     hasDeclined, nextSpendRequestId, spendRequests,
                     hasEndorsedSpend, spendEndorsementCount>>
  BY DEF DeclineSpend, MayDeclineSpend, complianceVars, recordVotes
<1>2. /\ hasDeclinedSpend'[q] = hasDeclinedSpend[q] \cup {sender}
      /\ \A p \in SpendRequestIds :
            p # q => hasDeclinedSpend'[p] = hasDeclinedSpend[p]
  BY DEF DeclineSpend, MayDeclineSpend, TypeOK, VerificationTypeOK
<1>3. ApprovedByTwoOthers'
  BY <1>1, <1>2
  DEF DeclineSpend, MayDeclineSpend, IsSignatory, LedgerInv,
      ApprovedByTwoOthers, agreementVars, SpendRequestExists
<1>4. RequestsInOrder' /\ VotesCounted'
  BY <1>1
  DEF LedgerInv, RequestsInOrder, VotesCounted, agreementVars, IsFinalised
<1>5. QED
  BY <1>1, <1>3, <1>4, SameAgreements, SameRecords DEF LedgerInv

LEMMA VerificationTxInv ==
  ASSUME TypeOK, LedgerInv, VerificationTx
  PROVE  LedgerInv'
<1>1. ASSUME NEW sender \in Accounts, NEW window \in Windows,
             SetVerificationWindow(sender, window)
      PROVE  LedgerInv'
  <2>1. /\ UNCHANGED agreementVars
        /\ UNCHANGED <<nextRecordId, records, nextSpendRequestId,
                       spendRequests, hasEndorsed, endorsementCount,
                       hasDeclined, hasEndorsedSpend, spendEndorsementCount,
                       hasDeclinedSpend>>
    BY <1>1 DEF SetVerificationWindow, complianceVars, recordVotes, spendVotes
  <2>2. VotesCounted'
    BY <2>1 DEF LedgerInv, VotesCounted
  <2>3. QED
    BY <2>1, <2>2, SameAgreements, SameRecords, SameRequests DEF LedgerInv
<1>2. QED
  BY <1>1, EndorseInv, DeclineInv, MarkRecordUnverifiedInv, EndorseSpendInv,
     DeclineSpendInv
  DEF VerificationTx, VerificationNext

-----------------------------------------------------------------------------
(* The whole ledger. *)

LEMMA QuietStepInv ==
  ASSUME LedgerInv, UNCHANGED <<agreementVars, complianceVars,
                                verificationVars>>
  PROVE  LedgerInv'
<1>1. /\ UNCHANGED agreementVars
      /\ UNCHANGED <<nextRecordId, records, nextSpendRequestId,
                     spendRequests, hasEndorsed, endorsementCount,
                     hasDeclined, hasEndorsedSpend, spendEndorsementCount,
                     hasDeclinedSpend>>
  BY DEF complianceVars, verificationVars, recordVotes, spendVotes
<1>2. VotesCounted'
  BY <1>1 DEF LedgerInv, VotesCounted
<1>3. QED
  BY <1>1, <1>2, SameAgreements, SameRecords, SameRequests DEF LedgerInv

LEMMA NextInv ==
  ASSUME TypeOK, TypeOK', LedgerInv, [Next]_vars
  PROVE  LedgerInv'
<1>1. CASE NextBlock
  BY <1>1, QuietStepInv DEF NextBlock
<1>2. CASE UNCHANGED vars
  BY <1>2, QuietStepInv DEF vars
<1>3. QED
  BY <1>1, <1>2, AgreementTxInv, ComplianceTxInv, VerificationTxInv DEF Next

\* A ledger on which nothing was ever created satisfies the invariant.
LEMMA FreshLedgerInv ==
  ASSUME nextAgreementId = 1,
         agreements = [id \in AgreementIds |-> UnsetAgreement],
         nextRecordId = 1,
         records = [r \in RecordIds |-> UnsetRecord],
         nextSpendRequestId = 1,
         spendRequests = [q \in SpendRequestIds |-> UnsetSpendRequest],
         VerificationInit
  PROVE  LedgerInv
<1>1. /\ \A r \in RecordIds : ~(r < nextRecordId)
      /\ \A q \in SpendRequestIds : ~(q < nextSpendRequestId)
  BY DEF RecordIds, SpendRequestIds
<1>2. AgreementsInOrder /\ RecordsInOrder /\ RequestsInOrder
  BY <1>1 DEF AgreementsInOrder, RecordsInOrder, RequestsInOrder
<1>3. Cardinality({}) = 0 /\ ~(0 >= 2)
  BY FS_EmptySet
<1>4. VotesCounted
  BY <1>3 DEF VerificationInit, VotesCounted
<1>5. FinalisedByTwoSignatories /\ OutcomesExclusive
  BY <1>3
  DEF VerificationInit, FinalisedByTwoSignatories, OutcomesExclusive,
      UnsetRecord
<1>6. ApprovedByTwoOthers
  BY <1>3 DEF VerificationInit, ApprovedByTwoOthers, UnsetSpendRequest
<1>7. CommittedAfterFinalisation /\ NeverOverspent
  BY DEF CommittedAfterFinalisation, NeverOverspent, UnsetAgreement
<1>8. QED
  BY <1>2, <1>4, <1>5, <1>6, <1>7 DEF LedgerInv

\* From the constructors on, the inductive invariant holds.
THEOREM LedgerInvariant == Spec => []LedgerInv
<1>1. Init => LedgerInv
  BY FreshLedgerInv DEF Init, AgreementInit, ComplianceInit
<1>2. TypeOK /\ TypeOK' /\ LedgerInv /\ [Next]_vars => LedgerInv'
  BY NextInv
<1>3. QED
  BY <1>1, <1>2, TypeCorrect, PTL DEF Spec

\* From the ledger deploy.js leaves behind, the inductive invariant holds.
THEOREM DeployedLedgerInvariant == DeployedSpec => []LedgerInv
<1>1. DeployedInit => LedgerInv
  BY FreshLedgerInv DEF DeployedInit
<1>2. TypeOK /\ TypeOK' /\ LedgerInv /\ [Next]_vars => LedgerInv'
  BY NextInv
<1>3. QED
  BY <1>1, <1>2, DeployedTypeCorrect, PTL DEF DeployedSpec

-----------------------------------------------------------------------------
(* The safety properties.  Each is a part of the invariant, so it holds    *)
(* from the constructors, whatever the owner wires or registers when, and  *)
(* from the deployed ledger.                                               *)

\* Two distinct signatories stand behind every final record.
THEOREM TwoSignatories ==
  (Spec \/ DeployedSpec) => []FinalisedByTwoSignatories
<1>1. LedgerInv => FinalisedByTwoSignatories
  BY DEF LedgerInv
<1>2. QED
  BY <1>1, LedgerInvariant, DeployedLedgerInvariant, PTL

\* No record is both final and closed as unverified.
THEOREM OneOutcome == (Spec \/ DeployedSpec) => []OutcomesExclusive
<1>1. LedgerInv => OutcomesExclusive
  BY DEF LedgerInv
<1>2. QED
  BY <1>1, LedgerInvariant, DeployedLedgerInvariant, PTL

\* Two signatories other than the requester stand behind every approval.
THEOREM TwoOtherSignatories == (Spec \/ DeployedSpec) => []ApprovedByTwoOthers
<1>1. LedgerInv => ApprovedByTwoOthers
  BY DEF LedgerInv
<1>2. QED
  BY <1>1, LedgerInvariant, DeployedLedgerInvariant, PTL

\* The budget of an agreement is never committed twice over.
THEOREM BudgetKept == (Spec \/ DeployedSpec) => []NeverOverspent
<1>1. LedgerInv => NeverOverspent
  BY DEF LedgerInv
<1>2. QED
  BY <1>1, LedgerInvariant, DeployedLedgerInvariant, PTL

=============================================================================
