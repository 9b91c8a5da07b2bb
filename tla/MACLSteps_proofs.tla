--------------------------- MODULE MACLSteps_proofs ---------------------------
(***************************************************************************)
(* What no transaction may do: to terms that are final, to what is written *)
(* and to the reference a record was pinned with; when a record may be     *)
(* settled and through which links, and that the deployment script leaves  *)
(* the links and the registry as the other specifications start with; that *)
(* a verdict can be recomputed for ever, the failing records are counted   *)
(* and a request that does not fit is lost.  All follow from looking at    *)
(* which transactions can write the variables concerned at all.            *)
(*                                                                         *)
(* Then, what is committed against an agreement is the sum of its approved *)
(* requests, and the contracts implement SpendBudget and                   *)
(* RecordVerification.  A sum over a finite set is defined by picking one  *)
(* element after the other; that the order does not matter, so that one    *)
(* element more adds its amount, is proved by taking a smallest subset for *)
(* which it would fail.                                                    *)
(***************************************************************************)
EXTENDS MACL_proofs, MACLRefinement, Deployment, SequenceTheorems,
        WellFoundedInduction

-----------------------------------------------------------------------------
(* Agreements. *)

\* Outside the Agreement contract's own transactions, agreements change only
\* by a commit, inside the endorsement that approves a request.
LEMMA AgreementsWritten ==
  ASSUME TypeOK, LedgerInv, [Next]_vars
  PROVE  \/ AgreementNext
         \/ UNCHANGED agreementVars
         \/ \E id \in AgreementIds, amount \in Nat : AddToCommitted(id, amount)
<1>1. ASSUME NEW sender \in Accounts, NEW q \in SpendRequestIds,
             EndorseSpend(sender, q)
      PROVE  \/ UNCHANGED agreementVars
             \/ \E id \in AgreementIds, amount \in Nat :
                    AddToCommitted(id, amount)
  <2>1. /\ spendRequests[q].agreementId \in AgreementIds
        /\ spendRequests[q].amount \in Nat
    BY <1>1, RequestHasItsAgreement
    DEF EndorseSpend, MayEndorseSpend, LedgerInv, TypeOK, ComplianceTypeOK,
        SpendRequest
  <2>2. QED
    BY <1>1, <2>1
    DEF EndorseSpend, MayEndorseSpend, CountSpendEndorsement,
        MarkSpendApproved, MayMarkSpendApproved, CommitSpend, MayCommit
<1>2. ASSUME VerificationTx,
             ~ \E sender \in Accounts, q \in SpendRequestIds :
                    EndorseSpend(sender, q)
      PROVE  UNCHANGED agreementVars
  BY <1>2
  DEF VerificationTx, VerificationNext, SetVerificationWindow, Endorse,
      MayEndorse, CountEndorsement, FinaliseAtThreshold, PinAndFinalise,
      MarkFinalised, MayMarkFinalised, Decline, MayDecline,
      MarkRecordUnverified, MayMarkRecordUnverified, MarkUnverified,
      MayMarkUnverified, AllButRecords, DeclineSpend, MayDeclineSpend
<1>3. CASE ComplianceTx
  <2>1. ASSUME NEW sender, NEW id, NEW index, NEW value, NEW hash,
               SubmitReport(sender, id, index, value, hash)
        PROVE  UNCHANGED agreementVars
    BY <2>1 DEF SubmitReport
  <2>2. ASSUME NEW sender, NEW id, NEW amount, NEW hash,
               CreateSpendRequest(sender, id, amount, hash)
        PROVE  UNCHANGED agreementVars
    BY <2>2 DEF CreateSpendRequest
  <2>3. ASSUME NEW sender, NEW q, NEW hash, MarkSpent(sender, q, hash)
        PROVE  UNCHANGED agreementVars
    BY <2>3 DEF MarkSpent, MayMarkSpent, PinReceipt
  <2>4. QED
    BY <1>3, <2>1, <2>2, <2>3
    DEF ComplianceTx, ComplianceNext, SetVerificationContract
<1>4. QED
  BY <1>1, <1>2, <1>3 DEF Next, vars, AgreementTx, NextBlock

LEMMA FrozenStep ==
  ASSUME TypeOK, LedgerInv, [Next]_vars, NEW id \in AgreementIds,
         IsFinalised(id)
  PROVE  IsFinalised(id)' /\ TermsOf(id)' = TermsOf(id)
<1>1. CASE AgreementNext
  <2>1. /\ agreements'[id] = agreements[id]
        /\ agreementTargets'[id] = agreementTargets[id]
    BY <1>1, AgreementNextFrame DEF LedgerInv, Untouched
  <2>2. QED
    BY <2>1 DEF IsFinalised, TermsOf
<1>2. CASE UNCHANGED agreementVars
  BY <1>2 DEF agreementVars, IsFinalised, TermsOf
<1>3. ASSUME NEW i \in AgreementIds, NEW amount \in Nat,
             AddToCommitted(i, amount)
      PROVE  IsFinalised(id)' /\ TermsOf(id)' = TermsOf(id)
  <2>1. agreements[i] \in Agreement
    BY DEF TypeOK, AgreementTypeOK
  <2>2. /\ agreements'[id].creator = agreements[id].creator
        /\ agreements'[id].startDate = agreements[id].startDate
        /\ agreements'[id].endDate = agreements[id].endDate
        /\ agreements'[id].signatories = agreements[id].signatories
        /\ agreements'[id].budget = agreements[id].budget
        /\ agreements'[id].finalised = agreements[id].finalised
        /\ agreementTargets' = agreementTargets
    BY <1>3, <2>1 DEF AddToCommitted, TypeOK, AgreementTypeOK, Agreement
  <2>3. QED
    BY <2>2 DEF IsFinalised, TermsOf
<1>4. QED
  BY <1>1, <1>2, <1>3, AgreementsWritten

\* The terms of a finalised agreement are never touched again: no draft
\* transaction gets past its own check, and a commit writes something else.
THEOREM FinalTermsFrozen == (Spec \/ DeployedSpec) => TermsFrozen
<1>1. TypeOK /\ LedgerInv /\ [Next]_vars =>
        [\A id \in AgreementIds :
            IsFinalised(id) => /\ IsFinalised(id)'
                               /\ TermsOf(id)' = TermsOf(id)]_vars
  BY FrozenStep
<1>2. QED
  BY <1>1, TypeCorrect, DeployedTypeCorrect, LedgerInvariant,
     DeployedLedgerInvariant, PTL DEF Spec, DeployedSpec, TermsFrozen

-----------------------------------------------------------------------------
(* Outcomes of records. *)

\* A record becomes final only in an endorsement inside the window, closed
\* as unverified only in a call past it.
LEMMA SettledWhen ==
  ASSUME TypeOK, [Next]_vars, NEW r \in RecordIds
  PROVE  /\ records'[r].finalised /\ ~records[r].finalised => ~PastWindow(r)
         /\ records'[r].unverified /\ ~records[r].unverified => PastWindow(r)
<1> DEFINE Goal ==
        /\ records'[r].finalised /\ ~records[r].finalised => ~PastWindow(r)
        /\ records'[r].unverified /\ ~records[r].unverified => PastWindow(r)
<1>1. records \in [RecordIds -> ComplianceRecord]
  BY DEF TypeOK, ComplianceTypeOK
<1>2. ASSUME NEW sender \in Accounts, NEW p \in RecordIds, Endorse(sender, p)
      PROVE  Goal
  BY <1>1, <1>2
  DEF Endorse, MayEndorse, StillVerifiable, CountEndorsement,
      FinaliseAtThreshold, PinAndFinalise, MarkFinalised, MayMarkFinalised,
      complianceVars, ComplianceRecord
<1>3. ASSUME NEW sender \in Accounts, NEW p \in RecordIds,
             MarkRecordUnverified(sender, p)
      PROVE  Goal
  BY <1>1, <1>3 DEF MarkRecordUnverified, MayMarkRecordUnverified,
        MarkUnverified, MayMarkUnverified, ComplianceRecord
<1>4. ASSUME NEW sender, NEW id, NEW index, NEW value, NEW hash,
             SubmitReport(sender, id, index, value, hash)
      PROVE  Goal
  BY <1>1, <1>4 DEF SubmitReport
<1>5. ASSUME UNCHANGED records
      PROVE  Goal
  BY <1>5
<1>6. CASE ComplianceTx
  <2>1. ASSUME NEW sender, NEW id, NEW amount, NEW hash,
               CreateSpendRequest(sender, id, amount, hash)
        PROVE  UNCHANGED records
    BY <2>1 DEF CreateSpendRequest
  <2>2. ASSUME NEW sender, NEW q, NEW hash, MarkSpent(sender, q, hash)
        PROVE  UNCHANGED records
    BY <2>2 DEF MarkSpent, MayMarkSpent, PinReceipt
  <2>3. QED
    BY <1>4, <1>5, <1>6, <2>1, <2>2
    DEF ComplianceTx, ComplianceNext, SetVerificationContract
<1>7. CASE VerificationTx
  <2>1. ASSUME NEW sender \in Accounts, NEW q \in SpendRequestIds,
               EndorseSpend(sender, q)
        PROVE  UNCHANGED records
    BY <2>1 DEF EndorseSpend, MayEndorseSpend, CountSpendEndorsement,
          MarkSpendApproved, MayMarkSpendApproved, complianceVars
  <2>2. QED
    BY <1>2, <1>3, <1>5, <1>7, <2>1
    DEF VerificationTx, VerificationNext, SetVerificationWindow, Decline,
        MayDecline, DeclineSpend, MayDeclineSpend, complianceVars
<1>8. QED
  BY <1>5, <1>6, <1>7
  DEF Next, vars, AgreementTx, NextBlock, complianceVars

\* A record is finalised no later, and closed as unverified only later, than
\* the window in force allows.
THEOREM SettledInTime ==
  (Spec \/ DeployedSpec) => SettledOnItsSideOfTheDeadline
<1>1. TypeOK /\ [Next]_vars =>
        [\A r \in RecordIds :
            LET deadline == records[r].evaluatedAt + verificationWindow
            IN  /\ records'[r].finalised /\ ~records[r].finalised
                        => now <= deadline
                /\ records'[r].unverified /\ ~records[r].unverified
                        => now > deadline]_vars
  <2> SUFFICES ASSUME TypeOK, [Next]_vars, NEW r \in RecordIds
               PROVE  LET deadline == records[r].evaluatedAt
                                        + verificationWindow
                      IN  /\ records'[r].finalised /\ ~records[r].finalised
                                => now <= deadline
                          /\ records'[r].unverified /\ ~records[r].unverified
                                => now > deadline
    OBVIOUS
  <2>1. /\ now \in Int
        /\ records[r].evaluatedAt + verificationWindow \in Int
    BY DEF TypeOK, ComplianceTypeOK, VerificationTypeOK, ComplianceRecord
  <2>2. QED
    BY <2>1, SettledWhen DEF PastWindow, Deadline
<1>2. QED
  BY <1>1, TypeCorrect, DeployedTypeCorrect, PTL
  DEF Spec, DeployedSpec, SettledOnItsSideOfTheDeadline

-----------------------------------------------------------------------------
(* Verdicts. *)

\* What a verdict is computed from stays, and a record that was not there is
\* a new report.
LEMMA RecordsWritten ==
  ASSUME TypeOK, [Next]_vars, NEW r \in RecordIds
  PROVE  \/ /\ records'[r].id = records[r].id
            /\ records'[r].agreementId = records[r].agreementId
            /\ records'[r].targetIndex = records[r].targetIndex
            /\ records'[r].reportedValue = records[r].reportedValue
            /\ records'[r].evaluatedAt = records[r].evaluatedAt
            /\ records'[r].result = records[r].result
         \/ \E id \in AgreementIds, index \in 0 .. MaxTargets - 1,
               value \in ReportedValues :
                /\ UNCHANGED agreementVars
                /\ index < TargetCount(id)
                /\ records'[r].agreementId = id
                /\ records'[r].targetIndex = index
                /\ records'[r].result
                        = Evaluate(value, GetTarget(id, index), now)
                /\ records'[r].reportedValue = value
                /\ records'[r].evaluatedAt = now
<1> DEFINE Kept ==
                /\ records'[r].id = records[r].id
                /\ records'[r].agreementId = records[r].agreementId
                /\ records'[r].targetIndex = records[r].targetIndex
                /\ records'[r].reportedValue = records[r].reportedValue
                /\ records'[r].evaluatedAt = records[r].evaluatedAt
                /\ records'[r].result = records[r].result
           Reported(id, index, value) ==
                /\ UNCHANGED agreementVars
                /\ index < TargetCount(id)
                /\ records'[r].agreementId = id
                /\ records'[r].targetIndex = index
                /\ records'[r].result
                        = Evaluate(value, GetTarget(id, index), now)
                /\ records'[r].reportedValue = value
                /\ records'[r].evaluatedAt = now
<1>1. records \in [RecordIds -> ComplianceRecord]
  BY DEF TypeOK, ComplianceTypeOK
<1>2. ASSUME NEW sender, NEW p, MarkFinalised(sender, p)
                \/ MarkUnverified(sender, p)
      PROVE  Kept
  BY <1>1, <1>2 DEF MarkFinalised, MayMarkFinalised, MarkUnverified,
        MayMarkUnverified, ComplianceRecord
<1>3. ASSUME UNCHANGED records
      PROVE  Kept
  BY <1>3
<1>4. ASSUME NEW sender, NEW id, NEW index, NEW value, NEW hash,
             SubmitReport(sender, id, index, value, hash)
      PROVE  Kept \/ Reported(id, index, value)
  BY <1>1, <1>4 DEF SubmitReport
<1>5. CASE VerificationTx
  <2>1. ASSUME NEW sender \in Accounts, NEW q \in SpendRequestIds,
               EndorseSpend(sender, q)
        PROVE  UNCHANGED records
    BY <2>1 DEF EndorseSpend, MayEndorseSpend, CountSpendEndorsement,
          MarkSpendApproved, MayMarkSpendApproved, complianceVars
  <2>2. ASSUME NEW sender \in Accounts, NEW p \in RecordIds,
               Endorse(sender, p)
        PROVE  Kept
    BY <1>2, <1>3, <2>2
    DEF Endorse, MayEndorse, CountEndorsement, FinaliseAtThreshold,
        PinAndFinalise, complianceVars
  <2>3. QED
    BY <1>2, <1>3, <1>5, <2>1, <2>2
    DEF VerificationTx, VerificationNext, SetVerificationWindow, Decline,
        MayDecline, DeclineSpend, MayDeclineSpend, MarkRecordUnverified,
        MayMarkRecordUnverified, complianceVars
<1>6. CASE ComplianceTx
  <2>1. ASSUME NEW sender, NEW id, NEW amount, NEW hash,
               CreateSpendRequest(sender, id, amount, hash)
        PROVE  UNCHANGED records
    BY <2>1 DEF CreateSpendRequest
  <2>2. ASSUME NEW sender, NEW q, NEW hash, MarkSpent(sender, q, hash)
        PROVE  UNCHANGED records
    BY <2>2 DEF MarkSpent, MayMarkSpent, PinReceipt
  <2>3. QED
    BY <1>3, <1>4, <1>6, <2>1, <2>2
    DEF ComplianceTx, ComplianceNext, SetVerificationContract
<1>7. QED
  BY <1>3, <1>5, <1>6 DEF Next, vars, AgreementTx, NextBlock, complianceVars

LEMMA VerdictStep ==
  ASSUME TypeOK, LedgerInv, VerdictRecomputable, [Next]_vars
  PROVE  VerdictRecomputable'
<1> SUFFICES ASSUME NEW r \in RecordIds, RecordExists(r)'
             PROVE  /\ records'[r].targetIndex
                            < TargetCount(records[r].agreementId)'
                    /\ records'[r].result
                            = Evaluate(records[r].reportedValue,
                                       GetTarget(records[r].agreementId,
                                                 records[r].targetIndex),
                                       records[r].evaluatedAt)'
  BY DEF VerdictRecomputable
<1>1. ASSUME records'[r].id = records[r].id,
             records'[r].agreementId = records[r].agreementId,
             records'[r].targetIndex = records[r].targetIndex,
             records'[r].reportedValue = records[r].reportedValue,
             records'[r].evaluatedAt = records[r].evaluatedAt,
             records'[r].result = records[r].result
      PROVE  /\ records'[r].targetIndex < TargetCount(records[r].agreementId)'
             /\ records'[r].result
                    = Evaluate(records[r].reportedValue,
                               GetTarget(records[r].agreementId,
                                         records[r].targetIndex),
                               records[r].evaluatedAt)'
  <2>1. RecordExists(r)
    BY <1>1 DEF RecordExists
  <2>2. /\ records[r].agreementId \in AgreementIds
        /\ IsFinalised(records[r].agreementId)
    BY <2>1, RecordHasItsAgreement DEF LedgerInv
  <2>3. agreementTargets'[records[r].agreementId]
            = agreementTargets[records[r].agreementId]
    BY <2>2, FrozenStep DEF TermsOf
  <2>4. QED
    BY <1>1, <2>1, <2>3
    DEF VerdictRecomputable, TargetCount, GetTarget, Evaluate
<1>2. ASSUME NEW id \in AgreementIds, NEW index \in 0 .. MaxTargets - 1,
             NEW value \in ReportedValues,
             UNCHANGED agreementVars,
             index < TargetCount(id),
             records'[r].agreementId = id,
             records'[r].targetIndex = index,
             records'[r].result = Evaluate(value, GetTarget(id, index), now),
             records'[r].reportedValue = value,
             records'[r].evaluatedAt = now
      PROVE  /\ records'[r].targetIndex < TargetCount(records[r].agreementId)'
             /\ records'[r].result
                    = Evaluate(records[r].reportedValue,
                               GetTarget(records[r].agreementId,
                                         records[r].targetIndex),
                               records[r].evaluatedAt)'
  BY <1>2 DEF agreementVars, TargetCount, GetTarget, Evaluate
<1>3. QED
  BY <1>1, <1>2, RecordsWritten

LEMMA FreshVerdicts ==
  ASSUME records = [r \in RecordIds |-> UnsetRecord]
  PROVE  VerdictRecomputable
BY DEF VerdictRecomputable, RecordExists, UnsetRecord

\* Every verdict can be recomputed later from the terms as they are then:
\* its agreement was final when it was reported on, and final terms stay.
THEOREM VerdictsRecomputable ==
  (Spec \/ DeployedSpec) => []VerdictRecomputable
<1>1. (Init \/ DeployedInit) => VerdictRecomputable
  BY FreshVerdicts DEF Init, ComplianceInit, DeployedInit
<1>2. TypeOK /\ LedgerInv /\ VerdictRecomputable /\ [Next]_vars
        => VerdictRecomputable'
  BY VerdictStep
<1>3. QED
  BY <1>1, <1>2, TypeCorrect, DeployedTypeCorrect, LedgerInvariant,
     DeployedLedgerInvariant, PTL DEF Spec, DeployedSpec

-----------------------------------------------------------------------------
(* Records, requests and votes, transaction by transaction. *)

history ==
    <<nextRecordId, records, failingRecordCount, nextSpendRequestId,
      spendRequests, recordVotes, spendVotes>>

\* The transactions that write records, requests or votes.
HistoryTx ==
    \/ /\ \E sender \in Accounts, id \in AgreementIds,
             hash \in DocumentHashes \cup {NoHash} :
            \/ \E index \in 0 .. MaxTargets - 1, value \in ReportedValues :
                    SubmitReport(sender, id, index, value, hash)
            \/ \E amount \in Amounts :
                    CreateSpendRequest(sender, id, amount, hash)
       /\ UNCHANGED verificationVars
    \/ /\ \E sender \in Accounts, q \in SpendRequestIds,
             hash \in ReceiptHashes \cup {NoHash} : MarkSpent(sender, q, hash)
       /\ UNCHANGED verificationVars
    \/ \E sender \in Accounts, r \in RecordIds :
            \/ Endorse(sender, r)
            \/ Decline(sender, r)
            \/ MarkRecordUnverified(sender, r)
    \/ \E sender \in Accounts, q \in SpendRequestIds :
            EndorseSpend(sender, q) \/ DeclineSpend(sender, q)
    \/ UNCHANGED history

LEMMA HistorySteps == [Next]_vars => HistoryTx
<1> SUFFICES ASSUME [Next]_vars PROVE HistoryTx
  OBVIOUS
<1>1. CASE AgreementTx \/ NextBlock \/ UNCHANGED vars
  BY <1>1 DEF AgreementTx, NextBlock, vars, complianceVars, verificationVars,
     HistoryTx, history
<1>2. CASE ComplianceTx
  BY <1>2 DEF ComplianceTx, ComplianceNext, SetVerificationContract,
     verificationVars, HistoryTx, history
<1>3. CASE VerificationTx
  BY <1>3 DEF VerificationTx, VerificationNext, SetVerificationWindow,
     complianceVars, HistoryTx, history
<1> QED
  BY <1>1, <1>2, <1>3 DEF Next

-----------------------------------------------------------------------------
(* The counter of failing records. *)

Failing(id) ==
    {r \in RecordIds : /\ records[r].agreementId = id
                       /\ records[r].result = "FAIL"}

LEMMA FailingFinite ==
  ASSUME NEW S \in SUBSET RecordIds
  PROVE  IsFiniteSet(S) /\ Cardinality(S) \in Nat
<1>1. IsFiniteSet(RecordIds)
  BY ComplianceBoundsAssumption, FS_Interval DEF RecordIds
<1> QED
  BY <1>1, FS_Subset, FS_CardinalityType

LEMMA FailingReported ==
  ASSUME TypeOK, LedgerInv, FailingCountExact, NEW sender,
         NEW id \in AgreementIds, NEW index, NEW value, NEW hash,
         SubmitReport(sender, id, index, value, hash)
  PROVE  FailingCountExact'
<1> DEFINE n == nextRecordId
<1>1. PICK result : result = Evaluate(value, GetTarget(id, index), now)
  OBVIOUS
<1>2. n \in RecordIds /\ records[n] = UnsetRecord
  BY DEF SubmitReport, LedgerInv, RecordsInOrder, TypeOK, ComplianceTypeOK,
     RecordIds
<1>3. /\ records'[n].agreementId = id
      /\ records'[n].result = result
      /\ \A r \in RecordIds : r # n => records'[r] = records[r]
      /\ failingRecordCount' = Failures(id, result)
  BY <1>1, <1>2 DEF SubmitReport, TypeOK, ComplianceTypeOK
<1>4. \A i \in AgreementIds : n \notin Failing(i)
  BY <1>2 DEF Failing, UnsetRecord
<1>5. failingRecordCount \in [AgreementIds -> Nat]
  BY DEF TypeOK, ComplianceTypeOK
<1>6. ASSUME NEW i \in AgreementIds
      PROVE  failingRecordCount'[i] = Cardinality(Failing(i)')
  <2>1. Failing(i) \in SUBSET RecordIds
        /\ failingRecordCount[i] = Cardinality(Failing(i))
    BY DEF Failing, FailingCountExact
  <2>2. CASE result = "FAIL" /\ i = id
    <3>1. Failing(i)' = Failing(i) \cup {n}
      BY <1>2, <1>3, <2>2 DEF Failing
    <3>2. Cardinality(Failing(i) \cup {n}) = Cardinality(Failing(i)) + 1
      BY <1>4, <2>1, FailingFinite, FS_AddElement
    <3> QED
      BY <1>3, <1>5, <2>1, <2>2, <3>1, <3>2 DEF Failures
  <2>3. CASE ~(result = "FAIL" /\ i = id)
    <3>1. Failing(i)' = Failing(i)
      BY <1>2, <1>3, <1>4, <2>3 DEF Failing
    <3> QED
      BY <1>3, <1>5, <2>1, <2>3, <3>1 DEF Failures
  <2> QED
    BY <2>2, <2>3
<1> QED
  BY <1>6 DEF FailingCountExact, Failing

LEMMA FailingKept ==
  ASSUME FailingCountExact, UNCHANGED failingRecordCount,
         \A r \in RecordIds :
            /\ records'[r].agreementId = records[r].agreementId
            /\ records'[r].result = records[r].result
  PROVE  FailingCountExact'
<1>1. \A i \in AgreementIds : Failing(i)' = Failing(i)
  BY DEF Failing
<1> QED
  BY <1>1 DEF FailingCountExact, Failing

LEMMA FailingStep ==
  ASSUME TypeOK, LedgerInv, FailingCountExact, [Next]_vars
  PROVE  FailingCountExact'
<1>1. records \in [RecordIds -> ComplianceRecord]
  BY DEF TypeOK, ComplianceTypeOK
<1>2. ASSUME UNCHANGED <<records, failingRecordCount>>
      PROVE  FailingCountExact'
  BY <1>2, FailingKept
<1>3. ASSUME NEW sender \in Accounts, NEW r \in RecordIds,
             \/ Endorse(sender, r)
             \/ Decline(sender, r)
             \/ MarkRecordUnverified(sender, r)
      PROVE  FailingCountExact'
  <2>1. UNCHANGED failingRecordCount
    BY <1>3 DEF Endorse, MayEndorse, CountEndorsement, FinaliseAtThreshold,
          PinAndFinalise, MarkFinalised, MayMarkFinalised, AllButRecords,
          Decline, MayDecline, MarkRecordUnverified, MayMarkRecordUnverified,
          MarkUnverified, MayMarkUnverified, complianceVars
  <2>2. \/ records' = records
        \/ records' = [records EXCEPT ![r].finalised = TRUE]
        \/ records' = [records EXCEPT ![r].unverified = TRUE]
    BY <1>3 DEF Endorse, MayEndorse, CountEndorsement, FinaliseAtThreshold,
          PinAndFinalise, MarkFinalised, MayMarkFinalised, Decline, MayDecline,
          MarkRecordUnverified, MayMarkRecordUnverified, MarkUnverified,
          MayMarkUnverified, complianceVars
  <2>3. \A p \in RecordIds : /\ records'[p].agreementId = records[p].agreementId
                             /\ records'[p].result = records[p].result
    BY <1>1, <2>2 DEF ComplianceRecord
  <2> QED
    BY <2>1, <2>3, FailingKept
<1>4. ASSUME NEW sender \in Accounts, NEW q \in SpendRequestIds,
             EndorseSpend(sender, q) \/ DeclineSpend(sender, q)
      PROVE  FailingCountExact'
  <2>1. UNCHANGED <<records, failingRecordCount>>
    BY <1>4 DEF EndorseSpend, MayEndorseSpend, CountSpendEndorsement,
          MarkSpendApproved, MayMarkSpendApproved, DeclineSpend,
          MayDeclineSpend, complianceVars
  <2> QED
    BY <2>1, <1>2
<1>5. ASSUME NEW sender, NEW id, NEW amount, NEW hash,
             CreateSpendRequest(sender, id, amount, hash)
                \/ MarkSpent(sender, id, hash)
      PROVE  FailingCountExact'
  BY <1>2, <1>5 DEF CreateSpendRequest, MarkSpent, MayMarkSpent, PinReceipt
<1> QED
  BY <1>2, <1>3, <1>4, <1>5, FailingReported, HistorySteps
  DEF HistoryTx, history

\* The counter of an agreement is the number of its failing records.
THEOREM FailuresCounted == (Spec \/ DeployedSpec) => []FailingCountExact
<1>1. ASSUME records = [r \in RecordIds |-> UnsetRecord],
             failingRecordCount = [id \in AgreementIds |-> 0]
      PROVE  FailingCountExact
  <2>1. \A i \in AgreementIds : Failing(i) = {}
    BY <1>1 DEF Failing, UnsetRecord
  <2> QED
    BY <1>1, <2>1, FS_EmptySet DEF FailingCountExact, Failing
<1>2. Init \/ DeployedInit => FailingCountExact
  BY <1>1 DEF Init, ComplianceInit, DeployedInit
<1>3. TypeOK /\ LedgerInv /\ FailingCountExact /\ [Next]_vars
        => FailingCountExact'
  BY FailingStep
<1> QED
  BY <1>2, <1>3, TypeCorrect, DeployedTypeCorrect, LedgerInvariant,
     DeployedLedgerInvariant, PTL DEF Spec, DeployedSpec

-----------------------------------------------------------------------------
(* Pinned references. *)

NotYetPinned ==
    \A r \in RecordIds : ~records[r].finalised => finalisedBlockHash[r] = 0

PinStep ==
    /\ NotYetPinned'
    /\ \A r \in RecordIds :
            (finalisedBlockHash'[r] # finalisedBlockHash[r])
                <=> (records'[r].finalised /\ ~records[r].finalised)

LEMMA PinnedInEndorse ==
  ASSUME TypeOK, LedgerInv, NotYetPinned, NEW sender, NEW r \in RecordIds,
         Endorse(sender, r)
  PROVE  PinStep
<1>1. /\ records \in [RecordIds -> ComplianceRecord]
      /\ finalisedBlockHash \in [RecordIds -> Nat]
      /\ now \in Nat \ {0}
  BY DEF TypeOK, ComplianceTypeOK, VerificationTypeOK
<1>2. CASE endorsementCount[r] + 1 = ENDORSEMENT_THRESHOLD
  <2>1. ~records[r].finalised
    <3>1. endorsementCount[r] = Cardinality(hasEndorsed[r])
          /\ endorsementCount[r] \in Nat
      BY DEF LedgerInv, VotesCounted, TypeOK, VerificationTypeOK
    <3>2. ~(Cardinality(hasEndorsed[r]) >= 2)
      BY <1>2, <3>1 DEF ENDORSEMENT_THRESHOLD
    <3> QED
      BY <3>2 DEF LedgerInv, FinalisedByTwoSignatories
  <2>2. /\ finalisedBlockHash' = [finalisedBlockHash EXCEPT ![r] = now]
        /\ records' = [records EXCEPT ![r].finalised = TRUE]
    BY <1>2 DEF Endorse, MayEndorse, CountEndorsement, FinaliseAtThreshold,
          PinAndFinalise, ParentBlockHash, MarkFinalised, MayMarkFinalised
  <2>3. /\ finalisedBlockHash'[r] = now
        /\ finalisedBlockHash[r] = 0
        /\ records'[r].finalised
    BY <1>1, <2>1, <2>2 DEF NotYetPinned, ComplianceRecord
  <2>4. \A p \in RecordIds : p # r =>
            /\ finalisedBlockHash'[p] = finalisedBlockHash[p]
            /\ records'[p] = records[p]
    BY <1>1, <2>2
  <2> QED
    BY <1>1, <2>1, <2>3, <2>4 DEF NotYetPinned, PinStep
<1>3. CASE ~(endorsementCount[r] + 1 = ENDORSEMENT_THRESHOLD)
  BY <1>3 DEF Endorse, MayEndorse, CountEndorsement, FinaliseAtThreshold,
        complianceVars, NotYetPinned, PinStep
<1> QED
  BY <1>2, <1>3

LEMMA PinnedElsewhere ==
  ASSUME NotYetPinned, UNCHANGED finalisedBlockHash,
         \A r \in RecordIds : records'[r].finalised = records[r].finalised
  PROVE  PinStep
BY DEF NotYetPinned, PinStep

LEMMA PinnedStep ==
  ASSUME TypeOK, LedgerInv, NotYetPinned, [Next]_vars
  PROVE  PinStep
<1>1. records \in [RecordIds -> ComplianceRecord]
  BY DEF TypeOK, ComplianceTypeOK
<1>2. ASSUME NEW sender, NEW id, NEW index, NEW value, NEW hash,
             SubmitReport(sender, id, index, value, hash),
             UNCHANGED verificationVars
      PROVE  PinStep
  <2>1. records[nextRecordId] = UnsetRecord /\ nextRecordId \in RecordIds
    BY <1>2 DEF SubmitReport, LedgerInv, RecordsInOrder, TypeOK,
       ComplianceTypeOK, RecordIds
  <2>2. /\ ~records'[nextRecordId].finalised
        /\ \A r \in RecordIds : r # nextRecordId => records'[r] = records[r]
    BY <1>1, <1>2, <2>1 DEF SubmitReport
  <2>3. UNCHANGED finalisedBlockHash
    BY <1>2 DEF verificationVars, recordVotes
  <2> QED
    BY <2>1, <2>2, <2>3 DEF UnsetRecord, NotYetPinned, PinStep
<1>3. ASSUME UNCHANGED <<records, finalisedBlockHash>>
      PROVE  PinStep
  BY <1>3, PinnedElsewhere
<1>4. ASSUME NEW sender \in Accounts, NEW r \in RecordIds,
             Decline(sender, r) \/ MarkRecordUnverified(sender, r)
      PROVE  PinStep
  <2>1. UNCHANGED finalisedBlockHash
    BY <1>4 DEF Decline, MayDecline, MarkRecordUnverified,
          MayMarkRecordUnverified, verificationVars, recordVotes
  <2>2. \/ records' = records
        \/ records' = [records EXCEPT ![r].unverified = TRUE]
    BY <1>4 DEF Decline, MayDecline, MarkRecordUnverified,
          MayMarkRecordUnverified, MarkUnverified, MayMarkUnverified,
          complianceVars
  <2>3. \A p \in RecordIds : records'[p].finalised = records[p].finalised
    BY <1>1, <2>2 DEF ComplianceRecord
  <2> QED
    BY <2>1, <2>3, PinnedElsewhere
<1>5. ASSUME NEW sender \in Accounts, NEW q \in SpendRequestIds,
             EndorseSpend(sender, q) \/ DeclineSpend(sender, q)
      PROVE  PinStep
  <2>1. UNCHANGED <<records, finalisedBlockHash>>
    BY <1>5 DEF EndorseSpend, MayEndorseSpend, CountSpendEndorsement,
          MarkSpendApproved, MayMarkSpendApproved, DeclineSpend,
          MayDeclineSpend, complianceVars, recordVotes
  <2> QED
    BY <1>3, <2>1
<1>6. ASSUME NEW sender, NEW id, NEW amount, NEW hash,
             CreateSpendRequest(sender, id, amount, hash)
                \/ MarkSpent(sender, id, hash),
             UNCHANGED verificationVars
      PROVE  PinStep
  BY <1>3, <1>6 DEF CreateSpendRequest, MarkSpent, MayMarkSpent, PinReceipt,
     verificationVars, recordVotes
<1> QED
  BY <1>2, <1>3, <1>4, <1>5, <1>6, PinnedInEndorse, HistorySteps
  DEF HistoryTx, history, recordVotes

\* The ledger reference of a record is pinned by the transaction that makes
\* it final, and by no other.
THEOREM PinnedOnce == (Spec \/ DeployedSpec) => PinnedAtTheThreshold
<1>1. Init \/ DeployedInit => NotYetPinned
  BY DEF Init, DeployedInit, VerificationInit, NotYetPinned
<1>2. TypeOK /\ LedgerInv /\ NotYetPinned /\ [Next]_vars
        => /\ NotYetPinned'
           /\ [\A r \in RecordIds :
                (finalisedBlockHash'[r] # finalisedBlockHash[r])
                    <=> (records'[r].finalised /\ ~records[r].finalised)]_vars
  BY PinnedStep DEF PinStep
<1> QED
  BY <1>1, <1>2, TypeCorrect, DeployedTypeCorrect, LedgerInvariant,
     DeployedLedgerInvariant, PTL DEF Spec, DeployedSpec, PinnedAtTheThreshold

-----------------------------------------------------------------------------
(* Requests that no longer fit. *)

\* What is committed never shrinks, so what remains of a fixed budget never
\* grows.
LEMMA RemainingNeverGrows ==
  ASSUME TypeOK, LedgerInv, [Next]_vars, NEW id \in AgreementIds,
         IsFinalised(id)
  PROVE  /\ RemainingBudget(id) \in Int
         /\ RemainingBudget(id)' \in Int
         /\ RemainingBudget(id)' <= RemainingBudget(id)
<1>1. agreements[id] \in Agreement
  BY DEF TypeOK, AgreementTypeOK
<1>2. /\ agreements[id].budget \in Nat
      /\ agreements[id].committedSpend \in Nat
  BY <1>1 DEF Agreement
<1>3. agreements'[id].budget = agreements[id].budget
  BY FrozenStep DEF TermsOf
<1>4. /\ agreements'[id].committedSpend \in Nat
      /\ agreements'[id].committedSpend >= agreements[id].committedSpend
  <2>1. CASE AgreementNext
    BY <1>2, <2>1, AgreementNextFrame DEF LedgerInv, Untouched
  <2>2. CASE UNCHANGED agreementVars
    BY <1>2, <2>2 DEF agreementVars
  <2>3. ASSUME NEW i \in AgreementIds, NEW amount \in Nat,
               AddToCommitted(i, amount)
        PROVE  /\ agreements'[id].committedSpend \in Nat
               /\ agreements'[id].committedSpend
                        >= agreements[id].committedSpend
    <3>1. \/ agreements'[id] = agreements[id]
          \/ agreements'[id].committedSpend
                = agreements[id].committedSpend + amount
      BY <1>1, <2>3 DEF AddToCommitted, TypeOK, AgreementTypeOK, Agreement
    <3> QED
      BY <1>2, <3>1
  <2> QED
    BY <2>1, <2>2, <2>3, AgreementsWritten
<1> QED
  BY <1>2, <1>3, <1>4 DEF RemainingBudget

-----------------------------------------------------------------------------
(* What is written stays. *)

\* How a record that exists may change, and how a request may.
RecordKept(r) ==
    \/ records'[r] = records[r]
    \/ records'[r] = [records[r] EXCEPT !.finalised = TRUE]
    \/ records'[r] = [records[r] EXCEPT !.unverified = TRUE]

RequestKept(q) ==
    \/ ~SpendRequestExists(q) /\ ~spendRequests'[q].spent
    \/ spendRequests'[q] = spendRequests[q]
    \/ /\ ~spendRequests[q].approved
       /\ spendRequests[q].amount
                <= RemainingBudget(spendRequests[q].agreementId)
       /\ spendRequests'[q] = [spendRequests[q] EXCEPT !.approved = TRUE]
    \/ \E hash \in ReceiptHashes \cup {NoHash} :
        /\ spendRequests[q].approved
        /\ ~spendRequests[q].spent
        /\ spendRequests'[q] = [spendRequests[q] EXCEPT !.spent = TRUE,
                                                        !.receiptHash = hash]

VotesKept ==
    /\ \A r \in RecordIds : /\ hasEndorsed[r] \subseteq hasEndorsed'[r]
                            /\ hasDeclined[r] \subseteq hasDeclined'[r]
    /\ \A q \in SpendRequestIds :
            /\ hasEndorsedSpend[q] \subseteq hasEndorsedSpend'[q]
            /\ hasDeclinedSpend[q] \subseteq hasDeclinedSpend'[q]

HistoryKept ==
    /\ \A r \in RecordIds : RecordExists(r) => RecordKept(r)
    /\ \A q \in SpendRequestIds : RequestKept(q)
    /\ VotesKept

SpentIsApproved ==
    \A q \in SpendRequestIds :
        spendRequests[q].spent => spendRequests[q].approved

LEMMA QuietKeeps ==
  /\ UNCHANGED records => \A r \in RecordIds : RecordKept(r)
  /\ UNCHANGED spendRequests => \A q \in SpendRequestIds : RequestKept(q)
  /\ UNCHANGED <<recordVotes, spendVotes>> => VotesKept
BY DEF RecordKept, RequestKept, VotesKept, recordVotes, spendVotes

LEMMA NewRecordKeeps ==
  ASSUME TypeOK, LedgerInv, NEW sender, NEW id, NEW index, NEW value, NEW hash,
         SubmitReport(sender, id, index, value, hash),
         UNCHANGED verificationVars
  PROVE  HistoryKept
<1>1. ~RecordExists(nextRecordId)
  BY DEF SubmitReport, LedgerInv, RecordsInOrder, TypeOK, ComplianceTypeOK,
     RecordIds, RecordExists, UnsetRecord
<1>2. \A r \in RecordIds : r # nextRecordId => records'[r] = records[r]
  BY DEF SubmitReport, TypeOK, ComplianceTypeOK
<1>3. UNCHANGED <<spendRequests, recordVotes, spendVotes>>
  BY DEF SubmitReport, verificationVars
<1> QED
  BY <1>1, <1>2, <1>3, QuietKeeps DEF HistoryKept, RecordKept

LEMMA NewRequestKeeps ==
  ASSUME TypeOK, LedgerInv, NEW sender, NEW id, NEW amount, NEW hash,
         CreateSpendRequest(sender, id, amount, hash),
         UNCHANGED verificationVars
  PROVE  HistoryKept
<1> DEFINE n == nextSpendRequestId
<1>1. n \in SpendRequestIds /\ ~SpendRequestExists(n)
  BY DEF CreateSpendRequest, LedgerInv, RequestsInOrder, TypeOK,
     ComplianceTypeOK, SpendRequestIds, SpendRequestExists, UnsetSpendRequest
<1>2. /\ ~spendRequests'[n].spent
      /\ \A q \in SpendRequestIds : q # n => spendRequests'[q] = spendRequests[q]
  BY <1>1 DEF CreateSpendRequest, TypeOK, ComplianceTypeOK
<1>3. UNCHANGED <<records, recordVotes, spendVotes>>
  BY DEF CreateSpendRequest, verificationVars
<1> QED
  BY <1>1, <1>2, <1>3, QuietKeeps DEF HistoryKept, RequestKept

LEMMA RecordVotesKeep ==
  ASSUME TypeOK, NEW sender \in Accounts, NEW r \in RecordIds,
         \/ Endorse(sender, r)
         \/ Decline(sender, r)
         \/ MarkRecordUnverified(sender, r)
  PROVE  HistoryKept
<1>1. /\ records \in [RecordIds -> ComplianceRecord]
      /\ hasEndorsed \in [RecordIds -> SUBSET Accounts]
      /\ hasDeclined \in [RecordIds -> SUBSET Accounts]
  BY DEF TypeOK, ComplianceTypeOK, VerificationTypeOK
<1>2. \/ records' = records
      \/ records' = [records EXCEPT ![r].finalised = TRUE]
      \/ records' = [records EXCEPT ![r].unverified = TRUE]
  BY DEF Endorse, MayEndorse, CountEndorsement, FinaliseAtThreshold,
        PinAndFinalise, MarkFinalised, MayMarkFinalised, Decline, MayDecline,
        MarkRecordUnverified, MayMarkRecordUnverified, MarkUnverified,
        MayMarkUnverified, complianceVars
<1>3. \A p \in RecordIds : RecordKept(p)
  BY <1>1, <1>2 DEF RecordKept
<1>4. UNCHANGED <<spendRequests, spendVotes>>
  BY DEF Endorse, MayEndorse, CountEndorsement, FinaliseAtThreshold,
        PinAndFinalise, MarkFinalised, MayMarkFinalised, AllButRecords,
        Decline, MayDecline, MarkRecordUnverified, MayMarkRecordUnverified,
        MarkUnverified, MayMarkUnverified, complianceVars, verificationVars
<1>5. /\ hasEndorsed' \in {hasEndorsed, [hasEndorsed EXCEPT ![r] = @ \cup {sender}]}
      /\ hasDeclined' \in {hasDeclined, [hasDeclined EXCEPT ![r] = @ \cup {sender}]}
  BY DEF Endorse, MayEndorse, CountEndorsement, Decline, MayDecline,
        MarkRecordUnverified, MayMarkRecordUnverified, verificationVars,
        recordVotes
<1>6. VotesKept
  BY <1>1, <1>4, <1>5 DEF VotesKept, spendVotes
<1> QED
  BY <1>3, <1>4, <1>6, QuietKeeps DEF HistoryKept

LEMMA SpendVotesKeep ==
  ASSUME TypeOK, NEW sender \in Accounts, NEW q \in SpendRequestIds,
         EndorseSpend(sender, q) \/ DeclineSpend(sender, q)
  PROVE  HistoryKept
<1>1. /\ spendRequests \in [SpendRequestIds -> SpendRequest]
      /\ hasEndorsedSpend \in [SpendRequestIds -> SUBSET Accounts]
      /\ hasDeclinedSpend \in [SpendRequestIds -> SUBSET Accounts]
  BY DEF TypeOK, ComplianceTypeOK, VerificationTypeOK
<1>2. \/ spendRequests' = spendRequests
      \/ /\ spendRequests' = [spendRequests EXCEPT ![q].approved = TRUE]
         /\ ~spendRequests[q].approved
         /\ spendRequests[q].amount
                <= RemainingBudget(spendRequests[q].agreementId)
  BY DEF EndorseSpend, MayEndorseSpend, CountSpendEndorsement,
        MarkSpendApproved, MayMarkSpendApproved, CommitSpend, MayCommit,
        DeclineSpend, MayDeclineSpend, complianceVars
<1>3. \A p \in SpendRequestIds : RequestKept(p)
  BY <1>1, <1>2 DEF RequestKept
<1>4. UNCHANGED <<records, recordVotes>>
  BY DEF EndorseSpend, MayEndorseSpend, CountSpendEndorsement,
        MarkSpendApproved, MayMarkSpendApproved, DeclineSpend, MayDeclineSpend,
        complianceVars
<1>5. /\ hasEndorsedSpend' \in {hasEndorsedSpend,
                [hasEndorsedSpend EXCEPT ![q] = @ \cup {sender}]}
      /\ hasDeclinedSpend' \in {hasDeclinedSpend,
                [hasDeclinedSpend EXCEPT ![q] = @ \cup {sender}]}
  BY DEF EndorseSpend, MayEndorseSpend, CountSpendEndorsement, DeclineSpend,
        MayDeclineSpend
<1>6. VotesKept
  BY <1>1, <1>4, <1>5 DEF VotesKept, recordVotes
<1> QED
  BY <1>3, <1>4, <1>6, QuietKeeps DEF HistoryKept

LEMMA HistoryStep ==
  ASSUME TypeOK, LedgerInv, [Next]_vars
  PROVE  HistoryKept
<1>1. ASSUME NEW sender, NEW q \in SpendRequestIds,
             NEW hash \in ReceiptHashes \cup {NoHash},
             MarkSpent(sender, q, hash), UNCHANGED verificationVars
      PROVE  HistoryKept
  <2>1. \A p \in SpendRequestIds : RequestKept(p)
    BY <1>1 DEF MarkSpent, MayMarkSpent, PinReceipt, RequestKept, TypeOK,
          ComplianceTypeOK
  <2>2. UNCHANGED <<records, recordVotes, spendVotes>>
    BY <1>1 DEF MarkSpent, MayMarkSpent, PinReceipt, verificationVars
  <2> QED
    BY <2>1, <2>2, QuietKeeps DEF HistoryKept
<1>2. CASE UNCHANGED history
  BY <1>2, QuietKeeps DEF HistoryKept, history
<1> QED
  BY <1>1, <1>2, NewRecordKeeps, NewRequestKeeps, RecordVotesKeep, SpendVotesKeep, HistorySteps
  DEF HistoryTx

LEMMA FactsKept ==
  ASSUME TypeOK, SpentIsApproved, HistoryKept
  PROVE  /\ \A r \in RecordIds :
            RecordExists(r) =>
                /\ FactsOfRecord(r)' = FactsOfRecord(r)
                /\ records[r].finalised => records'[r].finalised
                /\ records[r].unverified => records'[r].unverified
         /\ \A q \in SpendRequestIds :
            SpendRequestExists(q) =>
                /\ FactsOfRequest(q)' = FactsOfRequest(q)
                /\ spendRequests[q].approved => spendRequests'[q].approved
                /\ spendRequests[q].spent =>
                        spendRequests'[q] = spendRequests[q]
<1>1. ASSUME NEW r \in RecordIds, RecordExists(r)
      PROVE  /\ FactsOfRecord(r)' = FactsOfRecord(r)
             /\ records[r].finalised => records'[r].finalised
             /\ records[r].unverified => records'[r].unverified
  <2>1. records[r] \in ComplianceRecord /\ RecordKept(r)
    BY <1>1 DEF TypeOK, ComplianceTypeOK, HistoryKept
  <2>2. \A f \in DOMAIN UnsetRecord \ {"finalised", "unverified"} :
            records'[r][f] = records[r][f]
    BY <2>1 DEF RecordKept, ComplianceRecord, UnsetRecord
  <2>3. FactsOfRecord(r)' = FactsOfRecord(r)
    BY <2>2 DEF FactsOfRecord
  <2>4. /\ records[r].finalised => records'[r].finalised
        /\ records[r].unverified => records'[r].unverified
    BY <2>1 DEF RecordKept, ComplianceRecord
  <2> QED
    BY <2>3, <2>4
<1>2. ASSUME NEW q \in SpendRequestIds, SpendRequestExists(q)
      PROVE  /\ FactsOfRequest(q)' = FactsOfRequest(q)
             /\ spendRequests[q].approved => spendRequests'[q].approved
             /\ spendRequests[q].spent =>
                    spendRequests'[q] = spendRequests[q]
  <2>1. spendRequests[q] \in SpendRequest /\ RequestKept(q)
    BY <1>2 DEF TypeOK, ComplianceTypeOK, HistoryKept
  <2>2. \A f \in DOMAIN UnsetSpendRequest \ {"approved", "spent", "receiptHash"} :
            spendRequests'[q][f] = spendRequests[q][f]
    BY <1>2, <2>1 DEF RequestKept, SpendRequest, UnsetSpendRequest
  <2>3. FactsOfRequest(q)' = FactsOfRequest(q)
    BY <2>2 DEF FactsOfRequest
  <2>4. /\ spendRequests[q].approved => spendRequests'[q].approved
        /\ spendRequests[q].spent => spendRequests'[q] = spendRequests[q]
    BY <1>2, <2>1 DEF RequestKept, SpendRequest, SpentIsApproved
  <2> QED
    BY <2>3, <2>4
<1> QED
  BY <1>1, <1>2

LEMMA SpentIsApprovedNext ==
  ASSUME TypeOK, SpentIsApproved, HistoryKept
  PROVE  SpentIsApproved'
<1> SUFFICES ASSUME NEW q \in SpendRequestIds, spendRequests'[q].spent
             PROVE  spendRequests'[q].approved
  BY DEF SpentIsApproved
<1>1. /\ spendRequests[q] \in SpendRequest
      /\ RequestKept(q)
      /\ spendRequests[q].spent => spendRequests[q].approved
  BY DEF TypeOK, ComplianceTypeOK, HistoryKept, SpentIsApproved
<1>2. CASE spendRequests'[q] = spendRequests[q]
  BY <1>1, <1>2
<1>3. CASE spendRequests'[q] = [spendRequests[q] EXCEPT !.approved = TRUE]
  BY <1>1, <1>3 DEF SpendRequest
<1>4. ASSUME NEW hash, spendRequests[q].approved,
             spendRequests'[q] = [spendRequests[q] EXCEPT !.spent = TRUE,
                                                          !.receiptHash = hash]
      PROVE  spendRequests'[q].approved
  BY <1>1, <1>4 DEF SpendRequest
<1> QED
  BY <1>1, <1>2, <1>3, <1>4 DEF RequestKept

\* Nothing written on the ledger is rewritten: ids are handed out in order,
\* so a new record or request lies where there was none, and every other
\* transaction writes only an outcome or a vote.
THEOREM HistoryIsAppendOnly == (Spec \/ DeployedSpec) => HistoryAppendOnly
<1>1. Init \/ DeployedInit => SpentIsApproved
  BY DEF Init, ComplianceInit, DeployedInit, SpentIsApproved, UnsetSpendRequest
<1>2. TypeOK /\ LedgerInv /\ SpentIsApproved /\ [Next]_vars
        => SpentIsApproved'
  BY HistoryStep, SpentIsApprovedNext
<1>3. TypeOK /\ LedgerInv /\ SpentIsApproved /\ [Next]_vars
        => [/\ \A r \in RecordIds :
                RecordExists(r) =>
                    /\ FactsOfRecord(r)' = FactsOfRecord(r)
                    /\ records[r].finalised => records'[r].finalised
                    /\ records[r].unverified => records'[r].unverified
                    /\ hasEndorsed[r] \subseteq hasEndorsed'[r]
                    /\ hasDeclined[r] \subseteq hasDeclined'[r]
            /\ \A q \in SpendRequestIds :
                SpendRequestExists(q) =>
                    /\ FactsOfRequest(q)' = FactsOfRequest(q)
                    /\ spendRequests[q].approved
                            => spendRequests'[q].approved
                    /\ spendRequests[q].spent =>
                            spendRequests'[q] = spendRequests[q]
                    /\ hasEndorsedSpend[q] \subseteq hasEndorsedSpend'[q]
                    /\ hasDeclinedSpend[q] \subseteq hasDeclinedSpend'[q]]_vars
  BY HistoryStep, FactsKept DEF HistoryKept, VotesKept
<1> QED
  BY <1>1, <1>2, <1>3, TypeCorrect, DeployedTypeCorrect, LedgerInvariant,
     DeployedLedgerInvariant, PTL DEF Spec, DeployedSpec, HistoryAppendOnly

\* A pending request that does not fit is lost: what is left of its
\* agreement's budget only shrinks.
THEOREM UnaffordableStays == (Spec \/ DeployedSpec) => UnaffordableForGood
<1>1. ASSUME TypeOK, LedgerInv, [Next]_vars, NEW q \in SpendRequestIds,
             Unaffordable(q)
      PROVE  Unaffordable(q)'
  <2>1. /\ spendRequests[q].agreementId \in AgreementIds
        /\ IsFinalised(spendRequests[q].agreementId)
        /\ spendRequests[q] \in SpendRequest
    BY <1>1, RequestHasItsAgreement
    DEF Unaffordable, LedgerInv, TypeOK, ComplianceTypeOK
  <2>2. PICK id \in AgreementIds : id = spendRequests[q].agreementId
    BY <2>1
  <2>3. RemainingBudget(id)' < spendRequests[q].amount
    BY <1>1, <2>1, <2>2, RemainingNeverGrows DEF Unaffordable, SpendRequest
  <2>4. /\ spendRequests'[q].id = spendRequests[q].id
        /\ spendRequests'[q].agreementId = id
        /\ spendRequests'[q].amount = spendRequests[q].amount
    BY <1>1, <2>1, <2>2, HistoryStep
    DEF Unaffordable, HistoryKept, RequestKept, SpendRequest
  <2>5. ~spendRequests'[q].approved
    <3>1. ~(spendRequests[q].amount
                <= RemainingBudget(spendRequests[q].agreementId))
      BY <1>1, <2>1, <2>2, RemainingNeverGrows DEF Unaffordable, SpendRequest
    <3>2. RequestKept(q)
      BY <1>1, HistoryStep DEF HistoryKept
    <3>3. spendRequests'[q] = spendRequests[q]
      BY <1>1, <3>1, <3>2 DEF Unaffordable, RequestKept
    <3> QED
      BY <1>1, <3>3 DEF Unaffordable
  <2> QED
    BY <1>1, <2>3, <2>4, <2>5
    DEF Unaffordable, SpendRequestExists, RemainingBudget
<1>2. TypeOK /\ LedgerInv /\ [Next]_vars
        => [\A q \in SpendRequestIds : Unaffordable(q) => Unaffordable(q)']_vars
  BY <1>1
<1> QED
  BY <1>2, TypeCorrect, DeployedTypeCorrect, LedgerInvariant,
     DeployedLedgerInvariant, PTL DEF Spec, DeployedSpec, UnaffordableForGood

-----------------------------------------------------------------------------
(* Wiring. *)

LEMMA LinksStay ==
  ASSUME [Next]_vars
  PROVE  /\ verificationContract # ZeroAddress => UNCHANGED verificationContract
         /\ complianceContract # ZeroAddress => UNCHANGED complianceContract
<1>1. CASE AgreementTx
  <2>1. UNCHANGED verificationContract
    BY <1>1 DEF AgreementTx, complianceVars
  <2>2. complianceContract # ZeroAddress => UNCHANGED complianceContract
    <3>1. ASSUME NEW sender, RegistryTx(sender)
          PROVE  UNCHANGED complianceContract
      BY <3>1 DEF RegistryTx, RegisterOrganisation, RemoveOrganisation
    <3>2. ASSUME NEW sender, NEW start, NEW end, NEW signatories,
                 CreateAgreement(sender, start, end, signatories)
          PROVE  UNCHANGED complianceContract
      BY <3>2 DEF CreateAgreement
    <3>3. ASSUME NEW sender, NEW id, DraftTx(sender, id)
          PROVE  UNCHANGED complianceContract
      BY <3>3 DEF DraftTx, AddTarget, EditTarget, RemoveTarget, UpdateDates,
         SetBudget, FinaliseAgreement
    <3> QED
      BY <1>1, <3>1, <3>2, <3>3
      DEF AgreementTx, AgreementNext, SetComplianceContract
  <2> QED
    BY <2>1, <2>2
<1>2. CASE ComplianceTx
  <2>1. ASSUME NEW sender, NEW id, NEW index, NEW value, NEW hash,
               \/ SubmitReport(sender, id, index, value, hash)
               \/ CreateSpendRequest(sender, id, value, hash)
               \/ MarkSpent(sender, id, hash)
        PROVE  UNCHANGED <<verificationContract, agreementVars>>
    BY <2>1 DEF SubmitReport, CreateSpendRequest, MarkSpent, MayMarkSpent,
          PinReceipt
  <2> QED
    BY <1>2, <2>1 DEF ComplianceTx, ComplianceNext, SetVerificationContract,
       agreementVars
<1>3. CASE VerificationTx
  <2>1. ASSUME NEW sender \in Accounts, NEW r \in RecordIds,
               \/ Endorse(sender, r)
               \/ Decline(sender, r)
               \/ MarkRecordUnverified(sender, r)
        PROVE  UNCHANGED <<verificationContract, agreementVars>>
    BY <2>1 DEF Endorse, MayEndorse, CountEndorsement, FinaliseAtThreshold,
          PinAndFinalise, MarkFinalised, MayMarkFinalised, AllButRecords,
          Decline, MayDecline, MarkRecordUnverified, MayMarkRecordUnverified,
          MarkUnverified, MayMarkUnverified, complianceVars
  <2>2. ASSUME NEW sender \in Accounts, NEW q \in SpendRequestIds,
               EndorseSpend(sender, q) \/ DeclineSpend(sender, q)
        PROVE  UNCHANGED <<verificationContract, complianceContract>>
    BY <2>2 DEF EndorseSpend, MayEndorseSpend, CountSpendEndorsement,
          MarkSpendApproved, MayMarkSpendApproved, CommitSpend, MayCommit,
          AddToCommitted, DeclineSpend, MayDeclineSpend, complianceVars,
          agreementVars
  <2>3. ASSUME NEW sender, NEW window, SetVerificationWindow(sender, window)
        PROVE  UNCHANGED <<verificationContract, complianceContract>>
    BY <2>3 DEF SetVerificationWindow, complianceVars, agreementVars
  <2> QED
    BY <1>3, <2>1, <2>2, <2>3 DEF VerificationTx, VerificationNext,
       agreementVars
<1> QED
  BY <1>1, <1>2, <1>3
  DEF Next, NextBlock, vars, complianceVars, agreementVars

LEMMA OutcomesNeedLinks ==
  ASSUME TypeOK, LedgerInv, [Next]_vars
  PROVE  /\ \A r \in RecordIds :
                records'[r].finalised \/ records'[r].unverified
                    => \/ records[r].finalised \/ records[r].unverified
                       \/ verificationContract = VerificationAddress
         /\ \A q \in SpendRequestIds :
                spendRequests'[q].approved
                    => \/ spendRequests[q].approved
                       \/ /\ verificationContract = VerificationAddress
                          /\ complianceContract = ComplianceAddress
<1> DEFINE Links ==
            /\ \A r \in RecordIds :
                records'[r].finalised \/ records'[r].unverified
                    => \/ records[r].finalised \/ records[r].unverified
                       \/ verificationContract = VerificationAddress
            /\ \A q \in SpendRequestIds :
                spendRequests'[q].approved
                    => \/ spendRequests[q].approved
                       \/ /\ verificationContract = VerificationAddress
                          /\ complianceContract = ComplianceAddress
<1>1. records \in [RecordIds -> ComplianceRecord]
      /\ spendRequests \in [SpendRequestIds -> SpendRequest]
  BY DEF TypeOK, ComplianceTypeOK
<1>2. ASSUME UNCHANGED <<records, spendRequests>> PROVE Links
  BY <1>2
<1>3. ASSUME NEW sender, NEW id, NEW index, NEW value, NEW hash,
             SubmitReport(sender, id, index, value, hash)
      PROVE  Links
  BY <1>1, <1>3 DEF SubmitReport
<1>4. ASSUME NEW sender, NEW id, NEW amount, NEW hash,
             CreateSpendRequest(sender, id, amount, hash)
      PROVE  Links
  BY <1>1, <1>4 DEF CreateSpendRequest
<1>5. ASSUME NEW sender, NEW q \in SpendRequestIds, NEW hash,
             MarkSpent(sender, q, hash)
      PROVE  Links
  <2>1. /\ records' = records
        /\ spendRequests' = [spendRequests EXCEPT ![q].spent = TRUE,
                                                  ![q].receiptHash = hash]
    BY <1>5 DEF MarkSpent, MayMarkSpent, PinReceipt
  <2>2. \A p \in SpendRequestIds :
            spendRequests'[p].approved = spendRequests[p].approved
    BY <1>1, <2>1 DEF SpendRequest
  <2> QED
    BY <2>1, <2>2
<1>6. ASSUME NEW sender \in Accounts, NEW r \in RecordIds,
             \/ Endorse(sender, r)
             \/ Decline(sender, r)
             \/ MarkRecordUnverified(sender, r)
      PROVE  Links
  <2>1. /\ UNCHANGED spendRequests
        /\ UNCHANGED records \/ verificationContract = VerificationAddress
    BY <1>6 DEF Endorse, MayEndorse, CountEndorsement, FinaliseAtThreshold,
          PinAndFinalise, MarkFinalised, MayMarkFinalised, AllButRecords,
          Decline, MayDecline, MarkRecordUnverified, MayMarkRecordUnverified,
          MarkUnverified, MayMarkUnverified, complianceVars
  <2> QED
    BY <2>1
<1>7. ASSUME NEW sender \in Accounts, NEW q \in SpendRequestIds,
             EndorseSpend(sender, q) \/ DeclineSpend(sender, q)
      PROVE  Links
  <2>1. /\ UNCHANGED records
        /\ \/ UNCHANGED spendRequests
           \/ /\ verificationContract = VerificationAddress
              /\ complianceContract = ComplianceAddress
    BY <1>7 DEF EndorseSpend, MayEndorseSpend, CountSpendEndorsement,
          MarkSpendApproved, MayMarkSpendApproved, CommitSpend, MayCommit,
          DeclineSpend, MayDeclineSpend, complianceVars
  <2> QED
    BY <2>1
<1> QED
  BY <1>2, <1>3, <1>4, <1>5, <1>6, <1>7, HistorySteps DEF HistoryTx, history

LEMMA WiredStep ==
  ASSUME TypeOK, LedgerInv, WiredBeforeSettling, [Next]_vars
  PROVE  WiredBeforeSettling'
<1>1. VerificationAddress # ZeroAddress /\ ComplianceAddress # ZeroAddress
  BY ReportsAssumption, AccountsAssumption
<1>2. /\ verificationContract = VerificationAddress
              => verificationContract' = VerificationAddress
      /\ complianceContract = ComplianceAddress
              => complianceContract' = ComplianceAddress
  BY <1>1, LinksStay
<1>3. ASSUME NEW r \in RecordIds,
             records'[r].finalised \/ records'[r].unverified
      PROVE  verificationContract = VerificationAddress
  BY <1>3, OutcomesNeedLinks DEF WiredBeforeSettling
<1>4. ASSUME NEW q \in SpendRequestIds, spendRequests'[q].approved
      PROVE  /\ verificationContract = VerificationAddress
             /\ complianceContract = ComplianceAddress
  BY <1>4, OutcomesNeedLinks DEF WiredBeforeSettling
<1> QED
  BY <1>2, <1>3, <1>4 DEF WiredBeforeSettling

\* Nothing is settled on a ledger whose deployment stopped half-way: an
\* outcome is only written through the links, and a link once set stays.
THEOREM SettlingNeedsWires == Spec => []WiredBeforeSettling
<1>1. Init => WiredBeforeSettling
  BY DEF Init, ComplianceInit, UnsetRecord, UnsetSpendRequest,
     WiredBeforeSettling
<1>2. TypeOK /\ LedgerInv /\ WiredBeforeSettling /\ [Next]_vars
        => WiredBeforeSettling'
  BY WiredStep
<1> QED
  BY <1>1, <1>2, TypeCorrect, LedgerInvariant, PTL DEF Spec

-----------------------------------------------------------------------------
(* The deployment script. *)

\* The seed organisations the script has registered.
Registered == IF sent > Wirings THEN sent - Wirings ELSE 0

SeedRegistry(k) ==
    [a \in Accounts |->
        IF \E i \in 1 .. k : SeedOrder[i] = a
        THEN [registered |-> TRUE, orgType |-> SeedRoles[a]]
        ELSE UnsetOrganisation]

\* Where the transactions sent so far have brought the set-up.
SetUpSoFar ==
    /\ verificationContract
            = IF sent > 0 THEN VerificationAddress ELSE ZeroAddress
    /\ complianceContract
            = IF sent > 1 THEN ComplianceAddress ELSE ZeroAddress
    /\ orgList = SubSeq(SeedOrder, 1, Registered)
    /\ organisations = SeedRegistry(Registered)

\* The rest is as the constructors left it.
NothingElse ==
    /\ nextAgreementId = 1
    /\ agreements = [id \in AgreementIds |-> UnsetAgreement]
    /\ agreementTargets = [id \in AgreementIds |-> <<>>]
    /\ now = 1
    /\ nextRecordId = 1
    /\ records = [r \in RecordIds |-> UnsetRecord]
    /\ failingRecordCount = [id \in AgreementIds |-> 0]
    /\ nextSpendRequestId = 1
    /\ spendRequests = [q \in SpendRequestIds |-> UnsetSpendRequest]
    /\ hasEndorsed = [r \in RecordIds |-> {}]
    /\ endorsementCount = [r \in RecordIds |-> 0]
    /\ hasDeclined = [r \in RecordIds |-> {}]
    /\ declineCount = [r \in RecordIds |-> 0]
    /\ finalisedBlockHash = [r \in RecordIds |-> 0]
    /\ hasEndorsedSpend = [q \in SpendRequestIds |-> {}]
    /\ spendEndorsementCount = [q \in SpendRequestIds |-> 0]
    /\ hasDeclinedSpend = [q \in SpendRequestIds |-> {}]
    /\ spendDeclineCount = [q \in SpendRequestIds |-> 0]

ScriptInv ==
    /\ sent \in 0 .. Wirings + Len(SeedOrder)
    /\ script = "done" => AllSent
    /\ ownerActed => disturbed
    /\ ownerActed \in BOOLEAN
    /\ ~ownerActed => SetUpSoFar
    /\ ~disturbed => NothingElse

LEMMA SeedLength ==
  Len(SeedOrder) \in Nat /\ SeedOrder \in Seq(Accounts)
BY SeedAssumption

LEMMA ScriptInvInit == DeploymentInit => ScriptInv
<1> SUFFICES ASSUME DeploymentInit PROVE ScriptInv
  OBVIOUS
<1>1. Registered = 0 /\ SubSeq(SeedOrder, 1, 0) = <<>>
  <2>1. Registered = 0
    BY DEF DeploymentInit, Registered, Wirings
  <2>2. SubSeq(SeedOrder, 1, 0) = <<>>
    BY SeedLength
  <2> QED
    BY <2>1, <2>2
<1>2. SetUpSoFar
  <2>1. SeedRegistry(0) = [a \in Accounts |-> UnsetOrganisation]
    BY DEF SeedRegistry
  <2> QED
    BY <1>1, <2>1
    DEF DeploymentInit, SetUpSoFar, Init, AgreementInit, ComplianceInit
<1>3. NothingElse
  BY DEF DeploymentInit, NothingElse, Init, AgreementInit, ComplianceInit,
     VerificationInit
<1>4. sent \in 0 .. Wirings + Len(SeedOrder)
  BY SeedLength DEF DeploymentInit, Wirings
<1>5. ownerActed \in BOOLEAN
  BY DEF DeploymentInit
<1> QED
  BY <1>2, <1>3, <1>4, <1>5, Zenon DEF DeploymentInit, ScriptInv

LEMMA WireComplianceKeeps ==
  ASSUME ScriptInv, ScriptSends, WireCompliance
  PROVE  ScriptInv'
<1>1. sent = 0 /\ sent' = 1 /\ UNCHANGED <<script, ownerActed, disturbed>>
      /\ script = "running"
  BY DEF WireCompliance, ScriptSends
<1>2. /\ verificationContract' = VerificationAddress
      /\ UNCHANGED <<organisations, orgList, complianceContract>>
  BY DEF WireCompliance, SetVerificationContract, agreementVars
<1>3. Registered = 0 /\ Registered' = 0
  BY <1>1 DEF Registered, Wirings
<1>4. SetUpSoFar => SetUpSoFar'
  BY <1>1, <1>2, <1>3 DEF SetUpSoFar, SeedRegistry
<1>5. NothingElse => NothingElse'
  BY DEF NothingElse, WireCompliance, ScriptSends, SetVerificationContract,
     agreementVars, verificationVars, recordVotes, spendVotes
<1> QED
  BY <1>1, <1>4, <1>5, SeedLength DEF ScriptInv, Wirings

LEMMA WireAgreementKeeps ==
  ASSUME ScriptInv, ScriptSends, WireAgreement
  PROVE  ScriptInv'
<1>1. sent = 1 /\ sent' = 2 /\ UNCHANGED <<script, ownerActed, disturbed>>
      /\ script = "running"
  BY DEF WireAgreement, ScriptSends
<1>2. /\ complianceContract' = ComplianceAddress
      /\ UNCHANGED <<organisations, orgList, verificationContract>>
  BY DEF WireAgreement, SetComplianceContract, complianceVars
<1>3. Registered = 0 /\ Registered' = 0
  BY <1>1 DEF Registered, Wirings
<1>4. SetUpSoFar => SetUpSoFar'
  BY <1>1, <1>2, <1>3 DEF SetUpSoFar, SeedRegistry
<1>5. NothingElse => NothingElse'
  BY DEF NothingElse, WireAgreement, ScriptSends, SetComplianceContract,
     complianceVars, verificationVars, recordVotes, spendVotes
<1> QED
  BY <1>1, <1>4, <1>5, SeedLength DEF ScriptInv, Wirings

\* An organisation of the seed is not yet on the list when its turn comes.
LEMMA RegisterSeedKeeps ==
  ASSUME ScriptInv, ScriptSends, RegisterSeed
  PROVE  ScriptInv'
<1> DEFINE k == Registered
           account == SeedOrder[k + 1]
<1>1. /\ sent \in Wirings .. Wirings + Len(SeedOrder) - 1
      /\ sent' = sent + 1
      /\ UNCHANGED <<script, ownerActed, disturbed>>
      /\ script = "running"
  BY DEF RegisterSeed, ScriptSends
<1>2. /\ k = sent - Wirings
      /\ k \in 0 .. Len(SeedOrder) - 1
      /\ Registered' = k + 1
  BY <1>1, SeedLength DEF Registered, Wirings
<1>3. /\ RegisterOrganisation(Owner, account, SeedRoles[account])
      /\ UNCHANGED <<complianceVars, verificationVars>>
  BY <1>2 DEF RegisterSeed
<1>4. account \in Accounts
  BY <1>2, SeedLength
<1>5. \A i \in 1 .. k : SeedOrder[i] # account
  BY <1>2, SeedAssumption, SeedLength
<1> HIDE DEF k
<1>6. ASSUME SetUpSoFar PROVE SetUpSoFar'
  <2>1. organisations = SeedRegistry(k)
    BY <1>6 DEF SetUpSoFar, k
  <2>2. ~organisations[account].registered
    BY <1>4, <1>5, <2>1 DEF SeedRegistry, UnsetOrganisation
  <2>3. orgList' = Append(SubSeq(SeedOrder, 1, k), account)
    BY <1>3, <1>6, <2>2 DEF RegisterOrganisation, SetUpSoFar, k
  <2>4. Append(SubSeq(SeedOrder, 1, k), SeedOrder[k + 1])
            = SubSeq(SeedOrder, 1, k + 1)
    <3>1. /\ 1 \in 1 .. Len(SeedOrder) /\ k + 1 \in 1 .. Len(SeedOrder)
          /\ (k + 1) - 1 = k
      BY <1>2, SeedLength
    <3>2. SubSeq(SeedOrder, 1, k) \in Seq(Accounts)
      BY <1>2, SeedLength, SubSeqProperties
    <3> QED
      BY <1>2, <1>4, <3>1, <3>2, SeedLength, SubSeqRecursiveSecond, AppendIsConcat
  <2>5. organisations' = SeedRegistry(k + 1)
    <3>1. organisations' = [organisations EXCEPT
                ![account] = [registered |-> TRUE,
                              orgType |-> SeedRoles[account]]]
      BY <1>3 DEF RegisterOrganisation
    <3>2. \A a \in Accounts :
            (\E i \in 1 .. k + 1 : SeedOrder[i] = a)
                <=> a = account \/ \E i \in 1 .. k : SeedOrder[i] = a
      BY <1>2
    <3> QED
      BY <1>4, <2>1, <3>1, <3>2 DEF SeedRegistry
  <2>6. UNCHANGED <<verificationContract, complianceContract>>
    BY <1>3 DEF RegisterOrganisation, complianceVars
  <2> QED
    BY <1>1, <1>2, <1>6, <2>3, <2>4, <2>5, <2>6 DEF SetUpSoFar, Wirings,
       SeedRegistry
<1>7. NothingElse => NothingElse'
  BY <1>3 DEF NothingElse, ScriptSends, RegisterOrganisation, complianceVars,
     verificationVars, recordVotes, spendVotes
<1> QED
  BY <1>1, <1>6, <1>7, SeedLength DEF ScriptInv, Wirings

LEMMA ScriptInvNext ==
  ASSUME ScriptInv, [DeploymentNext]_<<vars, scriptVars>>
  PROVE  ScriptInv'
<1>1. CASE ScriptSetsWindow \/ ScriptEnds
  <2>1. /\ AllSent
        /\ UNCHANGED <<sent, ownerActed, disturbed>>
        /\ UNCHANGED <<agreementVars, complianceVars, recordVotes, spendVotes,
                       now>>
    BY <1>1 DEF ScriptSetsWindow, ScriptEnds, SetVerificationWindow,
       verificationVars, vars
  <2>2. SetUpSoFar => SetUpSoFar'
    BY <2>1 DEF SetUpSoFar, SeedRegistry, Registered, agreementVars,
       complianceVars
  <2>3. NothingElse => NothingElse'
    BY <2>1 DEF NothingElse, agreementVars, complianceVars, recordVotes,
       spendVotes
  <2> QED
    BY <2>1, <2>2, <2>3 DEF ScriptInv, AllSent
<1>2. CASE Others
  <2>1. ~ownerActed' => ~ownerActed /\ SetUp' = SetUp
    BY <1>2 DEF Others
  <2>2. SetUp' = SetUp /\ SetUpSoFar => SetUpSoFar'
    BY <1>2 DEF Others, SetUp, SetUpSoFar, SeedRegistry, Registered
  <2>3. disturbed' = TRUE /\ UNCHANGED <<sent, script>>
    BY <1>2 DEF Others
  <2>4. ownerActed' \in BOOLEAN
    BY <1>2 DEF Others, ScriptInv
  <2> QED
    BY <2>1, <2>2, <2>3, <2>4 DEF ScriptInv, AllSent
<1>3. CASE ScriptStops \/ UNCHANGED <<vars, scriptVars>>
  <2>1. UNCHANGED <<vars, sent, ownerActed, disturbed>>
        /\ (script' = "done" => script = "done")
    BY <1>3 DEF ScriptStops, scriptVars
  <2>2. SetUpSoFar => SetUpSoFar'
    BY <2>1 DEF SetUpSoFar, SeedRegistry, Registered, vars, agreementVars,
       complianceVars
  <2>3. NothingElse => NothingElse'
    BY <2>1 DEF NothingElse, vars, agreementVars, complianceVars,
       verificationVars, recordVotes, spendVotes
  <2> QED
    BY <2>1, <2>2, <2>3 DEF ScriptInv, AllSent
<1> QED
  BY <1>1, <1>2, <1>3, WireComplianceKeeps, WireAgreementKeeps,
     RegisterSeedKeeps DEF DeploymentNext, ScriptSends

LEMMA ScriptInvDeploys == ScriptInv => ScriptLeavesDeployed
<1> SUFFICES ASSUME ScriptInv, script = "done", ~ownerActed
             PROVE  ScriptLeavesDeployed
  BY DEF ScriptLeavesDeployed
<1>1. sent = Wirings + Len(SeedOrder) /\ Registered = Len(SeedOrder)
  BY SeedLength DEF ScriptInv, AllSent, Registered, Wirings
<1>2. /\ complianceContract = ComplianceAddress
      /\ verificationContract = VerificationAddress
  BY <1>1, SeedLength DEF ScriptInv, SetUpSoFar, Wirings
<1>3. orgList = SeedOrder
  BY <1>1, SeedLength, SubSeqFull DEF ScriptInv, SetUpSoFar
<1>4. organisations = [a \in Accounts |->
            IF a \in DOMAIN SeedRoles
            THEN [registered |-> TRUE, orgType |-> SeedRoles[a]]
            ELSE UnsetOrganisation]
  <2>1. \A a \in Accounts : (\E i \in 1 .. Len(SeedOrder) : SeedOrder[i] = a)
                                <=> a \in DOMAIN SeedRoles
    BY SeedAssumption
  <2> QED
    BY <1>1, <2>1 DEF ScriptInv, SetUpSoFar, SeedRegistry
<1>5. ~disturbed /\ verificationWindow = DefaultWindow => DeployedInit
  BY <1>2, <1>3, <1>4 DEF ScriptInv, NothingElse, DeployedInit,
     VerificationInit
<1> QED
  BY <1>2, <1>3, <1>4, <1>5 DEF ScriptLeavesDeployed

\* A script that reports success has wired both contracts and registered
\* every seed organisation, once and with its role, whoever used the ledger
\* meanwhile.
THEOREM ScriptDeploys == DeploymentSpec => []ScriptLeavesDeployed
<1> QED
  BY ScriptInvInit, ScriptInvNext, ScriptInvDeploys, PTL DEF DeploymentSpec

-----------------------------------------------------------------------------
(* Sums of amounts over a finite set. *)

AmountSum(f, T) == MapThenSumSet(LAMBDA q : f[q].amount, T)

Picked(s) == CHOOSE x \in s : TRUE

\* g sums the amounts of f over every subset of T, one element at a time.
Sums(g, f, T) ==
    g = [s \in SUBSET T |->
            IF s = {} THEN 0 ELSE f[Picked(s)].amount + g[s \ {Picked(s)}]]

LEMMA AmountSumIs ==
  ASSUME NEW f, NEW T
  PROVE  AmountSum(f, T) = (CHOOSE g : Sums(g, f, T))[T]
BY DEF AmountSum, MapThenSumSet, MapThenFoldSet, Sums, Picked

LEMMA PickedIn == ASSUME NEW s, s # {} PROVE Picked(s) \in s
BY DEF Picked

\* Among any subsets of a finite set there is one with no other inside it.
LEMMA SmallestSubset ==
  ASSUME NEW S, IsFiniteSet(S)
  PROVE  \A B \in SUBSET SUBSET S : B # {} =>
            \E s \in B : \A t \in SUBSET S : t \subseteq s /\ t # s => t \notin B
<1> SUFFICES ASSUME NEW B \in SUBSET SUBSET S, B # {}
             PROVE  \E s \in B : \A t \in SUBSET S :
                        t \subseteq s /\ t # s => t \notin B
  OBVIOUS
<1>1. IsWellFoundedOn(StrictSubsetOrdering(S), SUBSET S)
  BY FS_FiniteSubsetsOfFinite, FS_StrictSubsetOrderingWellFounded
<1>2. PICK s \in B : \A t \in B : <<t, s>> \notin StrictSubsetOrdering(S)
  BY <1>1, WFMin
<1> QED
  BY <1>2 DEF StrictSubsetOrdering

SameAmounts(f, h, S) == \A q \in S : f[q].amount = h[q].amount

LEMMA SumsAgree ==
  ASSUME NEW S, IsFiniteSet(S), NEW T \in SUBSET S, NEW U \in SUBSET S,
         NEW f, NEW h, SameAmounts(f, h, S),
         NEW g, NEW k, Sums(g, f, T), Sums(k, h, U)
  PROVE  \A s \in SUBSET (T \cap U) : g[s] = k[s]
<1> DEFINE B == {s \in SUBSET (T \cap U) : g[s] # k[s]}
<1> SUFFICES ASSUME B # {} PROVE FALSE
  OBVIOUS
<1>1. PICK s \in B : \A t \in SUBSET S : t \subseteq s /\ t # s => t \notin B
  <2>1. B \in SUBSET SUBSET S
    OBVIOUS
  <2> HIDE DEF B
  <2> QED
    BY <2>1, SmallestSubset
<1>2. s \in SUBSET T /\ s \in SUBSET U
  OBVIOUS
<1>3. CASE s = {}
  BY <1>2, <1>3 DEF Sums
<1>4. CASE s # {}
  <2> DEFINE t == s \ {Picked(s)}
  <2>1. Picked(s) \in s
    BY <1>4, PickedIn
  <2>2. t \notin B /\ t \in SUBSET (T \cap U)
    BY <1>1, <2>1
  <2>3. g[t] = k[t]
    BY <2>2
  <2>4. g[s] = f[Picked(s)].amount + g[t]
    BY <1>2, <1>4 DEF Sums
  <2>5. k[s] = h[Picked(s)].amount + k[t]
    BY <1>2, <1>4 DEF Sums
  <2>6. f[Picked(s)].amount = h[Picked(s)].amount
    BY <2>1, <1>2 DEF SameAmounts
  <2> QED
    BY <2>3, <2>4, <2>5, <2>6
<1> QED
  BY <1>3, <1>4

LEMMA SumsExist ==
  ASSUME NEW S, IsFiniteSet(S), NEW f
  PROVE  \A T \in SUBSET S : \E g : Sums(g, f, T)
<1> DEFINE B == {T \in SUBSET S : ~ \E g : Sums(g, f, T)}
<1> SUFFICES ASSUME B # {} PROVE FALSE
  OBVIOUS
<1>1. PICK T \in B : \A t \in SUBSET S : t \subseteq T /\ t # T => t \notin B
  <2>1. B \in SUBSET SUBSET S
    OBVIOUS
  <2> HIDE DEF B
  <2> QED
    BY <2>1, SmallestSubset
<1> DEFINE Of(t) == CHOOSE g : Sums(g, f, t)
           Value(t) == Of(t)[t]
<1>2. ASSUME NEW t \in SUBSET T, t # T PROVE Sums(Of(t), f, t)
  <2>1. \E g : Sums(g, f, t)
    BY <1>1, <1>2
  <2> QED
    BY <2>1
<1>3. ASSUME NEW t \in SUBSET T, t # T, t # {}
      PROVE  Value(t) = f[Picked(t)].amount + Value(t \ {Picked(t)})
  <2> DEFINE u == t \ {Picked(t)}
  <2>1. Picked(t) \in t /\ u \in SUBSET t /\ u # T /\ u \in SUBSET T
    BY <1>3, PickedIn
  <2>2. Sums(Of(t), f, t) /\ Sums(Of(u), f, u)
    BY <1>2, <1>3, <2>1
  <2>3. Of(t)[t] = f[Picked(t)].amount + Of(t)[u]
    BY <2>2, <1>3 DEF Sums
  <2>4. Of(t)[u] = Of(u)[u]
    <3>1. t \in SUBSET S /\ u \in SUBSET S /\ u \in SUBSET (t \cap u)
      BY <2>1, <1>1
    <3>2. SameAmounts(f, f, S)
      BY DEF SameAmounts
    <3> HIDE DEF Of, u
    <3> QED
      BY <2>2, <3>1, <3>2, SumsAgree
  <2> QED
    BY <2>3, <2>4
<1>4. T # {} => Picked(T) \in T
  BY PickedIn
<1>5. T \ {Picked(T)} # T \/ T = {}
  BY <1>4
<1>6. {} # T => Value({}) = 0
  <2>1. {} # T => Sums(Of({}), f, {})
    BY <1>2
  <2> HIDE DEF Of
  <2> QED
    BY <2>1 DEF Sums
<1> DEFINE g == [t \in SUBSET T |->
                    IF t # T THEN Value(t)
                    ELSE IF T = {} THEN 0
                    ELSE f[Picked(T)].amount + Value(T \ {Picked(T)})]
<1>7. Sums(g, f, T)
  <2> HIDE DEF Value
  <2>1. ASSUME NEW t \in SUBSET T
        PROVE  g[t] = IF t = {} THEN 0
                      ELSE f[Picked(t)].amount + g[t \ {Picked(t)}]
    <3>1. t # {} => /\ t \ {Picked(t)} \in SUBSET T
                    /\ t \ {Picked(t)} # T
      BY <2>1, PickedIn
    <3> QED
      BY <2>1, <3>1, <1>3, <1>6
  <2> QED
    BY <2>1 DEF Sums
<1> QED
  BY <1>7

\* The sum of an empty set, of one element more, and that it is a number.
LEMMA AmountSumEmpty == ASSUME NEW f PROVE AmountSum(f, {}) = 0
<1>1. \E g : Sums(g, f, {})
  BY FS_EmptySet, SumsExist
<1>2. Sums(CHOOSE g : Sums(g, f, {}), f, {})
  BY <1>1
<1> QED
  BY <1>2, AmountSumIs DEF Sums

LEMMA AmountSumSame ==
  ASSUME NEW S, IsFiniteSet(S), NEW f, NEW h, SameAmounts(f, h, S)
  PROVE  AmountSum(f, S) = AmountSum(h, S)
<1> DEFINE g == CHOOSE x : Sums(x, f, S)
           k == CHOOSE x : Sums(x, h, S)
<1>1. Sums(g, f, S) /\ Sums(k, h, S)
  <2>1. (\E x : Sums(x, f, S)) /\ (\E x : Sums(x, h, S))
    BY SumsExist
  <2> QED
    BY <2>1
<1>2. AmountSum(f, S) = g[S] /\ AmountSum(h, S) = k[S]
  BY AmountSumIs
<1> HIDE DEF g, k
<1>3. S \in SUBSET S /\ S \in SUBSET (S \cap S)
  OBVIOUS
<1>4. \A s \in SUBSET (S \cap S) : g[s] = k[s]
  <2>1. \A T, U \in SUBSET S :
            Sums(g, f, T) /\ Sums(k, h, U) =>
                \A s \in SUBSET (T \cap U) : g[s] = k[s]
    BY SumsAgree
  <2> QED
    BY <1>1, <1>3, <2>1
<1> QED
  BY <1>2, <1>3, <1>4

LEMMA AmountSumStep ==
  ASSUME NEW S, IsFiniteSet(S), NEW f, NEW T \in SUBSET S, T # {}
  PROVE  AmountSum(f, T) =
            f[Picked(T)].amount + AmountSum(f, T \ {Picked(T)})
<1> DEFINE u == T \ {Picked(T)}
           g == CHOOSE x : Sums(x, f, T)
           k == CHOOSE x : Sums(x, f, u)
<1>1. u \in SUBSET T /\ u \in SUBSET S /\ T \in SUBSET S /\ T \in SUBSET T
      /\ u \in SUBSET (T \cap u)
  OBVIOUS
<1>2. Sums(g, f, T) /\ Sums(k, f, u)
  <2>1. (\E x : Sums(x, f, T)) /\ (\E x : Sums(x, f, u))
    BY <1>1, SumsExist
  <2> QED
    BY <2>1
<1>3. AmountSum(f, T) = g[T] /\ AmountSum(f, u) = k[u]
  BY AmountSumIs
<1>4. g[T] = f[Picked(T)].amount + g[u]
  BY <1>1, <1>2 DEF Sums
<1>5. g[u] = k[u]
  <2>1. SameAmounts(f, f, S)
    BY DEF SameAmounts
  <2> HIDE DEF g, k, u
  <2>2. \A s \in SUBSET (T \cap u) : g[s] = k[s]
    BY <1>1, <1>2, <2>1, SumsAgree
  <2> QED
    BY <1>1, <2>2
<1> QED
  BY <1>3, <1>4, <1>5

LEMMA AmountSumType ==
  ASSUME NEW S, IsFiniteSet(S), NEW f, \A q \in S : f[q].amount \in Nat
  PROVE  \A T \in SUBSET S : AmountSum(f, T) \in Nat
<1> DEFINE B == {T \in SUBSET S : AmountSum(f, T) \notin Nat}
<1> SUFFICES ASSUME B # {} PROVE FALSE
  OBVIOUS
<1>1. PICK T \in B : \A t \in SUBSET S : t \subseteq T /\ t # T => t \notin B
  <2>1. B \in SUBSET SUBSET S
    OBVIOUS
  <2> HIDE DEF B
  <2> QED
    BY <2>1, SmallestSubset
<1>2. CASE T = {}
  BY <1>2, AmountSumEmpty
<1>3. CASE T # {}
  <2>1. Picked(T) \in T /\ T \in SUBSET S
    BY <1>3, PickedIn
  <2>2. AmountSum(f, T \ {Picked(T)}) \in Nat
    BY <1>1, <2>1
  <2> QED
    BY <1>3, <2>1, <2>2, AmountSumStep
<1> QED
  BY <1>2, <1>3

\* The order in which elements are picked does not matter.
LEMMA AmountSumRemove ==
  ASSUME NEW S, IsFiniteSet(S), NEW f, \A q \in S : f[q].amount \in Nat
  PROVE  \A T \in SUBSET S : \A x \in T :
            AmountSum(f, T) = f[x].amount + AmountSum(f, T \ {x})
<1> DEFINE B == {T \in SUBSET S : ~ \A x \in T :
                    AmountSum(f, T) = f[x].amount + AmountSum(f, T \ {x})}
<1> SUFFICES ASSUME B # {} PROVE FALSE
  OBVIOUS
<1>1. PICK T \in B : \A t \in SUBSET S : t \subseteq T /\ t # T => t \notin B
  <2>1. B \in SUBSET SUBSET S
    OBVIOUS
  <2> HIDE DEF B
  <2> QED
    BY <2>1, SmallestSubset
<1>2. PICK x \in T :
        AmountSum(f, T) # f[x].amount + AmountSum(f, T \ {x})
  OBVIOUS
<1> DEFINE y == Picked(T)
<1>3. y \in T /\ T \in SUBSET S /\ T # {}
  BY PickedIn
<1>4. AmountSum(f, T) = f[y].amount + AmountSum(f, T \ {y})
  BY <1>3, AmountSumStep
<1>5. x # y
  BY <1>2, <1>4
<1>6. AmountSum(f, T \ {y}) = f[x].amount + AmountSum(f, (T \ {y}) \ {x})
  <2>1. T \ {y} \in SUBSET S /\ T \ {y} # T /\ x \in T \ {y}
    BY <1>3, <1>5
  <2> QED
    BY <1>1, <2>1
<1>7. AmountSum(f, T \ {x}) = f[y].amount + AmountSum(f, (T \ {x}) \ {y})
  <2>1. T \ {x} \in SUBSET S /\ T \ {x} # T /\ y \in T \ {x}
    BY <1>3, <1>5
  <2> QED
    BY <1>1, <2>1
<1>8. (T \ {y}) \ {x} = (T \ {x}) \ {y}
  OBVIOUS
<1>9. AmountSum(f, (T \ {x}) \ {y}) \in Nat
      /\ f[x].amount \in Nat /\ f[y].amount \in Nat
  BY <1>3, AmountSumType
<1> DEFINE a == f[x].amount
           b == f[y].amount
           c == AmountSum(f, (T \ {x}) \ {y})
<1>10. AmountSum(f, T) = b + (a + c)
  BY <1>4, <1>6, <1>8
<1>11. AmountSum(f, T) # a + (b + c)
  BY <1>2, <1>7
<1>12. a \in Nat /\ b \in Nat /\ c \in Nat
  BY <1>9
<1> HIDE DEF a, b, c
<1> QED
  BY <1>10, <1>11, <1>12

LEMMA AmountSumAdd ==
  ASSUME NEW S, IsFiniteSet(S), NEW f, \A q \in S : f[q].amount \in Nat,
         NEW T \in SUBSET S, NEW x \in S \ T
  PROVE  AmountSum(f, T \cup {x}) = AmountSum(f, T) + f[x].amount
<1> DEFINE U == T \cup {x}
<1>1. U \in SUBSET S /\ x \in U /\ U \ {x} = T
  OBVIOUS
<1>2. AmountSum(f, T) \in Nat /\ f[x].amount \in Nat
  BY AmountSumType
<1> HIDE DEF U
<1>3. AmountSum(f, U) = f[x].amount + AmountSum(f, U \ {x})
  BY <1>1, AmountSumRemove
<1>4. AmountSum(f, U) = f[x].amount + AmountSum(f, T)
  BY <1>1, <1>3
<1> QED
  BY <1>2, <1>4 DEF U

-----------------------------------------------------------------------------
(* Committed is approved. *)

\* What a step does to the approvals of the requests and to what is
\* committed: nothing, or it approves one request and commits its amount.
ApprovalsSame ==
    /\ \A id \in AgreementIds :
            agreements'[id].committedSpend = agreements[id].committedSpend
    /\ \A q \in SpendRequestIds :
            /\ spendRequests'[q].approved = spendRequests[q].approved
            /\ spendRequests[q].approved =>
                    /\ spendRequests'[q].agreementId
                            = spendRequests[q].agreementId
                    /\ spendRequests'[q].amount = spendRequests[q].amount

Approves(q) ==
    /\ SpendRequestExists(q)
    /\ ~spendRequests[q].approved
    /\ spendRequests[q].amount <= RemainingBudget(spendRequests[q].agreementId)
    /\ spendRequests' = [spendRequests EXCEPT ![q].approved = TRUE]
    /\ AddToCommitted(spendRequests[q].agreementId, spendRequests[q].amount)

LEMMA EndorsementApproves ==
  ASSUME NEW sender, NEW q, EndorseSpend(sender, q)
  PROVE  Approves(q) \/ UNCHANGED <<agreementVars, complianceVars>>
BY DEF EndorseSpend, MayEndorseSpend, CountSpendEndorsement, MarkSpendApproved,
      MayMarkSpendApproved, CommitSpend, MayCommit, Approves

LEMMA NewRequestApproves ==
  ASSUME TypeOK, LedgerInv, NEW sender, NEW id, NEW amount, NEW hash,
         CreateSpendRequest(sender, id, amount, hash)
  PROVE  ApprovalsSame
<1> DEFINE n == nextSpendRequestId
<1>1. n \in SpendRequestIds /\ spendRequests[n] = UnsetSpendRequest
  BY DEF CreateSpendRequest, LedgerInv, RequestsInOrder, TypeOK,
     ComplianceTypeOK, SpendRequestIds
<1>2. /\ spendRequests'[n].approved = FALSE
      /\ \A q \in SpendRequestIds : q # n => spendRequests'[q] = spendRequests[q]
      /\ UNCHANGED agreements
  BY <1>1 DEF CreateSpendRequest, TypeOK, ComplianceTypeOK, agreementVars
<1>3. spendRequests[n].approved = FALSE
  BY <1>1 DEF UnsetSpendRequest
<1> QED
  BY <1>2, <1>3 DEF ApprovalsSame

LEMMA SettlingApproves ==
  ASSUME TypeOK, NEW sender, NEW q \in SpendRequestIds, NEW hash,
         MarkSpent(sender, q, hash)
  PROVE  ApprovalsSame
<1>1. \A p \in SpendRequestIds : spendRequests[p] \in SpendRequest
  BY DEF TypeOK, ComplianceTypeOK
<1>2. \A p \in SpendRequestIds :
        /\ spendRequests'[p].approved = spendRequests[p].approved
        /\ spendRequests'[p].agreementId = spendRequests[p].agreementId
        /\ spendRequests'[p].amount = spendRequests[p].amount
  BY <1>1 DEF MarkSpent, MayMarkSpent, PinReceipt, TypeOK, ComplianceTypeOK,
        SpendRequest
<1>3. UNCHANGED agreements
  BY DEF MarkSpent, MayMarkSpent, PinReceipt, agreementVars
<1> QED
  BY <1>2, <1>3 DEF ApprovalsSame

LEMMA ApprovalStep ==
  ASSUME TypeOK, LedgerInv, [Next]_vars
  PROVE  ApprovalsSame \/ \E q \in SpendRequestIds : Approves(q)
<1>1. UNCHANGED <<agreements, spendRequests>> => ApprovalsSame
  BY DEF ApprovalsSame
<1>2. CASE AgreementTx
  <2>1. UNCHANGED spendRequests
    BY <1>2 DEF AgreementTx, complianceVars
  <2>2. \A id \in AgreementIds : Untouched(id)
    BY <1>2, AgreementNextFrame DEF AgreementTx, LedgerInv
  <2> QED
    BY <2>1, <2>2 DEF ApprovalsSame, Untouched
<1>3. CASE ComplianceTx
  <2>1. ASSUME NEW sender, NEW id, NEW index, NEW value, NEW hash,
               SubmitReport(sender, id, index, value, hash)
        PROVE  ApprovalsSame
    BY <1>1, <2>1 DEF SubmitReport, agreementVars
  <2>2. ASSUME NEW sender, SetVerificationContract(sender, VerificationAddress)
        PROVE  ApprovalsSame
    BY <1>1, <2>2 DEF SetVerificationContract, agreementVars
  <2> QED
    BY <1>3, <2>1, <2>2, NewRequestApproves, SettlingApproves
    DEF ComplianceTx, ComplianceNext
<1>4. CASE VerificationTx
  <2>1. ASSUME NEW sender, NEW r,
               \/ Endorse(sender, r)
               \/ Decline(sender, r)
               \/ MarkRecordUnverified(sender, r)
        PROVE  ApprovalsSame
    BY <1>1, <2>1 DEF Endorse, MayEndorse, CountEndorsement,
          FinaliseAtThreshold, PinAndFinalise, MarkFinalised, MayMarkFinalised,
          AllButRecords, Decline, MayDecline, MarkRecordUnverified,
          MayMarkRecordUnverified, MarkUnverified, MayMarkUnverified,
          agreementVars, complianceVars
  <2>2. ASSUME NEW sender, NEW window, SetVerificationWindow(sender, window)
        PROVE  ApprovalsSame
    BY <1>1, <2>2 DEF SetVerificationWindow, agreementVars, complianceVars
  <2>3. ASSUME NEW sender, NEW q \in SpendRequestIds, DeclineSpend(sender, q)
        PROVE  ApprovalsSame
    BY <1>1, <2>3 DEF DeclineSpend, MayDeclineSpend, agreementVars,
          complianceVars
  <2>4. ASSUME NEW sender, NEW q \in SpendRequestIds, EndorseSpend(sender, q)
        PROVE  ApprovalsSame \/ Approves(q)
    BY <1>1, <2>4, EndorsementApproves DEF agreementVars, complianceVars
  <2> QED
    BY <1>4, <2>1, <2>2, <2>3, <2>4 DEF VerificationTx, VerificationNext
<1>5. CASE NextBlock \/ UNCHANGED vars
  BY <1>1, <1>5 DEF NextBlock, vars, agreementVars, complianceVars
<1> QED
  BY <1>2, <1>3, <1>4, <1>5 DEF Next

LEMMA RequestsFinite ==
  /\ IsFiniteSet(SpendRequestIds)
  /\ \A id : ApprovedRequests(id) \in SUBSET SpendRequestIds
  /\ \A id : ApprovedRequests(id)' \in SUBSET SpendRequestIds
BY FS_Interval, ComplianceBoundsAssumption DEF SpendRequestIds,
      ApprovedRequests

LEMMA CommittedIs ==
  /\ CommittedIsApproved <=>
        \A id \in AgreementIds :
            agreements[id].committedSpend
                = AmountSum(spendRequests, ApprovedRequests(id))
  /\ CommittedIsApproved' <=>
        \A id \in AgreementIds :
            agreements'[id].committedSpend
                = AmountSum(spendRequests', ApprovedRequests(id)')
BY DEF CommittedIsApproved, AmountSum, MapThenSumSet, MapThenFoldSet

LEMMA CommittedWhenSame ==
  ASSUME CommittedIsApproved, ApprovalsSame
  PROVE  CommittedIsApproved'
<1> SUFFICES ASSUME NEW id \in AgreementIds
             PROVE  agreements'[id].committedSpend
                        = AmountSum(spendRequests', ApprovedRequests(id)')
  BY CommittedIs
<1> DEFINE A == ApprovedRequests(id)
<1>1. A' = A
  BY DEF ApprovalsSame, ApprovedRequests
<1>2. IsFiniteSet(A)
  BY RequestsFinite, FS_Subset
<1>3. SameAmounts(spendRequests, spendRequests', A)
  BY DEF SameAmounts, ApprovalsSame, ApprovedRequests
<1>4. AmountSum(spendRequests, A) = AmountSum(spendRequests', A)
  BY <1>2, <1>3, AmountSumSame
<1> QED
  BY <1>1, <1>4, CommittedIs DEF ApprovalsSame

LEMMA CommittedWhenApproves ==
  ASSUME TypeOK, LedgerInv, CommittedIsApproved,
         NEW q \in SpendRequestIds, Approves(q)
  PROVE  CommittedIsApproved'
<1> SUFFICES ASSUME NEW id \in AgreementIds
             PROVE  agreements'[id].committedSpend
                        = AmountSum(spendRequests', ApprovedRequests(id)')
  BY CommittedIs
<1> DEFINE A == ApprovedRequests(id)
           a == spendRequests[q].agreementId
           m == spendRequests[q].amount
<1>1. /\ \A p \in SpendRequestIds : spendRequests[p] \in SpendRequest
      /\ agreements[id] \in Agreement
  BY DEF TypeOK, ComplianceTypeOK, AgreementTypeOK
<1>2. \A p \in SpendRequestIds :
        /\ spendRequests'[p].agreementId = spendRequests[p].agreementId
        /\ spendRequests'[p].amount = spendRequests[p].amount
        /\ spendRequests'[p].approved = (p = q \/ spendRequests[p].approved)
  BY <1>1 DEF Approves, TypeOK, ComplianceTypeOK, SpendRequest
<1>3. A' = IF id = a THEN A \cup {q} ELSE A
  BY <1>2 DEF ApprovedRequests
<1>4. q \notin A
  BY DEF ApprovedRequests, Approves
<1>5. agreements'[id].committedSpend
        = IF id = a THEN agreements[id].committedSpend + m
                    ELSE agreements[id].committedSpend
  BY <1>1 DEF Approves, AddToCommitted, TypeOK, AgreementTypeOK, Agreement
<1>6. /\ SameAmounts(spendRequests, spendRequests', A')
      /\ IsFiniteSet(A')
      /\ \A p \in SpendRequestIds : spendRequests[p].amount \in Nat
  BY <1>1, <1>2, RequestsFinite, FS_Subset
  DEF SameAmounts, ApprovedRequests, SpendRequest
<1>7. AmountSum(spendRequests', A') = AmountSum(spendRequests, A')
  <2> HIDE DEF A
  <2> QED
    BY <1>6, AmountSumSame
<1>8. AmountSum(spendRequests, A \cup {q}) = AmountSum(spendRequests, A) + m
  <2>1. A \in SUBSET SpendRequestIds /\ q \in SpendRequestIds \ A
    BY <1>4, RequestsFinite
  <2> HIDE DEF A
  <2> QED
    BY <1>6, <2>1, RequestsFinite, AmountSumAdd
<1> QED
  BY <1>3, <1>5, <1>7, <1>8, CommittedIs

LEMMA FreshCommitted ==
  ASSUME Init \/ DeployedInit
  PROVE  CommittedIsApproved
<1>1. \A id \in AgreementIds : ApprovedRequests(id) = {}
  BY DEF Init, ComplianceInit, DeployedInit, ApprovedRequests,
     UnsetSpendRequest
<1>2. \A id \in AgreementIds : agreements[id].committedSpend = 0
  BY DEF Init, AgreementInit, DeployedInit, UnsetAgreement
<1> QED
  BY <1>1, <1>2, AmountSumEmpty, CommittedIs

\* What is committed against an agreement is what was approved against it:
\* the approval and the commit are one transaction, across three contracts.
THEOREM CommittedExact == (Spec \/ DeployedSpec) => []CommittedIsApproved
<1>1. Init \/ DeployedInit => CommittedIsApproved
  BY FreshCommitted
<1>2. TypeOK /\ LedgerInv /\ CommittedIsApproved /\ [Next]_vars
        => CommittedIsApproved'
  BY ApprovalStep, CommittedWhenSame, CommittedWhenApproves
<1> QED
  BY <1>1, <1>2, TypeCorrect, DeployedTypeCorrect, LedgerInvariant,
     DeployedLedgerInvariant, PTL DEF Spec, DeployedSpec

-----------------------------------------------------------------------------
(* The contracts implement SpendBudget. *)

BudgetOf == [id \in AgreementIds |-> agreements[id].budget]

Locked == {id \in AgreementIds : IsFinalised(id)}

ChargeOf ==
    [q \in SpendRequestIds |->
        [agreement |-> spendRequests[q].agreementId,
         amount |-> spendRequests[q].amount]]

\* An approved request exists and a spent one is approved, so that the stages
\* of a request exclude each other.
StagesApart ==
    \A q \in SpendRequestIds :
        /\ spendRequests[q].approved => SpendRequestExists(q)
        /\ spendRequests[q].spent => spendRequests[q].approved

LEMMA StagesAreApart ==
  ASSUME TypeOK, LedgerInv, SpentIsApproved
  PROVE  StagesApart
<1> SUFFICES ASSUME NEW q \in SpendRequestIds, spendRequests[q].approved
             PROVE  SpendRequestExists(q)
  BY DEF StagesApart, SpentIsApproved
<1> QED
  BY DEF LedgerInv, RequestsInOrder, SpendRequestExists, UnsetSpendRequest,
     TypeOK, ComplianceTypeOK, SpendRequestIds

\* What can still be approved against an agreement is what its contract
\* computes from the committed figure.
LEMMA AvailableIs ==
  ASSUME StagesApart, CommittedIsApproved, NEW id \in AgreementIds
  PROVE  Budget!Available(id) = RemainingBudget(id)
<1>1. Budget!Granted(id) = ApprovedRequests(id)
  BY DEF Budget!Granted, ApprovedRequests, RequestStage, StagesApart
<1>2. SameAmounts(ChargeOf, spendRequests, ApprovedRequests(id))
  BY DEF SameAmounts, ChargeOf, ApprovedRequests
<1>3. IsFiniteSet(ApprovedRequests(id))
  BY RequestsFinite, FS_Subset
<1>4. AmountSum(ChargeOf, ApprovedRequests(id))
        = AmountSum(spendRequests, ApprovedRequests(id))
  BY <1>2, <1>3, AmountSumSame
<1>5. Budget!Available(id)
        = BudgetOf[id] - AmountSum(ChargeOf, Budget!Granted(id))
  BY DEF Budget!Available, AmountSum, BudgetOf, ChargeOf,
     MapThenSumSet, MapThenFoldSet, Budget!MapThenSumSet, Budget!MapThenFoldSet
<1> QED
  BY <1>1, <1>4, <1>5, CommittedIs DEF BudgetOf, RemainingBudget

\* A step that leaves the requests alone, and budgets and finalisation too,
\* is a stutter.
LEMMA SameBudget ==
  ASSUME UNCHANGED spendRequests,
         \A id \in AgreementIds :
            /\ agreements'[id].budget = agreements[id].budget
            /\ agreements'[id].finalised = agreements[id].finalised
  PROVE  UNCHANGED Budget!vars
BY DEF Budget!vars, RequestStage, SpendRequestExists, IsFinalised

LEMMA DraftImplements ==
  ASSUME TypeOK, NEW sender, NEW id \in AgreementIds, DraftTx(sender, id),
         UNCHANGED spendRequests
  PROVE  Budget!Next \/ UNCHANGED Budget!vars
<1>1. /\ agreements \in [AgreementIds -> Agreement]
      /\ agreements[id] \in Agreement
  BY DEF TypeOK, AgreementTypeOK
<1>2. UNCHANGED <<RequestStage, ChargeOf>>
  BY DEF RequestStage, ChargeOf, SpendRequestExists
<1>3. ASSUME NEW b \in Budgets, SetBudget(sender, id, b)
      PROVE  Budget!Next
  <2>1. b \in Nat /\ id \notin Locked
    BY <1>3, TermsAssumption DEF SetBudget, MayEditDraft, Locked, IsFinalised
  <2>2. /\ BudgetOf' = [BudgetOf EXCEPT ![id] = b]
        /\ Locked' = Locked
    BY <1>1, <1>3 DEF SetBudget, BudgetOf, Locked, IsFinalised, Agreement
  <2>3. BudgetOf'[id] = b
    BY <2>2 DEF BudgetOf
  <2>4. Budget!SetBudget(id)
    BY <1>2, <2>1, <2>2, <2>3
    DEF Budget!SetBudget, BudgetOf, Locked, ChargeOf
  <2> QED
    BY <2>4 DEF Budget!Next
<1>4. CASE FinaliseAgreement(sender, id)
  <2>1. /\ BudgetOf' = BudgetOf
        /\ Locked' = Locked \cup {id}
    BY <1>1, <1>4 DEF FinaliseAgreement, BudgetOf, Locked, IsFinalised,
       Agreement
  <2>2. Budget!Lock(id)
    BY <1>2, <2>1 DEF Budget!Lock, BudgetOf, Locked, ChargeOf
  <2> QED
    BY <2>2 DEF Budget!Next
<1>5. ASSUME NEW start, NEW end, UpdateDates(sender, id, start, end)
      PROVE  UNCHANGED Budget!vars
  <2>1. \A a \in AgreementIds :
            /\ agreements'[a].budget = agreements[a].budget
            /\ agreements'[a].finalised = agreements[a].finalised
    BY <1>1, <1>5 DEF UpdateDates, Agreement
  <2> QED
    BY <2>1, SameBudget
<1>6. UNCHANGED agreements => UNCHANGED Budget!vars
  BY SameBudget
<1> QED
  BY <1>3, <1>4, <1>5, <1>6
  DEF DraftTx, AddTarget, EditTarget, RemoveTarget

LEMMA AgreementImplements ==
  ASSUME TypeOK, LedgerInv, AgreementTx
  PROVE  Budget!Next \/ UNCHANGED Budget!vars
<1>1. UNCHANGED spendRequests
  BY DEF AgreementTx, complianceVars
<1>2. agreements \in [AgreementIds -> Agreement]
  BY DEF TypeOK, AgreementTypeOK
<1>3. ASSUME NEW sender, NEW start, NEW end, NEW signatories,
             CreateAgreement(sender, start, end, signatories)
      PROVE  UNCHANGED Budget!vars
  <2>1. \A a \in AgreementIds :
            /\ agreements'[a].budget = agreements[a].budget
            /\ agreements'[a].finalised = agreements[a].finalised
    BY <1>2, <1>3 DEF CreateAgreement, Agreement
  <2> QED
    BY <1>1, <2>1, SameBudget
<1>4. UNCHANGED agreements => UNCHANGED Budget!vars
  BY <1>1, SameBudget
<1> QED
  BY <1>1, <1>3, <1>4, DraftImplements
  DEF AgreementTx, AgreementNext, RegistryTx, RegisterOrganisation,
      RemoveOrganisation, SetComplianceContract

LEMMA RaiseImplements ==
  ASSUME TypeOK, LedgerInv, StagesApart, CommittedIsApproved,
         NEW sender, NEW id \in AgreementIds, NEW amount \in Amounts, NEW hash,
         CreateSpendRequest(sender, id, amount, hash)
  PROVE  Budget!Next
<1> DEFINE n == nextSpendRequestId
<1>1. n \in SpendRequestIds /\ n # 0 /\ spendRequests[n] = UnsetSpendRequest
  BY DEF CreateSpendRequest, LedgerInv, RequestsInOrder, TypeOK,
     ComplianceTypeOK, SpendRequestIds
<1>2. /\ agreements[id].budget \in Nat
      /\ agreements[id].committedSpend \in Nat
      /\ amount \in Nat
  BY ReportsAssumption DEF TypeOK, AgreementTypeOK, Agreement
<1>3. /\ RequestStage[n] = "none"
      /\ id \in Locked
  BY <1>1 DEF CreateSpendRequest, RequestStage, SpendRequestExists,
     UnsetSpendRequest, Locked
<1>4. amount \in 1 .. Budget!Available(id) /\ amount \in 1 .. BudgetOf[id]
  BY <1>2, AvailableIs DEF CreateSpendRequest, RemainingBudget, BudgetOf
<1>5. /\ spendRequests'[n].id = n
      /\ spendRequests'[n].agreementId = id
      /\ spendRequests'[n].amount = amount
      /\ ~spendRequests'[n].approved
      /\ ~spendRequests'[n].spent
      /\ \A q \in SpendRequestIds : q # n => spendRequests'[q] = spendRequests[q]
  BY <1>1 DEF CreateSpendRequest, TypeOK, ComplianceTypeOK
<1>6. RequestStage' = [RequestStage EXCEPT ![n] = "pending"]
  BY <1>1, <1>5 DEF RequestStage, SpendRequestExists
<1>7. ChargeOf' = [ChargeOf EXCEPT ![n] = [agreement |-> id, amount |-> amount]]
  BY <1>1, <1>5 DEF ChargeOf
<1>8. UNCHANGED <<BudgetOf, Locked>>
  BY DEF CreateSpendRequest, agreementVars, BudgetOf, Locked, IsFinalised
<1>9. Budget!Raise(n, id, amount)
  BY <1>3, <1>4, <1>6, <1>7, <1>8
  DEF Budget!Raise, BudgetOf, Locked, ChargeOf
<1> QED
  BY <1>1, <1>4, <1>9 DEF Budget!Next, BudgetOf

LEMMA ApproveImplements ==
  ASSUME TypeOK, LedgerInv, StagesApart, CommittedIsApproved,
         NEW q \in SpendRequestIds, Approves(q)
  PROVE  Budget!Next
<1>1. /\ \A p \in SpendRequestIds : spendRequests[p] \in SpendRequest
      /\ \A a \in AgreementIds : agreements[a] \in Agreement
      /\ spendRequests[q].agreementId \in AgreementIds
  BY RequestHasItsAgreement
  DEF Approves, LedgerInv, TypeOK, ComplianceTypeOK, AgreementTypeOK
<1>2. /\ RequestStage[q] = "pending"
      /\ ChargeOf[q].agreement = spendRequests[q].agreementId
      /\ ChargeOf[q].amount = spendRequests[q].amount
  BY DEF Approves, RequestStage, StagesApart, ChargeOf
<1>3. ChargeOf[q].amount <= Budget!Available(ChargeOf[q].agreement)
  BY <1>1, <1>2, AvailableIs DEF Approves
<1>4. \A p \in SpendRequestIds :
        /\ spendRequests'[p].id = spendRequests[p].id
        /\ spendRequests'[p].agreementId = spendRequests[p].agreementId
        /\ spendRequests'[p].amount = spendRequests[p].amount
        /\ spendRequests'[p].spent = spendRequests[p].spent
        /\ spendRequests'[p].approved = (p = q \/ spendRequests[p].approved)
  BY <1>1 DEF Approves, TypeOK, ComplianceTypeOK, SpendRequest
<1>5. RequestStage' = [RequestStage EXCEPT ![q] = "approved"]
  <2>1. spendRequests[q].spent = FALSE
    BY <1>1 DEF Approves, StagesApart, SpendRequest
  <2>2. RequestStage'[q] = "approved"
    BY <1>4, <2>1 DEF Approves, RequestStage, SpendRequestExists
  <2>3. \A p \in SpendRequestIds : p # q => RequestStage'[p] = RequestStage[p]
    BY <1>4 DEF RequestStage, SpendRequestExists
  <2> QED
    BY <2>2, <2>3 DEF RequestStage
<1>6. ChargeOf' = ChargeOf
  BY <1>4 DEF ChargeOf
<1>7. \A a \in AgreementIds :
        /\ agreements'[a].budget = agreements[a].budget
        /\ agreements'[a].finalised = agreements[a].finalised
  BY <1>1 DEF Approves, AddToCommitted, TypeOK, AgreementTypeOK, Agreement
<1>8. UNCHANGED <<BudgetOf, Locked>>
  BY <1>7 DEF BudgetOf, Locked, IsFinalised
<1>9. Budget!Approve(q)
  BY <1>2, <1>3, <1>5, <1>6, <1>8
  DEF Budget!Approve, BudgetOf, Locked, ChargeOf
<1> QED
  BY <1>9 DEF Budget!Next

LEMMA SettleImplements ==
  ASSUME TypeOK, StagesApart, NEW sender, NEW q \in SpendRequestIds, NEW hash,
         MarkSpent(sender, q, hash)
  PROVE  Budget!Next
<1>1. \A p \in SpendRequestIds : spendRequests[p] \in SpendRequest
  BY DEF TypeOK, ComplianceTypeOK
<1>2. RequestStage[q] = "approved"
  BY DEF MarkSpent, MayMarkSpent, RequestStage
<1>3. \A p \in SpendRequestIds :
        /\ spendRequests'[p].id = spendRequests[p].id
        /\ spendRequests'[p].agreementId = spendRequests[p].agreementId
        /\ spendRequests'[p].amount = spendRequests[p].amount
        /\ spendRequests'[p].approved = spendRequests[p].approved
        /\ spendRequests'[p].spent = (p = q \/ spendRequests[p].spent)
  BY <1>1 DEF MarkSpent, MayMarkSpent, PinReceipt, TypeOK, ComplianceTypeOK,
        SpendRequest
<1>4. RequestStage' = [RequestStage EXCEPT ![q] = "spent"]
  BY <1>3 DEF MarkSpent, MayMarkSpent, RequestStage, SpendRequestExists
<1>5. UNCHANGED <<ChargeOf, BudgetOf, Locked>>
  BY <1>3 DEF MarkSpent, MayMarkSpent, PinReceipt, agreementVars, ChargeOf,
        BudgetOf, Locked, IsFinalised
<1>6. Budget!Settle(q)
  BY <1>2, <1>4, <1>5 DEF Budget!Settle, BudgetOf, Locked, ChargeOf
<1> QED
  BY <1>6 DEF Budget!Next

LEMMA BudgetStep ==
  ASSUME TypeOK, LedgerInv, SpentIsApproved, CommittedIsApproved, [Next]_vars
  PROVE  [Budget!Next]_(Budget!vars)
<1>1. StagesApart
  BY StagesAreApart
<1>2. UNCHANGED <<agreements, spendRequests>> => UNCHANGED Budget!vars
  BY SameBudget
<1>3. CASE ComplianceTx
  <2>1. ASSUME NEW sender, NEW id, NEW index, NEW value, NEW hash,
               SubmitReport(sender, id, index, value, hash)
        PROVE  UNCHANGED Budget!vars
    BY <1>2, <2>1 DEF SubmitReport, agreementVars
  <2>2. ASSUME NEW sender, SetVerificationContract(sender, VerificationAddress)
        PROVE  UNCHANGED Budget!vars
    BY <1>2, <2>2 DEF SetVerificationContract, agreementVars
  <2> QED
    BY <1>1, <1>3, <2>1, <2>2, RaiseImplements, SettleImplements
    DEF ComplianceTx, ComplianceNext
<1>4. CASE VerificationTx
  <2>1. ASSUME NEW sender, NEW r,
               \/ Endorse(sender, r)
               \/ Decline(sender, r)
               \/ MarkRecordUnverified(sender, r)
        PROVE  UNCHANGED Budget!vars
    BY <1>2, <2>1 DEF Endorse, MayEndorse, CountEndorsement,
          FinaliseAtThreshold, PinAndFinalise, MarkFinalised, MayMarkFinalised,
          AllButRecords, Decline, MayDecline, MarkRecordUnverified,
          MayMarkRecordUnverified, MarkUnverified, MayMarkUnverified,
          agreementVars, complianceVars
  <2>2. ASSUME NEW sender, NEW window, SetVerificationWindow(sender, window)
        PROVE  UNCHANGED Budget!vars
    BY <1>2, <2>2 DEF SetVerificationWindow, agreementVars, complianceVars
  <2>3. ASSUME NEW sender, NEW q \in SpendRequestIds, DeclineSpend(sender, q)
        PROVE  UNCHANGED Budget!vars
    BY <1>2, <2>3 DEF DeclineSpend, MayDeclineSpend, agreementVars,
          complianceVars
  <2>4. ASSUME NEW sender, NEW q \in SpendRequestIds, EndorseSpend(sender, q)
        PROVE  Budget!Next \/ UNCHANGED Budget!vars
    BY <1>1, <1>2, <2>4, EndorsementApproves, ApproveImplements
    DEF agreementVars, complianceVars
  <2> QED
    BY <1>4, <2>1, <2>2, <2>3, <2>4 DEF VerificationTx, VerificationNext
<1>5. CASE NextBlock \/ UNCHANGED vars
  BY <1>2, <1>5 DEF NextBlock, vars, agreementVars, complianceVars
<1> QED
  BY <1>3, <1>4, <1>5, AgreementImplements DEF Next

\* Every behaviour of the contracts is one SpendBudget allows: the running
\* total that commitSpend compares and advances decides like the sum over
\* the approved requests.
THEOREM BudgetRefined == (Spec \/ DeployedSpec) => ImplementsBudget
<1>1. Init \/ DeployedInit => Budget!Init /\ SpentIsApproved
  BY DEF Init, AgreementInit, ComplianceInit, DeployedInit, UnsetAgreement,
     UnsetSpendRequest, IsFinalised, RequestStage, SpendRequestExists,
     Budget!Init, Budget!NoCharge, SpentIsApproved
<1>2. TypeOK /\ LedgerInv /\ SpentIsApproved /\ [Next]_vars
        => SpentIsApproved'
  BY HistoryStep, SpentIsApprovedNext
<1>3. TypeOK /\ LedgerInv /\ SpentIsApproved /\ CommittedIsApproved
        /\ [Next]_vars => [Budget!Next]_(Budget!vars)
  BY BudgetStep
<1> QED
  BY <1>1, <1>2, <1>3, TypeCorrect, DeployedTypeCorrect, LedgerInvariant,
     DeployedLedgerInvariant, CommittedExact, PTL
  DEF Spec, DeployedSpec, ImplementsBudget, Budget!Spec

-----------------------------------------------------------------------------
(* The contracts implement RecordVerification. *)

StatusOfRecord(r) ==
    IF ~RecordExists(r) THEN "none"
    ELSE IF records[r].finalised THEN "verified"
    ELSE IF records[r].unverified THEN "lapsed"
    ELSE "open"

LEMMA StatusIs ==
  /\ RecordStatus = [r \in RecordIds |-> StatusOfRecord(r)]
  /\ RecordStatus' = [r \in RecordIds |-> StatusOfRecord(r)']
BY DEF RecordStatus, StatusOfRecord

\* A change of one record is a change of its status.
LEMMA OneStatus ==
  ASSUME NEW r \in RecordIds, NEW st, StatusOfRecord(r)' = st,
         \A p \in RecordIds : p # r => records'[p] = records[p]
  PROVE  RecordStatus' = [RecordStatus EXCEPT ![r] = st]
<1>1. \A p \in RecordIds : p # r => StatusOfRecord(p)' = StatusOfRecord(p)
  BY DEF StatusOfRecord, RecordExists
<1> QED
  BY <1>1, StatusIs

LEMMA SameStatus ==
  ASSUME UNCHANGED <<records, hasEndorsed, hasDeclined>>
  PROVE  UNCHANGED Verification!vars
BY DEF RecordStatus, RecordExists, Verification!vars

LEMMA SameCardinality ==
  ASSUME NEW S
  PROVE  Verification!Cardinality(S) = Cardinality(S)
BY DEF Verification!Cardinality, Cardinality

LEMMA SubmitImplements ==
  ASSUME TypeOK, LedgerInv, NEW sender, NEW id, NEW index, NEW value, NEW hash,
         SubmitReport(sender, id, index, value, hash),
         UNCHANGED verificationVars
  PROVE  Verification!Next
<1> DEFINE n == nextRecordId
<1>1. n \in RecordIds /\ n # 0 /\ records[n] = UnsetRecord
  BY DEF SubmitReport, LedgerInv, RecordsInOrder, TypeOK, ComplianceTypeOK,
     RecordIds
<1>2. /\ records'[n].id = n
      /\ ~records'[n].finalised
      /\ ~records'[n].unverified
      /\ \A p \in RecordIds : p # n => records'[p] = records[p]
  BY <1>1 DEF SubmitReport, TypeOK, ComplianceTypeOK
<1>3. RecordStatus[n] = "none"
  BY <1>1, StatusIs DEF StatusOfRecord, RecordExists, UnsetRecord
<1>4. RecordStatus' = [RecordStatus EXCEPT ![n] = "open"]
  <2>1. PICK r \in RecordIds : r = n
    BY <1>1
  <2>2. StatusOfRecord(r)' = "open"
    BY <1>1, <1>2, <2>1 DEF StatusOfRecord, RecordExists
  <2> QED
    BY <1>2, <2>1, <2>2, OneStatus
<1>5. Verification!Submit(n)
  BY <1>3, <1>4 DEF Verification!Submit, verificationVars, recordVotes
<1> QED
  BY <1>1, <1>5 DEF Verification!Next

LEMMA EndorseImplements ==
  ASSUME TypeOK, LedgerInv, NEW sender \in Accounts, NEW r \in RecordIds,
         Endorse(sender, r)
  PROVE  Verification!Next
<1>1. /\ records \in [RecordIds -> ComplianceRecord]
      /\ hasEndorsed \in [RecordIds -> SUBSET Accounts]
      /\ endorsementCount[r] = Cardinality(hasEndorsed[r])
      /\ endorsementCount[r] \in Nat
  BY DEF TypeOK, ComplianceTypeOK, VerificationTypeOK, LedgerInv, VotesCounted
<1>2. /\ sender \notin hasEndorsed[r] \cup hasDeclined[r]
      /\ RecordExists(r)
      /\ ~records[r].finalised => ~records[r].unverified
  BY DEF Endorse, MayEndorse, StillVerifiable
<1>3. RecordStatus[r] \in {"open", "verified"}
  BY <1>2, StatusIs DEF StatusOfRecord
<1>4. /\ hasEndorsed' = [hasEndorsed EXCEPT ![r] = @ \cup {sender}]
      /\ UNCHANGED hasDeclined
  BY DEF Endorse, MayEndorse, CountEndorsement
<1>5. Cardinality(hasEndorsed[r] \cup {sender}) = endorsementCount[r] + 1
  BY <1>1, <1>2, OneMoreVoter
<1>6. CASE endorsementCount[r] + 1 = ENDORSEMENT_THRESHOLD
  <2>1. records' = [records EXCEPT ![r].finalised = TRUE]
    BY <1>6 DEF Endorse, MayEndorse, CountEndorsement, FinaliseAtThreshold,
       PinAndFinalise, MarkFinalised, MayMarkFinalised
  <2>2. StatusOfRecord(r)' = "verified"
    BY <1>1, <1>2, <2>1 DEF StatusOfRecord, RecordExists, ComplianceRecord
  <2>3. RecordStatus' = [RecordStatus EXCEPT ![r] = "verified"]
    BY <1>1, <2>1, <2>2, OneStatus
  <2>4. Verification!Endorse(r, sender)
    BY <1>2, <1>3, <1>4, <1>5, <1>6, <2>3, SameCardinality
    DEF Verification!Endorse, MayEndorse, Verification!Silent,
        ENDORSEMENT_THRESHOLD
  <2> QED
    BY <2>4 DEF Verification!Next
<1>7. CASE ~(endorsementCount[r] + 1 = ENDORSEMENT_THRESHOLD)
  <2>1. records' = records
    BY <1>7 DEF Endorse, MayEndorse, CountEndorsement, FinaliseAtThreshold,
          complianceVars
  <2>2. RecordStatus' = RecordStatus
    BY <2>1 DEF RecordStatus, RecordExists
  <2>3. Cardinality(hasEndorsed[r] \cup {sender}) >= 2
            => RecordStatus[r] = "verified"
    <3>1. Cardinality(hasEndorsed[r] \cup {sender}) >= 2
            => Cardinality(hasEndorsed[r]) >= 2
      BY <1>1, <1>5, <1>7 DEF ENDORSEMENT_THRESHOLD
    <3> QED
      BY <1>2, <3>1, StatusIs
      DEF LedgerInv, FinalisedByTwoSignatories, StatusOfRecord
  <2>4. RecordStatus = [RecordStatus EXCEPT ![r] = RecordStatus[r]]
    BY StatusIs
  <2>5. Verification!Endorse(r, sender)
    BY <1>2, <1>3, <1>4, <2>2, <2>3, <2>4, SameCardinality
    DEF Verification!Endorse, MayEndorse, Verification!Silent
  <2> QED
    BY <2>5 DEF Verification!Next
<1> QED
  BY <1>6, <1>7

LEMMA DeclineImplements ==
  ASSUME NEW sender \in Accounts, NEW r \in RecordIds, Decline(sender, r)
  PROVE  Verification!Next
<1>1. RecordStatus[r] \in {"open", "lapsed"}
  BY StatusIs DEF Decline, MayDecline, StatusOfRecord
<1>2. UNCHANGED <<RecordStatus, hasEndorsed>>
  BY DEF Decline, MayDecline, RecordStatus, RecordExists, complianceVars
<1>3. Verification!Dispute(r, sender)
  BY <1>1, <1>2 DEF Decline, MayDecline, Verification!Dispute,
        Verification!Silent
<1> QED
  BY <1>3 DEF Verification!Next

LEMMA UnverifiedImplements ==
  ASSUME TypeOK, NEW sender \in Accounts, NEW r \in RecordIds,
         MarkRecordUnverified(sender, r)
  PROVE  Verification!Next
<1>1. records \in [RecordIds -> ComplianceRecord]
  BY DEF TypeOK, ComplianceTypeOK
<1>2. records' = [records EXCEPT ![r].unverified = TRUE]
      /\ RecordExists(r) /\ ~records[r].finalised /\ ~records[r].unverified
  BY DEF MarkRecordUnverified, MayMarkRecordUnverified, MarkUnverified,
        MayMarkUnverified
<1>3. RecordStatus[r] = "open"
  BY <1>2, StatusIs DEF StatusOfRecord
<1>4. StatusOfRecord(r)' = "lapsed"
  BY <1>1, <1>2 DEF StatusOfRecord, RecordExists, ComplianceRecord
<1>5. RecordStatus' = [RecordStatus EXCEPT ![r] = "lapsed"]
  BY <1>1, <1>2, <1>4, OneStatus
<1>6. Verification!Lapse(r)
  BY <1>3, <1>5
  DEF MarkRecordUnverified, MayMarkRecordUnverified, Verification!Lapse,
      verificationVars, recordVotes
<1> QED
  BY <1>6 DEF Verification!Next

LEMMA VerificationStep ==
  ASSUME TypeOK, LedgerInv, [Next]_vars
  PROVE  [Verification!Next]_(Verification!vars)
<1>1. ASSUME NEW sender, NEW id, NEW amount, NEW hash,
             CreateSpendRequest(sender, id, amount, hash)
                \/ MarkSpent(sender, id, hash),
             UNCHANGED verificationVars
      PROVE  UNCHANGED Verification!vars
  <2>1. UNCHANGED <<records, hasEndorsed, hasDeclined>>
    BY <1>1 DEF CreateSpendRequest, MarkSpent, MayMarkSpent, PinReceipt,
          verificationVars, recordVotes
  <2> QED
    BY <2>1, SameStatus
<1>2. ASSUME NEW sender \in Accounts, NEW q \in SpendRequestIds,
             EndorseSpend(sender, q) \/ DeclineSpend(sender, q)
      PROVE  UNCHANGED Verification!vars
  <2>1. UNCHANGED <<records, hasEndorsed, hasDeclined>>
    BY <1>2 DEF EndorseSpend, MayEndorseSpend, CountSpendEndorsement,
          MarkSpendApproved, MayMarkSpendApproved, DeclineSpend,
          MayDeclineSpend, complianceVars, recordVotes
  <2> QED
    BY <2>1, SameStatus
<1>3. CASE UNCHANGED history
  BY <1>3, SameStatus DEF history, recordVotes
<1> QED
  BY <1>1, <1>2, <1>3, SubmitImplements, EndorseImplements, DeclineImplements,
     UnverifiedImplements, HistorySteps DEF HistoryTx

\* Every behaviour of the contracts is one RecordVerification allows.
THEOREM VerificationRefined == (Spec \/ DeployedSpec) => ImplementsVerification
<1>1. Init \/ DeployedInit => Verification!Init
  BY DEF Init, ComplianceInit, VerificationInit, DeployedInit, UnsetRecord,
     RecordStatus, RecordExists, Verification!Init
<1>2. TypeOK /\ LedgerInv /\ [Next]_vars => [Verification!Next]_(Verification!vars)
  BY VerificationStep
<1> QED
  BY <1>1, <1>2, TypeCorrect, DeployedTypeCorrect, LedgerInvariant,
     DeployedLedgerInvariant, PTL
  DEF Spec, DeployedSpec, ImplementsVerification, Verification!Spec

-----------------------------------------------------------------------------
(***************************************************************************)
(* The ledger while the deployment script runs.  The script registers its  *)
(* organisations whether or not the transactions of the ledger's own       *)
(* specification include them, so its steps are not all steps of Next; but *)
(* no property below looks at the registry, and what remains of the script *)
(* are ordinary transactions of the owner.                                 *)
(***************************************************************************)
\* A registration leaves all else alone.
Registers ==
    /\ \E account \in Accounts, orgType \in OrgTypes :
            RegisterOrganisation(Owner, account, orgType)
    /\ UNCHANGED <<complianceVars, verificationVars, now>>

LEMMA DeploymentSteps ==
  ASSUME [DeploymentNext]_<<vars, scriptVars>>
  PROVE  [Next]_vars \/ Registers
<1>1. Owner \in Accounts
  BY AccountsAssumption
<1>2. CASE ScriptSends
  <2>1. CASE WireCompliance
    <3>1. ComplianceNext
      BY <1>1, <2>1 DEF WireCompliance, ComplianceNext
    <3> QED
      BY <1>2, <2>1, <3>1 DEF ScriptSends, WireCompliance, ComplianceTx, Next
  <2>2. CASE WireAgreement
    <3>1. AgreementNext
      BY <1>1, <2>2 DEF WireAgreement, AgreementNext
    <3> QED
      BY <1>2, <2>2, <3>1 DEF ScriptSends, WireAgreement, AgreementTx, Next
  <2>3. CASE RegisterSeed
    <3> DEFINE i == sent - Wirings + 1
               account == SeedOrder[i]
    <3>1. /\ RegisterOrganisation(Owner, account, SeedRoles[account])
          /\ UNCHANGED <<complianceVars, verificationVars, now>>
      BY <1>2, <2>3 DEF ScriptSends, RegisterSeed
    <3>2. i \in 1 .. Len(SeedOrder)
      BY <2>3, SeedLength DEF RegisterSeed, Wirings
    <3>3. account \in Accounts /\ SeedRoles[account] \in OrgTypes
      BY <3>2, SeedLength, SeedAssumption
    <3> HIDE DEF account
    <3> QED
      BY <3>1, <3>3 DEF Registers
  <2> QED
    BY <1>2, <2>1, <2>2, <2>3 DEF ScriptSends
<1>3. CASE ScriptSetsWindow
  <2>1. ASSUME NEW window \in Windows, SetVerificationWindow(Owner, window)
        PROVE  VerificationNext
    BY <1>1, <2>1 DEF VerificationNext
  <2>2. ASSUME NEW window \in Windows, SetVerificationWindow(Owner, window)
        PROVE  UNCHANGED <<agreementVars, complianceVars>>
    BY <2>2 DEF SetVerificationWindow
  <2> QED
    BY <1>3, <2>1, <2>2 DEF ScriptSetsWindow, VerificationTx, Next, vars
<1>4. CASE ScriptEnds \/ ScriptStops \/ Others
            \/ UNCHANGED <<vars, scriptVars>>
  BY <1>4 DEF ScriptEnds, ScriptStops, Others
<1> QED
  BY <1>2, <1>3, <1>4 DEF DeploymentNext

LEMMA RegistersFrame ==
  ASSUME Registers
  PROVE  /\ UNCHANGED <<nextAgreementId, agreements, agreementTargets,
                        complianceContract, verificationContract>>
         /\ UNCHANGED <<nextRecordId, records, nextSpendRequestId,
                        spendRequests, now, verificationWindow>>
         /\ UNCHANGED <<recordVotes, spendVotes>>
BY DEF Registers, RegisterOrganisation, complianceVars, verificationVars

LEMMA RegistersType ==
  ASSUME TypeOK, Registers
  PROVE  TypeOK'
<1>1. AgreementTypeOK'
  BY DEF TypeOK, Registers, RegisterOrganisation, AgreementTypeOK, Organisation
<1>2. ComplianceTypeOK' /\ VerificationTypeOK'
  BY DEF TypeOK, Registers, ComplianceTypeOK, VerificationTypeOK,
     complianceVars, verificationVars, recordVotes, spendVotes
<1> QED
  BY <1>1, <1>2 DEF TypeOK

LEMMA RegistersInv ==
  ASSUME LedgerInv, Registers
  PROVE  LedgerInv'
<1>1. /\ AgreementsInOrder' /\ RecordsInOrder' /\ RequestsInOrder'
      /\ CommittedAfterFinalisation' /\ NeverOverspent'
  BY RegistersFrame
  DEF LedgerInv, AgreementsInOrder, RecordsInOrder, RequestsInOrder,
      CommittedAfterFinalisation, NeverOverspent, IsFinalised
<1>2. /\ VotesCounted' /\ FinalisedByTwoSignatories' /\ OutcomesExclusive'
      /\ ApprovedByTwoOthers'
  BY RegistersFrame
  DEF LedgerInv, VotesCounted, FinalisedByTwoSignatories, OutcomesExclusive,
      ApprovedByTwoOthers, RecordExists, SpendRequestExists, recordVotes,
      spendVotes
<1> QED
  BY <1>1, <1>2 DEF LedgerInv

LEMMA RegistersHistory ==
  ASSUME Registers
  PROVE  HistoryKept
BY RegistersFrame, QuietKeeps DEF HistoryKept, recordVotes, spendVotes

\* While the script runs, and on whatever it leaves if it stops half-way.
DeployingInv ==
    TypeOK /\ LedgerInv /\ SpentIsApproved /\ CommittedIsApproved
        /\ WiredBeforeSettling /\ VerdictRecomputable

LEMMA DeployingInit == DeploymentInit => DeployingInv
<1> SUFFICES ASSUME DeploymentInit PROVE DeployingInv
  OBVIOUS
<1>1. Init
  BY DEF DeploymentInit
<1>2. TypeOK /\ LedgerInv
  BY <1>1, InitTypeOK, FreshLedgerInv DEF Init, AgreementInit, ComplianceInit
<1>3. SpentIsApproved /\ WiredBeforeSettling
  BY <1>1 DEF Init, ComplianceInit, UnsetRecord, UnsetSpendRequest,
     SpentIsApproved, WiredBeforeSettling
<1>4. CommittedIsApproved
  BY <1>1, FreshCommitted DEF Init
<1>5. VerdictRecomputable
  BY <1>1, FreshVerdicts DEF Init, ComplianceInit
<1> QED
  BY <1>2, <1>3, <1>4, <1>5 DEF DeployingInv

LEMMA DeployingNext ==
  ASSUME DeployingInv, [DeploymentNext]_<<vars, scriptVars>>
  PROVE  DeployingInv'
<1> USE DEF DeployingInv
<1>1. CASE [Next]_vars
  <2>1. TypeOK' /\ LedgerInv'
    BY <1>1, NextTypeOK, NextInv
  <2>2. SpentIsApproved' /\ WiredBeforeSettling' /\ VerdictRecomputable'
    BY <1>1, HistoryStep, SpentIsApprovedNext, WiredStep, VerdictStep
  <2>3. CommittedIsApproved'
    BY <1>1, ApprovalStep, CommittedWhenSame, CommittedWhenApproves
  <2> QED
    BY <2>1, <2>2, <2>3
<1>2. CASE Registers
  <2>1. TypeOK' /\ LedgerInv'
    BY <1>2, RegistersType, RegistersInv
  <2>2. SpentIsApproved' /\ WiredBeforeSettling'
    BY <1>2, RegistersFrame DEF SpentIsApproved, WiredBeforeSettling
  <2>3. CommittedIsApproved'
    BY <1>2, RegistersFrame, CommittedWhenSame DEF ApprovalsSame
  <2>4. VerdictRecomputable'
    BY <1>2, RegistersFrame
    DEF VerdictRecomputable, RecordExists, TargetCount, GetTarget
  <2> QED
    BY <2>1, <2>2, <2>3, <2>4
<1> QED
  BY <1>1, <1>2, DeploymentSteps

LEMMA RefinedInit == Init => Budget!Init /\ Verification!Init
BY DEF Init, AgreementInit, ComplianceInit, VerificationInit, UnsetAgreement,
   UnsetSpendRequest, UnsetRecord, IsFinalised, RequestStage,
   SpendRequestExists, RecordStatus, RecordExists, Budget!Init,
   Budget!NoCharge, Verification!Init

\* While the deployment script runs, whoever else already uses the contracts
\* and wherever it stops: nothing is settled before the links are there, and
\* every safety property of the deployed ledger holds already.
THEOREM SoundWhileDeploying ==
  DeploymentSpec => /\ []WiredBeforeSettling
                    /\ []FinalisedByTwoSignatories
                    /\ []OutcomesExclusive
                    /\ []VerdictRecomputable
                    /\ []ApprovedByTwoOthers
                    /\ []CommittedIsApproved
                    /\ []NeverOverspent
<1>1. DeployingInv => /\ WiredBeforeSettling
                      /\ FinalisedByTwoSignatories
                      /\ OutcomesExclusive
                      /\ VerdictRecomputable
                      /\ ApprovedByTwoOthers
                      /\ CommittedIsApproved
                      /\ NeverOverspent
  BY DEF DeployingInv, LedgerInv
<1> QED
  BY <1>1, DeployingInit, DeployingNext, PTL DEF DeploymentSpec

\* So do what no transaction may do and the two abstract promises: what the
\* script adds to the transactions of the ledger is not seen by any of them.
THEOREM PromisesWhileDeploying ==
  DeploymentSpec => /\ TermsFrozen
                    /\ HistoryAppendOnly
                    /\ ImplementsBudget
                    /\ ImplementsVerification
<1>1. DeployingInv /\ [DeploymentNext]_<<vars, scriptVars>>
        => DeployingInv'
  BY DeployingNext
<1>2. DeployingInv /\ [DeploymentNext]_<<vars, scriptVars>>
        => [\A id \in AgreementIds :
            IsFinalised(id) => /\ IsFinalised(id)'
                               /\ TermsOf(id)' = TermsOf(id)]_vars
  <2> SUFFICES ASSUME DeployingInv, [DeploymentNext]_<<vars, scriptVars>>,
                      NEW id \in AgreementIds, IsFinalised(id)
               PROVE  IsFinalised(id)' /\ TermsOf(id)' = TermsOf(id)
    OBVIOUS
  <2>1. CASE [Next]_vars
    BY <2>1, FrozenStep DEF DeployingInv
  <2>2. CASE Registers
    BY <2>2, RegistersFrame DEF IsFinalised, TermsOf
  <2> QED
    BY <2>1, <2>2, DeploymentSteps
<1>3. DeployingInv /\ [DeploymentNext]_<<vars, scriptVars>>
        => [/\ \A r \in RecordIds :
                RecordExists(r) =>
                    /\ FactsOfRecord(r)' = FactsOfRecord(r)
                    /\ records[r].finalised => records'[r].finalised
                    /\ records[r].unverified => records'[r].unverified
                    /\ hasEndorsed[r] \subseteq hasEndorsed'[r]
                    /\ hasDeclined[r] \subseteq hasDeclined'[r]
            /\ \A q \in SpendRequestIds :
                SpendRequestExists(q) =>
                    /\ FactsOfRequest(q)' = FactsOfRequest(q)
                    /\ spendRequests[q].approved
                            => spendRequests'[q].approved
                    /\ spendRequests[q].spent =>
                            spendRequests'[q] = spendRequests[q]
                    /\ hasEndorsedSpend[q] \subseteq hasEndorsedSpend'[q]
                    /\ hasDeclinedSpend[q] \subseteq hasDeclinedSpend'[q]]_vars
  <2> SUFFICES ASSUME DeployingInv, [DeploymentNext]_<<vars, scriptVars>>
               PROVE  HistoryKept
    BY FactsKept DEF DeployingInv, HistoryKept, VotesKept
  <2> QED
    BY DeploymentSteps, HistoryStep, RegistersHistory DEF DeployingInv
<1>4. DeployingInv /\ [DeploymentNext]_<<vars, scriptVars>>
        => [Budget!Next]_(Budget!vars) /\ [Verification!Next]_(Verification!vars)
  <2> SUFFICES ASSUME DeployingInv, [DeploymentNext]_<<vars, scriptVars>>
               PROVE  /\ [Budget!Next]_(Budget!vars)
                      /\ [Verification!Next]_(Verification!vars)
    OBVIOUS
  <2>1. CASE [Next]_vars
    BY <2>1, BudgetStep, VerificationStep DEF DeployingInv
  <2>2. CASE Registers
    BY <2>2, RegistersFrame, SameBudget, SameStatus DEF recordVotes
  <2> QED
    BY <2>1, <2>2, DeploymentSteps
<1>5. DeploymentInit => Budget!Init /\ Verification!Init
  BY RefinedInit DEF DeploymentInit
<1> QED
  BY <1>1, <1>2, <1>3, <1>4, <1>5, DeployingInit, PTL
  DEF DeploymentSpec, TermsFrozen, HistoryAppendOnly, ImplementsBudget,
      ImplementsVerification, Budget!Spec, Verification!Spec

=============================================================================
