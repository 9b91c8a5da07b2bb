-------------------------- MODULE LedgerPages_proofs --------------------------
(***************************************************************************)
(* What the pages show is true, for any number of organisations, nodes and *)
(* reads.  A row is a bundle of answers of different moments; it can be    *)
(* trusted because the item is read first and everything it is compared    *)
(* with only ever grows: a flag that is set stays set, a vote that is cast *)
(* stays cast, a pinned reference stays, so whatever an answer said still  *)
(* holds, or has only become more so, when the last call is answered.      *)
(***************************************************************************)
EXTENDS MACLSteps_proofs, LedgerPages

-----------------------------------------------------------------------------
(* The ledger under the pages. *)

DeclinesCounted ==
    \A q \in SpendRequestIds :
        spendDeclineCount[q] = Cardinality(hasDeclinedSpend[q])

LEMMA DeclinesCountedNext ==
  ASSUME TypeOK, DeclinesCounted, [Next]_vars
  PROVE  DeclinesCounted'
<1>1. /\ hasDeclinedSpend \in [SpendRequestIds -> SUBSET Accounts]
      /\ spendDeclineCount \in [SpendRequestIds -> Nat]
  BY DEF TypeOK, VerificationTypeOK
<1>2. ASSUME NEW sender \in Accounts, NEW q \in SpendRequestIds,
             DeclineSpend(sender, q)
      PROVE  DeclinesCounted'
  <2>1. /\ hasDeclinedSpend' = [hasDeclinedSpend EXCEPT ![q] = @ \cup {sender}]
        /\ spendDeclineCount' = [spendDeclineCount EXCEPT ![q] = @ + 1]
        /\ sender \notin hasDeclinedSpend[q]
    BY <1>2 DEF DeclineSpend, MayDeclineSpend
  <2>2. Cardinality(hasDeclinedSpend[q] \cup {sender})
            = Cardinality(hasDeclinedSpend[q]) + 1
    BY <1>1, <2>1, OneMoreVoter
  <2> QED
    BY <1>1, <2>1, <2>2 DEF DeclinesCounted
<1>3. ASSUME UNCHANGED <<hasDeclinedSpend, spendDeclineCount>>
      PROVE  DeclinesCounted'
  BY <1>3 DEF DeclinesCounted
<1>4. CASE \E sender \in Accounts, q \in SpendRequestIds : EndorseSpend(sender, q)
  BY <1>3, <1>4 DEF EndorseSpend, MayEndorseSpend, CountSpendEndorsement
<1>5. CASE \E sender \in Accounts, r \in RecordIds :
                \/ Endorse(sender, r)
                \/ Decline(sender, r)
                \/ MarkRecordUnverified(sender, r)
  BY <1>3, <1>5 DEF Endorse, MayEndorse, CountEndorsement, Decline, MayDecline,
        MarkRecordUnverified, MayMarkRecordUnverified, verificationVars,
        spendVotes
<1>6. CASE UNCHANGED verificationVars \/ UNCHANGED history
  BY <1>3, <1>6 DEF verificationVars, history, spendVotes
<1> QED
  BY <1>2, <1>4, <1>5, <1>6, HistorySteps DEF HistoryTx

\* The ledger of the pages: the invariants of MACL, and the agreement, the
\* record and the request that the pages are about.
PageLedger ==
    /\ TypeOK
    /\ LedgerInv
    /\ SpentIsApproved
    /\ NotYetPinned
    /\ DeclinesCounted
    /\ \A r \in RecordIds : records[r].finalised => finalisedBlockHash[r] # 0
    /\ IsFinalised(1)
    /\ RecordExists(R)
    /\ SpendRequestExists(Q)

LEMMA PageIds == 1 \in AgreementIds /\ R \in RecordIds /\ Q \in SpendRequestIds
BY PagesAssumption DEF AgreementIds, RecordIds, SpendRequestIds, R, Q

\* Whatever the pages do is, for the ledger, transactions and blocks.
LEMMA PageSteps ==
  ASSUME acting \in Accounts, [PagesNext]_<<vars, pageVars>>
  PROVE  [Next]_vars
<1>1. CASE LedgerGoesOn
  BY <1>1 DEF LedgerGoesOn
<1>2. CASE PressButton
  <2>1. PICK button \in Offers : Send(button)
    BY <1>2 DEF PressButton
  <2>2. UNCHANGED now
    BY <1>2 DEF PressButton
  <2>3. ASSUME NEW h \in ReceiptHashes, MarkSpent(acting, Q, h),
               UNCHANGED verificationVars
        PROVE  Next
    BY <2>2, <2>3, PageIds DEF Next, ComplianceTx, ComplianceNext
  <2> QED
    BY <2>1, <2>2, <2>3, PageIds
    DEF Send, Next, VerificationTx, VerificationNext
<1>3. CASE ReadCall \/ ReadFails \/ UNCHANGED <<vars, pageVars>>
  BY <1>3 DEF ReadCall, ReadFails, vars
<1> QED
  BY <1>1, <1>2, <1>3 DEF PagesNext

LEMMA PageLedgerNext ==
  ASSUME PageLedger, [Next]_vars
  PROVE  PageLedger'
<1>1. TypeOK' /\ LedgerInv' /\ SpentIsApproved' /\ DeclinesCounted'
  BY NextTypeOK, NextInv, HistoryStep, SpentIsApprovedNext, DeclinesCountedNext
  DEF PageLedger
<1>2. PinStep
  BY PinnedStep DEF PageLedger
<1>3. \A r \in RecordIds : records'[r].finalised => finalisedBlockHash'[r] # 0
  BY <1>2 DEF PinStep, NotYetPinned, PageLedger
<1>4. IsFinalised(1)'
  BY PageIds, FrozenStep DEF PageLedger
<1>5. /\ records[R] \in ComplianceRecord /\ RecordKept(R)
      /\ spendRequests[Q] \in SpendRequest /\ RequestKept(Q)
  BY PageIds, HistoryStep
  DEF PageLedger, TypeOK, ComplianceTypeOK, HistoryKept
<1>6. RecordExists(R)'
  BY <1>5 DEF RecordKept, RecordExists, PageLedger, ComplianceRecord
<1>7. SpendRequestExists(Q)'
  BY <1>5 DEF RequestKept, SpendRequestExists, PageLedger, SpendRequest
<1> QED
  BY <1>1, <1>2, <1>3, <1>4, <1>6, <1>7 DEF PageLedger, PinStep

LEMMA PageLedgerFresh == PageLedgerInit => PageLedger
<1> SUFFICES ASSUME NEW donor \in DOMAIN SeedRoles, NEW ngo \in DOMAIN SeedRoles,
                    NEW signatories \in SignatorySets,
                    NEW target \in [threshold : Thresholds,
                                    deadline : Deadlines],
                    NEW budget \in Budgets, NEW amount \in Amounts,
                    NEW hash \in DocumentHashes \cup {NoHash},
                    AgreedOn(donor, ngo, signatories, target, budget, amount,
                             hash)
             PROVE  PageLedger
  BY DEF PageLedgerInit
<1> USE DEF AgreedOn
<1>1. /\ donor \in Accounts /\ ngo \in Accounts
      /\ signatories \in SUBSET Accounts
      /\ target \in Target /\ target.threshold \in Nat
      /\ amount \in Nat /\ budget \in Nat
      /\ Evaluate(target.threshold, target, 1) \in Results
  BY PagesAssumption, TermsAssumption, ReportsAssumption
  DEF Target, Evaluate, Results
<1>2. /\ nextAgreementId \in 1 .. MaxAgreements + 1
      /\ nextRecordId \in 1 .. MaxRecords + 1
      /\ nextSpendRequestId \in 1 .. MaxSpendRequests + 1
  BY PagesAssumption
<1>3. AgreementTypeOK
  <2>1. organisations \in [Accounts -> Organisation]
    BY PagesAssumption, SeedAssumption DEF Organisation
  <2>2. agreements \in [AgreementIds -> Agreement]
    BY <1>1 DEF Agreement, UnsetAgreement
  <2>3. agreementTargets \in [AgreementIds -> Seq(Target)]
    BY <1>1
  <2> QED
    BY <1>2, <2>1, <2>2, <2>3, SeedAssumption DEF AgreementTypeOK
<1>4. ComplianceTypeOK
  <2>1. records \in [RecordIds -> ComplianceRecord]
    BY <1>1 DEF ComplianceRecord, UnsetRecord, R, Results
  <2>2. spendRequests \in [SpendRequestIds -> SpendRequest]
    BY <1>1 DEF SpendRequest, UnsetSpendRequest, Q
  <2>3. now \in Nat \ {0} /\ failingRecordCount \in [AgreementIds -> Nat]
    OBVIOUS
  <2> QED
    BY <1>2, <2>1, <2>2, <2>3 DEF ComplianceTypeOK
<1>5. VerificationTypeOK
  BY WindowAssumption DEF VerificationInit, VerificationTypeOK
<1>6. /\ AgreementIds \subseteq Nat \ {0}
      /\ RecordIds \subseteq Nat \ {0}
      /\ SpendRequestIds \subseteq Nat \ {0}
  BY DEF AgreementIds, RecordIds, SpendRequestIds
<1>7. AgreementsInOrder /\ RecordsInOrder /\ RequestsInOrder
  <2>1. AgreementsInOrder
    BY <1>6 DEF AgreementsInOrder
  <2>2. IsFinalised(1)
    BY PageIds DEF IsFinalised
  <2>3. RecordsInOrder
    BY <1>6, <2>2, PageIds DEF RecordsInOrder, R
  <2>4. RequestsInOrder
    BY <1>6, <2>2, PageIds DEF RequestsInOrder, Q
  <2> QED
    BY <2>1, <2>3, <2>4
<1>8. Cardinality({}) = 0 /\ ~(0 >= 2)
  BY FS_EmptySet
<1>9. VotesCounted /\ DeclinesCounted
  BY <1>8 DEF VerificationInit, VotesCounted, DeclinesCounted
<1>10. /\ \A r \in RecordIds : records[r].finalised = FALSE
                               /\ records[r].unverified = FALSE
       /\ \A q \in SpendRequestIds : spendRequests[q].approved = FALSE
                                     /\ spendRequests[q].spent = FALSE
  BY DEF UnsetRecord, UnsetSpendRequest
<1>11. FinalisedByTwoSignatories /\ OutcomesExclusive
  BY <1>8, <1>10
  DEF VerificationInit, FinalisedByTwoSignatories, OutcomesExclusive
<1>12. ApprovedByTwoOthers /\ SpentIsApproved
  BY <1>8, <1>10 DEF VerificationInit, ApprovedByTwoOthers, SpentIsApproved
<1>13. CommittedAfterFinalisation /\ NeverOverspent
  BY <1>1 DEF CommittedAfterFinalisation, NeverOverspent, UnsetAgreement
<1>14. NotYetPinned
  BY DEF VerificationInit, NotYetPinned
<1>15. /\ IsFinalised(1)
       /\ RecordExists(R) /\ SpendRequestExists(Q)
  BY PageIds DEF IsFinalised, RecordExists, SpendRequestExists, R, Q
<1> QED
  BY <1>3, <1>4, <1>5, <1>7, <1>9, <1>10, <1>11, <1>12, <1>13, <1>14, <1>15
  DEF PageLedger, TypeOK, LedgerInv

-----------------------------------------------------------------------------
(* The calls behind a row. *)

\* The first call is for the item itself, and no other is.
ItemFirst ==
    /\ Len(Calls) \in Nat \ {0}
    /\ Calls[1] = <<"item">>
    /\ \A i \in 1 .. Len(Calls) : Calls[i] = <<"item">> => i = 1

Asked(call) == \E i \in 1 .. Len(Calls) : Calls[i] = call

LEMMA VoteCallsAre ==
  /\ VoteCalls \in Seq({VoteCalls[i] : i \in 1 .. 2 * Len(SeedOrder)})
  /\ Len(VoteCalls) = 2 * Len(SeedOrder)
  /\ \A i \in 1 .. 2 * Len(SeedOrder) : VoteCalls[i] # <<"item">>
  /\ \A o \in Accounts :
        \E i \in 1 .. Len(VoteCalls) : VoteCalls[i] = <<"endorsed", o>>
<1>1. Len(SeedOrder) \in Nat /\ 2 * Len(SeedOrder) \in Nat
  BY SeedAssumption
<1>2. /\ VoteCalls \in Seq({VoteCalls[i] : i \in 1 .. 2 * Len(SeedOrder)})
      /\ Len(VoteCalls) = 2 * Len(SeedOrder)
  BY <1>1 DEF VoteCalls
<1>3. \A i \in 1 .. 2 * Len(SeedOrder) : VoteCalls[i] # <<"item">>
  BY DEF VoteCalls
<1>4. ASSUME NEW o \in Accounts
      PROVE  \E i \in 1 .. Len(VoteCalls) : VoteCalls[i] = <<"endorsed", o>>
  <2>1. PICK j \in 1 .. Len(SeedOrder) : SeedOrder[j] = o
    BY SeedAssumption, PagesAssumption
  <2> DEFINE i == 2 * j - 1
  <2>2. i \in 1 .. 2 * Len(SeedOrder) /\ i % 2 = 1 /\ (i + 1) \div 2 = j
    BY <1>1
  <2>3. VoteCalls[i] = <<"endorsed", o>>
    BY <2>1, <2>2 DEF VoteCalls
  <2> QED
    BY <1>2, <2>2, <2>3
<1> QED
  BY <1>2, <1>3, <1>4

LEMMA RecordCallsAre ==
  ASSUME kind = "record"
  PROVE  /\ ItemFirst
         /\ Asked(<<"hash">>) /\ Asked(<<"count">>)
         /\ \A o \in Accounts : Asked(<<"endorsed", o>>)
<1> DEFINE first == << <<"item">>, <<"count">>, <<"declines">>, <<"hash">>,
                       <<"expired">>, <<"deadline">> >>
           T == {VoteCalls[i] : i \in 1 .. 2 * Len(SeedOrder)}
<1>1. Calls = first \o VoteCalls
  BY DEF Calls, RecordCalls
<1>2. VoteCalls \in Seq(T) /\ Len(VoteCalls) \in Nat
  BY VoteCallsAre
<1> HIDE DEF T
<1>3. /\ Len(Calls) = 6 + Len(VoteCalls)
      /\ \A i \in 1 .. Len(VoteCalls) : Calls[i + 6] = VoteCalls[i]
      /\ \A i \in 1 .. 6 : Calls[i] = first[i]
  BY <1>1, <1>2
<1>4. \A i \in 1 .. Len(Calls) : i > 6 => Calls[i] # <<"item">>
  <2> SUFFICES ASSUME NEW i \in 1 .. Len(Calls), i > 6
               PROVE  Calls[i] # <<"item">>
    OBVIOUS
  <2>1. i - 6 \in 1 .. Len(VoteCalls) /\ (i - 6) + 6 = i
    BY <1>2, <1>3
  <2>2. Calls[i] = VoteCalls[i - 6]
    BY <1>3, <2>1
  <2>3. VoteCalls[i - 6] # <<"item">>
    BY <2>1, VoteCallsAre
  <2> QED
    BY <2>2, <2>3
<1>5. \A i \in 2 .. 6 : Calls[i] # <<"item">>
  BY <1>3
<1>6. ItemFirst
  <2>1. Len(Calls) \in Nat \ {0} /\ Calls[1] = <<"item">>
    BY <1>2, <1>3
  <2>2. \A i \in 1 .. Len(Calls) : Calls[i] = <<"item">> => i = 1
    BY <1>4, <1>5, <2>1
  <2> QED
    BY <2>1, <2>2 DEF ItemFirst
<1>7. Asked(<<"hash">>) /\ Asked(<<"count">>)
  <2>1. 4 \in 1 .. Len(Calls) /\ 2 \in 1 .. Len(Calls)
    BY <1>2, <1>3
  <2>2. Calls[4] = <<"hash">> /\ Calls[2] = <<"count">>
    BY <1>3
  <2> QED
    BY <2>1, <2>2 DEF Asked
<1>8. ASSUME NEW o \in Accounts PROVE Asked(<<"endorsed", o>>)
  <2>1. PICK i \in 1 .. Len(VoteCalls) : VoteCalls[i] = <<"endorsed", o>>
    BY VoteCallsAre
  <2>2. i + 6 \in 1 .. Len(Calls) /\ Calls[i + 6] = <<"endorsed", o>>
    BY <1>2, <1>3, <2>1
  <2> QED
    BY <2>2 DEF Asked
<1> QED
  BY <1>6, <1>7, <1>8

LEMMA SpendCallsAre ==
  ASSUME kind = "spend"
  PROVE  ItemFirst /\ Asked(<<"declines">>)
<1> DEFINE first == << <<"item">>, <<"count">>, <<"declines">> >>
           T == {VoteCalls[i] : i \in 1 .. 2 * Len(SeedOrder)}
<1>1. Calls = first \o VoteCalls
  BY DEF Calls, SpendCalls
<1>2. VoteCalls \in Seq(T) /\ Len(VoteCalls) \in Nat
  BY VoteCallsAre
<1> HIDE DEF T
<1>3. /\ Len(Calls) = 3 + Len(VoteCalls)
      /\ \A i \in 1 .. Len(VoteCalls) : Calls[i + 3] = VoteCalls[i]
      /\ \A i \in 1 .. 3 : Calls[i] = first[i]
  BY <1>1, <1>2
<1>4. \A i \in 1 .. Len(Calls) : i > 3 => Calls[i] # <<"item">>
  <2> SUFFICES ASSUME NEW i \in 1 .. Len(Calls), i > 3
               PROVE  Calls[i] # <<"item">>
    OBVIOUS
  <2>1. i - 3 \in 1 .. Len(VoteCalls) /\ (i - 3) + 3 = i
    BY <1>2, <1>3
  <2>2. Calls[i] = VoteCalls[i - 3]
    BY <1>3, <2>1
  <2>3. VoteCalls[i - 3] # <<"item">>
    BY <2>1, VoteCallsAre
  <2> QED
    BY <2>2, <2>3
<1>5. \A i \in 2 .. 3 : Calls[i] # <<"item">>
  BY <1>3
<1>6. ItemFirst
  <2>1. Len(Calls) \in Nat \ {0} /\ Calls[1] = <<"item">>
    BY <1>2, <1>3
  <2>2. \A i \in 1 .. Len(Calls) : Calls[i] = <<"item">> => i = 1
    BY <1>4, <1>5, <2>1
  <2> QED
    BY <2>1, <2>2 DEF ItemFirst
<1>7. 3 \in 1 .. Len(Calls) /\ Calls[3] = <<"declines">>
  BY <1>2, <1>3
<1> QED
  BY <1>6, <1>7 DEF Asked

LEMMA BadgeCallsAre ==
  ASSUME kind = "badge"
  PROVE  ItemFirst /\ Asked(<<"reference">>)
<1> DEFINE first == << <<"item">>, <<"base">> >>
           nodes == [n \in 1 .. NodeTotal |-> <<"node", n>>]
           last == << <<"reference">> >>
           T == {<<"item">>, <<"base">>, <<"reference">>}
                    \cup {<<"node", n>> : n \in 1 .. NodeTotal}
<1>1. Calls = first \o nodes \o last
  BY DEF Calls, BadgeCalls
<1>2. NodeTotal \in Nat /\ nodes \in Seq(T) /\ Len(nodes) = NodeTotal
  BY PagesAssumption
<1>3. first \in Seq(T) /\ last \in Seq(T)
  OBVIOUS
<1>4. \A n \in 1 .. NodeTotal : nodes[n] # <<"item">>
  OBVIOUS
<1> HIDE DEF nodes, T
<1>5. /\ Len(Calls) = NodeTotal + 3
      /\ Calls[1] = <<"item">> /\ Calls[2] = <<"base">>
      /\ \A i \in 3 .. NodeTotal + 2 : Calls[i] = nodes[i - 2]
      /\ Calls[NodeTotal + 3] = <<"reference">>
  BY <1>1, <1>2, <1>3
<1>6. \A i \in 1 .. Len(Calls) : Calls[i] = <<"item">> => i = 1
  <2> SUFFICES ASSUME NEW i \in 1 .. Len(Calls), i # 1
               PROVE  Calls[i] # <<"item">>
    OBVIOUS
  <2>1. i = 2 \/ i \in 3 .. NodeTotal + 2 \/ i = NodeTotal + 3
    BY <1>2, <1>5
  <2>2. i \in 3 .. NodeTotal + 2 => i - 2 \in 1 .. NodeTotal
    BY <1>2
  <2> QED
    BY <1>4, <1>5, <2>1, <2>2
<1> QED
  BY <1>2, <1>5, <1>6 DEF ItemFirst, Asked

LEMMA BadgeCallsFrom ==
  ASSUME kind = "badge", NEW i \in 1 .. Len(Calls)
  PROVE  Calls[i] \in {<<"item">>, <<"base">>, <<"reference">>}
                        \cup {<<"node", n>> : n \in 1 .. NodeTotal}
<1> DEFINE T == {<<"item">>, <<"base">>, <<"reference">>}
                    \cup {<<"node", n>> : n \in 1 .. NodeTotal}
           first == << <<"item">>, <<"base">> >>
           nodes == [n \in 1 .. NodeTotal |-> <<"node", n>>]
           last == << <<"reference">> >>
<1>1. first \in Seq(T) /\ nodes \in Seq(T) /\ last \in Seq(T)
  BY PagesAssumption
<1>2. Calls = first \o nodes \o last
  BY DEF Calls, BadgeCalls
<1> HIDE DEF T, first, nodes, last
<1>3. Calls \in Seq(T)
  BY <1>1, <1>2
<1> QED
  BY <1>3 DEF T

LEMMA CallsAre == kind \in {"record", "spend", "badge"} => ItemFirst
BY RecordCallsAre, SpendCallsAre, BadgeCallsAre

-----------------------------------------------------------------------------
(* The row, answer by answer. *)

\* The answers there are are those of the first so many calls.
RowShape ==
    /\ kind \in {"record", "spend", "badge"}
    /\ acting \in Accounts
    /\ IsFiniteSet(DOMAIN row)
    /\ DOMAIN row = {Calls[i] : i \in 1 .. Answered}
    /\ Answered <= Len(Calls)

LEMMA EmptyRow ==
  ASSUME NEW rw, rw = <<>>
  PROVE  DOMAIN rw = {} /\ IsFiniteSet(DOMAIN rw) /\ Cardinality(DOMAIN rw) = 0
BY FS_EmptySet

LEMMA AnsweredNat == RowShape => Answered \in Nat
BY FS_CardinalityType DEF RowShape, Answered

LEMMA ShapeFresh ==
  ASSUME kind \in {"record", "spend", "badge"}, acting \in Accounts, row = <<>>
  PROVE  RowShape
<1>1. DOMAIN row = {} /\ IsFiniteSet(DOMAIN row) /\ Answered = 0
  BY EmptyRow DEF Answered
<1>2. 1 .. 0 = {} /\ 0 <= Len(Calls)
  BY CallsAre DEF ItemFirst
<1> QED
  BY <1>1, <1>2 DEF RowShape

\* One call more: the item first, everything else with the item at hand.
AnswersOne(call) ==
    /\ row' = [c \in DOMAIN row \cup {call} |->
                    IF c = call THEN row'[call] ELSE row[c]]
    /\ row'[call] \in Answers(call)
    /\ \/ call = <<"item">> /\ DOMAIN row = {}
       \/ call # <<"item">> /\ <<"item">> \in DOMAIN row

LEMMA ReadCallShape ==
  ASSUME RowShape, ReadCall
  PROVE  RowShape' /\ AnswersOne(Calls[Answered + 1])
<1> DEFINE n == Answered
           call == Calls[n + 1]
<1>1. ItemFirst /\ n \in Nat /\ n < Len(Calls)
  BY CallsAre, AnsweredNat DEF RowShape, ReadCall, Complete, ItemFirst
<1>2. PICK answer \in Answers(call) :
        row' = [c \in DOMAIN row \cup {call} |->
                    IF c = call THEN answer ELSE row[c]]
  BY DEF ReadCall
<1>3. DOMAIN row' = DOMAIN row \cup {call} /\ row'[call] = answer
  BY <1>2
<1>4. /\ IsFiniteSet(DOMAIN row')
      /\ Answered' = IF call \in DOMAIN row THEN n ELSE n + 1
  <2>1. /\ IsFiniteSet(DOMAIN row)
        /\ n = Cardinality(DOMAIN row)
        /\ Answered' = Cardinality(DOMAIN row \cup {call})
    BY <1>3 DEF RowShape, Answered
  <2> HIDE DEF call, n
  <2>2. /\ IsFiniteSet(DOMAIN row \cup {call})
        /\ \/ call \in DOMAIN row
              /\ Cardinality(DOMAIN row \cup {call}) = Cardinality(DOMAIN row)
           \/ call \notin DOMAIN row
              /\ Cardinality(DOMAIN row \cup {call})
                    = Cardinality(DOMAIN row) + 1
    BY <2>1, FS_AddElement
  <2> QED
    BY <1>3, <2>1, <2>2
<1>5. Calls' = Calls /\ UNCHANGED <<kind, acting>>
  <2>1. UNCHANGED <<kind, acting>>
    BY DEF ReadCall
  <2> QED
    BY <2>1 DEF Calls, RecordCalls, SpendCalls, VoteCalls, BadgeCalls
<1> HIDE DEF n
<1>6. DOMAIN row = {Calls[i] : i \in 1 .. n}
  BY DEF RowShape, n
<1>7. DOMAIN row' = {Calls[i] : i \in 1 .. Answered'}
  <2>1. CASE call \in DOMAIN row
    BY <1>3, <1>4, <1>6, <2>1
  <2>2. CASE call \notin DOMAIN row
    <3>1. 1 .. n + 1 = (1 .. n) \cup {n + 1}
      BY <1>1
    <3>2. Answered' = n + 1
      BY <1>4, <2>2
    <3> QED
      BY <1>3, <1>6, <3>1, <3>2
  <2> QED
    BY <2>1, <2>2
<1>8. Answered' <= Len(Calls)
  BY <1>1, <1>4 DEF ItemFirst
<1>9. RowShape'
  BY <1>4, <1>5, <1>7, <1>8 DEF RowShape
<1>10. \/ call = <<"item">> /\ DOMAIN row = {}
       \/ call # <<"item">> /\ <<"item">> \in DOMAIN row
  <2>1. CASE n = 0
    BY <1>1, <1>6, <2>1 DEF ItemFirst
  <2>2. CASE n # 0
    <3>1. 1 \in 1 .. n /\ n + 1 \in 1 .. Len(Calls) /\ n + 1 # 1
      BY <1>1, <2>2 DEF ItemFirst
    <3> QED
      BY <1>1, <1>6, <3>1 DEF ItemFirst
  <2> QED
    BY <2>1, <2>2
<1> HIDE DEF call
<1>11. AnswersOne(call)
  BY <1>2, <1>3, <1>10 DEF AnswersOne
<1> QED
  BY <1>9, <1>11 DEF call, n

LEMMA ShapeNext ==
  ASSUME RowShape, [PagesNext]_<<vars, pageVars>>
  PROVE  RowShape'
<1>1. UNCHANGED <<kind, acting>>
  BY DEF PagesNext, ReadCall, ReadFails, PressButton, LedgerGoesOn, pageVars
<1>2. Calls' = Calls
  BY <1>1 DEF Calls, RecordCalls, SpendCalls, VoteCalls, BadgeCalls
<1>3. CASE row' = <<>>
  <2>1. DOMAIN row' = {} /\ IsFiniteSet(DOMAIN row') /\ Answered' = 0
    BY <1>3, EmptyRow DEF Answered
  <2>2. 1 .. 0 = {} /\ 0 <= Len(Calls)
    BY CallsAre DEF ItemFirst, RowShape
  <2> QED
    BY <1>1, <1>2, <2>1, <2>2 DEF RowShape
<1>4. CASE row' = row
  BY <1>1, <1>2, <1>4 DEF RowShape, Answered
<1> QED
  BY <1>3, <1>4, ReadCallShape
  DEF PagesNext, ReadFails, PressButton, LedgerGoesOn, pageVars

\* Every call has its answer once the row is complete.
LEMMA CompleteRow ==
  ASSUME RowShape, Complete, NEW call, Asked(call)
  PROVE  call \in DOMAIN row
BY DEF RowShape, Complete, Asked

-----------------------------------------------------------------------------
(* What a row can be relied on for. *)

Endorses(o) ==
    /\ o \in hasEndorsed[R]
    /\ <<"endorsed", o>> \in DOMAIN row => row[<<"endorsed", o>>]

\* Once the item was read as final, so is the record, and two organisations
\* have endorsed it that have been, or will be, found to have done so.
RecordRow ==
    kind = "record" /\ <<"item">> \in DOMAIN row =>
        /\ Shown("item").unverified => records[R].unverified
        /\ Shown("item").finalised =>
            /\ records[R].finalised
            /\ <<"hash">> \in DOMAIN row => Shown("hash") = finalisedBlockHash[R]
            /\ <<"count">> \in DOMAIN row => Shown("count") >= 2
            /\ \E a, b \in Accounts : a # b /\ Endorses(a) /\ Endorses(b)

SpendRow ==
    kind = "spend" /\ <<"item">> \in DOMAIN row =>
        /\ Shown("item").approved => spendRequests[Q].approved
        /\ Shown("item").spent => spendRequests[Q].spent
        /\ <<"declines">> \in DOMAIN row =>
            /\ Shown("declines") \in Nat
            /\ Shown("declines") <= Cardinality(hasDeclinedSpend[Q])

BadgeRow ==
    kind = "badge" /\ <<"item">> \in DOMAIN row /\ Shown("item").finalised =>
        /\ records[R].finalised
        /\ <<"reference">> \in DOMAIN row =>
            /\ Shown("reference").finalised
            /\ Shown("reference").reportedValue = records[R].reportedValue

RowInv ==
    /\ PageLedger
    /\ RowShape
    /\ RecordRow
    /\ SpendRow
    /\ BadgeRow

\* What the ledger never takes back.
NothingTakenBack ==
    /\ records[R].finalised => /\ records'[R].finalised
                               /\ finalisedBlockHash'[R] = finalisedBlockHash[R]
    /\ records[R].unverified => records'[R].unverified
    /\ records'[R].reportedValue = records[R].reportedValue
    /\ hasEndorsed[R] \subseteq hasEndorsed'[R]
    /\ spendRequests[Q].approved => spendRequests'[Q].approved
    /\ spendRequests[Q].spent => spendRequests'[Q].spent
    /\ Cardinality(hasDeclinedSpend[Q]) \in Nat
    /\ Cardinality(hasDeclinedSpend'[Q]) \in Nat
    /\ Cardinality(hasDeclinedSpend[Q]) <= Cardinality(hasDeclinedSpend'[Q])

LEMMA LedgerOnlyGrows ==
  ASSUME PageLedger, [Next]_vars
  PROVE  NothingTakenBack
<1>1. HistoryKept /\ PinStep
  BY HistoryStep, PinnedStep DEF PageLedger
<1>2. /\ records[R].finalised => records'[R].finalised
      /\ records[R].unverified => records'[R].unverified
      /\ spendRequests[Q].approved => spendRequests'[Q].approved
      /\ spendRequests[Q].spent => spendRequests'[Q] = spendRequests[Q]
  BY <1>1, PageIds, FactsKept DEF PageLedger
<1>3. records[R].finalised => finalisedBlockHash'[R] = finalisedBlockHash[R]
  BY <1>1, PageIds DEF PinStep
<1>4. records'[R].reportedValue = records[R].reportedValue
  <2>1. records[R] \in ComplianceRecord
    BY PageIds DEF PageLedger, TypeOK, ComplianceTypeOK
  <2>2. RecordKept(R)
    BY <1>1, PageIds DEF HistoryKept, PageLedger
  <2> QED
    BY <2>1, <2>2 DEF RecordKept, ComplianceRecord, PageLedger
<1>5. /\ hasEndorsed[R] \subseteq hasEndorsed'[R]
      /\ hasDeclinedSpend[Q] \subseteq hasDeclinedSpend'[Q]
  BY <1>1, PageIds DEF HistoryKept, VotesKept
<1>6. hasDeclinedSpend[Q] \in SUBSET Accounts
      /\ hasDeclinedSpend'[Q] \in SUBSET Accounts
  BY PageIds, NextTypeOK DEF PageLedger, TypeOK, VerificationTypeOK
<1>7. /\ Cardinality(hasDeclinedSpend[Q]) \in Nat
      /\ Cardinality(hasDeclinedSpend'[Q]) \in Nat
      /\ Cardinality(hasDeclinedSpend[Q]) <= Cardinality(hasDeclinedSpend'[Q])
  BY <1>5, <1>6, VotersFinite, FS_Subset
<1> QED
  BY <1>2, <1>3, <1>4, <1>5, <1>7 DEF NothingTakenBack

LEMMA RowKept ==
  ASSUME RowInv, NothingTakenBack, UNCHANGED <<row, kind>>
  PROVE  RecordRow' /\ SpendRow' /\ BadgeRow'
<1>1. RecordRow'
  <2>1. \A o : Endorses(o) => Endorses(o)'
    BY DEF Endorses, NothingTakenBack
  <2> QED
    BY <2>1 DEF RowInv, RecordRow, Shown, NothingTakenBack
<1>2. SpendRow'
  BY DEF RowInv, SpendRow, Shown, NothingTakenBack
<1>3. BadgeRow'
  BY DEF RowInv, BadgeRow, Shown, NothingTakenBack
<1> QED
  BY <1>1, <1>2, <1>3

LEMMA TwoOf ==
  ASSUME NEW S, IsFiniteSet(S), Cardinality(S) >= 2
  PROVE  \E a, b \in S : a # b
<1>1. Cardinality({}) = 0 /\ ~(0 >= 2)
  BY FS_EmptySet
<1>2. PICK a : a \in S
  <2>1. S # {}
    BY <1>1
  <2> QED
    BY <2>1
<1>3. Cardinality({a}) = 1
  BY FS_Singleton, Zenon
<1>4. \E b \in S : a # b
  <2> SUFFICES ASSUME \A b \in S : a = b PROVE FALSE
    OBVIOUS
  <2>1. S = {a}
    BY <1>2
  <2>2. Cardinality(S) = 1
    BY <1>3, <2>1
  <2> QED
    BY <2>2
<1> QED
  BY <1>2, <1>4

LEMMA TwoEndorsers ==
  ASSUME PageLedger, records[R].finalised
  PROVE  /\ endorsementCount[R] >= 2
         /\ \E a, b \in hasEndorsed[R] : a # b
<1>1. /\ Cardinality(hasEndorsed[R]) >= 2
      /\ endorsementCount[R] = Cardinality(hasEndorsed[R])
  BY PageIds DEF PageLedger, LedgerInv, FinalisedByTwoSignatories, VotesCounted
<1>2. IsFiniteSet(hasEndorsed[R])
  BY PageIds, VotersFinite DEF PageLedger, TypeOK, VerificationTypeOK
<1>3. endorsementCount[R] >= 2
  BY <1>1
<1>4. \A S : IsFiniteSet(S) /\ Cardinality(S) >= 2 => \E a, b \in S : a # b
  BY TwoOf
<1> QED
  BY <1>1, <1>2, <1>3, <1>4

LEMMA RecordRowAnswered ==
  ASSUME RowInv, UNCHANGED <<vars, kind>>, kind = "record",
         NEW call, AnswersOne(call)
  PROVE  RecordRow'
<1>1. \A o \in Accounts :
        o \in hasEndorsed[R] /\ call = <<"endorsed", o>> => row'[call] = TRUE
  <2> SUFFICES ASSUME NEW o \in Accounts, o \in hasEndorsed[R],
                      call = <<"endorsed", o>>
               PROVE  row'[call] = TRUE
    OBVIOUS
  <2>1. call[1] = "endorsed" /\ call[2] = o
    OBVIOUS
  <2>2. Answers(call) = {call[2] \in hasEndorsed[R]}
    BY <2>1 DEF Answers
  <2>3. (call[2] \in hasEndorsed[R]) = TRUE
    BY <2>1
  <2> QED
    BY <2>2, <2>3 DEF AnswersOne
<1>2. UNCHANGED <<records, hasEndorsed, finalisedBlockHash>>
  BY DEF vars, complianceVars, verificationVars, recordVotes
<1>3. CASE call = <<"item">> /\ DOMAIN row = {}
  <2>1. DOMAIN row' = {call} /\ row'[<<"item">>] = records[R]
    BY <1>3 DEF AnswersOne, Answers, Item
  <2>2. records[R].finalised => \E a, b \in Accounts :
            a # b /\ a \in hasEndorsed[R] /\ b \in hasEndorsed[R]
    BY TwoEndorsers, PageIds DEF RowInv, PageLedger, TypeOK, VerificationTypeOK
  <2>3. <<"hash">> \notin DOMAIN row' /\ <<"count">> \notin DOMAIN row'
        /\ \A o : <<"endorsed", o>> \notin DOMAIN row'
    BY <1>3, <2>1
  <2> QED
    BY <1>2, <2>1, <2>2, <2>3 DEF RecordRow, Shown, Endorses
<1>4. CASE call # <<"item">> /\ <<"item">> \in DOMAIN row
  <2>1. /\ <<"item">> \in DOMAIN row' /\ Shown("item")' = Shown("item")
        /\ \A c \in DOMAIN row' : c # call => c \in DOMAIN row /\ row'[c] = row[c]
    BY <1>4 DEF AnswersOne, Shown
  <2>2. Shown("item").unverified => records[R].unverified
    BY <1>4 DEF RowInv, RecordRow
  <2>3. ASSUME Shown("item").finalised
        PROVE  /\ records[R].finalised
               /\ <<"hash">> \in DOMAIN row'
                    => row'[<<"hash">>] = finalisedBlockHash[R]
               /\ <<"count">> \in DOMAIN row' => row'[<<"count">>] >= 2
               /\ \E a, b \in Accounts : a # b /\ Endorses(a)' /\ Endorses(b)'
    <3>1. /\ records[R].finalised
          /\ <<"hash">> \in DOMAIN row => row[<<"hash">>] = finalisedBlockHash[R]
          /\ <<"count">> \in DOMAIN row => row[<<"count">>] >= 2
      BY <1>4, <2>3 DEF RowInv, RecordRow, Shown
    <3>2. PICK a, b \in Accounts : a # b /\ Endorses(a) /\ Endorses(b)
      BY <1>4, <2>3 DEF RowInv, RecordRow
    <3>3. <<"hash">> \in DOMAIN row' => row'[<<"hash">>] = finalisedBlockHash[R]
      <4>1. call = <<"hash">> => row'[call] = finalisedBlockHash[R]
        BY DEF AnswersOne, Answers
      <4> QED
        BY <2>1, <3>1, <4>1
    <3>4. <<"count">> \in DOMAIN row' => row'[<<"count">>] >= 2
      <4>1. call = <<"count">> => row'[call] = endorsementCount[R]
        BY DEF AnswersOne, Answers
      <4> QED
        BY <2>1, <3>1, <4>1, TwoEndorsers DEF RowInv
    <3>5. Endorses(a)' /\ Endorses(b)'
      BY <1>1, <1>2, <2>1, <3>2 DEF Endorses
    <3> QED
      BY <3>1, <3>2, <3>3, <3>4, <3>5
  <2> QED
    BY <1>2, <2>1, <2>2, <2>3 DEF RecordRow, Shown
<1> QED
  BY <1>3, <1>4 DEF AnswersOne

LEMMA SpendRowAnswered ==
  ASSUME RowInv, UNCHANGED <<vars, kind>>, kind = "spend",
         NEW call, AnswersOne(call)
  PROVE  SpendRow'
<1>1. UNCHANGED <<spendRequests, hasDeclinedSpend>>
  BY DEF vars, complianceVars, verificationVars, spendVotes
<1>2. call = <<"declines">> =>
        /\ row'[call] = Cardinality(hasDeclinedSpend[Q])
        /\ row'[call] \in Nat
  BY PageIds
  DEF AnswersOne, Answers, RowInv, PageLedger, DeclinesCounted, TypeOK,
      VerificationTypeOK
<1>3. CASE call = <<"item">> /\ DOMAIN row = {}
  <2>1. DOMAIN row' = {call} /\ row'[<<"item">>] = spendRequests[Q]
    BY <1>3 DEF AnswersOne, Answers, Item
  <2>2. <<"declines">> \notin DOMAIN row'
    BY <1>3, <2>1
  <2> QED
    BY <1>1, <2>1, <2>2 DEF SpendRow, Shown
<1>4. CASE call # <<"item">> /\ <<"item">> \in DOMAIN row
  <2>1. /\ Shown("item")' = Shown("item")
        /\ \A c \in DOMAIN row' : c # call => c \in DOMAIN row /\ row'[c] = row[c]
    BY <1>4 DEF AnswersOne, Shown
  <2>2. /\ Shown("item").approved => spendRequests[Q].approved
        /\ Shown("item").spent => spendRequests[Q].spent
    BY <1>4 DEF RowInv, SpendRow
  <2>3. <<"declines">> \in DOMAIN row' =>
            /\ row'[<<"declines">>] \in Nat
            /\ row'[<<"declines">>] <= Cardinality(hasDeclinedSpend[Q])
    <3>1. <<"declines">> \in DOMAIN row =>
            /\ row[<<"declines">>] \in Nat
            /\ row[<<"declines">>] <= Cardinality(hasDeclinedSpend[Q])
      BY <1>4 DEF RowInv, SpendRow, Shown
    <3> QED
      BY <1>2, <2>1, <3>1
  <2> QED
    BY <1>1, <2>1, <2>2, <2>3 DEF SpendRow, Shown
<1> QED
  BY <1>3, <1>4 DEF AnswersOne

LEMMA BadgeRowAnswered ==
  ASSUME RowInv, UNCHANGED <<vars, kind>>, kind = "badge",
         NEW call, AnswersOne(call)
  PROVE  BadgeRow'
<1>1. UNCHANGED records
  BY DEF vars, complianceVars
<1>2. call = <<"reference">> => row'[call] = records[R]
  BY DEF AnswersOne, Answers, Item
<1>3. CASE call = <<"item">> /\ DOMAIN row = {}
  <2>1. DOMAIN row' = {call} /\ row'[<<"item">>] = records[R]
    BY <1>3 DEF AnswersOne, Answers, Item
  <2>2. <<"reference">> \notin DOMAIN row'
    BY <1>3, <2>1
  <2> QED
    BY <1>1, <2>1, <2>2 DEF BadgeRow, Shown
<1>4. CASE call # <<"item">> /\ <<"item">> \in DOMAIN row
  <2>1. /\ Shown("item")' = Shown("item")
        /\ \A c \in DOMAIN row' : c # call => c \in DOMAIN row /\ row'[c] = row[c]
    BY <1>4 DEF AnswersOne, Shown
  <2>2. ASSUME Shown("item").finalised
        PROVE  /\ records[R].finalised
               /\ <<"reference">> \in DOMAIN row' =>
                    /\ row'[<<"reference">>].finalised
                    /\ row'[<<"reference">>].reportedValue
                            = records[R].reportedValue
    <3>1. /\ records[R].finalised
          /\ <<"reference">> \in DOMAIN row =>
                /\ row[<<"reference">>].finalised
                /\ row[<<"reference">>].reportedValue = records[R].reportedValue
      BY <1>4, <2>2 DEF RowInv, BadgeRow, Shown
    <3> QED
      BY <1>2, <2>1, <3>1
  <2> QED
    BY <1>1, <2>1, <2>2 DEF BadgeRow, Shown
<1> QED
  BY <1>3, <1>4 DEF AnswersOne

LEMMA RowInvInit == PagesInit => RowInv
<1> SUFFICES ASSUME PagesInit PROVE RowInv
  OBVIOUS
<1>1. PageLedger /\ RowShape
  BY PageLedgerFresh, ShapeFresh DEF PagesInit
<1>2. DOMAIN row = {}
  BY EmptyRow DEF PagesInit
<1> QED
  BY <1>1, <1>2 DEF RowInv, RecordRow, SpendRow, BadgeRow

LEMMA RowInvNext ==
  ASSUME RowInv, [PagesNext]_<<vars, pageVars>>
  PROVE  RowInv'
<1>1. [Next]_vars
  BY PageSteps DEF RowInv, RowShape
<1>2. PageLedger' /\ RowShape' /\ NothingTakenBack
  BY <1>1, PageLedgerNext, ShapeNext, LedgerOnlyGrows DEF RowInv
<1>3. CASE row' = <<>>
  <2>1. DOMAIN row' = {}
    BY <1>3, EmptyRow
  <2> QED
    BY <1>2, <2>1 DEF RowInv, RecordRow, SpendRow, BadgeRow
<1>4. CASE UNCHANGED <<row, kind>>
  BY <1>2, <1>4, RowKept DEF RowInv
<1>5. CASE ReadCall
  <2>1. UNCHANGED <<vars, kind>>
    BY <1>5 DEF ReadCall
  <2>2. PICK call : AnswersOne(call)
    BY <1>5, ReadCallShape DEF RowInv
  <2>3. kind = "record" => RecordRow' /\ SpendRow' /\ BadgeRow'
    BY <2>1, <2>2, RecordRowAnswered DEF SpendRow, BadgeRow
  <2>4. kind = "spend" => RecordRow' /\ SpendRow' /\ BadgeRow'
    BY <2>1, <2>2, SpendRowAnswered DEF RecordRow, BadgeRow
  <2>5. kind = "badge" => RecordRow' /\ SpendRow' /\ BadgeRow'
    BY <2>1, <2>2, BadgeRowAnswered DEF RecordRow, SpendRow
  <2> QED
    BY <1>2, <2>3, <2>4, <2>5 DEF RowInv, RowShape
<1> QED
  BY <1>3, <1>4, <1>5
  DEF PagesNext, ReadFails, PressButton, LedgerGoesOn, pageVars

-----------------------------------------------------------------------------
(* What is shown is true. *)

LEMMA RecordShownTrue ==
  ASSUME RowInv, Complete, kind = "record"
  PROVE  /\ RecordStatusShown = "Finalised" => records[R].finalised
         /\ RecordStatusShown = "Unverified" => records[R].unverified
         /\ Shown("item").finalised =>
                /\ Shown("hash") = finalisedBlockHash[R]
                /\ Shown("hash") # 0
                /\ Shown("count") >= ENDORSEMENT_THRESHOLD
                /\ Cardinality(Endorsers) >= ENDORSEMENT_THRESHOLD
<1>1. /\ <<"item">> \in DOMAIN row /\ <<"hash">> \in DOMAIN row
      /\ <<"count">> \in DOMAIN row
      /\ \A o \in Accounts : <<"endorsed", o>> \in DOMAIN row
  <2>1. ItemFirst => Asked(<<"item">>)
    BY DEF ItemFirst, Asked
  <2>2. RowShape
    BY DEF RowInv
  <2> QED
    BY <2>1, <2>2, RecordCallsAre, CompleteRow
<1>2. /\ RecordStatusShown = "Finalised" => Shown("item").finalised
      /\ RecordStatusShown = "Unverified" => Shown("item").unverified
  BY DEF RecordStatusShown
<1>3. Shown("item").unverified => records[R].unverified
  BY <1>1 DEF RowInv, RecordRow
<1>4. ASSUME Shown("item").finalised
      PROVE  /\ records[R].finalised
             /\ Shown("hash") = finalisedBlockHash[R]
             /\ Shown("hash") # 0
             /\ Shown("count") >= ENDORSEMENT_THRESHOLD
             /\ Cardinality(Endorsers) >= ENDORSEMENT_THRESHOLD
  <2>1. /\ records[R].finalised
        /\ Shown("hash") = finalisedBlockHash[R]
        /\ Shown("count") >= 2
    BY <1>1, <1>4 DEF RowInv, RecordRow
  <2>2. Shown("hash") # 0
    BY <2>1, PageIds DEF RowInv, PageLedger
  <2>3. PICK a, b \in Accounts : a # b /\ Endorses(a) /\ Endorses(b)
    BY <1>1, <1>4 DEF RowInv, RecordRow
  <2>4. {a, b} \subseteq Endorsers
    BY <1>1, <2>3 DEF Endorsers, Endorses
  <2>5. Cardinality(Endorsers) >= 2
    <3>1. IsFiniteSet(Endorsers) /\ Cardinality(Endorsers) \in Nat
      <4>1. Endorsers \in SUBSET Accounts
        BY DEF Endorsers
      <4> QED
        BY <4>1, VotersFinite, FS_CardinalityType
    <3>2. Cardinality({a, b}) = 2
      <4>1. {a, b} = {a} \cup {b} /\ b \notin {a}
        BY <2>3
      <4>2. IsFiniteSet({a}) /\ Cardinality({a}) = 1
        BY FS_Singleton
      <4>3. Cardinality({a} \cup {b}) = Cardinality({a}) + 1
        BY <4>1, <4>2, FS_AddElement
      <4> QED
        BY <4>1, <4>2, <4>3
    <3>3. Cardinality({a, b}) <= Cardinality(Endorsers)
      BY <2>4, <3>1, FS_Subset
    <3> QED
      BY <3>1, <3>2, <3>3
  <2> QED
    BY <2>1, <2>2, <2>5 DEF ENDORSEMENT_THRESHOLD
<1> QED
  BY <1>2, <1>3, <1>4

\* More declines than an approval leaves room for.
LEMMA RejectedForGood ==
  ASSUME PageLedger,
         NEW n \in Nat, n <= Cardinality(hasDeclinedSpend[Q]),
         n > Cardinality(Accounts) - 2
  PROVE  /\ ~spendRequests[Q].approved
         /\ Cardinality(agreements[1].signatories
                \ (hasDeclinedSpend[Q] \cup {spendRequests[Q].requester})) < 2
<1> DEFINE D == hasDeclinedSpend[Q]
           E == hasEndorsedSpend[Q]
           rest == agreements[1].signatories
                        \ (D \cup {spendRequests[Q].requester})
<1>1. /\ D \in SUBSET Accounts /\ E \in SUBSET Accounts
      /\ E \cap D = {}
  BY PageIds
  DEF PageLedger, TypeOK, VerificationTypeOK, LedgerInv, ApprovedByTwoOthers
<1>2. spendRequests[Q].approved => Cardinality(E) >= 2
  BY PageIds DEF PageLedger, LedgerInv, ApprovedByTwoOthers
<1> HIDE DEF D, E
<1>3. /\ IsFiniteSet(Accounts) /\ IsFiniteSet(D) /\ IsFiniteSet(E)
      /\ Cardinality(Accounts) \in Nat /\ Cardinality(D) \in Nat
      /\ Cardinality(E) \in Nat
  BY <1>1, VotersFinite, FS_CardinalityType
<1>4. /\ IsFiniteSet(Accounts \ D)
      /\ Cardinality(Accounts \ D)
            = Cardinality(Accounts) - Cardinality(Accounts \cap D)
  BY <1>3, FS_Difference
<1>5. Accounts \cap D = D
  BY <1>1
<1>6. Cardinality(Accounts \ D) < 2 /\ Cardinality(Accounts \ D) \in Nat
  <2>1. n <= Cardinality(D)
    BY DEF D
  <2>2. Cardinality(Accounts \ D) = Cardinality(Accounts) - Cardinality(D)
    BY <1>4, <1>5
  <2>3. Cardinality(Accounts \ D) \in Nat
    BY <1>4, FS_CardinalityType
  <2> QED
    BY <1>3, <2>1, <2>2, <2>3
<1>7. ~spendRequests[Q].approved
  <2>1. E \subseteq Accounts \ D
    BY <1>1
  <2>2. Cardinality(E) <= Cardinality(Accounts \ D)
    BY <1>4, <2>1, FS_Subset
  <2> QED
    BY <1>2, <1>3, <1>6, <2>2
<1>8. Cardinality(rest) < 2
  <2>1. rest \subseteq Accounts \ D
    <3>1. agreements[1] \in Agreement
      BY PageIds DEF PageLedger, TypeOK, AgreementTypeOK
    <3>2. agreements[1].signatories \in SUBSET Accounts
      BY <3>1 DEF Agreement
    <3> QED
      BY <3>2
  <2> HIDE DEF rest
  <2>2. Cardinality(rest) <= Cardinality(Accounts \ D) /\ IsFiniteSet(rest)
    BY <1>4, <2>1, FS_Subset
  <2>3. Cardinality(rest) \in Nat
    BY <2>2, FS_CardinalityType
  <2> QED
    BY <1>6, <2>2, <2>3
<1> QED
  BY <1>7, <1>8 DEF D

LEMMA SpendShownTrue ==
  ASSUME RowInv, Complete, kind = "spend"
  PROVE  /\ StatusOf \in {"APPROVED", "SPENT"} => spendRequests[Q].approved
         /\ StatusOf = "SPENT" => spendRequests[Q].spent
         /\ StatusOf = "REJECTED" =>
                /\ ~spendRequests[Q].approved
                /\ Cardinality(agreements[1].signatories \
                        (hasDeclinedSpend[Q]
                            \cup {spendRequests[Q].requester}))
                    < ENDORSEMENT_THRESHOLD
<1>1. <<"item">> \in DOMAIN row /\ <<"declines">> \in DOMAIN row
  BY SpendCallsAre, CompleteRow DEF RowInv, ItemFirst, Asked
<1>2. /\ Shown("item").approved => spendRequests[Q].approved
      /\ Shown("item").spent => spendRequests[Q].spent
      /\ Shown("declines") \in Nat
      /\ Shown("declines") <= Cardinality(hasDeclinedSpend[Q])
  BY <1>1 DEF RowInv, SpendRow
<1>3. spendRequests[Q].spent => spendRequests[Q].approved
  BY PageIds DEF RowInv, PageLedger, SpentIsApproved
<1>4. /\ StatusOf = "SPENT" => Shown("item").spent
      /\ StatusOf = "APPROVED" => Shown("item").approved
      /\ StatusOf = "REJECTED" =>
            Shown("declines") > Cardinality(Accounts) - ENDORSEMENT_THRESHOLD
  BY DEF StatusOf
<1>5. ASSUME StatusOf = "REJECTED"
      PROVE  /\ ~spendRequests[Q].approved
             /\ Cardinality(agreements[1].signatories \
                    (hasDeclinedSpend[Q] \cup {spendRequests[Q].requester})) < 2
  <2>1. Shown("declines") > Cardinality(Accounts) - 2
    BY <1>4, <1>5 DEF ENDORSEMENT_THRESHOLD
  <2> QED
    BY <1>2, <2>1, RejectedForGood DEF RowInv
<1> QED
  BY <1>2, <1>3, <1>4, <1>5 DEF ENDORSEMENT_THRESHOLD

LEMMA BadgeShownTrue ==
  ASSUME RowInv, Complete, kind = "badge", Shown("item").finalised,
         VerifiedAcrossNodes
  PROVE  \A n \in 1 .. NodeTotal :
            /\ row[<<"node", n>>].finalised
            /\ row[<<"node", n>>].reportedValue = records[R].reportedValue
<1>1. <<"item">> \in DOMAIN row /\ <<"reference">> \in DOMAIN row
  BY BadgeCallsAre, CompleteRow DEF RowInv, ItemFirst, Asked
<1>2. /\ Shown("reference").finalised
      /\ Shown("reference").reportedValue = records[R].reportedValue
  BY <1>1 DEF RowInv, BadgeRow
<1>3. NodeTotal \in Nat /\ IsFiniteSet(1 .. NodeTotal)
      /\ Cardinality(1 .. NodeTotal) = NodeTotal
  <2>1. NodeTotal \in Nat /\ 1 \in Int /\ NodeTotal \in Int
    BY PagesAssumption
  <2>2. /\ IsFiniteSet(1 .. NodeTotal)
        /\ Cardinality(1 .. NodeTotal)
                = IF 1 > NodeTotal THEN 0 ELSE NodeTotal - 1 + 1
    BY <2>1, FS_Interval, Zenon
  <2> QED
    BY <2>1, <2>2
<1>4. Agree \subseteq 1 .. NodeTotal
  BY DEF Agree
<1>5. Agree = 1 .. NodeTotal
  BY <1>3, <1>4, FS_Subset DEF VerifiedAcrossNodes
<1> SUFFICES ASSUME NEW n \in 1 .. NodeTotal
             PROVE  /\ row[<<"node", n>>].finalised
                    /\ row[<<"node", n>>].reportedValue = records[R].reportedValue
  OBVIOUS
<1>6. Fingerprint(row[<<"node", n>>]) = Fingerprint(Shown("reference"))
  BY <1>5 DEF Agree
<1>7. /\ row[<<"node", n>>].finalised = Shown("reference").finalised
      /\ row[<<"node", n>>].reportedValue = Shown("reference").reportedValue
  BY <1>6 DEF Fingerprint
<1> QED
  BY <1>2, <1>7

LEMMA RowInvTrue == RowInv => RowsTrue
<1> SUFFICES ASSUME RowInv PROVE RowsTrue
  OBVIOUS
<1>1. ShownOutcomesHold
  BY RecordShownTrue, SpendShownTrue DEF ShownOutcomesHold
<1>2. FinalRowComplete
  BY RecordShownTrue DEF FinalRowComplete
<1>3. FinalBadgeHeld
  BY BadgeShownTrue DEF FinalBadgeHeld
<1> QED
  BY <1>1, <1>2, <1>3 DEF RowsTrue

\* A row read call by call while the ledger goes on shows no wrong outcome,
\* count or badge (getRecords, getSpend and getIntegrity of api/lib/chain.js
\* with the pages that show their answers), for any number of organisations,
\* nodes and reads.
THEOREM RowsAreTrue == PagesSpec => []RowsTrue
<1>1. PagesInit => RowInv
  BY RowInvInit
<1>2. RowInv /\ [PagesNext]_<<vars, pageVars>> => RowInv'
  BY RowInvNext
<1>3. RowInv => RowsTrue
  BY RowInvTrue
<1> QED
  BY <1>1, <1>2, <1>3, PTL DEF PagesSpec

-----------------------------------------------------------------------------
(* What is offered is accepted. *)

\* The contracts are wired, and record, request and agreement belong together.
Settleable ==
    /\ complianceContract = ComplianceAddress
    /\ verificationContract = VerificationAddress
    /\ agreements[1].id # 0
    /\ records[R].agreementId = 1
    /\ spendRequests[Q].agreementId = 1

EndorsersNow == IF kind = "spend" THEN hasEndorsedSpend[Q] ELSE hasEndorsed[R]

DeclinersNow == IF kind = "spend" THEN hasDeclinedSpend[Q] ELSE hasDeclined[R]

VoteAsRead(o) ==
    /\ <<"endorsed", o>> \in DOMAIN row =>
            row[<<"endorsed", o>>] = (o \in EndorsersNow)
    /\ <<"declined", o>> \in DOMAIN row =>
            /\ <<"endorsed", o>> \in DOMAIN row
            /\ row[<<"declined", o>>] =
                    (~row[<<"endorsed", o>>] /\ o \in DeclinersNow)

\* Each answer is what the call would answer now.
UpToDate ==
    /\ <<"item">> \in DOMAIN row => Shown("item") = Item
    /\ kind = "record" =>
        /\ <<"expired">> \in DOMAIN row =>
            Shown("expired") = (~records[R].finalised /\ PastWindow(R))
        /\ <<"deadline">> \in DOMAIN row => DeadlineComputable(R)
    /\ \A o \in Accounts : VoteAsRead(o)

OffersInv ==
    /\ RowInv
    /\ Settleable
    /\ still => UpToDate

LEMMA SettleableFresh == PageLedgerInit => Settleable
<1> SUFFICES ASSUME NEW donor, NEW ngo, NEW signatories, NEW target,
                    NEW budget, NEW amount, NEW hash,
                    AgreedOn(donor, ngo, signatories, target, budget, amount,
                             hash)
             PROVE  Settleable
  BY DEF PageLedgerInit
<1>1. /\ agreements[1].id = 1
      /\ records[R].agreementId = 1
      /\ spendRequests[Q].agreementId = 1
  BY PageIds DEF AgreedOn
<1> QED
  BY <1>1 DEF AgreedOn, Settleable

LEMMA SettleableNext ==
  ASSUME PageLedger, Settleable, [Next]_vars
  PROVE  Settleable'
<1>1. /\ records[R] \in ComplianceRecord /\ RecordKept(R)
      /\ spendRequests[Q] \in SpendRequest /\ RequestKept(Q)
  BY PageIds, HistoryStep
  DEF PageLedger, TypeOK, ComplianceTypeOK, HistoryKept
<1>2. records'[R].agreementId = records[R].agreementId
  BY <1>1 DEF RecordKept, ComplianceRecord
<1>3. spendRequests'[Q].agreementId = spendRequests[Q].agreementId
  BY <1>1 DEF RequestKept, SpendRequest, PageLedger
<1>4. UNCHANGED <<complianceContract, verificationContract>>
  BY LinksStay, AccountsAssumption, ReportsAssumption DEF Settleable
<1>5. agreements'[1].id = agreements[1].id
  <2>1. CASE AgreementNext
    BY <2>1, PageIds, AgreementNextFrame DEF PageLedger, LedgerInv, Untouched
  <2>2. CASE UNCHANGED agreementVars
    BY <2>2 DEF agreementVars
  <2>3. ASSUME NEW i \in AgreementIds, NEW amount \in Nat,
               AddToCommitted(i, amount)
        PROVE  agreements'[1].id = agreements[1].id
    BY <2>3, PageIds
    DEF AddToCommitted, PageLedger, TypeOK, AgreementTypeOK, Agreement
  <2> QED
    BY <2>1, <2>2, <2>3, AgreementsWritten DEF PageLedger
<1> QED
  BY <1>2, <1>3, <1>4, <1>5 DEF Settleable

LEMMA VoteCallsPaired ==
  \A i \in 1 .. 2 * Len(SeedOrder), o \in Accounts :
    VoteCalls[i] = <<"declined", o>> =>
        i > 1 /\ VoteCalls[i - 1] = <<"endorsed", o>>
<1>1. Len(SeedOrder) \in Nat
  BY SeedAssumption
<1> SUFFICES ASSUME NEW i \in 1 .. 2 * Len(SeedOrder), NEW o \in Accounts,
                    VoteCalls[i] = <<"declined", o>>
             PROVE  i > 1 /\ VoteCalls[i - 1] = <<"endorsed", o>>
  OBVIOUS
<1>2. /\ i % 2 # 1
      /\ SeedOrder[(i + 1) \div 2] = o
  <2>1. VoteCalls[i] = <<IF i % 2 = 1 THEN "endorsed" ELSE "declined",
                         SeedOrder[(i + 1) \div 2]>>
    BY DEF VoteCalls
  <2> QED
    BY <2>1
<1>3. /\ i > 1 /\ i - 1 \in 1 .. 2 * Len(SeedOrder)
      /\ (i - 1) % 2 = 1
      /\ (i - 1 + 1) \div 2 = (i + 1) \div 2
  BY <1>1, <1>2
<1>4. VoteCalls[i - 1] = <<"endorsed", SeedOrder[(i + 1) \div 2]>>
  BY <1>3 DEF VoteCalls
<1> QED
  BY <1>2, <1>3, <1>4

LEMMA CallsLaidOut ==
  /\ kind = "record" =>
        /\ Len(Calls) = 6 + Len(VoteCalls)
        /\ Calls[5] = <<"expired">> /\ Calls[6] = <<"deadline">>
        /\ \A i \in 1 .. Len(VoteCalls) : Calls[i + 6] = VoteCalls[i]
        /\ \A i \in 1 .. 6, o \in Accounts : Calls[i] # <<"declined", o>>
  /\ kind = "spend" =>
        /\ Len(Calls) = 3 + Len(VoteCalls)
        /\ \A i \in 1 .. Len(VoteCalls) : Calls[i + 3] = VoteCalls[i]
        /\ \A i \in 1 .. 3, o \in Accounts : Calls[i] # <<"declined", o>>
<1> DEFINE record == << <<"item">>, <<"count">>, <<"declines">>, <<"hash">>,
                        <<"expired">>, <<"deadline">> >>
           spend == << <<"item">>, <<"count">>, <<"declines">> >>
           T == {VoteCalls[i] : i \in 1 .. 2 * Len(SeedOrder)}
<1>1. VoteCalls \in Seq(T) /\ Len(VoteCalls) \in Nat
  BY VoteCallsAre, SeedAssumption
<1> HIDE DEF T
<1>2. ASSUME kind = "record"
      PROVE  /\ Len(Calls) = 6 + Len(VoteCalls)
             /\ \A i \in 1 .. Len(VoteCalls) : Calls[i + 6] = VoteCalls[i]
             /\ \A i \in 1 .. 6 : Calls[i] = record[i]
  <2>1. Calls = record \o VoteCalls
    BY <1>2 DEF Calls, RecordCalls
  <2> QED
    BY <1>1, <2>1
<1>3. ASSUME kind = "spend"
      PROVE  /\ Len(Calls) = 3 + Len(VoteCalls)
             /\ \A i \in 1 .. Len(VoteCalls) : Calls[i + 3] = VoteCalls[i]
             /\ \A i \in 1 .. 3 : Calls[i] = spend[i]
  <2>1. Calls = spend \o VoteCalls
    BY <1>3 DEF Calls, SpendCalls
  <2> QED
    BY <1>1, <2>1
<1>4. /\ \A i \in 1 .. 6, o \in Accounts : record[i] # <<"declined", o>>
      /\ \A i \in 1 .. 3, o \in Accounts : spend[i] # <<"declined", o>>
  OBVIOUS
<1> QED
  BY <1>2, <1>3, <1>4

LEMMA DeclinedAsked ==
  \A o \in Accounts :
    \E i \in 1 .. Len(VoteCalls) : VoteCalls[i] = <<"declined", o>>
<1> SUFFICES ASSUME NEW o \in Accounts
             PROVE  \E i \in 1 .. Len(VoteCalls) : VoteCalls[i] = <<"declined", o>>
  OBVIOUS
<1>1. Len(SeedOrder) \in Nat
  BY SeedAssumption
<1>2. PICK j \in 1 .. Len(SeedOrder) : SeedOrder[j] = o
  BY SeedAssumption, PagesAssumption
<1> DEFINE i == 2 * j
<1>3. i \in 1 .. 2 * Len(SeedOrder) /\ i % 2 # 1 /\ (i + 1) \div 2 = j
  BY <1>1
<1>4. VoteCalls[i] = <<"declined", o>>
  BY <1>2, <1>3 DEF VoteCalls
<1> QED
  BY <1>3, <1>4, VoteCallsAre

\* All that an offer is decided by has been asked.
LEMMA OfferCallsAsked ==
  ASSUME kind \in {"record", "spend"}
  PROVE  /\ Asked(<<"item">>)
         /\ kind = "record" => Asked(<<"expired">>) /\ Asked(<<"deadline">>)
         /\ \A o \in Accounts :
                Asked(<<"endorsed", o>>) /\ Asked(<<"declined", o>>)
<1>1. Len(VoteCalls) \in Nat
  BY VoteCallsAre, SeedAssumption
<1>2. Asked(<<"item">>)
  BY CallsAre DEF ItemFirst, Asked
<1>3. kind = "record" => Asked(<<"expired">>) /\ Asked(<<"deadline">>)
  BY <1>1, CallsLaidOut DEF Asked
<1>4. ASSUME NEW i \in 1 .. Len(VoteCalls)
      PROVE  Asked(VoteCalls[i])
  <2>1. i + 6 \in 1 .. 6 + Len(VoteCalls) /\ i + 3 \in 1 .. 3 + Len(VoteCalls)
    BY <1>1
  <2> QED
    BY <2>1, CallsLaidOut DEF Asked
<1> QED
  BY <1>2, <1>3, <1>4, VoteCallsAre, DeclinedAsked

\* An organisation is asked whether it has declined right after whether it
\* has endorsed.
LEMMA DeclinedAfterEndorsed ==
  ASSUME RowShape, ReadCall, NEW o \in Accounts,
         Calls[Answered + 1] = <<"declined", o>>
  PROVE  <<"endorsed", o>> \in DOMAIN row
<1> DEFINE n == Answered
<1>1. ItemFirst /\ n \in Nat /\ n < Len(Calls)
  BY CallsAre, AnsweredNat DEF RowShape, ReadCall, Complete, ItemFirst
<1>2. DOMAIN row = {Calls[i] : i \in 1 .. n}
  BY DEF RowShape
<1>3. Calls[n + 1] = <<"declined", o>>
  OBVIOUS
<1> HIDE DEF n
<1>4. /\ Len(VoteCalls) \in Nat
      /\ Len(VoteCalls) = 2 * Len(SeedOrder)
  BY VoteCallsAre, SeedAssumption
<1>5. CASE kind = "record"
  <2>1. n + 1 \notin 1 .. 6 /\ n + 1 \in 1 .. 6 + Len(VoteCalls)
    BY <1>1, <1>3, <1>5, CallsLaidOut DEF ItemFirst
  <2>2. n - 5 \in 1 .. Len(VoteCalls) /\ n - 5 + 6 = n + 1
    BY <1>1, <1>4, <2>1
  <2>3. VoteCalls[n - 5] = <<"declined", o>>
    BY <1>3, <1>5, <2>2, CallsLaidOut
  <2>4. n - 5 > 1 /\ VoteCalls[n - 5 - 1] = <<"endorsed", o>>
    BY <1>4, <2>2, <2>3, VoteCallsPaired
  <2>5. n - 5 - 1 \in 1 .. Len(VoteCalls) /\ n - 5 - 1 + 6 = n /\ n \in 1 .. n
    BY <1>1, <1>4, <2>2, <2>4
  <2>6. Calls[n] = <<"endorsed", o>>
    BY <1>5, <2>4, <2>5, CallsLaidOut
  <2> QED
    BY <1>2, <2>5, <2>6
<1>6. CASE kind = "spend"
  <2>1. n + 1 \notin 1 .. 3 /\ n + 1 \in 1 .. 3 + Len(VoteCalls)
    BY <1>1, <1>3, <1>6, CallsLaidOut DEF ItemFirst
  <2>2. n - 2 \in 1 .. Len(VoteCalls) /\ n - 2 + 3 = n + 1
    BY <1>1, <1>4, <2>1
  <2>3. VoteCalls[n - 2] = <<"declined", o>>
    BY <1>3, <1>6, <2>2, CallsLaidOut
  <2>4. n - 2 > 1 /\ VoteCalls[n - 2 - 1] = <<"endorsed", o>>
    BY <1>4, <2>2, <2>3, VoteCallsPaired
  <2>5. n - 2 - 1 \in 1 .. Len(VoteCalls) /\ n - 2 - 1 + 3 = n /\ n \in 1 .. n
    BY <1>1, <1>4, <2>2, <2>4
  <2>6. Calls[n] = <<"endorsed", o>>
    BY <1>6, <2>4, <2>5, CallsLaidOut
  <2> QED
    BY <1>2, <2>5, <2>6
<1>7. CASE kind = "badge"
  <2>1. Calls[n + 1] \in {<<"item">>, <<"base">>, <<"reference">>}
                            \cup {<<"node", m>> : m \in 1 .. NodeTotal}
    BY <1>1, <1>7, BadgeCallsFrom DEF ItemFirst
  <2> QED
    BY <1>3, <2>1
<1> QED
  BY <1>5, <1>6, <1>7 DEF RowShape

LEMMA UpToDateAnswered ==
  ASSUME RowShape, UpToDate, ReadCall
  PROVE  UpToDate'
<1> DEFINE call == Calls[Answered + 1]
<1>1. AnswersOne(call)
  BY ReadCallShape
<1>2. \A o \in Accounts :
        call = <<"declined", o>> => <<"endorsed", o>> \in DOMAIN row
  BY DeclinedAfterEndorsed
<1>3. call = <<"deadline">> => DeadlineComputable(R)
  BY DEF ReadCall, Reverts
<1> HIDE DEF call
<1>4. UNCHANGED <<vars, kind>>
  BY DEF ReadCall
<1>5. UNCHANGED <<records, spendRequests, now, verificationWindow, hasEndorsed,
                  hasDeclined, hasEndorsedSpend, hasDeclinedSpend>>
  BY <1>4
  DEF vars, complianceVars, verificationVars, recordVotes, spendVotes
<1>6. UNCHANGED <<Item, EndorsersNow, DeclinersNow>>
  BY <1>4, <1>5 DEF Item, EndorsersNow, DeclinersNow
<1>7. /\ DOMAIN row' = DOMAIN row \cup {call}
      /\ \A c \in DOMAIN row : c # call => row'[c] = row[c]
      /\ row'[call] \in Answers(call)
  BY <1>1 DEF AnswersOne
<1>8. <<"item">> \in DOMAIN row' => Shown("item")' = Item'
  <2>1. call = <<"item">> => row'[call] = Item
    BY <1>7 DEF Answers
  <2> QED
    BY <1>6, <1>7, <2>1 DEF UpToDate, Shown
<1>9. ASSUME kind' = "record"
      PROVE  /\ <<"expired">> \in DOMAIN row' =>
                Shown("expired")'
                    = (~records'[R].finalised /\ PastWindow(R)')
             /\ <<"deadline">> \in DOMAIN row' => DeadlineComputable(R)'
  <2>1. call = <<"expired">>
            => row'[call] = (~records[R].finalised /\ PastWindow(R))
    BY <1>7 DEF Answers
  <2>2. /\ PastWindow(R)' = PastWindow(R)
        /\ DeadlineComputable(R)' = DeadlineComputable(R)
    BY <1>5 DEF PastWindow, DeadlineComputable, Deadline
  <2> QED
    BY <1>3, <1>4, <1>5, <1>7, <1>9, <2>1, <2>2 DEF UpToDate, Shown
<1>10. ASSUME NEW o \in Accounts
       PROVE  VoteAsRead(o)'
  <2>1. VoteAsRead(o)
    BY DEF UpToDate
  <2>2. call = <<"endorsed", o>> => row'[call] = (o \in EndorsersNow)
    BY <1>7 DEF Answers, EndorsersNow
  <2>3. call = <<"declined", o>> =>
            row'[call] = (~row[<<"endorsed", o>>] /\ o \in DeclinersNow)
    <3> SUFFICES ASSUME call = <<"declined", o>>
                 PROVE  row'[call]
                        = (~row[<<"endorsed", o>>] /\ o \in DeclinersNow)
      OBVIOUS
    <3>1. call[1] = "declined" /\ call[2] = o
      OBVIOUS
    <3>2. Answers(call) =
            {/\ ~row[<<"endorsed", call[2]>>]
             /\ call[2] \in DeclinersNow}
      BY <3>1 DEF Answers, DeclinersNow
    <3> QED
      BY <1>7, <3>1, <3>2
  <2>4. <<"endorsed", o>> \in DOMAIN row' =>
            row'[<<"endorsed", o>>] = (o \in EndorsersNow)
    BY <1>7, <2>1, <2>2 DEF VoteAsRead
  <2>5. <<"endorsed", o>> \in DOMAIN row =>
            row'[<<"endorsed", o>>] = row[<<"endorsed", o>>]
    BY <1>7, <2>1, <2>4 DEF VoteAsRead
  <2>6. <<"declined", o>> \in DOMAIN row' =>
            /\ <<"endorsed", o>> \in DOMAIN row'
            /\ row'[<<"declined", o>>] =
                    (~row'[<<"endorsed", o>>] /\ o \in DeclinersNow)
    <3>1. CASE call = <<"declined", o>>
      BY <1>2, <1>7, <2>3, <2>5, <3>1
    <3>2. CASE call # <<"declined", o>>
      BY <1>7, <2>1, <2>5, <3>2 DEF VoteAsRead
    <3> QED
      BY <3>1, <3>2
  <2> QED
    BY <1>6, <2>4, <2>6 DEF VoteAsRead
<1> QED
  BY <1>8, <1>9, <1>10 DEF UpToDate

LEMMA OffersInvInit == PagesInit => OffersInv
<1> SUFFICES ASSUME PagesInit PROVE OffersInv
  OBVIOUS
<1>1. RowInv /\ Settleable
  BY RowInvInit, SettleableFresh DEF PagesInit
<1>2. DOMAIN row = {}
  BY EmptyRow DEF PagesInit
<1>3. UpToDate
  BY <1>2 DEF UpToDate, VoteAsRead
<1> QED
  BY <1>1, <1>3 DEF OffersInv

LEMMA OffersInvNext ==
  ASSUME OffersInv, [PagesNext]_<<vars, pageVars>>
  PROVE  OffersInv'
<1>1. RowInv'
  BY RowInvNext DEF OffersInv
<1>2. Settleable'
  BY PageSteps, SettleableNext DEF OffersInv, RowInv, RowShape
<1>3. ASSUME row' = <<>> PROVE UpToDate'
  <2>1. DOMAIN row' = {}
    BY <1>3, EmptyRow
  <2> QED
    BY <2>1 DEF UpToDate, VoteAsRead
<1>4. CASE ReadCall
  BY <1>1, <1>2, <1>4, UpToDateAnswered DEF OffersInv, RowInv, ReadCall
<1>5. CASE ReadFails \/ PressButton
  BY <1>1, <1>2, <1>3, <1>5 DEF OffersInv, ReadFails, PressButton
<1>6. CASE LedgerGoesOn
  BY <1>1, <1>2, <1>3, <1>6 DEF OffersInv, LedgerGoesOn
<1>7. CASE UNCHANGED <<vars, pageVars>>
  <2>1. UNCHANGED <<records, spendRequests, now, verificationWindow, hasEndorsed,
                    hasDeclined, hasEndorsedSpend, hasDeclinedSpend, row, kind,
                    still>>
    BY <1>7 DEF vars, pageVars, complianceVars, verificationVars, recordVotes,
          spendVotes
  <2>2. UpToDate => UpToDate'
    BY <2>1 DEF UpToDate, VoteAsRead, Shown, Item, EndorsersNow, DeclinersNow,
          PastWindow, DeadlineComputable, Deadline
  <2> QED
    BY <1>1, <1>2, <2>1, <2>2 DEF OffersInv
<1> QED
  BY <1>4, <1>5, <1>6, <1>7 DEF PagesNext

\* What the votes, the outcome and the window were read as is what they are.
LEMMA ReadInFull ==
  ASSUME OffersInv, Complete, still, kind \in {"record", "spend"}
  PROVE  /\ Shown("item") = Item
         /\ HasActed <=> (acting \in EndorsersNow \cup DeclinersNow)
         /\ kind = "record" =>
                /\ Shown("expired") = (~records[R].finalised /\ PastWindow(R))
                /\ DeadlineComputable(R)
<1>1. UpToDate /\ RowShape
  BY DEF OffersInv, RowInv
<1>2. /\ <<"item">> \in DOMAIN row
      /\ kind = "record" => /\ <<"expired">> \in DOMAIN row
                            /\ <<"deadline">> \in DOMAIN row
      /\ \A o \in Accounts : /\ <<"endorsed", o>> \in DOMAIN row
                             /\ <<"declined", o>> \in DOMAIN row
  BY <1>1, OfferCallsAsked, CompleteRow
<1>3. acting \in Accounts
  BY <1>1 DEF RowShape
<1>4. /\ row[<<"endorsed", acting>>] = (acting \in EndorsersNow)
      /\ row[<<"declined", acting>>] =
            (~row[<<"endorsed", acting>>] /\ acting \in DeclinersNow)
  BY <1>1, <1>2, <1>3 DEF UpToDate, VoteAsRead
<1>5. HasActed <=> (acting \in EndorsersNow \cup DeclinersNow)
  <2>1. HasActed <=> row[<<"endorsed", acting>>] \/ row[<<"declined", acting>>]
    BY <1>3 DEF HasActed, Endorsers, Decliners
  <2> QED
    BY <1>4, <2>1
<1> QED
  BY <1>1, <1>2, <1>5 DEF UpToDate

LEMMA RecordOffersRight ==
  ASSUME OffersInv, Complete, still, kind = "record"
  PROVE  /\ \A button \in RecordOffers : Accepts(button) <=> ~OfferedInVain(button)
         /\ ~Todo =>
                /\ ~records[R].finalised => ~Accepts("endorse")
                /\ ~Accepts("markUnverified")
<1>1. /\ Shown("item") = records[R]
      /\ HasActed <=> (acting \in hasEndorsed[R] \cup hasDeclined[R])
      /\ Shown("expired") = (~records[R].finalised /\ PastWindow(R))
      /\ DeadlineComputable(R)
  BY ReadInFull DEF Item, EndorsersNow, DeclinersNow
<1>2. /\ RecordExists(R)
      /\ records[R].agreementId = 1
      /\ verificationContract = VerificationAddress
  BY DEF OffersInv, RowInv, PageLedger, Settleable
<1>3. ASSUME NEW button \in RecordOffers
      PROVE  Accepts(button) <=> ~OfferedInVain(button)
  <2>1. CASE button = "endorse"
    <3>1. ~HasActed /\ RecordStatusShown \in {"Finalised", "Disputed", "In Progress"}
      BY <1>3, <2>1 DEF RecordOffers
    <3>2. ~records[R].finalised => ~records[R].unverified /\ ~PastWindow(R)
      BY <1>1, <3>1 DEF RecordStatusShown
    <3> QED
      BY <1>1, <1>2, <2>1, <3>1, <3>2
      DEF Accepts, MayEndorse, MayMarkFinalised, StillVerifiable, OfferedInVain
  <2>2. CASE button = "decline"
    <3>1. ~HasActed /\ RecordStatusShown \in {"Disputed", "In Progress"}
      BY <1>3, <2>2 DEF RecordOffers
    <3>2. ~records[R].finalised
      BY <1>1, <3>1 DEF RecordStatusShown
    <3> QED
      BY <1>1, <1>2, <2>2, <3>1, <3>2 DEF Accepts, MayDecline, OfferedInVain
  <2>3. CASE button = "markUnverified"
    <3>1. RecordStatusShown = "Window passed"
      BY <1>3, <2>3 DEF RecordOffers
    <3>2. ~records[R].finalised /\ ~records[R].unverified /\ PastWindow(R)
      BY <1>1, <3>1 DEF RecordStatusShown
    <3> QED
      BY <1>1, <1>2, <2>3, <3>2
      DEF Accepts, MayMarkRecordUnverified, MayMarkUnverified, OfferedInVain
  <2> QED
    BY <1>3, <2>1, <2>2, <2>3 DEF RecordOffers
<1>4. ASSUME ~Todo
      PROVE  /\ ~records[R].finalised => ~Accepts("endorse")
             /\ ~Accepts("markUnverified")
  <2>1. \/ records[R].finalised
        \/ records[R].unverified
        \/ ~PastWindow(R) /\ HasActed
        \/ ~IsSignatory(1, acting)
    BY <1>1, <1>4 DEF Todo
  <2>2. Accepts("endorse") => /\ acting \notin hasEndorsed[R]
                              /\ acting \notin hasDeclined[R]
                              /\ IsSignatory(1, acting)
                              /\ ~records[R].finalised => ~records[R].unverified
    BY <1>2 DEF Accepts, MayEndorse, StillVerifiable
  <2>3. Accepts("markUnverified") =>
            /\ IsSignatory(1, acting)
            /\ ~records[R].finalised /\ ~records[R].unverified /\ PastWindow(R)
    BY <1>2 DEF Accepts, MayMarkRecordUnverified
  <2> QED
    BY <1>1, <2>1, <2>2, <2>3
<1> QED
  BY <1>3, <1>4

LEMMA SpendOffersRight ==
  ASSUME OffersInv, Complete, still, kind = "spend"
  PROVE  /\ \A button \in SpendOffers :
                Accepts(button) <=> ~OfferedInVain(button)
         /\ ~Todo =>
                /\ StatusOf = "PENDING" => ~Accepts("endorseSpend")
                /\ ~Accepts("markSpent")
<1>1. /\ Shown("item") = spendRequests[Q]
      /\ HasActed <=> (acting \in hasEndorsedSpend[Q] \cup hasDeclinedSpend[Q])
  BY ReadInFull DEF Item, EndorsersNow, DeclinersNow
<1>2. /\ SpendRequestExists(Q)
      /\ spendRequests[Q].agreementId = 1
      /\ verificationContract = VerificationAddress
      /\ complianceContract = ComplianceAddress
      /\ agreements[1].id # 0
  BY DEF OffersInv, RowInv, PageLedger, Settleable
<1>3. /\ StatusOf = "PENDING" => ~spendRequests[Q].approved
      /\ StatusOf = "APPROVED" =>
            spendRequests[Q].approved /\ ~spendRequests[Q].spent
      /\ spendRequests[Q].approved /\ ~spendRequests[Q].spent =>
            StatusOf = "APPROVED"
  BY <1>1 DEF StatusOf
<1>4. ASSUME NEW button \in SpendOffers
      PROVE  Accepts(button) <=> ~OfferedInVain(button)
  <2>1. CASE button \in {"endorseSpend", "declineSpend"}
    <3>1. /\ StatusOf = "PENDING" /\ ~HasActed
          /\ acting # spendRequests[Q].requester
      BY <1>1, <1>4, <2>1 DEF SpendOffers
    <3>2. MayMarkSpendApproved(VerificationAddress, Q)
      BY <1>2, <1>3, <3>1 DEF MayMarkSpendApproved
    <3>3. MayCommit(ComplianceAddress, spendRequests[Q].agreementId,
                    spendRequests[Q].amount)
            <=> spendRequests[Q].amount
                    <= RemainingBudget(spendRequests[Q].agreementId)
      BY <1>2 DEF MayCommit
    <3>4. /\ MayEndorseSpend(acting, Q) <=> IsSignatory(1, acting)
          /\ MayDeclineSpend(acting, Q) <=> IsSignatory(1, acting)
      BY <1>1, <1>2, <1>3, <3>1 DEF MayEndorseSpend, MayDeclineSpend
    <3>5. RemainingBudget(spendRequests[Q].agreementId) \in Int
          /\ spendRequests[Q].amount \in Nat
      <4>1. agreements[1] \in Agreement /\ spendRequests[Q] \in SpendRequest
        BY PageIds
        DEF OffersInv, RowInv, PageLedger, TypeOK, AgreementTypeOK,
            ComplianceTypeOK
      <4> QED
        BY <1>2, <4>1 DEF Agreement, SpendRequest, RemainingBudget
    <3>6. spendRequests[Q].amount
                <= RemainingBudget(spendRequests[Q].agreementId)
            <=> ~(spendRequests[Q].amount
                    > RemainingBudget(spendRequests[Q].agreementId))
      BY <3>5
    <3>7. CASE button = "endorseSpend"
      BY <3>2, <3>3, <3>4, <3>6, <3>7 DEF Accepts, OfferedInVain, NoLongerFits
    <3>8. CASE button = "declineSpend"
      BY <3>4, <3>8 DEF Accepts, OfferedInVain
    <3> QED
      BY <2>1, <3>7, <3>8
  <2>2. CASE button = "markSpent"
    <3>1. StatusOf = "APPROVED" /\ acting = spendRequests[Q].requester
      BY <1>1, <1>4, <2>2 DEF SpendOffers
    <3>2. PICK h : h \in ReceiptHashes /\ h # NoHash
      BY PagesAssumption, ReportsAssumption
    <3>3. MayMarkSpent(acting, Q, h)
      BY <1>2, <1>3, <3>1, <3>2 DEF MayMarkSpent
    <3> QED
      BY <2>2, <3>2, <3>3 DEF Accepts, OfferedInVain
  <2> QED
    BY <1>4, <2>1, <2>2 DEF SpendOffers
<1>5. ASSUME ~Todo
      PROVE  /\ StatusOf = "PENDING" => ~Accepts("endorseSpend")
             /\ ~Accepts("markSpent")
  <2>1. /\ StatusOf = "PENDING" =>
                \/ acting = spendRequests[Q].requester
                \/ HasActed
                \/ ~IsSignatory(1, acting)
        /\ StatusOf = "APPROVED" => acting # spendRequests[Q].requester
    BY <1>1, <1>5 DEF Todo
  <2>2. Accepts("endorseSpend") => /\ acting \notin hasEndorsedSpend[Q]
                                   /\ acting \notin hasDeclinedSpend[Q]
                                   /\ acting # spendRequests[Q].requester
                                   /\ IsSignatory(1, acting)
    BY <1>2 DEF Accepts, MayEndorseSpend
  <2>3. Accepts("markSpent") =>
            /\ spendRequests[Q].approved /\ ~spendRequests[Q].spent
            /\ acting = spendRequests[Q].requester
    BY DEF Accepts, MayMarkSpent
  <2> QED
    BY <1>1, <1>3, <2>1, <2>2, <2>3
<1> QED
  BY <1>4, <1>5

LEMMA OffersInvRight == OffersInv => OffersRight
<1> SUFFICES ASSUME OffersInv PROVE OffersRight
  OBVIOUS
<1>1. kind \in {"record", "spend", "badge"}
  BY DEF OffersInv, RowInv, RowShape
<1>2. OffersAccepted
  BY <1>1, RecordOffersRight, SpendOffersRight DEF OffersAccepted, Offers
<1>3. CaughtUp
  BY RecordOffersRight, SpendOffersRight DEF CaughtUp
<1> QED
  BY <1>2, <1>3 DEF OffersRight

\* While the ledger stands still the contracts accept what the pages offer,
\* with two exceptions that are stated exactly, votes of an organisation that
\* is no signatory and the endorsement that would approve a request the
\* budget no longer covers; and "all caught up" is true (renderTable of
\* views/audit.js and views/spend.js, the to-do list of views/overview.js).
\* Organisations, signatories, terms and other requests are any, and so is
\* what happened on the ledger before and while the row was read.
THEOREM OffersAreRight == PagesSpec => []OffersRight
<1>1. PagesInit => OffersInv
  BY OffersInvInit
<1>2. OffersInv /\ [PagesNext]_<<vars, pageVars>> => OffersInv'
  BY OffersInvNext
<1>3. OffersInv => OffersRight
  BY OffersInvRight
<1> QED
  BY <1>1, <1>2, <1>3, PTL DEF PagesSpec

=============================================================================
