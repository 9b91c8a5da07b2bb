----------------------------- MODULE LedgerPages ----------------------------
(***************************************************************************)
(* What the pages show of one compliance record or one spend request, and  *)
(* what they offer the organisation signed in: the Audit Trail             *)
(* (dashboard/js/views/audit.js), the request table of Budget & Spend      *)
(* (views/spend.js), the to-do list of the overview (views/overview.js)    *)
(* and the integrity badge.                                                *)
(*                                                                         *)
(* A row is put together from a dozen calls to the contracts (getRecords,  *)
(* getSpend and getIntegrity of api/lib/chain.js), each awaited before the *)
(* next, while the contracts, here those of MACL, go on executing what     *)
(* others send.  A row so read may never have been the state of the        *)
(* ledger; the properties say what it can be relied on for all the same.   *)
(***************************************************************************)
EXTENDS MACL

CONSTANTS
    NodeTotal,   \* nodes the API compares
    MaxReads     \* bound: times the list is read

\* The three organisations of the seed are the users of the dashboard, and
\* a receipt that is picked has a fingerprint.
ASSUME PagesAssumption ==
    /\ NodeTotal \in Nat
    /\ MaxReads \in Nat
    /\ DOMAIN SeedRoles = Accounts
    /\ {MaxAgreements, MaxRecords, MaxSpendRequests} \subseteq Nat \ {0}
    /\ ReceiptHashes # {}

VARIABLES
    kind,     \* what is looked at: "record", "spend", or a record's "badge"
    acting,   \* the organisation signed in
    row,      \* call -> its answer, for the calls that have been answered
    reads,    \* reads of the list begun
    still     \* ghost: nothing happened on the ledger since the read began

pageVars == <<kind, acting, row, reads, still>>

R == 1   \* the record
Q == 1   \* the spend request

\* An agreement is finalised with a budget, the NGO has reported against its
\* target and asked for a part of the budget.  The dashboard makes agreements
\* of all the organisations, the API of any.
AgreedOn(donor, ngo, signatories, target, budget, amount, hash) ==
    /\ 0 < amount /\ amount <= budget
    /\ organisations = [a \in Accounts |->
            [registered |-> TRUE, orgType |-> SeedRoles[a]]]
    /\ orgList = SeedOrder
    /\ nextAgreementId = 2
    /\ agreements = [id \in AgreementIds |-> IF id = 1
            THEN [id |-> 1, creator |-> donor, startDate |-> 1, endDate |-> 2,
                  signatories |-> signatories, finalised |-> TRUE,
                  budget |-> budget, committedSpend |-> 0]
            ELSE UnsetAgreement]
    /\ agreementTargets = [id \in AgreementIds |->
            IF id = 1 THEN <<target>> ELSE <<>>]
    /\ complianceContract = ComplianceAddress
    /\ verificationContract = VerificationAddress
    /\ now = 1
    /\ nextRecordId = 2
    /\ records = [r \in RecordIds |-> IF r = R
            THEN [id |-> R, agreementId |-> 1, targetIndex |-> 0,
                  reportedValue |-> target.threshold,
                  result |-> Evaluate(target.threshold, target, 1),
                  evaluatedAt |-> 1, submitter |-> ngo, finalised |-> FALSE,
                  documentHash |-> hash, unverified |-> FALSE]
            ELSE UnsetRecord]
    /\ failingRecordCount = [id \in AgreementIds |-> 0]
    /\ nextSpendRequestId = 2
    /\ spendRequests = [q \in SpendRequestIds |-> IF q = Q
            THEN [id |-> Q, agreementId |-> 1, amount |-> amount,
                  documentHash |-> hash, requester |-> ngo,
                  approved |-> FALSE, spent |-> FALSE, receiptHash |-> NoHash]
            ELSE UnsetSpendRequest]
    /\ VerificationInit

PageLedgerInit ==
    \E donor \in {a \in DOMAIN SeedRoles : SeedRoles[a] = "Donor"},
       ngo \in {a \in DOMAIN SeedRoles : SeedRoles[a] = "NGO"},
       signatories \in SignatorySets,
       target \in [threshold : Thresholds, deadline : Deadlines],
       budget \in Budgets, amount \in Amounts,
       hash \in DocumentHashes \cup {NoHash} :
        AgreedOn(donor, ngo, signatories, target, budget, amount, hash)

PagesInit ==
    /\ PageLedgerInit
    /\ kind \in {"record", "spend", "badge"}
    /\ acting \in Accounts
    /\ row = <<>>
    /\ reads = 1
    /\ still = TRUE

-----------------------------------------------------------------------------
(* The calls behind a row, in their order. *)

\* Both flags of one organisation, then those of the next.
VoteCalls ==
    [i \in 1 .. 2 * Len(SeedOrder) |->
        <<IF i % 2 = 1 THEN "endorsed" ELSE "declined",
          SeedOrder[(i + 1) \div 2]>>]

RecordCalls ==
    << <<"item">>, <<"count">>, <<"declines">>, <<"hash">>,
       <<"expired">>, <<"deadline">> >> \o VoteCalls

SpendCalls == << <<"item">>, <<"count">>, <<"declines">> >> \o VoteCalls

\* The badge follows the row: the item once more, the copy of each node, and
\* the API's own node's as the reference.
BadgeCalls ==
    << <<"item">>, <<"base">> >>
        \o [n \in 1 .. NodeTotal |-> <<"node", n>>]
        \o << <<"reference">> >>

Calls == CASE kind = "record" -> RecordCalls
           [] kind = "spend" -> SpendCalls
           [] kind = "badge" -> BadgeCalls

Item == IF kind = "spend" THEN spendRequests[Q] ELSE records[R]

Fingerprint(item) ==
    <<item.id, item.reportedValue, item.result, item.finalised, item.unverified>>

\* The copy a node holds may be behind or have been tampered with; a node
\* that does not answer agrees as little as one that has no such record.
Copies == {records[R],
           [records[R] EXCEPT !.finalised = FALSE, !.unverified = FALSE],
           [records[R] EXCEPT !.reportedValue = @ + 1],
           UnsetRecord}

Answers(call) ==
    CASE call[1] \in {"item", "base", "reference"} -> {Item}
      [] call[1] = "count" -> {IF kind = "spend" THEN spendEndorsementCount[Q]
                               ELSE endorsementCount[R]}
      [] call[1] = "declines" -> {IF kind = "spend" THEN spendDeclineCount[Q]
                                  ELSE declineCount[R]}
      [] call[1] = "hash" -> {finalisedBlockHash[R]}
      [] call[1] = "expired" -> {~records[R].finalised /\ PastWindow(R)}
      [] call[1] = "deadline" -> {Deadline(R)}
      [] call[1] = "endorsed" ->
            {call[2] \in IF kind = "spend" THEN hasEndorsedSpend[Q]
                         ELSE hasEndorsed[R]}
      \* not asked of an organisation that has endorsed
      [] call[1] = "declined" ->
            {/\ ~row[<<"endorsed", call[2]>>]
             /\ call[2] \in IF kind = "spend" THEN hasDeclinedSpend[Q]
                            ELSE hasDeclined[R]}
      [] call[1] = "node" -> Copies
      
Answered == Cardinality(DOMAIN row)
Complete == Answered = Len(Calls)

\* The window can be so long that its end cannot be computed; isExpired is
\* spared when the record is finalised, verificationDeadline never.
Reverts(call) ==
    /\ ~DeadlineComputable(R)
    /\ \/ call = <<"deadline">>
       \/ call = <<"expired">> /\ ~records[R].finalised

ReadCall ==
    /\ ~Complete
    /\ LET call == Calls[Answered + 1]
       IN  /\ ~Reverts(call)
           /\ \E answer \in Answers(call) :
                row' = [c \in DOMAIN row \cup {call} |->
                            IF c = call THEN answer ELSE row[c]]
    /\ UNCHANGED <<vars, kind, acting, reads, still>>

\* The whole list fails, and the page keeps what it showed.
ReadFails ==
    /\ ~Complete
    /\ Reverts(Calls[Answered + 1])
    /\ row' = <<>>
    /\ still' = TRUE
    /\ UNCHANGED <<vars, kind, acting, reads>>

-----------------------------------------------------------------------------
(* What is shown. *)

Shown(call) == row[<<call>>]
Endorsers == {o \in Accounts : row[<<"endorsed", o>>]}
Decliners == {o \in Accounts : row[<<"declined", o>>]}

RecordStatusShown ==
    IF Shown("item").finalised THEN "Finalised"
    ELSE IF Shown("item").unverified THEN "Unverified"
    ELSE IF Shown("expired") THEN "Window passed"
    ELSE IF Shown("declines") > 0 THEN "Disputed"
    ELSE "In Progress"

\* Mutant: one decline short.
StatusOneShort ==
    IF Shown("item").spent THEN "SPENT"
    ELSE IF Shown("item").approved THEN "APPROVED"
    ELSE IF Shown("declines") >= Cardinality(Accounts) - ENDORSEMENT_THRESHOLD
    THEN "REJECTED"
    ELSE "PENDING"

\* More declines than the third party it can do without.
StatusOf ==
    IF Shown("item").spent THEN "SPENT"
    ELSE IF Shown("item").approved THEN "APPROVED"
    ELSE IF Shown("declines") > Cardinality(Accounts) - ENDORSEMENT_THRESHOLD
    THEN "REJECTED"
    ELSE "PENDING"

HasActed == acting \in Endorsers \cup Decliners

\* Mutant: the window is not looked at.
RecordOffersAnyTime ==
    IF HasActed \/ Shown("item").unverified THEN {}
    ELSE IF Shown("item").finalised THEN {"endorse"}
    ELSE {"endorse", "decline"}

\* A finalised record still takes the third party's endorsement.
RecordOffers ==
    CASE RecordStatusShown = "Finalised" /\ ~HasActed -> {"endorse"}
      [] RecordStatusShown = "Window passed" -> {"markUnverified"}
      [] RecordStatusShown \in {"Disputed", "In Progress"} /\ ~HasActed ->
            {"endorse", "decline"}
      [] OTHER -> {}

SpendOffers ==
    CASE StatusOf = "PENDING" /\ acting # Shown("item").requester
            /\ ~HasActed -> {"endorseSpend", "declineSpend"}
      [] StatusOf = "APPROVED" /\ acting = Shown("item").requester ->
            {"markSpent"}
      [] OTHER -> {}

Offers == CASE kind = "record" -> RecordOffers
            [] kind = "spend" -> SpendOffers
            [] kind = "badge" -> {}

\* The overview lists the item under "needs your action".  Who the
\* signatories are was read earlier and cannot have changed.
Todo ==
    CASE kind = "record" -> /\ IsSignatory(1, acting)
                            /\ ~Shown("item").finalised
                            /\ ~Shown("item").unverified
                            /\ Shown("expired") \/ ~HasActed
      [] kind = "spend" ->
            \/ /\ StatusOf = "PENDING"
               /\ IsSignatory(1, acting)
               /\ acting # Shown("item").requester
               /\ ~HasActed
            \/ /\ StatusOf = "APPROVED"
               /\ acting = Shown("item").requester
      [] kind = "badge" -> FALSE

Agree == {n \in 1 .. NodeTotal :
            Fingerprint(row[<<"node", n>>]) = Fingerprint(Shown("reference"))}

\* "verified across all nodes", against "k of n nodes agree".
VerifiedAcrossNodes == Cardinality(Agree) = NodeTotal

-----------------------------------------------------------------------------
(* The ledger goes on, and the buttons. *)

\* The transaction a button sends.
Send(button) ==
    \/ button = "endorse" /\ Endorse(acting, R)
    \/ button = "decline" /\ Decline(acting, R)
    \/ button = "markUnverified" /\ MarkRecordUnverified(acting, R)
    \/ button = "endorseSpend" /\ EndorseSpend(acting, Q)
    \/ button = "declineSpend" /\ DeclineSpend(acting, Q)
    \/ /\ button = "markSpent"
       /\ \E h \in ReceiptHashes : MarkSpent(acting, Q, h)
       /\ UNCHANGED verificationVars

\* The contracts accept that transaction: what the function requires, and
\* what the functions it calls require of it, holds.
Accepts(button) ==
    \/ /\ button = "endorse"
       /\ MayEndorse(acting, R)
       /\ endorsementCount[R] + 1 = ENDORSEMENT_THRESHOLD
            => MayMarkFinalised(VerificationAddress, R)
    \/ button = "decline" /\ MayDecline(acting, R)
    \/ /\ button = "markUnverified"
       /\ MayMarkRecordUnverified(acting, R)
       /\ MayMarkUnverified(VerificationAddress, R)
    \/ /\ button = "endorseSpend"
       /\ MayEndorseSpend(acting, Q)
       /\ spendEndorsementCount[Q] + 1 = ENDORSEMENT_THRESHOLD =>
            /\ MayMarkSpendApproved(VerificationAddress, Q)
            /\ MayCommit(ComplianceAddress, spendRequests[Q].agreementId,
                         spendRequests[Q].amount)
    \/ button = "declineSpend" /\ MayDeclineSpend(acting, Q)
    \/ /\ button = "markSpent"
       /\ \E h \in ReceiptHashes : MayMarkSpent(acting, Q, h)

\* act and markSpent: a success reloads the list, a failure leaves it.
PressButton ==
    /\ Complete
    /\ reads < MaxReads
    /\ \E button \in Offers : Send(button)
    /\ row' = <<>>
    /\ reads' = reads + 1
    /\ still' = TRUE
    /\ UNCHANGED <<now, kind, acting>>

\* Anyone's transactions, about this item and about any other, and the next
\* block.
LedgerGoesOn ==
    /\ Next
    /\ still' = (row = <<>>)
    /\ UNCHANGED <<kind, acting, row, reads>>

PagesNext ==
    \/ ReadCall
    \/ ReadFails
    \/ PressButton
    \/ LedgerGoesOn

PagesSpec == PagesInit /\ [][PagesNext]_<<vars, pageVars>>

-----------------------------------------------------------------------------
(* Properties. *)

\* An outcome once shown is true and stays so: Finalised, Unverified,
\* APPROVED and SPENT hold on the ledger, and a request shown REJECTED is
\* not approved and never will be, whatever was voted between the calls the
\* row was read by, also by the requester, who may decline its own request.
ShownOutcomesHold ==
    /\ Complete /\ kind = "record" =>
            /\ RecordStatusShown = "Finalised" => records[R].finalised
            /\ RecordStatusShown = "Unverified" => records[R].unverified
    /\ Complete /\ kind = "spend" =>
            /\ StatusOf \in {"APPROVED", "SPENT"} => spendRequests[Q].approved
            /\ StatusOf = "SPENT" => spendRequests[Q].spent
            /\ StatusOf = "REJECTED" =>
                    /\ ~spendRequests[Q].approved
                    /\ Cardinality(agreements[1].signatories \
                            (hasDeclinedSpend[Q]
                                \cup {spendRequests[Q].requester}))
                        < ENDORSEMENT_THRESHOLD

\* A record shown as finalised comes with its block hash, at least two
\* endorsements and as many endorsers by name, since all of them are read
\* after the flag.
FinalRowComplete ==
    Complete /\ kind = "record" /\ Shown("item").finalised =>
        /\ Shown("hash") = finalisedBlockHash[R]
        /\ Shown("hash") # 0
        /\ Shown("count") >= ENDORSEMENT_THRESHOLD
        /\ Cardinality(Endorsers) >= ENDORSEMENT_THRESHOLD

\* This organisation's endorsement would approve the request, which the
\* budget no longer covers: another request was approved meanwhile.
NoLongerFits ==
    /\ spendEndorsementCount[Q] + 1 = ENDORSEMENT_THRESHOLD
    /\ spendRequests[Q].amount > RemainingBudget(spendRequests[Q].agreementId)

\* What the tables do not look at.
OfferedInVain(button) ==
    \/ button # "markSpent" /\ ~IsSignatory(1, acting)
    \/ button = "endorseSpend" /\ NoLongerFits

\* While the ledger has stood still since the row was read, the contracts
\* accept every button the row offers with two exceptions, and refuse it in
\* these: an organisation that is no signatory is offered votes all the same,
\* and so is the endorsement that would approve a request that no longer fits
\* the budget.
OffersAccepted ==
    Complete /\ still =>
        \A button \in Offers : Accepts(button) <=> ~OfferedInVain(button)

\* "You're all caught up": an item the overview does not list, while the
\* ledger has stood still, is one on which the contracts accept no
\* settling step of this organisation: no endorsement that could help to
\* finalise or approve, no closing as unverified, no receipt.
CaughtUp ==
    Complete /\ still /\ ~Todo =>
        /\ kind = "record" =>
            /\ ~records[R].finalised => ~Accepts("endorse")
            /\ ~Accepts("markUnverified")
        /\ kind = "spend" =>
            /\ StatusOf = "PENDING" => ~Accepts("endorseSpend")
            /\ ~Accepts("markSpent")

\* With a quiet ledger the pages offer what the contracts accept and leave
\* nothing out that would settle something.
OffersRight == OffersAccepted /\ CaughtUp

\* A record shown as finalised and "verified across all nodes" is finalised
\* in the copy of every node: a node that is behind, altered or silent takes
\* the badge away, although the copies are read later than the record and
\* the reference last.
FinalBadgeHeld ==
    Complete /\ kind = "badge" /\ Shown("item").finalised
            /\ VerifiedAcrossNodes =>
        \A n \in 1 .. NodeTotal :
            /\ row[<<"node", n>>].finalised
            /\ row[<<"node", n>>].reportedValue = records[R].reportedValue

\* A row put together from many calls while the ledger moves on may be of no
\* single moment, but no outcome, count or badge it shows is wrong.
RowsTrue == ShownOutcomesHold /\ FinalRowComplete /\ FinalBadgeHeld

=============================================================================
