-------------------- MODULE VerificationWorkflowContract --------------------
(***************************************************************************)
(* The Verification Workflow contract                                      *)
(* (contracts/contracts/VerificationWorkflowContract.sol): signatories     *)
(* endorse or decline compliance records and spend requests; the second    *)
(* endorsement settles them, and a record that is not settled inside the   *)
(* verification window can be closed as unverified.                        *)
(*                                                                         *)
(* hasEndorsed and its like, mappings from an id and an address to a flag, *)
(* are functions from an id to the set of addresses whose flag is up.      *)
(***************************************************************************)
EXTENDS ComplianceEvaluationContract

CONSTANTS
    DefaultWindow,  \* DEFAULT_VERIFICATION_WINDOW
    Windows,        \* windows the owner may set
    MaxUint,        \* largest uint256; checked arithmetic reverts above it
    MaxTime         \* bound: last block timestamp

ASSUME WindowAssumption ==
    /\ DefaultWindow \in Nat \ {0}
    /\ Windows \subseteq Nat
    /\ MaxUint \in Nat
    /\ MaxTime \in Nat \ {0}

ENDORSEMENT_THRESHOLD == 2

VARIABLES
    verificationWindow,
    hasEndorsed,            \* record id -> endorsers
    endorsementCount,       \* record id -> count kept beside the flags
    hasDeclined,            \* record id -> decliners
    declineCount,
    finalisedBlockHash,     \* record id -> hash pinned at the threshold
    hasEndorsedSpend,       \* spend request id -> endorsers
    spendEndorsementCount,
    hasDeclinedSpend,       \* spend request id -> decliners
    spendDeclineCount

recordVotes ==
    <<hasEndorsed, endorsementCount, hasDeclined, declineCount,
      finalisedBlockHash>>

spendVotes ==
    <<hasEndorsedSpend, spendEndorsementCount, hasDeclinedSpend,
      spendDeclineCount>>

verificationVars == <<verificationWindow, recordVotes, spendVotes>>

VerificationTypeOK ==
    /\ verificationWindow \in Nat \ {0}
    /\ hasEndorsed \in [RecordIds -> SUBSET Accounts]
    /\ endorsementCount \in [RecordIds -> Nat]
    /\ hasDeclined \in [RecordIds -> SUBSET Accounts]
    /\ declineCount \in [RecordIds -> Nat]
    /\ finalisedBlockHash \in [RecordIds -> Nat]
    /\ hasEndorsedSpend \in [SpendRequestIds -> SUBSET Accounts]
    /\ spendEndorsementCount \in [SpendRequestIds -> Nat]
    /\ hasDeclinedSpend \in [SpendRequestIds -> SUBSET Accounts]
    /\ spendDeclineCount \in [SpendRequestIds -> Nat]

VerificationInit ==
    /\ verificationWindow = DefaultWindow
    /\ hasEndorsed = [r \in RecordIds |-> {}]
    /\ endorsementCount = [r \in RecordIds |-> 0]
    /\ hasDeclined = [r \in RecordIds |-> {}]
    /\ declineCount = [r \in RecordIds |-> 0]
    /\ finalisedBlockHash = [r \in RecordIds |-> 0]
    /\ hasEndorsedSpend = [q \in SpendRequestIds |-> {}]
    /\ spendEndorsementCount = [q \in SpendRequestIds |-> 0]
    /\ hasDeclinedSpend = [q \in SpendRequestIds |-> {}]
    /\ spendDeclineCount = [q \in SpendRequestIds |-> 0]

-----------------------------------------------------------------------------

\* Mutant: the addition wraps around instead of reverting.
DeadlineWrapped(r) ==
    (records[r].evaluatedAt + verificationWindow) % (MaxUint + 1)

Deadline(r) == records[r].evaluatedAt + verificationWindow

\* Adding the window to the evaluation time must not overflow; if it does,
\* every call that computes the deadline reverts.
DeadlineComputable(r) == Deadline(r) <= MaxUint

PastWindow(r) == now > Deadline(r)

\* blockhash(block.number - 1).  The timestamp identifies the block being
\* built, and so its parent; 0 stands for "never pinned".
ParentBlockHash == now

-----------------------------------------------------------------------------
(* Compliance records. *)

\* Mutant: a window of zero is accepted.
SetAnyWindow(sender, window) ==
    /\ sender = Owner
    /\ verificationWindow' = window
    /\ UNCHANGED <<agreementVars, complianceVars, recordVotes, spendVotes>>

SetVerificationWindow(sender, window) ==
    /\ sender = Owner
    /\ window > 0
    /\ verificationWindow' = window
    /\ UNCHANGED <<agreementVars, complianceVars, recordVotes, spendVotes>>

PinAndFinalise(r) ==
    /\ finalisedBlockHash' =
            [finalisedBlockHash EXCEPT ![r] = ParentBlockHash]
    /\ MarkFinalised(VerificationAddress, r)

\* Mutant: the count is compared before it is incremented.
FinaliseAfterThreshold(r) ==
    IF endorsementCount[r] = ENDORSEMENT_THRESHOLD
    THEN PinAndFinalise(r)
    ELSE UNCHANGED <<finalisedBlockHash, agreementVars, complianceVars>>

\* The part of endorse that runs at the threshold, and only there.
FinaliseAtThreshold(r) ==
    IF endorsementCount[r] + 1 = ENDORSEMENT_THRESHOLD
    THEN PinAndFinalise(r)
    ELSE UNCHANGED <<finalisedBlockHash, agreementVars, complianceVars>>

\* Mutant: a record closed as unverified is not looked at.
InsideWindow(r) == DeadlineComputable(r) /\ ~PastWindow(r)

StillVerifiable(r) ==
    /\ DeadlineComputable(r)
    /\ ~PastWindow(r)
    /\ ~records[r].unverified

CountEndorsement(sender, r) ==
    /\ hasEndorsed' = [hasEndorsed EXCEPT ![r] = @ \cup {sender}]
    /\ endorsementCount' = [endorsementCount EXCEPT ![r] = @ + 1]
    /\ FinaliseAtThreshold(r)
    /\ UNCHANGED <<verificationWindow, hasDeclined, declineCount, spendVotes>>

\* Mutant: an organisation may endorse twice.
EndorseAgain(sender, r) ==
    /\ RecordExists(r)
    /\ IsSignatory(records[r].agreementId, sender)
    /\ sender \notin hasDeclined[r]
    /\ ~records[r].finalised => StillVerifiable(r)
    /\ CountEndorsement(sender, r)

MayEndorse(sender, r) ==
    /\ RecordExists(r)
    /\ IsSignatory(records[r].agreementId, sender)
    /\ sender \notin hasEndorsed[r]
    /\ sender \notin hasDeclined[r]
    /\ ~records[r].finalised => StillVerifiable(r)

Endorse(sender, r) ==
    /\ MayEndorse(sender, r)
    /\ CountEndorsement(sender, r)

MayMarkRecordUnverified(sender, r) ==
    /\ RecordExists(r)
    /\ IsSignatory(records[r].agreementId, sender)
    /\ ~records[r].finalised
    /\ ~records[r].unverified
    /\ DeadlineComputable(r)
    /\ PastWindow(r)

MarkRecordUnverified(sender, r) ==
    /\ MayMarkRecordUnverified(sender, r)
    /\ MarkUnverified(VerificationAddress, r)
    /\ UNCHANGED verificationVars

MayDecline(sender, r) ==
    /\ RecordExists(r)
    /\ sender \notin hasDeclined[r]
    /\ sender \notin hasEndorsed[r]
    /\ IsSignatory(records[r].agreementId, sender)
    /\ ~records[r].finalised

Decline(sender, r) ==
    /\ MayDecline(sender, r)
    /\ hasDeclined' = [hasDeclined EXCEPT ![r] = @ \cup {sender}]
    /\ declineCount' = [declineCount EXCEPT ![r] = @ + 1]
    /\ UNCHANGED <<agreementVars, complianceVars, verificationWindow,
                   hasEndorsed, endorsementCount, finalisedBlockHash,
                   spendVotes>>

-----------------------------------------------------------------------------
(* Spend requests. *)

CountSpendEndorsement(sender, q) ==
    /\ hasEndorsedSpend' = [hasEndorsedSpend EXCEPT ![q] = @ \cup {sender}]
    /\ spendEndorsementCount' = [spendEndorsementCount EXCEPT ![q] = @ + 1]
    /\ IF spendEndorsementCount[q] + 1 = ENDORSEMENT_THRESHOLD
       THEN MarkSpendApproved(VerificationAddress, q)
       ELSE UNCHANGED <<agreementVars, complianceVars>>
    /\ UNCHANGED <<verificationWindow, recordVotes, hasDeclinedSpend,
                   spendDeclineCount>>

\* Mutant: the requester may endorse its own request.
EndorseOwnSpend(sender, q) ==
    /\ SpendRequestExists(q)
    /\ sender \notin hasEndorsedSpend[q] \cup hasDeclinedSpend[q]
    /\ IsSignatory(spendRequests[q].agreementId, sender)
    /\ CountSpendEndorsement(sender, q)

MayEndorseSpend(sender, q) ==
    /\ SpendRequestExists(q)
    /\ sender \notin hasEndorsedSpend[q]
    /\ sender \notin hasDeclinedSpend[q]
    /\ IsSignatory(spendRequests[q].agreementId, sender)
    /\ sender # spendRequests[q].requester

EndorseSpend(sender, q) ==
    /\ MayEndorseSpend(sender, q)
    /\ CountSpendEndorsement(sender, q)

\* The requester may decline its own request, though it cannot endorse it.
MayDeclineSpend(sender, q) ==
    /\ SpendRequestExists(q)
    /\ sender \notin hasDeclinedSpend[q]
    /\ sender \notin hasEndorsedSpend[q]
    /\ IsSignatory(spendRequests[q].agreementId, sender)
    /\ ~spendRequests[q].approved

DeclineSpend(sender, q) ==
    /\ MayDeclineSpend(sender, q)
    /\ hasDeclinedSpend' = [hasDeclinedSpend EXCEPT ![q] = @ \cup {sender}]
    /\ spendDeclineCount' = [spendDeclineCount EXCEPT ![q] = @ + 1]
    /\ UNCHANGED <<agreementVars, complianceVars, verificationWindow,
                   recordVotes, hasEndorsedSpend, spendEndorsementCount>>

-----------------------------------------------------------------------------

\* The transactions an account can send to this contract.
VerificationNext ==
    \E sender \in Accounts :
        \/ \E window \in Windows : SetVerificationWindow(sender, window)
        \/ \E r \in RecordIds :
                \/ Endorse(sender, r)
                \/ Decline(sender, r)
                \/ MarkRecordUnverified(sender, r)
        \/ \E q \in SpendRequestIds :
                \/ EndorseSpend(sender, q)
                \/ DeclineSpend(sender, q)

=============================================================================
