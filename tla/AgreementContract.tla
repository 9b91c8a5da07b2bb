------------------------- MODULE AgreementContract -------------------------
(***************************************************************************)
(* The Agreement contract (contracts/contracts/AgreementContract.sol): the *)
(* registry of organisations and the life of a programme agreement, from   *)
(* editable draft to finalised terms, with the budget that approved spend  *)
(* is committed against.                                                   *)
(*                                                                         *)
(* One operator stands for one external function.  A transaction is atomic *)
(* and serialised by the ledger, so it is one step; a failed "require"     *)
(* reverts the whole transaction, so it is a conjunct of the guard.  The   *)
(* guards of a function that others ask about have a name of their own,    *)
(* May....  The first parameter, sender, is msg.sender.  Every operator    *)
(* states only the variables of this contract; the modules that extend it  *)
(* say what happens to the others.                                         *)
(*                                                                         *)
(* A mapping is a total function whose unset entries hold Solidity's zero  *)
(* value (id 0).  Names, indicators and units are left out; the            *)
(* signatories array is the set of its members, its only reader being the  *)
(* membership test isSignatory.                                            *)
(***************************************************************************)
EXTENDS Integers, FiniteSets, Sequences, SequencesExt

CONSTANTS
    Accounts,           \* externally owned accounts: the organisations
    Owner,              \* the account that deployed the contracts
    ZeroAddress,        \* address(0)
    ComplianceAddress,  \* where the Compliance contract is deployed
    Dates,              \* start and end dates a donor may give
    Thresholds,         \* numeric commitments a target may carry
    Deadlines,          \* deadlines a target may carry
    Budgets,            \* budgets a donor may set
    SignatorySets,      \* signatory lists a donor may name
    Registrable,        \* accounts the owner may register or remove
    MaxAgreements,      \* bound: agreements created
    MaxTargets,         \* bound: targets of one agreement
    MaxRegistrations    \* bound: entries of the enumeration list

OrgTypes == {"NGO", "Ministry", "Donor"}

AgreementIds == 1 .. MaxAgreements

Target == [threshold : Nat, deadline : Nat]

ASSUME AccountsAssumption ==
    /\ IsFiniteSet(Accounts)
    /\ Owner \in Accounts
    /\ ZeroAddress \notin Accounts
    /\ ComplianceAddress \notin Accounts \cup {ZeroAddress}
    /\ Registrable \subseteq Accounts

ASSUME TermsAssumption ==
    /\ Dates \subseteq Nat
    /\ Thresholds \subseteq Nat
    /\ Deadlines \subseteq Nat
    /\ Budgets \subseteq Nat
    /\ SignatorySets \subseteq SUBSET Accounts

ASSUME AgreementBoundsAssumption ==
    /\ MaxAgreements \in Nat
    /\ MaxTargets \in Nat
    /\ MaxRegistrations \in Nat

VARIABLES
    organisations,       \* address -> registry record
    orgList,             \* addresses in the order they were pushed
    nextAgreementId,     \* id the next agreement will get
    agreements,          \* id -> agreement
    agreementTargets,    \* id -> sequence of targets
    complianceContract   \* the one address that may commit spend

agreementVars ==
    <<organisations, orgList, nextAgreementId, agreements, agreementTargets,
      complianceContract>>

-----------------------------------------------------------------------------

Organisation == [registered : BOOLEAN, orgType : OrgTypes]

\* The zero value of an Organisation: the first enum member is NGO.
UnsetOrganisation == [registered |-> FALSE, orgType |-> "NGO"]

Agreement ==
    [id : Nat,
     creator : Accounts \cup {ZeroAddress},
     startDate : Nat,
     endDate : Nat,
     signatories : SUBSET Accounts,
     finalised : BOOLEAN,
     budget : Nat,
     committedSpend : Nat]

UnsetAgreement ==
    [id |-> 0, creator |-> ZeroAddress, startDate |-> 0, endDate |-> 0,
     signatories |-> {}, finalised |-> FALSE, budget |-> 0,
     committedSpend |-> 0]

AgreementTypeOK ==
    /\ organisations \in [Accounts -> Organisation]
    /\ orgList \in Seq(Accounts)
    /\ nextAgreementId \in 1 .. MaxAgreements + 1
    /\ agreements \in [AgreementIds -> Agreement]
    /\ agreementTargets \in [AgreementIds -> Seq(Target)]
    /\ complianceContract \in {ZeroAddress, ComplianceAddress}

AgreementInit ==
    /\ organisations = [a \in Accounts |-> UnsetOrganisation]
    /\ orgList = <<>>
    /\ nextAgreementId = 1
    /\ agreements = [id \in AgreementIds |-> UnsetAgreement]
    /\ agreementTargets = [id \in AgreementIds |-> <<>>]
    /\ complianceContract = ZeroAddress

-----------------------------------------------------------------------------
(* The views other contracts read. *)

IsOrgType(account, orgType) ==
    /\ organisations[account].registered
    /\ organisations[account].orgType = orgType

IsSignatory(id, account) == account \in agreements[id].signatories

IsFinalised(id) == agreements[id].finalised

TargetCount(id) == Len(agreementTargets[id])

\* Solidity indexes from 0.
GetTarget(id, index) == agreementTargets[id][index + 1]

\* Mutant: the whole budget is offered, whatever is committed already.
RemainingBudgetGross(id) == agreements[id].budget

RemainingBudget(id) == agreements[id].budget - agreements[id].committedSpend

-----------------------------------------------------------------------------
(* The organisation registry. *)

RegisterOrganisation(sender, account, orgType) ==
    /\ sender = Owner
    /\ \/ organisations[account].registered
       \/ Len(orgList) < MaxRegistrations
    /\ orgList' = IF organisations[account].registered
                  THEN orgList
                  ELSE Append(orgList, account)
    /\ organisations' = [organisations EXCEPT
            ![account] = [registered |-> TRUE, orgType |-> orgType]]
    /\ UNCHANGED <<nextAgreementId, agreements, agreementTargets,
                   complianceContract>>

RemoveOrganisation(sender, account) ==
    /\ sender = Owner
    /\ organisations[account].registered
    /\ organisations' = [organisations EXCEPT ![account].registered = FALSE]
    /\ UNCHANGED <<orgList, nextAgreementId, agreements, agreementTargets,
                   complianceContract>>

-----------------------------------------------------------------------------
(* The life of an agreement. *)

CreateAgreement(sender, startDate, endDate, signatories) ==
    /\ IsOrgType(sender, "Donor")
    /\ endDate > startDate
    /\ nextAgreementId \in AgreementIds
    /\ agreements' = [agreements EXCEPT
            ![nextAgreementId] = [@ EXCEPT !.id = nextAgreementId,
                                           !.creator = sender,
                                           !.startDate = startDate,
                                           !.endDate = endDate,
                                           !.signatories = signatories]]
    /\ nextAgreementId' = nextAgreementId + 1
    /\ UNCHANGED <<organisations, orgList, agreementTargets,
                   complianceContract>>

\* Mutant: a finalised agreement can still be edited.
MayEditAlways(sender, id) ==
    /\ agreements[id].id # 0
    /\ sender = agreements[id].creator

\* What every draft-editing function requires of its caller.
MayEditDraft(sender, id) ==
    /\ agreements[id].id # 0
    /\ ~agreements[id].finalised
    /\ sender = agreements[id].creator

AddTarget(sender, id, target) ==
    /\ MayEditDraft(sender, id)
    /\ TargetCount(id) < MaxTargets
    /\ agreementTargets' = [agreementTargets EXCEPT ![id] = Append(@, target)]
    /\ UNCHANGED <<organisations, orgList, nextAgreementId, agreements,
                   complianceContract>>

EditTarget(sender, id, index, target) ==
    /\ MayEditDraft(sender, id)
    /\ index < TargetCount(id)
    /\ agreementTargets' = [agreementTargets EXCEPT ![id][index + 1] = target]
    /\ UNCHANGED <<organisations, orgList, nextAgreementId, agreements,
                   complianceContract>>

\* The targets behind the removed one move up one place, in order.
RemoveTarget(sender, id, index) ==
    /\ MayEditDraft(sender, id)
    /\ index < TargetCount(id)
    /\ agreementTargets' =
            [agreementTargets EXCEPT ![id] = RemoveAt(@, index + 1)]
    /\ UNCHANGED <<organisations, orgList, nextAgreementId, agreements,
                   complianceContract>>

UpdateDates(sender, id, startDate, endDate) ==
    /\ MayEditDraft(sender, id)
    /\ endDate > startDate
    /\ agreements' = [agreements EXCEPT ![id].startDate = startDate,
                                        ![id].endDate = endDate]
    /\ UNCHANGED <<organisations, orgList, nextAgreementId, agreementTargets,
                   complianceContract>>

SetBudget(sender, id, budget) ==
    /\ MayEditDraft(sender, id)
    /\ agreements' = [agreements EXCEPT ![id].budget = budget]
    /\ UNCHANGED <<organisations, orgList, nextAgreementId, agreementTargets,
                   complianceContract>>

\* Nothing stops a creator from finalising twice; the second call changes
\* nothing.
FinaliseAgreement(sender, id) ==
    /\ agreements[id].id # 0
    /\ sender = agreements[id].creator
    /\ TargetCount(id) > 0
    /\ agreements' = [agreements EXCEPT ![id].finalised = TRUE]
    /\ UNCHANGED <<organisations, orgList, nextAgreementId, agreementTargets,
                   complianceContract>>

-----------------------------------------------------------------------------
(* Wiring, and the one entry point of the Compliance contract. *)

SetComplianceContract(sender, c) ==
    /\ sender = Owner
    /\ complianceContract = ZeroAddress
    /\ complianceContract' = c
    /\ UNCHANGED <<organisations, orgList, nextAgreementId, agreements,
                   agreementTargets>>

\* The effect of commitSpend, once its guards have let the call through.
AddToCommitted(id, amount) ==
    /\ agreements' = [agreements EXCEPT ![id].committedSpend = @ + amount]
    /\ UNCHANGED <<organisations, orgList, nextAgreementId, agreementTargets,
                   complianceContract>>

\* Mutant: a commit that does not fit is skipped instead of reverting.
CommitSpendIfFits(sender, id, amount) ==
    /\ sender = complianceContract
    /\ agreements[id].id # 0
    /\ IF amount <= RemainingBudget(id)
       THEN AddToCommitted(id, amount)
       ELSE UNCHANGED agreementVars

\* Mutant: anyone may commit.
CommitSpendByAnyone(sender, id, amount) ==
    /\ agreements[id].id # 0
    /\ amount <= RemainingBudget(id)
    /\ AddToCommitted(id, amount)

MayCommit(sender, id, amount) ==
    /\ sender = complianceContract
    /\ agreements[id].id # 0
    /\ amount <= RemainingBudget(id)

CommitSpend(sender, id, amount) ==
    /\ MayCommit(sender, id, amount)
    /\ AddToCommitted(id, amount)

-----------------------------------------------------------------------------

RegistryTx(sender) ==
    \E account \in Registrable :
        \/ \E orgType \in OrgTypes :
                RegisterOrganisation(sender, account, orgType)
        \/ RemoveOrganisation(sender, account)

DraftTx(sender, id) ==
    \/ \E t \in Thresholds, d \in Deadlines :
            LET target == [threshold |-> t, deadline |-> d]
            IN  \/ AddTarget(sender, id, target)
                \/ \E index \in 0 .. MaxTargets - 1 :
                        EditTarget(sender, id, index, target)
    \/ \E index \in 0 .. MaxTargets - 1 : RemoveTarget(sender, id, index)
    \/ \E start, end \in Dates : UpdateDates(sender, id, start, end)
    \/ \E budget \in Budgets : SetBudget(sender, id, budget)
    \/ FinaliseAgreement(sender, id)

\* The transactions an account can send to this contract.
AgreementNext ==
    \E sender \in Accounts :
        \/ RegistryTx(sender)
        \/ SetComplianceContract(sender, ComplianceAddress)
        \/ \E start, end \in Dates, signatories \in SignatorySets :
                CreateAgreement(sender, start, end, signatories)
        \/ \E id \in AgreementIds : DraftTx(sender, id)

=============================================================================
