--------------------------- MODULE AgreementEditor --------------------------
(***************************************************************************)
(* The Agreements page (dashboard/js/views/agreements.js) of a donor: a    *)
(* list read agreement by agreement and target by target                   *)
(* (getAgreements of api/lib/chain.js), drafts edited by the position of a *)
(* target in that list, and a new agreement made by one call for the       *)
(* agreement and one for each target.                                      *)
(*                                                                         *)
(* No button is disabled while its call is out, a call may fail before or  *)
(* after its transaction was executed, only a success reloads the list,    *)
(* and the same donor may have the page open elsewhere.                    *)
(***************************************************************************)
EXTENDS AgreementContract

CONSTANTS
    Entered,     \* lists of targets a donor may fill in the modal
    NoMaking,    \* the modal is not at work
    MaxFetches,  \* bound: reads of the list
    MaxClicks    \* bound: clicks on the page's buttons

\* There is room for the first agreement and the first read, and a modal that
\* is not at work can be told from one that is.
ASSUME EditorAssumption ==
    /\ NoMaking \notin [id : Nat, entered : Seq(Target), next : Nat]
    /\ Entered \subseteq Seq(Target)
    /\ {MaxAgreements, MaxFetches} \subseteq Nat \ {0}
    /\ MaxClicks \in Nat

VARIABLES
    shown,      \* the list on the page: one row per agreement
    fetches,    \* lists being read, the last row of each unfinished
    fetched,    \* lists begun so far
    clicks,     \* clicks so far
    calls,      \* calls out, with what the ledger did with them
    making,     \* the modal at work: the new id and what it was told to add
    made,       \* ghost: id -> the targets entered for it
    disturbed,  \* ghost: someone else acted, or the user did not wait, or
                \* was not told what happened
    misapplied  \* ghost: an edit landed on another target than the one shown

listVarsOfEditor == <<shown, fetches, fetched>>
editorVars == <<listVarsOfEditor, clicks, calls, making, made, disturbed,
                misapplied>>

Unread == -1
NoTarget == [threshold |-> 0, deadline |-> 0]

Row == [finalised : BOOLEAN, count : Nat \cup {Unread}, targets : Seq(Target)]

EditorTypeOK ==
    /\ AgreementTypeOK
    /\ shown \in Seq(Row)
    /\ \A f \in fetches : /\ f.ids \in 0 .. MaxAgreements
                          /\ f.rows \in Seq(Row)
                          /\ Len(f.rows) <= f.ids
    /\ fetched \in 0 .. MaxFetches
    /\ clicks \in 0 .. MaxClicks
    /\ \A c \in calls : c.id \in AgreementIds /\ c.meant \in Target
    /\ making # NoMaking => /\ making.id \in AgreementIds \cup {0}
                            /\ making.next \in 1 .. Len(making.entered) + 1
    /\ made \in [AgreementIds -> Seq(Target)]
    /\ {disturbed, misapplied} \subseteq BOOLEAN

Donor == Owner
Parties == Accounts

\* Either a draft with two targets, or no agreement yet.
EditorInit ==
    /\ organisations = [a \in Accounts |->
            [registered |-> TRUE,
             orgType |-> IF a = Donor THEN "Donor" ELSE "NGO"]]
    /\ orgList = <<>>
    /\ complianceContract = ComplianceAddress
    /\ \/ /\ nextAgreementId = 1
          /\ agreements = [id \in AgreementIds |-> UnsetAgreement]
          /\ agreementTargets = [id \in AgreementIds |-> <<>>]
       \/ \E start, end \in Dates, ts \in Entered :
            /\ end > start
            /\ Len(ts) = 2
            /\ nextAgreementId = 2
            /\ agreements = [id \in AgreementIds |-> IF id = 1
                    THEN [UnsetAgreement EXCEPT !.id = 1,
                                                !.creator = Donor,
                                                !.startDate = start,
                                                !.endDate = end,
                                                !.signatories = Parties]
                    ELSE UnsetAgreement]
            /\ agreementTargets = [id \in AgreementIds |->
                                        IF id = 1 THEN ts ELSE <<>>]
    /\ shown = <<>>
    /\ fetches = {[ids |-> nextAgreementId - 1, rows |-> <<>>]}
    /\ fetched = 1
    /\ clicks = 0
    /\ calls = {}
    /\ making = NoMaking
    /\ made = [id \in AgreementIds |-> <<>>]
    /\ disturbed = FALSE
    /\ misapplied = FALSE

-----------------------------------------------------------------------------
(* Reading the list. *)

Complete(rows) ==
    rows # <<>> => Len(Last(rows).targets) = Last(rows).count

\* Mutant: one id too many.
NewFetchOneMore == [ids |-> nextAgreementId, rows |-> <<>>]

\* A read begins with the ids whose creation event is known by then.
NewFetch == [ids |-> nextAgreementId - 1, rows |-> <<>>]

Replace(f, rows) ==
    /\ fetches' = (fetches \ {f}) \cup {[f EXCEPT !.rows = rows]}
    /\ UNCHANGED <<shown, fetched>>

\* getAgreement comes first: the finalised flag is older than the targets.
ReadFlag(f) ==
    /\ Len(f.rows) < f.ids
    /\ Complete(f.rows)
    /\ Replace(f, Append(f.rows, [finalised |-> IsFinalised(Len(f.rows) + 1),
                                  count |-> Unread, targets |-> <<>>]))

ReadCount(f) ==
    /\ f.rows # <<>>
    /\ Last(f.rows).count = Unread
    /\ Replace(f, [f.rows EXCEPT
                ![Len(f.rows)].count = TargetCount(Len(f.rows))])

NextTarget(f) == GetTarget(Len(f.rows), Len(Last(f.rows).targets))

TargetIsThere(f) == Len(Last(f.rows).targets) < TargetCount(Len(f.rows))

\* Mutant: the flag is looked up after the targets.
ReadTargetThenFlag(f) ==
    /\ f.rows # <<>>
    /\ Len(Last(f.rows).targets) < Last(f.rows).count
    /\ TargetIsThere(f)
    /\ Replace(f, [f.rows EXCEPT
                ![Len(f.rows)].targets = Append(@, NextTarget(f)),
                ![Len(f.rows)].finalised = IsFinalised(Len(f.rows))])

ReadTarget(f) ==
    /\ f.rows # <<>>
    /\ Len(Last(f.rows).targets) < Last(f.rows).count
    /\ TargetIsThere(f)
    /\ Replace(f, [f.rows EXCEPT
                ![Len(f.rows)].targets = Append(@, NextTarget(f))])

\* A target removed after they were counted makes the whole read fail.
ReadReverts(f) ==
    /\ f.rows # <<>>
    /\ Len(Last(f.rows).targets) < Last(f.rows).count
    /\ ~TargetIsThere(f)
    /\ fetches' = fetches \ {f}
    /\ UNCHANGED <<shown, fetched>>

ShowAgreements(f) ==
    /\ Len(f.rows) = f.ids
    /\ Complete(f.rows)
    /\ fetches' = fetches \ {f}
    /\ shown' = f.rows
    /\ UNCHANGED fetched

Fetching ==
    /\ \E f \in fetches : \/ ReadFlag(f)
                          \/ ReadCount(f)
                          \/ ReadTarget(f)
                          \/ ReadReverts(f)
                          \/ ShowAgreements(f)
    /\ UNCHANGED <<agreementVars, clicks, calls, making, made, disturbed,
                   misapplied>>

Reload ==
    /\ fetched < MaxFetches
    /\ fetched' = fetched + 1
    /\ fetches' = fetches \cup {NewFetch}
    /\ UNCHANGED shown

-----------------------------------------------------------------------------
(* The buttons of a draft's row. *)

Busy == calls # {} \/ fetches # {} \/ making # NoMaking

\* What the rows offer: any edit of a draft, finalising once it has a target.
Offered(op, id, index) ==
    /\ id \in DOMAIN shown
    /\ ~shown[id].finalised
    /\ op \in {"edit", "remove"} => index < Len(shown[id].targets)
    /\ op = "finalise" => shown[id].targets # <<>>
    /\ op \in {"add", "dates", "finalise"} => index = 0

Click(op, id, index, target) ==
    /\ clicks < MaxClicks
    /\ Offered(op, id, index)
    /\ clicks' = clicks + 1
    /\ calls' = calls \cup
            {[n |-> clicks', op |-> op, id |-> id, index |-> index,
              target |-> target, landed |-> FALSE,
              meant |-> IF op \in {"edit", "remove"}
                        THEN shown[id].targets[index + 1] ELSE NoTarget]}
    /\ disturbed' = (disturbed \/ Busy)
    /\ UNCHANGED <<agreementVars, listVarsOfEditor, making, made, misapplied>>

\* The transaction each button sends; the contract goes by the index.
Transaction(c) ==
    \/ c.op = "edit" /\ EditTarget(Donor, c.id, c.index, c.target)
    \/ c.op = "remove" /\ RemoveTarget(Donor, c.id, c.index)
    \/ c.op = "add" /\ AddTarget(Donor, c.id, c.target)
    \/ c.op = "finalise" /\ FinaliseAgreement(Donor, c.id)
    \/ /\ c.op = "dates"
       /\ \E start, end \in Dates : UpdateDates(Donor, c.id, start, end)

CallLands(c) ==
    /\ ~c.landed
    /\ Transaction(c)
    /\ calls' = (calls \ {c}) \cup {[c EXCEPT !.landed = TRUE]}
    /\ misapplied' = \/ misapplied
                     \/ /\ c.op \in {"edit", "remove"}
                        /\ GetTarget(c.id, c.index) # c.meant
    /\ UNCHANGED <<listVarsOfEditor, clicks, making, disturbed>>
    /\ made' = [made EXCEPT ![c.id] = <<>>]

\* Mutant: the list is left as it is after a success.
CallSucceedsQuietly(c) ==
    /\ c.landed
    /\ calls' = calls \ {c}
    /\ UNCHANGED listVarsOfEditor
    /\ UNCHANGED <<agreementVars, clicks, making, made, disturbed, misapplied>>

CallSucceeds(c) ==
    /\ c.landed
    /\ calls' = calls \ {c}
    /\ Reload
    /\ UNCHANGED <<agreementVars, clicks, making, made, disturbed, misapplied>>

\* A failure, of which nobody can tell whether the transaction was executed:
\* a toast, and the list stays as it is.
CallFails(c) ==
    /\ calls' = calls \ {c}
    /\ disturbed' = (disturbed \/ c.landed)
    /\ UNCHANGED <<agreementVars, listVarsOfEditor, clicks, making, made,
                   misapplied>>

-----------------------------------------------------------------------------
(* The modal that makes an agreement. *)

\* All three organisations sign; at least one target is filled in.
ClickCreate(ts) ==
    /\ clicks < MaxClicks
    /\ making = NoMaking
    /\ ts # <<>>
    /\ clicks' = clicks + 1
    /\ making' = [id |-> 0, entered |-> ts, next |-> 1]
    /\ disturbed' = (disturbed \/ Busy)
    /\ UNCHANGED <<agreementVars, listVarsOfEditor, calls, made, misapplied>>

AgreementMade ==
    /\ making # NoMaking
    /\ making.id = 0
    /\ \E start, end \in Dates : CreateAgreement(Donor, start, end, Parties)
    /\ making' = [making EXCEPT !.id = nextAgreementId]
    /\ made' = [made EXCEPT ![nextAgreementId] = making.entered]
    /\ UNCHANGED <<listVarsOfEditor, clicks, calls, disturbed, misapplied>>

\* Refused, or executed with the answer lost: no target is sent, no reload.
AgreementNotMade ==
    /\ making # NoMaking
    /\ making.id = 0
    /\ making' = NoMaking
    /\ \/ UNCHANGED <<agreementVars, disturbed>>
       \/ /\ \E start, end \in Dates :
                CreateAgreement(Donor, start, end, Parties)
          /\ disturbed' = TRUE
    /\ UNCHANGED <<listVarsOfEditor, clicks, calls, made, misapplied>>

TargetMade ==
    /\ making # NoMaking
    /\ making.id # 0
    /\ making.next <= Len(making.entered)
    /\ AddTarget(Donor, making.id, making.entered[making.next])
    /\ making' = [making EXCEPT !.next = @ + 1]
    /\ UNCHANGED <<listVarsOfEditor, clicks, calls, made, disturbed,
                   misapplied>>

\* Mutant: the loop goes on with the next target.
TargetSkipped ==
    /\ making # NoMaking
    /\ making.id # 0
    /\ making.next <= Len(making.entered)
    /\ making' = [making EXCEPT !.next = @ + 1]
    /\ UNCHANGED <<agreementVars, listVarsOfEditor, clicks, calls, made,
                   disturbed, misapplied>>

\* The first failure breaks the loop, whether or not its transaction was
\* executed.
TargetNotMade ==
    /\ making # NoMaking
    /\ making.id # 0
    /\ making.next <= Len(making.entered)
    /\ \/ UNCHANGED agreementVars
       \/ AddTarget(Donor, making.id, making.entered[making.next])
    /\ making' = [making EXCEPT !.next = Len(making.entered) + 1]
    /\ UNCHANGED <<listVarsOfEditor, clicks, calls, made, disturbed,
                   misapplied>>

MakingDone ==
    /\ making # NoMaking
    /\ making.next > Len(making.entered)
    /\ making' = NoMaking
    /\ Reload
    /\ UNCHANGED <<agreementVars, clicks, calls, made, disturbed, misapplied>>

\* The same donor at work in another tab.
OtherTab(id) ==
    /\ DraftTx(Donor, id)
    /\ disturbed' = TRUE
    /\ made' = [made EXCEPT ![id] = <<>>]
    /\ UNCHANGED <<listVarsOfEditor, clicks, calls, making, misapplied>>

EditorNext ==
    \/ Fetching
    \/ \E op \in {"edit", "remove", "add", "dates", "finalise"},
          id \in AgreementIds, index \in 0 .. MaxTargets - 1,
          t \in Thresholds, d \in Deadlines :
            Click(op, id, index, [threshold |-> t, deadline |-> d])
    \/ \E c \in calls : CallLands(c) \/ CallSucceeds(c) \/ CallFails(c)
    \/ \E ts \in Entered : ClickCreate(ts)
    \/ AgreementMade
    \/ AgreementNotMade
    \/ TargetMade
    \/ TargetNotMade
    \/ MakingDone
    \/ \E id \in AgreementIds : OtherTab(id)

EditorSpec == EditorInit /\ [][EditorNext]_<<agreementVars, editorVars>>

-----------------------------------------------------------------------------
(* Properties. *)

\* A row that says FINALISED shows the very targets that were locked, though
\* flag, count and targets are read by separate calls while another tab may
\* be editing, and however many reloads overlap.  The report form picks its
\* target by position from such rows (views/reports.js:60), so a report is
\* judged against the target its author saw.
FinalListExact ==
    \A id \in DOMAIN shown :
        shown[id].finalised => /\ IsFinalised(id)
                               /\ shown[id].targets = agreementTargets[id]

\* A donor alone at work, who waits for each answer and is told the truth by
\* it, never edits or removes another target than the one on the screen,
\* although the call only carries a position and a refused call leaves the
\* old list standing.
UndisturbedEditHitsShown == misapplied => disturbed

\* An agreement made through the modal has the first so many of the targets
\* entered, in their order and none twice or skipped, whatever call failed
\* and whether or not it had been executed, as long as nobody has edited the
\* draft since.
MadeIsPrefix ==
    \A id \in AgreementIds :
        made[id] # <<>> => IsPrefix(agreementTargets[id], made[id])

=============================================================================
