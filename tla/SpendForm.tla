----------------------------- MODULE SpendForm ------------------------------
(***************************************************************************)
(* The agreement and amount half of the Budget & Spend page                *)
(* (dashboard/js/views/spend.js): its two selects, filled from a list that *)
(* may be old by the time they are used, the over-budget check that mirrors*)
(* the contract's, and the compliance warning, asked for whenever an       *)
(* agreement is picked and answered in any order.                          *)
(*                                                                         *)
(* The agreements on the ledger are kept to what the page looks at; the    *)
(* contracts themselves are in MACL.                                       *)
(***************************************************************************)
EXTENDS Integers, FiniteSets

CONSTANTS
    Agreements,   \* agreements on the ledger
    NoAgreement,  \* the placeholder option
    FormBudgets,  \* budgets a donor may enter
    FormAmounts,  \* amounts an NGO may enter
    NoAmount,     \* an empty amount
    MaxLoads,     \* bound: reads of the agreement list
    MaxChecks     \* bound: compliance checks asked for

ASSUME SpendFormAssumption ==
    /\ NoAgreement \notin Agreements
    /\ FormBudgets \cup FormAmounts \subseteq Nat
    /\ NoAmount \notin Nat
    /\ {MaxLoads, MaxChecks} \subseteq Nat

VARIABLES
    ledger,     \* agreement -> [finalised, budget, committed]
    failing,    \* agreements with a failing compliance record
    loaded,     \* the list the page was last filled from
    loads,      \* reads of the list begun so far
    reading,    \* those under way: the agreements read so far
    selected,   \* sp-agreement
    amount,     \* sp-amount
    disabled,   \* sp-submit is disabled
    sending,    \* requests out: agreement and amount
    asked,      \* compliance checks asked for so far
    checks,     \* those under way, with the server's answer once it has one
    warned,     \* sp-compliance-warn is visible
    known,      \* ghost: the agreement picked was failing then
    lost        \* ghost: a check for the agreement picked failed

spendLedgerVars == <<ledger, failing>>
listVars == <<loaded, loads, reading>>
fieldVars == <<selected, amount, disabled, sending>>
warningVars == <<asked, checks, warned, known, lost>>
spendFormVars == <<spendLedgerVars, listVars, fieldVars, warningVars>>

Account == [finalised : BOOLEAN, budget : Nat, committed : Nat]
Opened == [finalised |-> FALSE, budget |-> 0, committed |-> 0]

SpendFormTypeOK ==
    /\ ledger \in [Agreements -> Account]
    /\ failing \subseteq Agreements
    /\ loaded \in [Agreements -> Account]
    /\ loads \in 0 .. MaxLoads
    /\ \A l \in reading : DOMAIN l \subseteq Agreements
    /\ selected \in Agreements \cup {NoAgreement}
    /\ amount \in FormAmounts \cup {NoAmount}
    /\ {disabled, warned, known, lost} \subseteq BOOLEAN
    /\ sending \subseteq Agreements \X FormAmounts
    /\ asked \in 0 .. MaxChecks
    /\ checks \subseteq [n : 1 .. MaxChecks, of : Agreements,
                         answer : {"none", "failing", "clean"}]

SpendFormInit ==
    /\ ledger = [a \in Agreements |-> Opened]
    /\ failing = {}
    /\ loaded = ledger
    /\ loads = 0
    /\ reading = {}
    /\ selected = NoAgreement
    /\ amount = NoAmount
    /\ disabled = FALSE
    /\ sending = {}
    /\ asked = 0
    /\ checks = {}
    /\ warned = FALSE
    /\ known = FALSE
    /\ lost = FALSE

-----------------------------------------------------------------------------
(* What happens on the ledger meanwhile. *)

Remaining(account) == account.budget - account.committed

\* Another tab, or another organisation: a budget set, terms finalised, a
\* request approved, a failing report.
LedgerMoves(a) ==
    /\ \/ /\ ~ledger[a].finalised
          /\ \/ \E b \in FormBudgets : ledger' = [ledger EXCEPT ![a].budget = b]
             \/ ledger' = [ledger EXCEPT ![a].finalised = TRUE]
          /\ UNCHANGED failing
       \/ /\ ledger[a].finalised
          /\ \E x \in FormAmounts :
                /\ x <= Remaining(ledger[a])
                /\ ledger' = [ledger EXCEPT ![a].committed = @ + x]
          /\ UNCHANGED failing
       \/ /\ ledger[a].finalised
          /\ failing' = failing \cup {a}
          /\ UNCHANGED ledger
    /\ UNCHANGED <<listVars, fieldVars, warningVars>>

-----------------------------------------------------------------------------
(* The list and the selects. *)

\* loadAll, after any action on the page: the server reads one agreement
\* after the other.
BeginLoad ==
    /\ loads < MaxLoads
    /\ loads' = loads + 1
    /\ reading' = reading \cup {<<>>}
    /\ UNCHANGED <<loaded, spendLedgerVars, fieldVars, warningVars>>

ReadAgreement(l, a) ==
    /\ a \notin DOMAIN l
    /\ reading' = (reading \ {l}) \cup
            {[b \in DOMAIN l \cup {a} |-> IF b = a THEN ledger[a] ELSE l[b]]}
    /\ UNCHANGED <<loaded, loads, spendLedgerVars, fieldVars, warningVars>>

\* What onPickFundable does with no agreement picked.
Unpick ==
    /\ selected' = NoAgreement
    /\ disabled' = FALSE
    /\ warned' = FALSE
    /\ known' = FALSE
    /\ lost' = FALSE

\* The list arrives and both selects are rebuilt, back on their placeholders.
ShowList(l) ==
    /\ DOMAIN l = Agreements
    /\ reading' = reading \ {l}
    /\ loaded' = l
    /\ Unpick
    /\ UNCHANGED <<loads, spendLedgerVars, amount, sending, asked, checks>>

DraftsOffered == {a \in Agreements : ~loaded[a].finalised}

Fundable == {a \in Agreements : loaded[a].finalised /\ loaded[a].budget > 0}

\* Mutant: the boundary case counts as over budget.
OverOrEqual(a, x) ==
    a # NoAgreement /\ x # NoAmount /\ x >= Remaining(loaded[a])

Over(a, x) == a # NoAgreement /\ x # NoAmount /\ x > Remaining(loaded[a])

\* Mutant: the answer to the previous pick is what counts.
PickWithoutAsking(a) ==
    /\ asked < MaxChecks
    /\ selected' = a
    /\ disabled' = Over(a, amount)
    /\ warned' = FALSE
    /\ known' = (a \in failing)
    /\ lost' = FALSE
    /\ asked' = asked + 1
    /\ checks' = IF checks = {}
                 THEN {[n |-> asked', of |-> a, answer |-> "none"]}
                 ELSE checks
    /\ UNCHANGED <<spendLedgerVars, listVars, amount, sending>>

\* onPickFundable: the old warning goes, a new check is asked for.
PickFundable(a) ==
    /\ asked < MaxChecks
    /\ selected' = a
    /\ disabled' = Over(a, amount)
    /\ warned' = FALSE
    /\ known' = (a \in failing)
    /\ lost' = FALSE
    /\ asked' = asked + 1
    /\ checks' = checks \cup {[n |-> asked', of |-> a, answer |-> "none"]}
    /\ UNCHANGED <<spendLedgerVars, listVars, amount, sending>>

TypeAmount(x) ==
    /\ amount' = x
    /\ disabled' = Over(selected, x)
    /\ UNCHANGED <<spendLedgerVars, listVars, selected, sending, warningVars>>

-----------------------------------------------------------------------------
(* The compliance warning. *)

ServerChecks(c) ==
    /\ c.answer = "none"
    /\ checks' = (checks \ {c}) \cup
            {[c EXCEPT !.answer = IF c.of \in failing
                                  THEN "failing" ELSE "clean"]}
    /\ UNCHANGED <<spendLedgerVars, listVars, fieldVars, asked, warned, known,
                   lost>>

\* The answer comes, for whichever agreement it was asked; one that cannot
\* be had is taken for "no failing record".
CheckAnswered(c) ==
    /\ c.answer # "none"
    /\ checks' = checks \ {c}
    /\ \/ /\ warned' = (warned \/ c.answer = "failing")
          /\ UNCHANGED lost
       \/ /\ lost' = (lost \/ c.of = selected)
          /\ UNCHANGED warned
    /\ UNCHANGED <<spendLedgerVars, listVars, fieldVars, asked, known>>

-----------------------------------------------------------------------------
(* The two submissions, each a transaction of the contracts. *)

\* A list no longer up to date may still offer what the contract refuses.
SubmitBudget(a, b) ==
    /\ a \in DraftsOffered
    /\ ~ledger[a].finalised
    /\ loads < MaxLoads
    /\ ledger' = [ledger EXCEPT ![a].budget = b]
    /\ loads' = loads + 1
    /\ reading' = reading \cup {<<>>}
    /\ UNCHANGED <<failing, loaded, fieldVars, warningVars>>

\* createSpendRequest as the contract guards it.
Accepts(a, x) ==
    /\ ledger[a].finalised
    /\ x > 0
    /\ x <= Remaining(ledger[a])

\* One request is out at a time (a bound; EvidenceForm has several).
SubmitRequest ==
    /\ selected # NoAgreement
    /\ amount # NoAmount
    /\ ~disabled
    /\ sending = {}
    /\ sending' = {<<selected, amount>>}
    /\ UNCHANGED <<spendLedgerVars, listVars, selected, amount, disabled,
                   warningVars>>

\* Once it is recorded the form is cleared, whatever it holds by then.
RequestRecorded(r) ==
    /\ Accepts(r[1], r[2])
    /\ loads < MaxLoads
    /\ sending' = {}
    /\ amount' = NoAmount
    /\ Unpick
    /\ loads' = loads + 1
    /\ reading' = reading \cup {<<>>}
    /\ UNCHANGED <<loaded, spendLedgerVars, asked, checks>>

\* Refused, or its answer lost: the form stays as it is.
RequestFails(r) ==
    /\ sending' = {}
    /\ UNCHANGED <<spendLedgerVars, listVars, selected, amount, disabled,
                   warningVars>>

SpendFormNext ==
    \/ \E a \in Agreements : LedgerMoves(a)
    \/ BeginLoad
    \/ \E l \in reading :
            ShowList(l) \/ \E a \in Agreements : ReadAgreement(l, a)
    \/ \E a \in Fundable : PickFundable(a)
    \/ \E x \in FormAmounts : TypeAmount(x)
    \/ \E c \in checks : ServerChecks(c) \/ CheckAnswered(c)
    \/ \E a \in Agreements, b \in FormBudgets : SubmitBudget(a, b)
    \/ SubmitRequest
    \/ \E r \in sending : RequestRecorded(r) \/ RequestFails(r)

SpendFormSpec == SpendFormInit /\ [][SpendFormNext]_spendFormVars

-----------------------------------------------------------------------------
(* Properties. *)

\* The check that mirrors the contract's never stands in the way of a
\* request the contract would take, however old the list is and in whatever
\* order two loads of it arrived; and while the list agrees with the ledger
\* it catches every request that is over budget.
BudgetMirrored ==
    selected # NoAgreement /\ amount # NoAmount =>
        /\ disabled => amount > Remaining(ledger[selected])
        /\ loaded[selected] = ledger[selected] /\ amount > 0
                => (disabled <=> ~Accepts(selected, amount))

\* Whatever the spend form offers is finalised and budgeted on the ledger
\* for good, so an old list can miss an agreement but never offer a wrong
\* one.
OfferedIsFundable ==
    \A a \in Fundable : /\ ledger[a].finalised
                        /\ ledger[a].budget = loaded[a].budget

\* When every compliance check has been answered and none was lost, the
\* warning is up if the agreement picked was failing when it was picked,
\* in whatever order the answers for earlier picks came.  (The warning may
\* be up without reason: an answer for an agreement picked before it.)
WarningNeverMissing ==
    checks = {} /\ known /\ ~lost => warned

=============================================================================
