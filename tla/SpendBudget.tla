---------------------------- MODULE SpendBudget ----------------------------
(***************************************************************************)
(* What the contracts promise about money, without a running total: the    *)
(* requests approved against an agreement never add up to more than its    *)
(* budget, which is fixed before the first request is raised, and a        *)
(* request goes from pending to approved to spent and never back.          *)
(***************************************************************************)
EXTENDS Integers, FiniteSetsExt

CONSTANTS Agreements, Requests

VARIABLES
    budget,  \* agreement -> its budget
    locked,  \* agreements whose budget is fixed
    stage,   \* request -> "none", "pending", "approved" or "spent"
    charge   \* request -> agreement and amount it was raised for

vars == <<budget, locked, stage, charge>>

NoCharge == [agreement |-> 0, amount |-> 0]

Init ==
    /\ budget = [a \in Agreements |-> 0]
    /\ locked = {}
    /\ stage = [q \in Requests |-> "none"]
    /\ charge = [q \in Requests |-> NoCharge]

Granted(a) ==
    {q \in Requests : /\ charge[q].agreement = a
                      /\ stage[q] \in {"approved", "spent"}}

Available(a) ==
    budget[a] - MapThenSumSet(LAMBDA q : charge[q].amount, Granted(a))

SetBudget(a) ==
    /\ a \notin locked
    /\ budget'[a] \in Nat
    /\ budget' = [budget EXCEPT ![a] = budget'[a]]
    /\ UNCHANGED <<locked, stage, charge>>

Lock(a) ==
    /\ locked' = locked \cup {a}
    /\ UNCHANGED <<budget, stage, charge>>

Raise(q, a, m) ==
    /\ stage[q] = "none"
    /\ a \in locked
    /\ m \in 1 .. Available(a)
    /\ stage' = [stage EXCEPT ![q] = "pending"]
    /\ charge' = [charge EXCEPT ![q] = [agreement |-> a, amount |-> m]]
    /\ UNCHANGED <<budget, locked>>

Approve(q) ==
    /\ stage[q] = "pending"
    /\ charge[q].amount <= Available(charge[q].agreement)
    /\ stage' = [stage EXCEPT ![q] = "approved"]
    /\ UNCHANGED <<budget, locked, charge>>

Settle(q) ==
    /\ stage[q] = "approved"
    /\ stage' = [stage EXCEPT ![q] = "spent"]
    /\ UNCHANGED <<budget, locked, charge>>

Next ==
    \/ \E a \in Agreements : SetBudget(a) \/ Lock(a)
    \/ \E q \in Requests :
            \/ \E a \in Agreements : \E m \in 1 .. budget[a] : Raise(q, a, m)
            \/ Approve(q)
            \/ Settle(q)

Spec == Init /\ [][Next]_vars

=============================================================================
