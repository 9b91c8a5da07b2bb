------------------------------ MODULE WriteOnce ------------------------------
(***************************************************************************)
(* What the API promises the clients about the writes it takes, without    *)
(* nonces, transactions, nodes or a log: a write is performed at most once,*)
(* and only if who asks for it may; a confirmed write is performed, a      *)
(* refused one never is, and of one given up nothing is said.              *)
(***************************************************************************)
EXTENDS Integers

CONSTANTS
    Requests,
    Writes,     \* what a request may ask for: a role and an operation
    Permitted,  \* those the role may perform
    Signer      \* permitted write -> the account in whose name it is done

VARIABLES
    asked,  \* request -> what it asked for, <<>> before it did
    told,   \* request -> "nothing", "open", "done", "refused" or "unsure"
    done    \* the writes performed

vars == <<asked, told, done>>

Init ==
    /\ asked = [r \in Requests |-> <<>>]
    /\ told = [r \in Requests |-> "nothing"]
    /\ done = {}

Entry(r) == [of |-> r, signer |-> Signer[asked[r]], op |-> asked[r][2]]

Performed(r) == \E e \in done : e.of = r

Ask(r, write, answer) ==
    /\ told[r] = "nothing"
    /\ write \in Permitted \/ answer = "refused"
    /\ asked' = [asked EXCEPT ![r] = write]
    /\ told' = [told EXCEPT ![r] = answer]
    /\ UNCHANGED done

\* A write that was given up may still be performed.
Perform(r) ==
    /\ told[r] \in {"open", "unsure"}
    /\ asked[r] \in Permitted
    /\ ~Performed(r)
    /\ done' = done \cup {Entry(r)}
    /\ UNCHANGED <<asked, told>>

Confirm(r) ==
    /\ told[r] = "open"
    /\ Performed(r)
    /\ told' = [told EXCEPT ![r] = "done"]
    /\ UNCHANGED <<asked, done>>

Refuse(r) ==
    /\ told[r] = "open"
    /\ ~Performed(r)
    /\ told' = [told EXCEPT ![r] = "refused"]
    /\ UNCHANGED <<asked, done>>

GiveUp(S) ==
    /\ \A r \in S : told[r] = "open"
    /\ told' = [r \in Requests |-> IF r \in S THEN "unsure" ELSE told[r]]
    /\ UNCHANGED <<asked, done>>

Next ==
    \/ \E r \in Requests :
            \/ \E write \in Writes, answer \in {"open", "refused", "unsure"} :
                    Ask(r, write, answer)
            \/ Perform(r)
            \/ Confirm(r)
            \/ Refuse(r)
    \/ \E S \in SUBSET Requests : GiveUp(S)

Spec == Init /\ [][Next]_vars

=============================================================================
