----------------------------- MODULE NodePanel ------------------------------
(***************************************************************************)
(* The network integrity panel of the overview page                        *)
(* (dashboard/js/views/overview.js) and the comparison of the nodes behind *)
(* it (getNodeStates of api/lib/chain.js): every node is asked for its     *)
(* height, then, once all have answered or failed, every one that answered *)
(* for its block at the lowest of those heights.  The nodes go on minting  *)
(* between the two rounds.                                                 *)
(*                                                                         *)
(* A node is on the main chain or, from block ForkAt on, on the other side, *)
(* until it is made to resync (blockchain/tamper-demo.sh).                 *)
(***************************************************************************)
EXTENDS Integers, FiniteSets, FiniteSetsExt

CONSTANTS
    NodeCount,   \* the nodes, in the order the API is configured with
    ForkAt,      \* height of the first block the two sides differ in
    Starts,      \* heights the nodes may have when the page is opened
    MaxMinted,   \* bound: blocks the nodes add to that, taken together
    MaxPolls     \* bound: refreshes of the panel

ASSUME PanelAssumption ==
    /\ NodeCount \in Nat \ {0}
    /\ Starts \cup {ForkAt, MaxMinted, MaxPolls} \subseteq Nat

Nodes == 1 .. NodeCount

Unanswered == -1   \* the call failed
Waiting == -2
NoBlock == -3      \* the node has no block at that height

VARIABLES
    forked,   \* the nodes on the other side
    rejoined, \* ghost: those that have resynced since the refresh began
    height,   \* node -> height of its chain
    minted,   \* blocks added so far
    phase,    \* the round the refresh is in
    polls,    \* refreshes begun so far
    heights,  \* node -> the height it answered
    blocks    \* node -> the block it answered

panelVars ==
    <<forked, rejoined, height, minted, phase, polls, heights, blocks>>

\* A block is its height and the side it is on.
Block(n, h) == IF n \in forked /\ h >= ForkAt THEN 2 * h + 1 ELSE 2 * h

PanelTypeOK ==
    /\ forked \cup rejoined \subseteq Nodes
    /\ height \in [Nodes -> Nat]
    /\ minted \in 0 .. MaxMinted
    /\ phase \in {"idle", "heights", "blocks", "shown"}
    /\ polls \in 0 .. MaxPolls
    /\ heights \in [Nodes -> {Waiting, Unanswered} \cup Nat]
    /\ blocks \in [Nodes -> {Waiting, Unanswered, NoBlock} \cup Nat]

PanelInit ==
    /\ forked \in SUBSET Nodes
    /\ rejoined = {}
    /\ height \in [Nodes -> Starts]
    /\ minted = 0
    /\ phase = "idle"
    /\ polls = 0
    /\ heights = [n \in Nodes |-> Waiting]
    /\ blocks = [n \in Nodes |-> Waiting]

MintBlock(n) ==
    /\ minted < MaxMinted
    /\ minted' = minted + 1
    /\ height' = [height EXCEPT ![n] = @ + 1]
    /\ UNCHANGED <<forked, rejoined, phase, polls, heights, blocks>>

\* A diverged node drops its own blocks for the majority's.
Resync(n) ==
    /\ n \in forked
    /\ forked' = forked \ {n}
    /\ rejoined' = rejoined \cup {n}
    /\ UNCHANGED <<height, minted, phase, polls, heights, blocks>>

\* renderIntegrity, at once and then every four seconds.
BeginPoll ==
    /\ phase \in {"idle", "shown"}
    /\ polls < MaxPolls
    /\ polls' = polls + 1
    /\ phase' = "heights"
    /\ heights' = [n \in Nodes |-> Waiting]
    /\ blocks' = [n \in Nodes |-> Waiting]
    /\ rejoined' = {}
    /\ UNCHANGED <<forked, height, minted>>

AnswerHeight(n) ==
    /\ phase = "heights"
    /\ heights[n] = Waiting
    /\ heights' = [heights EXCEPT ![n] = height[n]]
    /\ UNCHANGED <<forked, rejoined, height, minted, phase, polls, blocks>>

FailHeight(n) ==
    /\ phase = "heights"
    /\ heights[n] = Waiting
    /\ heights' = [heights EXCEPT ![n] = Unanswered]
    /\ UNCHANGED <<forked, rejoined, height, minted, phase, polls, blocks>>

\* The first round is over when every node has answered or failed.
AskBlocks ==
    /\ phase = "heights"
    /\ \A n \in Nodes : heights[n] # Waiting
    /\ phase' = "blocks"
    /\ UNCHANGED <<forked, rejoined, height, minted, polls, heights, blocks>>

Reachable == {n \in Nodes : heights[n] >= 0}

MaxReached == Max({heights[n] : n \in Reachable})

\* Mutant: the blocks are compared at the highest height.
HighestHeight == Max({heights[n] : n \in Reachable})

CommonHeight == Min({heights[n] : n \in Reachable})

AnswerBlock(n) ==
    /\ phase = "blocks"
    /\ n \in Reachable
    /\ blocks[n] = Waiting
    /\ blocks' = [blocks EXCEPT ![n] = IF height[n] >= CommonHeight
                                       THEN Block(n, CommonHeight)
                                       ELSE NoBlock]
    /\ UNCHANGED <<forked, rejoined, height, minted, phase, polls, heights>>

FailBlock(n) ==
    /\ phase = "blocks"
    /\ n \in Reachable
    /\ blocks[n] = Waiting
    /\ blocks' = [blocks EXCEPT ![n] = Unanswered]
    /\ UNCHANGED <<forked, rejoined, height, minted, phase, polls, heights>>

ShowStates ==
    /\ phase = "blocks"
    /\ \A n \in Reachable : blocks[n] # Waiting
    /\ phase' = "shown"
    /\ UNCHANGED <<forked, rejoined, height, minted, polls, heights, blocks>>

-----------------------------------------------------------------------------
(* What the panel says of the answers. *)

Answered == {n \in Reachable : blocks[n] >= 0}

\* Those whose second call did not fail either.
Heard == {n \in Reachable : blocks[n] # Unanswered}

Supporters(b) == {n \in Answered : blocks[n] = b}

\* The block most nodes answered; among equals the one that reached its
\* count first, in the order of the nodes.
MajorityBlock ==
    LET Votes(k, b) == Cardinality({n \in Supporters(b) : n <= k})
        most == Max({Cardinality(Supporters(blocks[n])) : n \in Answered})
        first == Min({k \in Answered : Votes(k, blocks[k]) = most})
    IN  blocks[first]

Status(n) ==
    IF n \notin Reachable THEN "down"
    ELSE IF n \in Answered /\ blocks[n] # MajorityBlock THEN "fork"
    ELSE IF MaxReached - heights[n] > 2 THEN "behind"
    ELSE "sync"

InSync == \A n \in Nodes : Status(n) = "sync"

PanelNext ==
    \/ \E n \in Nodes :
            \/ MintBlock(n)
            \/ Resync(n)
            \/ AnswerHeight(n)
            \/ FailHeight(n)
            \/ AnswerBlock(n)
            \/ FailBlock(n)
    \/ BeginPoll
    \/ AskBlocks
    \/ ShowStates

PanelSpec == PanelInit /\ [][PanelNext]_panelVars

-----------------------------------------------------------------------------
(* Properties. *)

\* Two nodes that answered both rounds and whose chains differ at the lowest
\* of the heights are never both shown in sync, and the panel as a whole is
\* not, although the nodes have moved on to other heights by then (nodes
\* that resynced meanwhile aside).
ForkNoticed ==
    phase = "shown" =>
        \A m, n \in Heard \ rejoined :
            Block(m, Min({heights[k] : k \in Reachable}))
                # Block(n, Min({heights[k] : k \in Reachable}))
            => /\ ~InSync
               /\ "fork" \in {Status(m), Status(n)}

\* When the nodes that were on the main chain all along are the majority of
\* those that answered, the panel accuses none of them, however far below
\* the others they are: a lower node is never taken for a diverged one.
MainNeverAccused ==
    LET main == Nodes \ (forked \cup rejoined)
    IN  /\ phase = "shown"
        /\ 2 * Cardinality(main \cap Answered) > Cardinality(Answered)
        => \A n \in main : Status(n) # "fork"

\* The panel tells a diverged node from one that is merely behind, although
\* heights and blocks are asked for one after the other (chain.js:385).
PanelTellsForks == ForkNoticed /\ MainNeverAccused

=============================================================================
