------------------------------ MODULE MCGroup ------------------------------
(***************************************************************************)
(* Two processes that share a group, or the memory behind the values of    *)
(* one, for TLC: a behaviour uses one of them.                             *)
(***************************************************************************)
EXTENDS Group, Sinks, TLC

CONSTANTS p1, p2, k1, k2, k3

VARIABLE used    \* what this behaviour uses

\* k1 is p2's, at a point that p1 hashes to as well; k2 and k3 are p1's, k3
\* because the ring goes round.
KeyPoints  == (k1 :> 15) @@ (k2 :> 5) @@ (k3 :> 25)
PeerPoints == (p1 :> {10, 20}) @@ (p2 :> {20})

\* k1 is less than an eighth of k2 and k3 together, but not of one of them.
Sizes == (k1 :> 1) @@ (k2 :> 4) @@ (k3 :> 7)

Homes == [c \in Callers |-> p1]

Lists == {<<p1, p2>>}

\* A value that is longer than the clients' slices, and one that is shorter and
\* no message.
Long  == <<1, 2, 3>>
Short == <<1>>

Values    == {Short, Long}
NoMessage == {Short}
Middle    == {[from |-> 1, to |-> 3]}

MCInit == used \in {"group", "memory"} /\ Init /\ SinksInit

UseGroup  == used = "group"  /\ Next        /\ UNCHANGED <<used, sinkVars>>
UseMemory == used = "memory" /\ SinksNext /\ UNCHANGED <<used, vars>>

MCNext == UseGroup \/ UseMemory

\* What is not used has no step to take.
MCFairSpec == MCInit /\ [][MCNext]_<<used, vars, sinkVars>> /\ Fairness

=============================================================================
