--------------------------- MODULE MCTrafficPolling ---------------------------
(***************************************************************************)
(* Instances of TrafficPolling for TLC.                                    *)
(***************************************************************************)
EXTENDS TrafficPolling, TLC

CONSTANTS c1, c2, c3, c4, u1, u2, a, b, p1, p2, p3, d1, d2

MCGuardOf == [n \in Nodes |-> IF n = 1 THEN d1 ELSE d2]

\* Two beginnings: a panel with one user, on nodes that keep their address; nodes
\* edited under the polls of a panel whose users have all been deleted.
OneUser == [Nobody EXCEPT ![a] = u1]

MCPollingInit ==
  /\ PollingInit
  /\ served = [n \in Nodes |-> owner]
  /\ \/ /\ owner = OneUser
        /\ had = [x \in Names |-> {owner[x]} \ {None}]
        /\ \A n \in Nodes : target[n] + 1 \notin Targets
     \/ /\ owner = Nobody
        /\ had = [x \in Names |-> Users]
        /\ \A n \in Nodes : target[n] - 1 \notin Targets

(***************************************************************************)
(* Bounds of the first beginning: operators take one step (the user is     *)
(* renamed or deleted, or another one created), a push leaves those of the *)
(* table on the node, and connections break only under edited nodes (here  *)
(* a query fails, or its answer is lost).                                  *)
(***************************************************************************)
PollingBounds ==
  /\ owner' # owner => owner = OneUser
  /\ served' # served => \A n \in Nodes : served'[n] = owner
  /\ Undisputed # {} => \A c \in Clients : conn'[c].state # "dead"

MCPollingSpec == MCPollingInit /\ [][PollingNext]_allVars

Symmetry == Permutations(Clients) \cup Permutations(Polls)
=============================================================================
