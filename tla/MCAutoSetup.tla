----------------------------- MODULE MCAutoSetup ------------------------------
(***************************************************************************)
(* Instances of AutoSetup for TLC: two setups of one node, one after the   *)
(* other or side by side.                                                  *)
(***************************************************************************)
EXTENDS AutoSetup, TLC

CONSTANTS j1, j2, dA, dB, s1

NoPorts == [p \in Protocols |-> 0]

Ask(mode, protocols, d) ==
  [mode |-> mode, protocols |-> protocols, domain |-> d, profile |-> None,
   sni |-> None, ports |-> NoPorts]

\* What the modes suggest, and a migration to another domain.
SuggestedRequests ==
  {[Ask("auto", <<>>, None) EXCEPT !.profile = "salamander"],
   Ask("cdn", <<>>, dB), Ask("auto", <<"hysteria2">>, dB)}

\* Protocols an operator lists in an order of their own.
ListedRequests == {Ask("auto", <<"vless-reality", "vless-httpupgrade">>, dA)}

MCConventional == <<443, 8443, 2053>>
MCForeign      == [l \in {"tcp", "udp"} |-> IF l = "tcp" THEN {8443} ELSE {}]

Fresh == [i \in Ids |-> NoRow]
RealityOnly ==
  [Fresh EXCEPT ![1] = [proto |-> "vless-reality", port |-> 443, domain |-> dA,
                        sni |-> s1, profile |-> None,
                        secret |-> <<"issued", "vless-reality">>]]
MCTables    == {Fresh, RealityOnly}

\* A new node has no domain; the one with a Reality inbound has.
MCInit == Init /\ domain = IF rows = Fresh THEN None ELSE dA
MCSpec == MCInit /\ [][Next]_vars

Symmetry == Permutations(Jobs)
=============================================================================
