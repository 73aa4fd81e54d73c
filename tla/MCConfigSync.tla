----------------------------- MODULE MCConfigSync -----------------------------
(***************************************************************************)
(* Instances of ConfigSync for TLC.  Two handlers serve requests without   *)
(* end, so every pair of requests of an instance meets in every order of   *)
(* their steps.                                                            *)
(***************************************************************************)
EXTENDS ConfigSync, TLC

CONSTANTS u1, u2, a, b, c, plain, marked, i1, s1, s2, h1, h2

MCInboundNode == [i \in Inbounds |-> 1]

Update(u, name, enabled, limit, note) ==
  [kind |-> "update", user |-> u, name |-> name, enabled |-> enabled,
   limit |-> limit, note |-> note]
UpdateWithAccess(u, name, enabled, limit, note, ns) ==
  [kind |-> "updateWithAccess", user |-> u, name |-> name, enabled |-> enabled,
   limit |-> limit, note |-> note, nodes |-> ns]
AccessEdit(kind, u, ns) == [kind |-> kind, user |-> u, nodes |-> ns]
UserEdit(kind, u) == [kind |-> kind, user |-> u]
InboundEdit(kind, i, s) == [kind |-> kind, inbound |-> i, setting |-> s]
PushNodes(ns) == [kind |-> "push", nodes |-> ns]

\* Accounts come and go and take each other's names while edits are rolled
\* back.
AccountRequests ==
  {Update(u1, b, Keep, 0, plain), Update(u2, a, 1, Keep, Keep), UserEdit("reset", u1),
   AccessEdit("grant", u2, {1, 2}), UserEdit("delete", u2)}

\* One request of each shape of handler, for the run with a failing store, a
\* crashing panel and a node of another proxy type.
FaultRequests ==
  {UpdateWithAccess(u1, Keep, 1, 0, marked, {1, 2}), AccessEdit("revoke", u1, {1}),
   UserEdit("delete", u1),
   InboundEdit("createInbound", i1, s1), InboundEdit("deleteInbound", i1, s1),
   InboundEdit("retarget", i1, s2), PushNodes({1})}

\* Two operators edit the assignments of the same user.
SameUserRequests ==
  {AccessEdit("grant", u1, {2}), UpdateWithAccess(u1, Keep, Keep, Keep, Keep, {1})}

\* Only the SNI of an inbound changes.
RetargetRequests == {InboundEdit("retarget", i1, s2), PushNodes({1})}

Account(name, limit, used) ==
  [name |-> name, enabled |-> 1, limit |-> limit, used |-> used, note |-> plain]

\* The accounts before the first request: u1 is at its limit, u2 has none.
MCInit ==
  /\ Init
  /\ life[u1] = "live"
  /\ row[u1] = Account(a, 1, 1)
  /\ access[u1] = {1}
  /\ \A u \in Users \ {u1} :
       /\ life[u] = "live" /\ access[u] = {1}
       /\ row[u] = Account(b, 0, 0)

\* u2 has not been created yet.
NewUserInit ==
  /\ Init
  /\ life[u1] = "live" /\ life[u2] = "new"
  /\ \A u \in Users : row[u] = Account(a, 0, 0)
  /\ access[u1] = {1}

\* u1 is served on node 1.
ServedInit ==
  /\ Init
  /\ life[u1] = "live" /\ access[u1] = {1}
  /\ row[u1] = Account(a, 0, 0)

MCSpec      == MCInit /\ [][Next]_vars
NewUserSpec == NewUserInit /\ [][Next]_vars
FairNewUserSpec == NewUserSpec /\ Fairness
ServedSpec  == ServedInit /\ [][Next]_vars
=============================================================================
