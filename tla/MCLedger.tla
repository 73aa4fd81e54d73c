------------------------------- MODULE MCLedger -------------------------------
(***************************************************************************)
(* Instances of Ledger for TLC: months of two days, days of two ticks.     *)
(***************************************************************************)
EXTENDS Ledger, TLC

CONSTANTS h1, h2, u1

MCResetDay == [u \in Users |-> 2]
MCLimit    == [u \in Users |-> 1]

MCMonthOf  == [d \in Days |-> (d - 1) \div 2]
MCFirstDay == [m \in Months |-> 2 * m + 1]

Symmetry == Permutations(Handlers)
=============================================================================
