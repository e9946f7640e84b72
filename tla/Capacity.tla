------------------------------ MODULE Capacity ------------------------------
(***************************************************************************)
(* Capacities added up.  A capacity of n is n units, so that the sum of    *)
(* the capacities of several holders is the number of units they hold.     *)
(***************************************************************************)
EXTENDS Integers, FiniteSets

\* The units that the holders in S have, where h has capacity[h] of them.
Units(capacity, S) == UNION {{h} \X (1 .. capacity[h]) : h \in S}

Total(capacity, S) == Cardinality(Units(capacity, S))
=============================================================================
