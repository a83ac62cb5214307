------------------------------ MODULE MCRules ------------------------------
(* Model-checking instance of Rules.                                       *)
EXTENDS Rules

CONSTANTS s1, a1, m1, m2, d0, d1, bad, g1, i1

MinedOne == <<m1>>
MinedTwo == <<m1, m2>>

\* A batch that overrides a seed, and an import that brings its own definition
\* back.
Kinds == [j \in Jobs |-> IF j = i1 THEN "import" ELSE "gate"]
Specs == [j \in Jobs |-> IF j = g1 THEN <<[name |-> a1, def |-> d1], [name |-> s1, def |-> d1]>>
                         ELSE <<[name |-> s1, def |-> d0]>>]
=============================================================================
