------------------------------ MODULE MCEngine ------------------------------
(* A model-checking instance of Engine.                                    *)
EXTENDS Engine

CONSTANTS p1, p2, s1, m1, x1, x2

\* Two callers without an operator and with store calls that fail, or one and a
\* store that works, without an LLM or with a classifier; or an LLM, one caller,
\* the operator and two reloaders.
MCSetups ==
    [llm : {"off", "classifier"}, callers : {{p1, p2}}, reloaders : {{x1}},
     fails : {TRUE}, operator : {FALSE}]
    \cup [llm : {"off", "classifier"}, callers : {{p1}}, reloaders : {{x1}},
          fails : {FALSE}, operator : {FALSE}]
    \cup [llm : {"on"}, callers : {{p1}}, reloaders : {{x1, x2}},
          fails : {FALSE}, operator : {TRUE}]

\* Two callers whose comparisons overlap.
OverlapSetups ==
    [llm : {"on"}, callers : {{p1, p2}}, reloaders : {{x1}}, fails : {FALSE}, operator : {FALSE}]
=============================================================================
