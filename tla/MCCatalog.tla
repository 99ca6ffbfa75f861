------------------------------ MODULE MCCatalog ------------------------------
(* Catalog with a topic of two queries and one that shares one of them. *)
EXTENDS Catalog

CONSTANTS t1, t2, q1, q2, u1, u2

MCPool == [t \in Task |-> IF t = t1 THEN {q1, q2} ELSE {q2}]
=============================================================================
