---- MODULE MCDemoBackends ----
EXTENDS DemoBackends, TLC

CONSTANTS r1, r2, r3, r4, r5, r6, main, dev

(* r1 creates a row that refers to nothing, of a parent table or another.  *)
(* r2 to r5 create rows that refer to the one of r1, and r6 lists.         *)
SomeMenu ==
    [r \in Requests |->
        IF r = r1 THEN {c \in Creates : c.ref = NoRef}
        ELSE IF r = r6 THEN {c \in Lists : c.ref \in {NoRef, r1}}
        ELSE {c \in Creates : c.ref = r1}]

Symmetry == Permutations({r2, r3, r4, r5}) \cup Permutations({main, dev})
====
