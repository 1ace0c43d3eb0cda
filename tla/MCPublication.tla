---- MODULE MCPublication ----
EXTENDS Publication

CONSTANTS i1, i2
====
