---- MODULE MCContextPlugin ----
EXTENDS ContextPlugin

CONSTANTS v1, bad

SomeKeys == 1 .. 3
====
