---- MODULE MCAuthSidecar ----
EXTENDS AuthSidecar

CONSTANTS k1, c1, c2, c3

(* retired early, published late, for a moment *)
SomeLives == {[from |-> 0, until |-> 1],
              [from |-> 2, until |-> 9], [from |-> 1, until |-> 2]}

====
