---- MODULE MCOsbInstances ----
EXTENDS OsbInstances, TLC

CONSTANTS i1, i2, s1, s2, p1, p2, k1, v1, num, bad, r1, r2, r3, r4, w1, w2

Empty == [k \in ParamKeys |-> Missing]
Given(v) == [Empty EXCEPT ![k1] = v]
MkCall(op, i, plan, params) ==
    [op |-> op, inst |-> i, async |-> TRUE,
     config |-> [service |-> s1, plan |-> plan, params |-> params]]

(* parameters with a number in them, as in the README's example *)
AnyCall == {MkCall("provision", i1, p1, Given(num)),
            MkCall("update", i1, p2, Given(v1)),
            MkCall("deprovision", i1, p1, Empty)}
OddCall == {MkCall("update", i1, Missing, Given(bad))}
PlainUpdate == {MkCall("update", i1, p2, Empty)}
(* two updates that differ, so that it shows which one was applied last *)
KeepPlan == {MkCall("update", i1, Missing, Given(v1))}
FaultyMenu == [r \in Requests |-> AnyCall \cup KeepPlan]

(* for a platform that waits: also refused, mismatched and replayed calls *)
Careless == {[MkCall("update", i1, p2, Empty) EXCEPT !.async = FALSE],
             MkCall("deprovision", i1, p2, Empty),
             [MkCall("update", i1, Missing, Given(v1)) EXCEPT !.config.service = s2],
             MkCall("provision", i1, p2, Given(v1))}
SerialMenu == [r \in Requests |-> AnyCall \cup OddCall \cup PlainUpdate \cup Careless]

(* for the temporal properties: no symmetry *)
LivenessMenu == [r \in Requests |->
    IF r = r1 THEN {MkCall("provision", i1, p1, Given(num))}
    ELSE AnyCall \cup OddCall \cup PlainUpdate]

(* nothing goes wrong and every call is in order *)
StuckMenu == [r \in Requests |->
    IF r = r1 THEN {MkCall("provision", i1, p1, Given(num))} ELSE PlainUpdate]

RequestSymmetry == Permutations(Requests) \cup Permutations(Workers)
====
