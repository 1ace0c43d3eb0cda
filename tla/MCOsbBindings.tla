---- MODULE MCOsbBindings ----
EXTENDS OsbBindings, TLC

CONSTANTS b1, o1, o2, r1, r2, r3, r4, w1, w2

(* binds and unbinds of one binding, and a bind of another offer *)
BindingMenu ==
    [r \in Requests |-> [op : {"bind", "unbind"}, id : {b1}, offer : {o1}]
                          \cup [op : {"bind"}, id : {b1}, offer : {o2}]]

BindingSymmetry == Permutations(Requests) \cup Permutations(Workers)
====
