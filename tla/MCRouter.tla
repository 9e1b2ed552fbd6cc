------------------------------ MODULE MCRouter -----------------------------
(***************************************************************************)
(* Small instances of the two threads.                                     *)
(***************************************************************************)
EXTENDS RouterProps

CONSTANTS a1, a2, m1, m2, f1, f2, f3

(* One next hop. *)
OneWay     == [f \in Frame |-> 0]
OneHost    == {<<1, a1, m1>>}
AllToOne   == [f \in Frame |-> a1]
FirstIsBig == [f \in Frame |-> IF f = f1 THEN 2 ELSE 1]

(* Two next hops, which may come to use each other's slots. *)
TwoHosts   == {<<1, a1, m1>>, <<1, a2, m2>>}
OneEach    == [f \in Frame |-> IF f = f1 THEN a1 ELSE a2]

(* Frames in both directions. *)
BothWays   == [f \in Frame |-> IF f = f2 THEN 1 ELSE 0]
HostEach   == {<<0, a1, m1>>, <<1, a1, m2>>}

=============================================================================
