------------------------------- MODULE MCHops -------------------------------
(***************************************************************************)
(* Two networks apart from each other.  In the chain, the host h0 and the  *)
(* hosts h2 and gw are separated by the routers A and B; in the ring, the  *)
(* routers C and D both join segments 3 and 4 and send what they do not    *)
(* know to each other, so that a packet from h3 may go round.              *)
(***************************************************************************)
EXTENDS Hops

CONSTANTS A, B, h0, a0, a1, b1, b2, h2, gw, spare,
          C, D, h3, c3, c4, d3, d4,
          out

Nodes == {h0, a0, a1, b1, b2, h2, gw, spare, h3, c3, c4, d3, d4, out}
Ports == Nodes \ {out, spare}

Subnets ==
    [a \in Nodes |-> CASE a \in {h0, a0} -> 0 [] a \in {a1, b1, spare} -> 1
                       [] a \in {b2, h2, gw} -> 2
                       [] a \in {h3, c3, d3} -> 3 [] a \in {c4, d4} -> 4
                       [] OTHER -> 5]

Joined(r) == CASE r = A -> <<a0, a1>> [] r = B -> <<b1, b2>>
               [] r = C -> <<c3, c4>> [] r = D -> <<d4, d3>>

Devices == [r \in Router |-> [d \in Dev |-> Joined(r)[d + 1]]]
Nexts   == [r \in Router |-> CASE r = A -> b1 [] r = B -> gw [] r = C -> d4 [] r = D -> c3]

=============================================================================
