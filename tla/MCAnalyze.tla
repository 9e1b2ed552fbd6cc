----------------------------- MODULE MCAnalyze -----------------------------
(***************************************************************************)
(* Frames on both sides of every length that is tested: without options,   *)
(* with one word of them, with more than there is room for, and with an    *)
(* ihl too small to hold the header.                                       *)
(***************************************************************************)
EXTENDS Analyze

Plain == [size |-> 60, type |-> "other", ihl |-> 5, totLen |-> 20, proto |-> "other",
          head |-> 0, pseudo |-> 0, data |-> 0, check |-> FALSE]

Link == {[Plain EXCEPT !.size = s, !.type = t] :
            s \in {10, 14, 41, 42, 60}, t \in {"arp", "other"}}

Ip6 == {[Plain EXCEPT !.size = s, !.type = "ipv6", !.ihl = i, !.head = h] :
            s \in {33, 54, 74}, i \in {0, 6}, h \in Residue}

Ip4 == [size : {33, 37, 42, 54, 58, 62}, type : {"ip"}, ihl : {4, 5, 6, 15},
        totLen : {16, 20, 24, 28, 40, 44}, proto : {"icmp", "tcp", "udp", "other"},
        head : {0, 1}, pseudo : {0, 1}, data : Residue, check : BOOLEAN]

(* The check field is a field of UDP alone, and a pseudo header of both.   *)
Frames == Link \cup Ip6 \cup {f \in Ip4 : f.proto # "udp" => ~f.check}

(* On both sides of the end of every table. *)
Values == 0..24

=============================================================================
