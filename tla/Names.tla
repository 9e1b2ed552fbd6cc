------------------------------- MODULE Names -------------------------------
(***************************************************************************)
(* The frame printer's names for types, operations and protocols           *)
(* (pcap/print.c): tables that are indexed by a field of a header, after a *)
(* test of the field against a number that is written down a second time.  *)
(*                                                                         *)
(* A name is the text of the table where the properties tell names apart,  *)
(* and "undefine" for the texts "undefine" and "undifined".                *)
(***************************************************************************)
EXTENDS Integers, Sequences

None == "undefine"

Unnamed(n) == [i \in 1..n |-> None]

(* static char *hrd[] *)
Hrd ==
    <<"NET/ROM", "Ethernet", "Experimental Ethernet", "AX.25", "PROnet", "Chaosnet",
      "IEEE 802.2", "ARCnet", "APPLEtalk">>
    \o Unnamed(6) \o <<"Frame Relay DLCI">> \o Unnamed(3) \o <<"ATM">> \o Unnamed(3)
    \o <<"Metricom STRIP">>

(* static char *op[] *)
Op ==
    <<None, "ARP request", "ARP reply", "RARP request", "RARP reply", None, None, None,
      "InARP request", "InARP reply", "ARP NAK">>

(* Mistake: the entry of a number without a name is left out. *)
ProtoShort ==
    <<None, "ICMP", "IGMP", "IPIP", None, "TCP", None, "EGP">> \o Unnamed(3) \o <<"PUP">>
    \o Unnamed(4) \o <<"UDP">>

(* static char *Proto[] *)
Proto ==
    <<None, "ICMP", "IGMP", None, "IPIP", None, "TCP", None, "EGP">> \o Unnamed(3) \o <<"PUP">>
    \o Unnamed(4) \o <<"UDP">>

(* static char *icmp_type[]: two strings without a comma are one. *)
IcmpType ==
    <<"Echo Reply", None, None, "Destination Unreachable", "Source Quench", "Redirect",
      None, None, "Echo Request", "Router Adverisment", "Router Selection",
      "Time Exceeded", "Parameter Problem", "Timestamp Request", "Timestamp Reply",
      "Information RequestInformation Reply", "Address Mask Request",
      "Address Mask Reply">>

Table(w) ==
    CASE w = "hrd" -> Hrd [] w = "op" -> Op [] w = "proto" -> Proto [] w = "icmp" -> IcmpType

(* The number the field is tested against. *)
Limit(w) == CASE w = "hrd" -> 23 [] w = "op" -> 10 [] w = "proto" -> 17 [] w = "icmp" -> 18

(* The text of entry i of a C array, or "memory" for whatever is behind it. *)
At(t, i) == IF i < Len(t) THEN t[i + 1] ELSE "memory"

(* What is printed for the value i. *)
LookUp(w, i) == IF i <= Limit(w) THEN At(Table(w), i) ELSE None

=============================================================================
