------------------------------- MODULE Ip2Mac ------------------------------
(***************************************************************************)
(* The ARP table of one device as a state machine: the calls of Ip2Mac     *)
(* that the router's main thread makes, and the clock.  Only the main      *)
(* thread calls Ip2Mac, so a call is one step of the table.                *)
(***************************************************************************)
EXTENDS Ip2MacTable

VARIABLE tbl

Init == tbl = EmptyTable

(* Ip2Mac(deviceNo, a, NULL), made to forward a frame. *)
Lookup(a) ==
    /\ HasRoom(tbl, a, NoMac)
    /\ tbl' = Searched(tbl, a, NoMac)

(* Ip2Mac(deviceNo, a, m), made for a received ARP request or reply. *)
Learn(a, m) ==
    /\ HasRoom(tbl, a, m)
    /\ tbl' = Searched(tbl, a, m)

(* A second passes. *)
Tick == tbl' = Aged(tbl)

Next == \/ \E a \in Addr : Lookup(a)
        \/ \E a \in Addr, m \in Mac : Learn(a, m)
        \/ Tick

Spec == Init /\ [][Next]_tbl

-----------------------------------------------------------------------------

(* Type correctness of the table (IP2MAC, router/base.h). *)
TypeOK == tbl \in Table

(* An address is never held by two live slots: the search goes past free   *)
(* slots, and past those it frees, before it adds an entry (ip2mac.c:83).  *)
UniqueAddr == Unique(tbl)

(* A call always finds a slot, with as many slots as addresses: a table    *)
(* that recycles its slots does not outgrow the hosts of its segment       *)
(* (ip2mac.c:138).                                                         *)
AlwaysRoom == \A a \in Addr, hw \in Mac \cup {NoMac} : HasRoom(tbl, a, hw)

(* A live entry names a host, and knows its hwaddr once it is resolved.    *)
Filled == FilledTable(tbl)

Book == INSTANCE AddressBook WITH book <- BookOf(tbl)

(* The slot table behaves as a map: a lookup or an ARP packet changes what *)
(* is known of its own address and otherwise only forgets.                 *)
ImplementsBook == Book!Spec

=============================================================================
