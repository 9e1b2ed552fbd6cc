---------------------------- MODULE AddressBook ----------------------------
(***************************************************************************)
(* What the ARP table promises its callers: a map from addresses to what   *)
(* is known of them.  A call settles the address it names; of the others   *)
(* it may only forget some.                                                *)
(***************************************************************************)
CONSTANTS Addr, Mac

VARIABLE book

Unknown == "unknown"
Asking  == "asking"     \* an ARP request is out, frames wait for the answer

TypeOK == book \in [Addr -> Mac \cup {Unknown, Asking}]

Init == book = [a \in Addr |-> Unknown]

(* `book` with the value of `a` set to `v` and the addresses of `gone` forgotten. *)
Settled(a, v, gone) ==
    [x \in Addr |-> IF x = a THEN v ELSE IF x \in gone THEN Unknown ELSE book[x]]

(* A lookup: a known address keeps its value, an unknown one is asked for. *)
Ask(a) ==
    \E gone \in SUBSET Addr :
        book' = Settled(a, IF book[a] = Unknown THEN Asking ELSE book[a], gone)

(* An ARP packet from `a` arrives. *)
Told(a, m) == \E gone \in SUBSET Addr : book' = Settled(a, m, gone)

Next == \E a \in Addr : Ask(a) \/ \E m \in Mac : Told(a, m)

Spec == Init /\ [][Next]_book

=============================================================================
