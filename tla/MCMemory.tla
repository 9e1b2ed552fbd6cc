------------------------------ MODULE MCMemory ------------------------------
(***************************************************************************)
(* What the two threads share of an ARP table besides buckets and          *)
(* requests: its memory (TableGrowth) and the bytes of an hwaddr (HwAddr). *)
(* The two have no state in common and are explored one beside the other:  *)
(* a behaviour is one of the table or one of the entry, not every          *)
(* interleaving of both.                                                   *)
(***************************************************************************)
EXTENDS TableGrowth, TLC

CONSTANT MaxPackets

VARIABLES hwaddr, waiting, request, store, told, toWrite, buf, toRead, dhost,
          announced, during, overrun, packets

entry == <<hwaddr, waiting, request, store, told, toWrite, buf, toRead, dhost,
           announced, during, overrun, packets>>

Bytes == INSTANCE HwAddr

MCInit == Init /\ Bytes!Init

MCNext ==
    \/ Bytes!Init /\ Next /\ UNCHANGED entry
    \/ Init /\ Bytes!Next /\ UNCHANGED vars

(* The addresses and the hardware addresses are interchangeable. *)
Alike == Permutations(Addr) \cup Permutations(Mac)

MCSpec == MCInit /\ [][MCNext]_<<vars, entry>>

(* A frame leaves with what its host's entry held while it was copied      *)
(* (ip2mac.c:188), as HwAddr says it.                                      *)
OneHwaddr == Bytes!OneHwaddr

=============================================================================
