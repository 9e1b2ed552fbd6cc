------------------------------- MODULE HwAddr -------------------------------
(***************************************************************************)
(* The six bytes of an entry's hwaddr, which the main thread writes        *)
(* (Ip2MacSearch) and the buffer thread reads (BufferSendOne) with memcpy  *)
(* and without a mutex, here in two parts, in any order.  One entry; of    *)
(* its bucket only whether a frame waits in it.                            *)
(***************************************************************************)
EXTENDS Integers, FiniteSets

CONSTANTS Mac, NoMac, MaxPackets    \* bound on the ARP packets and uses of the entry

Part == {1, 2}

Whole(m) == [p \in Part |-> m]

VARIABLES
    hwaddr,     \* hwaddr[p]: zeros in a new entry
    waiting,    \* sd.top != NULL
    request,    \* the entry is in SendReq
    store,      \* "none", or the search that is writing: "arp" finds, "reuse" adds
    told,       \* what is being written, zeros if a new entry is told nothing
    toWrite,    \* the parts still to be written
    buf,        \* what the buffer thread does
    toRead,     \* the parts still to be read
    dhost,      \* what it has read
    announced,  \* history: the hwaddrs announced for the address the entry is for
    during,     \* history: those the entry had, or came to have, while it is read
    overrun,    \* history: it was used again while it was to be served, and what
                \* it holds, or what is read, is of the address before still
    packets     \* ARP packets and uses of the entry so far

main == <<hwaddr, store, told, toWrite, packets, announced>>
thread == <<buf, toRead, dhost>>
vars == <<main, thread, waiting, request, during, overrun>>

Init ==
    /\ hwaddr = Whole(NoMac) /\ dhost = Whole(NoMac)
    /\ waiting = FALSE /\ request = FALSE
    /\ store = "none" /\ told = NoMac /\ toWrite = {}
    /\ buf = "idle" /\ toRead = {}
    /\ announced = {} /\ during = {} /\ overrun = FALSE
    /\ packets = 0

-----------------------------------------------------------------------------
(* The main thread                                                         *)

(* AppendSendData *)
Park ==
    /\ store = "none"
    /\ waiting' = TRUE
    /\ UNCHANGED <<main, thread, request, during, overrun>>

(* A search s begins to write m. *)
Begin(s, m) ==
    /\ store = "none" /\ packets < MaxPackets
    /\ store' = s /\ told' = m /\ toWrite' = Part
    /\ during' = IF buf = "copying" THEN during \cup {m} ELSE during
    /\ packets' = packets + 1
    /\ UNCHANGED <<hwaddr, thread>>

(* Mistake: the request is made before the hwaddr is written. *)
ArpAskingFirst(m) ==
    /\ Begin("arp", m)
    /\ announced' = announced \cup {m}
    /\ request' = (request \/ waiting)
    /\ UNCHANGED <<waiting, overrun>>

(* Ip2MacSearch with the hwaddr m, of an ARP packet, finds the entry. *)
Arp(m) ==
    /\ Begin("arp", m)
    /\ announced' = announced \cup {m}
    /\ UNCHANGED <<waiting, request, overrun>>

(* The entry expires, loses its frames (FreeSendData) and is taken for     *)
(* another address, of which an ARP packet says m, or nothing is known.    *)
Reuse(m) ==
    /\ Begin("reuse", m)
    /\ waiting' = FALSE
    /\ announced' = {m} \ {NoMac}
    /\ overrun' = (overrun \/ request \/ buf # "idle")
    /\ UNCHANGED request

(* memcpy(ip2mac->hwaddr, hwaddr, 6), or memset(ip2mac->hwaddr, 0, 6) *)
Write(p) ==
    /\ p \in toWrite
    /\ hwaddr' = [hwaddr EXCEPT ![p] = told]
    /\ toWrite' = toWrite \ {p}
    /\ UNCHANGED <<store, told, packets, announced, thread, waiting, request, during, overrun>>

(* AppendSendReqData for an entry that was found; memset(&ip2mac->sd, 0,   *)
(* sizeof(SEND_DATA)) for a new one, which is not asked to be served.      *)
Written ==
    /\ store # "none" /\ toWrite = {}
    /\ store' = "none" /\ told' = NoMac
    /\ request' = (request \/ (store = "arp" /\ waiting))
    /\ waiting' = (store = "arp" /\ waiting)
    /\ overrun' = (overrun /\ (told = NoMac \/ buf = "copying"))
    /\ UNCHANGED <<hwaddr, toWrite, packets, announced, thread, during>>

-----------------------------------------------------------------------------
(* The buffer thread                                                       *)

(* GetSendReqData *)
Serve ==
    /\ buf = "idle" /\ request
    /\ request' = FALSE
    /\ buf' = "serving"
    /\ UNCHANGED <<main, toRead, dhost, waiting, during, overrun>>

(* GetSendData takes a frame, the last one or not. *)
Take ==
    /\ buf = "serving" /\ waiting
    /\ waiting' \in BOOLEAN
    /\ buf' = "copying" /\ toRead' = Part
    /\ during' = {hwaddr[p] : p \in Part} \cup (IF store = "none" THEN {} ELSE {told})
    /\ UNCHANGED <<main, dhost, request, overrun>>

(* memcpy(eh.ether_dhost, ip2mac->hwaddr, 6) *)
Read(p) ==
    /\ p \in toRead
    /\ dhost' = [dhost EXCEPT ![p] = hwaddr[p]]
    /\ toRead' = toRead \ {p}
    /\ UNCHANGED <<main, buf, waiting, request, during, overrun>>

(* write(Device[deviceNo].soc, data, size) *)
Send ==
    /\ buf = "copying" /\ toRead = {}
    /\ buf' = "serving" /\ during' = {}
    /\ UNCHANGED <<main, toRead, dhost, waiting, request, overrun>>

(* GetSendData finds no frame.  If the entry is not to be served again     *)
(* nothing is left of an overrun.                                          *)
Finish ==
    /\ buf = "serving" /\ ~waiting
    /\ buf' = "idle"
    /\ overrun' = (overrun /\ request)
    /\ UNCHANGED <<main, toRead, dhost, waiting, request, during>>

Next ==
    \/ Park \/ Written \/ Serve \/ Take \/ Send \/ Finish
    \/ \E m \in Mac : Arp(m)
    \/ \E m \in Mac \cup {NoMac} : Reuse(m)
    \/ \E p \in Part : Write(p) \/ Read(p)

Spec == Init /\ [][Next]_vars

-----------------------------------------------------------------------------

(* Every part of the hwaddr a frame leaves with is of one that the entry   *)
(* had, or was being given, while it was copied (ip2mac.c:188): of no      *)
(* older one, so that it is one hwaddr, whole, if the entry had one only.  *)
(* And it was announced for the very host the frame is for, never zeros or *)
(* another host's, since the request is made after the hwaddr is complete  *)
(* (ip2mac.c:58, ip2mac.c:61), unless the entry was taken for another      *)
(* address while it was to be served, and the hwaddr of that one was not   *)
(* complete before the copy (ip2mac.c:121).                                *)
OneHwaddr ==
    buf = "copying" /\ toRead = {} =>
        \A p \in Part :
            /\ dhost[p] \in during
            /\ ~overrun => dhost[p] \in announced

=============================================================================
