---------------------------- MODULE ArpExchange ----------------------------
(***************************************************************************)
(* A segment around the ARP table of its device: the hosts, their answers, *)
(* and a medium that loses packets.  The router has no timer of its own: a *)
(* request is repeated by the next frame for the same host, and by nothing *)
(* else.                                                                   *)
(*                                                                         *)
(* The table is that of Ip2MacTable; a bucket is the number of frames in   *)
(* it, top # NULL and dno # 0 being one there.  The main thread handles    *)
(* one packet at a time, with a step between its test of an entry and what *)
(* it does next; the buffer thread serves one slot at a time, frame by     *)
(* frame.  The halves of GetSendData are in Router.                        *)
(***************************************************************************)
EXTENDS Ip2MacTable, SequencesExt

CONSTANTS
    Host,       \* the addresses that some machine has
    MaxParked,  \* bound on the frames of a bucket
    MaxAnswers, \* bound on the ARP packets on their way to the router
    MaxMoves    \* bound on the hosts' changes of hwaddr

ASSUME HostAssumption == Host \subseteq Addr

NoSlot == 0

VARIABLES
    tbl,
    parked,     \* parked[s]: frames in the bucket of slot s
    main,       \* where the main thread is, and the entry it has found
    requests,   \* SendReq, the slots the buffer thread has to serve
    serving,    \* the slot it serves
    asks,       \* ARP requests on the segment
    answers,    \* ARP packets of the hosts, on their way to the router
    mac,        \* mac[a]: the hwaddr a has now
    moves

vars == <<tbl, parked, main, requests, serving, asks, answers, mac, moves>>

Polling == [at |-> "poll", slot |-> NoSlot]

Init ==
    /\ tbl = EmptyTable
    /\ parked = [s \in Slot |-> 0]
    /\ main = Polling
    /\ requests = <<>> /\ serving = NoSlot
    /\ asks = {} /\ answers = <<>>
    /\ mac = [a \in Host |-> CHOOSE m \in Mac : TRUE]
    /\ moves = 0

EntryFor(t, a) == {s \in Slot : Live(t[s]) /\ t[s].addr = a}

Known(a) == \E s \in EntryFor(tbl, a) : tbl[s].flag = "OK"

Waiting(a) == \E s \in EntryFor(tbl, a) : parked[s] > 0

-----------------------------------------------------------------------------
(* The main thread                                                         *)

Goes(at, s) == main' = [at |-> at, slot |-> s]

(* What a free slot held before is not read here. *)
Blank(t) == [s \in Slot |-> IF Live(t[s]) THEN t[s] ELSE EmptyTable[s]]

(* Ip2MacSearch: the buckets of what it frees, and of a new entry, are     *)
(* emptied.                                                                *)
Search(a, hw) ==
    /\ tbl' = Blank(Searched(tbl, a, hw))
    /\ parked' = [s \in Slot |->
                    IF s \in Expired(tbl, a, hw) \/ (s = Place(tbl, a, hw) /\ ~Found(tbl, a, hw))
                    THEN 0 ELSE parked[s]]

(* The request goes to all and has the router's hwaddr as its sender's, so *)
(* that the answer comes to the router alone.  A request still on its way  *)
(* is the same request, and one for an address without a host is for no    *)
(* one.                                                                    *)
SendArpRequestB(a) == asks \cup ({a} \cap Host)

(* Mistake: an entry that is already being asked for is not asked for again. *)
ForwardAskingOnce(a) ==
    /\ main = Polling
    /\ Search(a, NoMac)
    /\ Goes("test", Place(tbl, a, NoMac))
    /\ asks' = IF Found(tbl, a, NoMac) THEN asks ELSE SendArpRequestB(a)
    /\ UNCHANGED <<requests, serving, answers, mac, moves>>

(* Ip2Mac for a frame whose next hop is a. *)
Forward(a) ==
    /\ main = Polling
    /\ Search(a, NoMac)
    /\ Goes("test", Place(tbl, a, NoMac))
    /\ asks' = IF tbl'[main'.slot].flag = "OK" THEN asks ELSE SendArpRequestB(a)
    /\ UNCHANGED <<requests, serving, answers, mac, moves>>

(* The frame is written, or on its way into the bucket. *)
Test ==
    /\ main.at = "test"
    /\ IF tbl[main.slot].flag = "NG" \/ parked[main.slot] # 0
       THEN Goes("append", main.slot)
       ELSE main' = Polling
    /\ UNCHANGED <<tbl, parked, requests, serving, asks, answers, mac, moves>>

(* A frame for a full bucket is dropped. *)
AppendSendData ==
    /\ main.at = "append"
    /\ parked' = [parked EXCEPT ![main.slot] = Min({@ + 1, MaxParked})]
    /\ main' = Polling
    /\ UNCHANGED <<tbl, requests, serving, asks, answers, mac, moves>>

(* Mistake: the hwaddr of an entry that has one is kept. *)
RecvArpKeeping(p) ==
    /\ p.cast = "unicast"
    /\ Search(p.addr, IF Known(p.addr) THEN NoMac ELSE p.mac)
    /\ IF Found(tbl, p.addr, p.mac) THEN Goes("wake", Place(tbl, p.addr, p.mac)) ELSE UNCHANGED main

(* Mistake: frames are looked for in an entry that was asked for only. *)
RecvArpAnswersOnly(p) ==
    /\ p.cast = "unicast"
    /\ Search(p.addr, p.mac)
    /\ IF Found(tbl, p.addr, p.mac) /\ ~Known(p.addr)
       THEN Goes("wake", Place(tbl, p.addr, p.mac)) ELSE UNCHANGED main

(* An ARP packet for the router's own hwaddr: Ip2MacSearch, up to the test *)
(* of the bucket of an entry that is there.                                *)
RecvArp(p) ==
    /\ p.cast = "unicast"
    /\ Search(p.addr, p.mac)
    /\ IF Found(tbl, p.addr, p.mac) THEN Goes("wake", Place(tbl, p.addr, p.mac)) ELSE UNCHANGED main

(* dhost not match *)
Reject(p) == p.cast = "broadcast" /\ UNCHANGED <<tbl, parked, main>>

AnalyzePacket(a) ==
    /\ main = Polling
    /\ answers # <<>> /\ Head(answers).addr = a
    /\ RecvArp(Head(answers)) \/ Reject(Head(answers))
    /\ answers' = Tail(answers)
    /\ UNCHANGED <<requests, serving, asks, mac, moves>>

(* sd.top # NULL *)
Wake ==
    /\ main.at = "wake"
    /\ IF parked[main.slot] > 0 THEN Goes("request", main.slot) ELSE main' = Polling
    /\ UNCHANGED <<tbl, parked, requests, serving, asks, answers, mac, moves>>

AppendSendReqData ==
    /\ main.at = "request"
    /\ requests' = IF Contains(requests, main.slot) THEN requests ELSE Append(requests, main.slot)
    /\ main' = Polling
    /\ UNCHANGED <<tbl, parked, serving, asks, answers, mac, moves>>

Tick ==
    /\ tbl' = Aged(tbl)
    /\ UNCHANGED <<parked, main, requests, serving, asks, answers, mac, moves>>

-----------------------------------------------------------------------------
(* The buffer thread                                                       *)

GetSendReqData ==
    /\ serving = NoSlot /\ requests # <<>>
    /\ serving' = Head(requests)
    /\ requests' = Tail(requests)
    /\ UNCHANGED <<tbl, parked, main, asks, answers, mac, moves>>

(* A frame of the bucket that is served leaves. *)
GetSendData ==
    /\ serving # NoSlot /\ parked[serving] > 0
    /\ parked' = [parked EXCEPT ![serving] = @ - 1]
    /\ UNCHANGED <<tbl, main, requests, serving, asks, answers, mac, moves>>

(* The bucket is seen empty, which is the end of BufferSendOne. *)
Served ==
    /\ serving # NoSlot /\ parked[serving] = 0
    /\ serving' = NoSlot
    /\ UNCHANGED <<tbl, parked, main, requests, asks, answers, mac, moves>>

-----------------------------------------------------------------------------
(* The segment.  `answers` is what waits in the router's socket.  A packet *)
(* that is lost on its way to it is never there: LoseAsk is the loss of a  *)
(* request or of the answer to it.                                         *)

Say(a, cast) ==
    /\ Len(answers) < MaxAnswers
    /\ answers' = Append(answers, [addr |-> a, mac |-> mac[a], cast |-> cast])

Answer(a) ==
    /\ a \in asks
    /\ asks' = asks \ {a}
    /\ Say(a, "unicast")
    /\ UNCHANGED <<tbl, parked, main, requests, serving, mac, moves>>

(* A host makes sure of the router's hwaddr: an ARP request for it alone. *)
Probe(a) ==
    /\ Say(a, "unicast")
    /\ UNCHANGED <<tbl, parked, main, requests, serving, asks, mac, moves>>

(* A host changes its hwaddr, and says so to all. *)
Move(a, m) ==
    /\ moves < MaxMoves /\ m # mac[a]
    /\ moves' = moves + 1
    /\ mac' = [mac EXCEPT ![a] = m]
    /\ \/ /\ Len(answers) < MaxAnswers
          /\ answers' = Append(answers, [addr |-> a, mac |-> m, cast |-> "broadcast"])
       \/ UNCHANGED answers
    /\ UNCHANGED <<tbl, parked, main, requests, serving, asks>>

LoseAsk(a) ==
    /\ a \in asks
    /\ asks' = asks \ {a}
    /\ UNCHANGED <<tbl, parked, main, requests, serving, answers, mac, moves>>

Main == Test \/ AppendSendData \/ Wake \/ AppendSendReqData

BufferSend == GetSendReqData \/ GetSendData \/ Served

Next ==
    \/ \E a \in Addr : Forward(a)
    \/ \E a \in Host : \/ AnalyzePacket(a) \/ Answer(a) \/ LoseAsk(a) \/ Probe(a)
                       \/ \E m \in Mac : Move(a, m)
    \/ Main \/ BufferSend \/ Tick

Spec == Init /\ [][Next]_vars

(* The two threads run; the device has its turn among the frames for other *)
(* hosts (EachTurns of PollLoop); and of the requests that are sent again  *)
(* and again, some are answered and the answers not lost.                  *)
FairSpec ==
    /\ Spec
    /\ WF_vars(Main) /\ WF_vars(BufferSend)
    /\ \A a \in Host : SF_vars(Answer(a)) /\ SF_vars(AnalyzePacket(a))

-----------------------------------------------------------------------------

(* A request that is lost, or whose answer is, is made good by the frames  *)
(* that follow: a host they keep coming for is resolved again and again,   *)
(* whatever the timeouts do meanwhile (ip2mac.c:154).                      *)
Resolves ==
    \A a \in Host : []<><<Forward(a)>>_vars => []<>Known(a)

(* A frame that is parked after its entry was served (main.c:207) waits    *)
(* for the host to speak: every ARP packet of the host has its bucket      *)
(* looked at (ip2mac.c:60), so that with more of them to come its frames   *)
(* leave, the first of the bucket each time, or the bucket is empty.  This *)
(* needs a buffer thread that comes back for the next request, and is not  *)
(* kept at one bucket by frames that come as fast as it sends              *)
(* (ip2mac.c:169).                                                         *)
Unstranded ==
    \A a \in Host :
        []<><<Probe(a)>>_vars /\ []<>(serving = NoSlot) =>
            []<>~Waiting(a) \/ []<><<GetSendData /\ tbl[serving].addr = a>>_vars

(* The router follows a host to a new hwaddr when the host speaks to it    *)
(* alone; what the host tells all is rejected (main.c:128), and an entry   *)
(* in use never times out (ip2mac.c:54).                                   *)
Follows ==
    \A a \in Host :
        []<><<Probe(a)>>_vars =>
            <>[](\A s \in EntryFor(tbl, a) : tbl[s].flag = "OK" => tbl[s].hwaddr = mac[a])

=============================================================================
