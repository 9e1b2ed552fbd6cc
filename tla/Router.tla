------------------------------- MODULE Router ------------------------------
(***************************************************************************)
(* The two threads of the router and what they share.                      *)
(*                                                                         *)
(* The main thread (Router, AnalyzePacket in router/main.c) reads frames,  *)
(* looks the next hop up in the ARP table of the other device, and either  *)
(* writes the frame at once or parks it in the bucket of the table entry   *)
(* (SEND_DATA, router/sendBuf.c).  An ARP packet that resolves an entry    *)
(* with parked frames puts a request for it in SendReq.  The buffer thread *)
(* (BufferSend, router/ip2mac.c) takes the requests and empties the        *)
(* buckets.                                                                *)
(*                                                                         *)
(* One action is one access to what the threads share, or one section      *)
(* under a mutex; `main.pc` and `buf.pc` name what a thread does next.     *)
(* Only the buffer thread keeps a bucket's mutex across a step, so a       *)
(* bucket carries a flag `locked` and SendReq.mutex needs no variable.     *)
(* Ip2MacSearch is one step: of its accesses only those to the buckets it  *)
(* frees or creates are shared.                                            *)
(***************************************************************************)
EXTENDS Ip2MacTable, SequencesExt

CONSTANTS
    Frame,      \* IP frames that pass AnalyzePacket's checks and are not for the router
    NoFrame,
    Ingress,    \* Ingress[f]: the device f arrives on
    NextHop,    \* NextHop[f]: its destination, or the next router
    Size,       \* Size[f]: its length
    Host,       \* <<d, a, m>>: on device d a host with address a announces m
    MaxBucket,  \* MAX_BUCKET_SIZE (1024 * 1024 in the code)
    Word        \* 2^64, the range of dno and inBucketSize

Dev  == {0, 1}
Ref  == Dev \X Slot     \* an IP2MAC pointer, or the key of a send request
NoRef == <<>>

ASSUME FrameAssumption ==
    /\ NoFrame \notin Frame
    /\ Ingress \in [Frame -> Dev]
    /\ NextHop \in [Frame -> Addr]
    /\ Size \in [Frame -> Nat \ {0}]
ASSUME HostAssumption == Host \subseteq Dev \X Addr \X Mac
ASSUME BucketAssumption == MaxBucket \in Nat /\ Word \in Nat \ {0}
(* A full bucket and one frame more are far from 2^64 bytes: 1 MiB and the *)
(* 2048 bytes that are read at most (main.c:246).                          *)
ASSUME WordAssumption == \A f \in Frame : MaxBucket + Size[f] < Word

VARIABLES
    arp,        \* Ip2Macs: the table of each device
    bucket,     \* the SEND_DATA of each slot
    reqs,       \* SendReq: the requests, oldest first
    main,       \* the main thread
    buf,        \* the buffer thread
    endFlag,    \* EndFlag
    inbox,      \* frames yet to arrive
    wire,       \* history: the frames written
    overrun     \* history: an entry expired while the buffer thread had it to serve

vars == <<arp, bucket, reqs, main, buf, endFlag, inbox, wire, overrun>>
tables == <<arp, bucket, overrun>>

EmptyBucket == [q |-> <<>>, dno |-> 0, bytes |-> 0, locked |-> FALSE]

(* FreeSendData empties the list and leaves the counters. *)
FreeSendData(b) ==
    [q |-> <<>>, dno |-> b.dno, bytes |-> b.bytes, locked |-> b.locked]

Init ==
    /\ arp = [d \in Dev |-> EmptyTable]
    /\ bucket = [r \in Ref |-> EmptyBucket]
    /\ reqs = <<>>
    /\ main = [pc |-> "loop", dev |-> 0, slot |-> NoRef, frame |-> NoFrame, mac |-> NoMac]
    /\ buf = [pc |-> "loop", slot |-> NoRef, frame |-> NoFrame, mac |-> NoMac]
    /\ endFlag = FALSE
    /\ inbox = Frame
    /\ wire = {}
    /\ overrun = FALSE

(* A frame is added to the list, taken off it, and counted off. *)
Appended(b, f) ==
    [q |-> Append(b.q, f), dno |-> (b.dno + 1) % Word,
     bytes |-> (b.bytes + Size[f]) % Word, locked |-> b.locked]

Popped(b) ==
    [q |-> Tail(b.q), dno |-> b.dno, bytes |-> b.bytes, locked |-> TRUE]

(* Mistake: inBucketSize is not lowered. *)
CountedOffUnsized(b, f) ==
    [q |-> b.q, dno |-> (b.dno - 1) % Word, bytes |-> b.bytes, locked |-> FALSE]

CountedOff(b, f) ==
    [q |-> b.q, dno |-> (b.dno - 1) % Word,
     bytes |-> (b.bytes - Size[f]) % Word, locked |-> FALSE]

EntryAt(r) == arp[r[1]][r[2]]

(* The device a frame leaves by: tno = (!deviceNo). *)
Egress(f) == 1 - Ingress[f]

(* The buffer thread has `r` to serve, now or later. *)
Busy(r) == buf.slot = r \/ r \in ToSet(reqs)

(* The main thread is about to do what `pc` names, and the process is alive. *)
MainAt(pc) == main.pc = pc /\ buf.pc # "crashed"

(* A frame as written.  The direct path puts the router's own address in   *)
(* ether_shost; BufferSendOne leaves the sender's there.                   *)
Written(f, m, src) == [frame |-> f, mac |-> m, src |-> src]

-----------------------------------------------------------------------------
(* The main thread                                                         *)

(* Mistake: a new entry keeps the counters of the slot's last use. *)
SearchKeepsCounters(d, a, hw) ==
    LET t    == arp[d]
        gone == Expired(t, a, hw)
    IN  /\ HasRoom(t, a, hw)
        /\ \A s \in gone : bucket[<<d, s>>].q # <<>> => ~bucket[<<d, s>>].locked
        /\ arp' = [arp EXCEPT ![d] = Searched(t, a, hw)]
        /\ bucket' = [r \in Ref |->
              IF r[1] = d /\ r[2] \in gone THEN FreeSendData(bucket[r])
              ELSE bucket[r]]
        /\ overrun' = (overrun \/ \E s \in gone : Busy(<<d, s>>))

(* The shared effects of Ip2MacSearch(d, a, hw): FreeSendData on the       *)
(* entries it expires empties their lists under their mutexes and leaves   *)
(* the counters; a new entry gets a zeroed bucket, without its mutex.      *)
Search(d, a, hw) ==
    LET t    == arp[d]
        gone == Expired(t, a, hw)
    IN  /\ HasRoom(t, a, hw)
        /\ \A s \in gone : bucket[<<d, s>>].q # <<>> => ~bucket[<<d, s>>].locked
        /\ arp' = [arp EXCEPT ![d] = Searched(t, a, hw)]
        /\ bucket' = [r \in Ref |->
              IF r = <<d, Place(t, a, hw)>> /\ ~Found(t, a, hw) THEN EmptyBucket
              ELSE IF r[1] = d /\ r[2] \in gone THEN FreeSendData(bucket[r])
              ELSE bucket[r]]
        /\ overrun' = (overrun \/ \E s \in gone : Busy(<<d, s>>))

(* The end of a device's turn in the loop over the two devices. *)
NextDevice ==
    main' = [pc |-> IF main.dev = 0 THEN "poll" ELSE "loop", dev |-> 1 - main.dev,
             slot |-> NoRef, frame |-> NoFrame, mac |-> NoMac]

(* EndFlag is clear and poll returns. *)
Poll ==
    /\ MainAt("loop")
    /\ ~endFlag
    /\ main' = [main EXCEPT !.pc = "poll"]
    /\ UNCHANGED <<tables, reqs, buf, endFlag, inbox, wire>>

(* Nothing to read on the device, a failed read, or a frame AnalyzePacket rejects. *)
Skip ==
    /\ MainAt("poll")
    /\ NextDevice
    /\ UNCHANGED <<tables, reqs, buf, endFlag, inbox, wire>>

(* An ARP request or reply from a host: its address is learned.  Of an     *)
(* entry that was there already the bucket is looked at next.              *)
RecvArp(d, a, m) ==
    /\ MainAt("poll")
    /\ main.dev = d
    /\ Search(d, a, m)
    /\ IF Found(arp[d], a, m)
       THEN main' = [main EXCEPT !.pc = "wake", !.slot = <<d, Place(arp[d], a, m)>>]
       ELSE NextDevice
    /\ UNCHANGED <<reqs, buf, endFlag, inbox, wire>>

(* sd.top != NULL, read without the mutex. *)
Wake ==
    /\ MainAt("wake")
    /\ IF bucket[main.slot].q # <<>> THEN main' = [main EXCEPT !.pc = "request"]
                                     ELSE NextDevice
    /\ UNCHANGED <<tables, reqs, buf, endFlag, inbox, wire>>

(* Mistake: a slot is requested again while it waits to be served. *)
RequestAgain ==
    /\ MainAt("request")
    /\ reqs' = Append(reqs, main.slot)
    /\ NextDevice
    /\ UNCHANGED <<tables, buf, endFlag, inbox, wire>>

(* Mistake: the search for a request compares the devices only. *)
RequestPerDevice ==
    /\ MainAt("request")
    /\ reqs' = IF \E r \in ToSet(reqs) : r[1] = main.slot[1] THEN reqs
               ELSE Append(reqs, main.slot)
    /\ NextDevice
    /\ UNCHANGED <<tables, buf, endFlag, inbox, wire>>

(* AppendSendReqData: no second request for a slot that has one. *)
AppendSendReqData ==
    /\ MainAt("request")
    /\ reqs' = IF main.slot \in ToSet(reqs) THEN reqs ELSE Append(reqs, main.slot)
    /\ NextDevice
    /\ UNCHANGED <<tables, buf, endFlag, inbox, wire>>

(* An IP frame to forward arrives; its next hop is looked up.  When the    *)
(* entry is NG an ARP request is written too.                              *)
RecvIp(f) ==
    LET d == Egress(f)
        a == NextHop[f]
    IN  /\ MainAt("poll")
        /\ f \in inbox
        /\ main.dev = Ingress[f]
        /\ Search(d, a, NoMac)
        /\ main' = [main EXCEPT !.pc = "test", !.frame = f,
                                !.slot = <<d, Place(arp[d], a, NoMac)>>]
        /\ inbox' = inbox \ {f}
        /\ UNCHANGED <<reqs, buf, endFlag, wire>>

(* Mistake: only dno is tested, not the flag. *)
TestCountOnly ==
    /\ MainAt("test")
    /\ main' = IF bucket[main.slot].dno # 0
               THEN [main EXCEPT !.pc = "park"]
               ELSE [main EXCEPT !.pc = "write", !.mac = EntryAt(main.slot).hwaddr]
    /\ UNCHANGED <<tables, reqs, buf, endFlag, inbox, wire>>

(* flag == FLAG_NG || sd.dno != 0, dno read without the mutex. *)
Test ==
    /\ MainAt("test")
    /\ main' = IF EntryAt(main.slot).flag = "NG" \/ bucket[main.slot].dno # 0
               THEN [main EXCEPT !.pc = "park"]
               ELSE [main EXCEPT !.pc = "write", !.mac = EntryAt(main.slot).hwaddr]
    /\ UNCHANGED <<tables, reqs, buf, endFlag, inbox, wire>>

(* AppendSendData reads inBucketSize without the mutex.  It drops the      *)
(* frame when the bucket is over its limit, and when malloc fails for the  *)
(* copy ...                                                                *)
CheckBucket ==
    /\ MainAt("park")
    /\ \/ NextDevice
       \/ /\ bucket[main.slot].bytes <= MaxBucket
          /\ main' = [main EXCEPT !.pc = "append"]
    /\ UNCHANGED <<tables, reqs, buf, endFlag, inbox, wire>>

(* Mistake: inBucketSize is not raised. *)
AppendUnsized ==
    /\ MainAt("append")
    /\ ~bucket[main.slot].locked
    /\ bucket' = [bucket EXCEPT ![main.slot] =
                    [Appended(@, main.frame) EXCEPT !.bytes = bucket[main.slot].bytes]]
    /\ NextDevice
    /\ UNCHANGED <<arp, overrun, reqs, buf, endFlag, inbox, wire>>

(* Mistake: AnalyzePacket goes on after AppendSendData and writes the frame too. *)
AppendAndWrite ==
    /\ MainAt("append")
    /\ ~bucket[main.slot].locked
    /\ bucket' = [bucket EXCEPT ![main.slot] = Appended(@, main.frame)]
    /\ main' = [main EXCEPT !.pc = "write"]
    /\ UNCHANGED <<arp, overrun, reqs, buf, endFlag, inbox, wire>>

(* ... and appends it under the mutex. *)
AppendSendData ==
    /\ MainAt("append")
    /\ ~bucket[main.slot].locked
    /\ bucket' = [bucket EXCEPT ![main.slot] = Appended(@, main.frame)]
    /\ NextDevice
    /\ UNCHANGED <<arp, overrun, reqs, buf, endFlag, inbox, wire>>

(* The direct path: write(Device[tno].soc, data, size). *)
Write ==
    /\ MainAt("write")
    /\ wire' = wire \cup {Written(main.frame, main.mac, "router")}
    /\ NextDevice
    /\ UNCHANGED <<tables, reqs, buf, endFlag, inbox>>

(* EndFlag is set: the loop ends and main() waits for the buffer thread. *)
Leave ==
    /\ MainAt("loop")
    /\ endFlag
    /\ main' = [main EXCEPT !.pc = "join"]
    /\ UNCHANGED <<tables, reqs, buf, endFlag, inbox, wire>>

(* pthread_join returns; the sockets are closed. *)
Join ==
    /\ MainAt("join")
    /\ buf.pc = "done"
    /\ main' = [main EXCEPT !.pc = "exit"]
    /\ UNCHANGED <<tables, reqs, buf, endFlag, inbox, wire>>

MainThread ==
    \/ Poll \/ Skip \/ Wake \/ AppendSendReqData
    \/ Test \/ CheckBucket \/ AppendSendData \/ Write \/ Leave \/ Join
    \/ \E h \in Host : RecvArp(h[1], h[2], h[3])
    \/ \E f \in Frame : RecvIp(f)

-----------------------------------------------------------------------------
(* The buffer thread                                                       *)

(* Mistake: while (1). *)
BufLoopForever ==
    /\ buf.pc = "loop"
    /\ buf' = [buf EXCEPT !.pc = "wait"]
    /\ UNCHANGED <<tables, reqs, main, endFlag, inbox, wire>>

(* while (EndFlag == 0) *)
BufLoop ==
    /\ buf.pc = "loop"
    /\ buf' = [buf EXCEPT !.pc = IF endFlag THEN "done" ELSE "wait"]
    /\ UNCHANGED <<tables, reqs, main, endFlag, inbox, wire>>

(* pthread_cond_timedwait returns: on a signal, or after its second. *)
BufWait ==
    /\ buf.pc = "wait"
    /\ buf' = [buf EXCEPT !.pc = "get"]
    /\ UNCHANGED <<tables, reqs, main, endFlag, inbox, wire>>

(* GetSendReqData reads SendReq.top without the mutex ... *)
GetSendReqData ==
    /\ buf.pc = "get"
    /\ buf' = [buf EXCEPT !.pc = IF reqs = <<>> THEN "loop" ELSE "take"]
    /\ UNCHANGED <<tables, reqs, main, endFlag, inbox, wire>>

(* ... and takes the first request under it; d is not tested again. *)
TakeRequest ==
    /\ buf.pc = "take"
    /\ IF reqs = <<>>
       THEN buf' = [buf EXCEPT !.pc = "crashed"] /\ UNCHANGED reqs
       ELSE /\ buf' = [buf EXCEPT !.pc = "check", !.slot = Head(reqs)]
            /\ reqs' = Tail(reqs)
    /\ UNCHANGED <<tables, main, endFlag, inbox, wire>>

(* Mistake: the empty list is not tested for. *)
GetSendDataUntested ==
    /\ buf.pc = "check"
    /\ buf' = [buf EXCEPT !.pc = "pop"]
    /\ UNCHANGED <<tables, reqs, main, endFlag, inbox, wire>>

(* GetSendData reads sd->top without the mutex ... *)
GetSendData ==
    /\ buf.pc = "check"
    /\ buf' = IF bucket[buf.slot].q = <<>>
              THEN [buf EXCEPT !.pc = "get", !.slot = NoRef]
              ELSE [buf EXCEPT !.pc = "pop"]
    /\ UNCHANGED <<tables, reqs, main, endFlag, inbox, wire>>

(* ... locks and takes the first frame; d is not tested again ... *)
PopFrame ==
    LET b == bucket[buf.slot]
    IN  /\ buf.pc = "pop"
        /\ IF b.q = <<>>
           THEN buf' = [buf EXCEPT !.pc = "crashed"] /\ UNCHANGED bucket
           ELSE /\ buf' = [buf EXCEPT !.pc = "count", !.frame = Head(b.q)]
                /\ bucket' = [bucket EXCEPT ![buf.slot] = Popped(@)]
        /\ UNCHANGED <<arp, overrun, reqs, main, endFlag, inbox, wire>>

(* ... counts it off and unlocks. *)
CountOff ==
    /\ buf.pc = "count"
    /\ buf' = [buf EXCEPT !.pc = "address"]
    /\ bucket' = [bucket EXCEPT ![buf.slot] = CountedOff(@, buf.frame)]
    /\ UNCHANGED <<arp, overrun, reqs, main, endFlag, inbox, wire>>

(* Mistake: addr is copied instead of hwaddr. *)
ReadAddressField ==
    /\ buf.pc = "address"
    /\ buf' = [buf EXCEPT !.pc = "write", !.mac = EntryAt(buf.slot).addr]
    /\ UNCHANGED <<tables, reqs, main, endFlag, inbox, wire>>

(* memcpy(eh.ether_dhost, ip2mac->hwaddr, 6), without any mutex. *)
ReadAddress ==
    /\ buf.pc = "address"
    /\ buf' = [buf EXCEPT !.pc = "write", !.mac = EntryAt(buf.slot).hwaddr]
    /\ UNCHANGED <<tables, reqs, main, endFlag, inbox, wire>>

(* Mistake: one frame is sent for a request, not all that wait. *)
BufWriteOne ==
    /\ buf.pc = "write"
    /\ wire' = wire \cup {Written(buf.frame, buf.mac, "sender")}
    /\ buf' = [buf EXCEPT !.pc = "get", !.slot = NoRef, !.frame = NoFrame, !.mac = NoMac]
    /\ UNCHANGED <<tables, reqs, main, endFlag, inbox>>

(* write(Device[deviceNo].soc, data, size), and the next frame. *)
BufWrite ==
    /\ buf.pc = "write"
    /\ wire' = wire \cup {Written(buf.frame, buf.mac, "sender")}
    /\ buf' = [buf EXCEPT !.pc = "check", !.frame = NoFrame, !.mac = NoMac]
    /\ UNCHANGED <<tables, reqs, main, endFlag, inbox>>

BufThread ==
    \/ BufLoop \/ BufWait \/ GetSendReqData \/ TakeRequest \/ GetSendData
    \/ PopFrame \/ CountOff \/ ReadAddress \/ BufWrite

-----------------------------------------------------------------------------

Crashed == buf.pc = "crashed"
Exited  == main.pc = "exit"

(* SIGINT, SIGTERM or SIGQUIT. *)
EndSignal ==
    /\ ~Crashed /\ ~Exited
    /\ ~endFlag
    /\ endFlag' = TRUE
    /\ UNCHANGED <<tables, reqs, main, buf, inbox, wire>>

(* A second passes. *)
Tick ==
    /\ ~Crashed /\ ~Exited
    /\ arp' = [d \in Dev |-> Aged(arp[d])]
    /\ UNCHANGED <<bucket, overrun, reqs, main, buf, endFlag, inbox, wire>>

(* The process is gone. *)
Halted == (Crashed \/ Exited) /\ UNCHANGED vars

Next == MainThread \/ BufThread \/ EndSignal \/ Tick \/ Halted

Spec == Init /\ [][Next]_vars

(* Each thread is scheduled; signals, frames and ARP packets may never come. *)
FairSpec == Spec /\ WF_vars(MainThread) /\ WF_vars(BufThread)

=============================================================================
