---------------------------- MODULE RouterProps ----------------------------
(***************************************************************************)
(* What is asked of the router's two threads.                              *)
(***************************************************************************)
EXTENDS Router

Bucket == [q : Seq(Frame), dno : 0..(Word - 1), bytes : 0..(Word - 1),
           locked : BOOLEAN]

MainLocals ==
    [pc : {"loop", "poll", "wake", "request", "test", "park", "append", "write",
           "join", "exit"},
     dev : Dev, slot : Ref \cup {NoRef},
     frame : Frame \cup {NoFrame}, mac : Mac \cup {NoMac}]

BufLocals ==
    [pc : {"loop", "wait", "get", "take", "check", "pop", "count", "address",
           "write", "done", "crashed"},
     slot : Ref \cup {NoRef},
     frame : Frame \cup {NoFrame}, mac : Mac \cup {NoMac}]

WireFrame == [frame : Frame, mac : Mac \cup {NoMac}, src : {"router", "sender"}]

(* What the program's types allow: SEND_DATA and IP2MAC of router/base.h,  *)
(* SEND_REQ_DATA of ip2mac.c and the locals of the two threads.            *)
TypeOK ==
    /\ arp \in [Dev -> Table]
    /\ bucket \in [Ref -> Bucket]
    /\ reqs \in Seq(Ref)
    /\ main \in MainLocals
    /\ buf \in BufLocals
    /\ endFlag \in BOOLEAN
    /\ inbox \subseteq Frame
    /\ wire \subseteq WireFrame
    /\ overrun \in BOOLEAN

-----------------------------------------------------------------------------
(* The unlocked tests                                                      *)

(* GetSendReqData tests SendReq.top before it locks and does not test it   *)
(* again: that is sound, because only the buffer thread removes requests.  *)
TakeSafe == buf.pc = "take" => reqs # <<>>

(* GetSendData does the same with sd->top, and there it is not: the main   *)
(* thread may free the list in between.  The null pointer is followed only *)
(* after an entry expired while the buffer thread had it to serve.         *)
CrashOnlyAfterOverrun == Crashed => overrun

(* The two unlocked tests together: the buffer thread follows no null      *)
(* pointer unless an entry expired that it had to serve.                   *)
NullSafe == TakeSafe /\ CrashOnlyAfterOverrun

(* A slot is asked for at most once at a time, however many ARP packets    *)
(* come while its frames wait: AppendSendReqData looks for it first.       *)
RequestedOnce == IsInjective(reqs)

-----------------------------------------------------------------------------
(* The bucket's counters                                                   *)

(* The bytes of the first n frames of a list, for each n. *)
Totals(q) ==
    LET sum[n \in 0..Len(q)] == IF n = 0 THEN 0 ELSE sum[n - 1] + Size[q[n]]
    IN  sum

(* The bytes of the frames of a list. *)
Total(q) == Totals(q)[Len(q)]

(* The frame taken off the list of r that is not counted off yet. *)
Uncounted(r) == IF buf.pc = "count" /\ buf.slot = r THEN <<buf.frame>> ELSE <<>>

(* dno and inBucketSize of a live entry say what its list holds.  dno is   *)
(* what the main thread goes by to write a frame directly, inBucketSize    *)
(* what it goes by to drop one.                                            *)
BucketCount ==
    ~overrun =>
        \A r \in Ref : Live(EntryAt(r)) =>
            LET all == Uncounted(r) \o bucket[r].q
            IN  /\ bucket[r].dno = Len(all)
                /\ bucket[r].bytes = Total(all)

(* A new entry clears the counters of its slot even when the buffer thread *)
(* has a frame of the entry before it to count off (ip2mac.c:129): they    *)
(* are too low by that frame, and wrap below 0, for the rest of the        *)
(* entry's life.  They are never off by more, or in any other way: with    *)
(* one frame at most, modulo 2^64, they say what the list holds.           *)
OneCountLost ==
    \A r \in Ref : Live(EntryAt(r)) =>
        LET all == Uncounted(r) \o bucket[r].q
        IN  \E lost \in {<<>>} \cup {<<f>> : f \in Frame} :
               /\ (bucket[r].dno + Len(lost)) % Word = Len(all) % Word
               /\ (bucket[r].bytes + Total(lost)) % Word = Total(all) % Word

(* A bucket exceeds its limit by less than one frame, whatever is parked,  *)
(* dropped and sent in between: inBucketSize is read before the frame is   *)
(* added and never goes below what the list holds.                         *)
BucketBound ==
    ~overrun =>
        \A r \in Ref : bucket[r].q # <<>> =>
            Total(Front(bucket[r].q)) <= MaxBucket

-----------------------------------------------------------------------------
(* Where frames go                                                         *)

(* A written frame carries a hardware address its next hop announced on    *)
(* the device it leaves by.  The main thread never fails in that; the      *)
(* buffer thread may once an entry expired that it had to serve, since a   *)
(* request names a slot and the slot may be another host's by then.        *)
RightMac ==
    \A w \in wire :
        w.src = "router" \/ ~overrun =>
            <<Egress(w.frame), NextHop[w.frame], w.mac>> \in Host

Queued == UNION {ToSet(bucket[r].q) : r \in Ref}
InHand == {main.frame, buf.frame} \ {NoFrame}
Sent   == {w.frame : w \in wire}

(* A frame is in one place at a time: still to come, in the hands of one   *)
(* thread, once in the list of the bucket of its own next hop, or written. *)
OnePlace ==
    /\ inbox \cap (InHand \cup Queued \cup Sent) = {}
    /\ InHand \cap (Queued \cup Sent) = {}
    /\ Queued \cap Sent = {}
    /\ main.frame = buf.frame => main.frame = NoFrame
    /\ \A r \in Ref :
          /\ IsInjective(bucket[r].q)
          /\ \A f \in ToSet(bucket[r].q) : EntryAt(r).addr = NextHop[f]
                                           /\ r[1] = Egress(f)
    /\ \A v, w \in wire : v.frame = w.frame => v = w

Fate == INSTANCE Forwarder WITH
            coming  <- inbox,
            held    <- InHand \cup Queued,
            sent    <- Sent,
            dropped <- Frame \ (inbox \cup InHand \cup Queued \cup Sent)

(* A frame is held in one place until it is written or dropped, and        *)
(* neither is undone: not by an entry that expires, nor by a slot that     *)
(* changes hands.                                                          *)
ImplementsForwarder == Fate!Spec /\ [][OnePlace']_vars

-----------------------------------------------------------------------------
(* Frames that wait                                                        *)

(* The main thread has just resolved r and is about to ask for it. *)
Asking(r) == main.slot = r /\ main.pc \in {"wake", "request"}

(* r is resolved and has frames, but no one is going to send them. *)
Stranded(r) ==
    /\ EntryAt(r).flag = "OK"
    /\ bucket[r].q # <<>>
    /\ ~Busy(r) /\ ~Asking(r)

(* The only way to strand frames is for the main thread to park one after  *)
(* its test of flag and dno went stale: no ARP packet, expired entry or    *)
(* step of the buffer thread leaves frames behind in a resolved entry.     *)
StrandedOnlyByPark ==
    [][\A r \in Ref : ~Stranded(r) /\ Stranded(r)' => main.pc = "append"]_vars

(* "Ip2Mac:error or sending" (main.c:208): frames wait in the bucket of an *)
(* entry that is unresolved or being sent, so none is stranded.            *)
ErrorOrSending == \A r \in Ref : ~Stranded(r)

(* The same line, of the frame that is not parked: while frames of its     *)
(* next hop are still being sent it does not go ahead of them.             *)
NoOvertaking ==
    main.pc = "write" /\ buf.frame # NoFrame =>
        <<Egress(main.frame), NextHop[main.frame]>>
            # <<Egress(buf.frame), NextHop[buf.frame]>>

-----------------------------------------------------------------------------
(* The end                                                                 *)

(* A signal ends the program: the main thread leaves its loop, and the     *)
(* buffer thread is not kept from seeing EndFlag by the queues it empties. *)
Termination == endFlag ~> (Exited \/ Crashed)

(* Once an ARP packet has resolved an entry with frames, they leave its     *)
(* list: the buffer thread hears of it, and misses none of them, unless    *)
(* the program ends first.                                                 *)
Drains ==
    \A r \in Ref, f \in Frame :
        f \in ToSet(bucket[r].q) /\ (Asking(r) \/ Busy(r))
            ~> f \notin ToSet(bucket[r].q) \/ buf.pc \in {"done", "crashed"}

=============================================================================
