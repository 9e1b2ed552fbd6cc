---------------------------- MODULE Router_proofs --------------------------
(***************************************************************************)
(* Proofs about the router's two threads, for every value of the           *)
(* constants: their types, that frames reach the hosts they are for, that  *)
(* the unlocked tests are good for what they are used for, that the tables *)
(* are those of Ip2Mac and so are maps, that the queue of requests stays   *)
(* short, that no mutex stays locked and the threads end in order, that    *)
(* the counters count and what an expiry under the buffer thread does to   *)
(* them, that only one step can strand a frame, and that the frames go the *)
(* way of Forwarder.                                                       *)
(*                                                                         *)
(* The invariant SafeInv says, for each thread and each pc, what the       *)
(* thread may still count on of the entry it has in its hands.  CountInv,  *)
(* NearInv, ServeInv and PlaceInv add to it what their theorems need.      *)
(***************************************************************************)
EXTENDS RouterProps, Ip2MacTable_proofs, SequenceTheorems

-----------------------------------------------------------------------------
(* Types                                                                   *)

(* Where a thread has an entry, and a frame, in its locals. *)
LocalsOK ==
    /\ main.pc \in {"wake", "request", "test", "park", "append", "write"} =>
           main.slot \in Ref
    /\ main.pc \in {"test", "park", "append", "write"} => main.frame \in Frame
    /\ buf.pc \in {"check", "pop", "count", "address", "write"} => buf.slot \in Ref
    /\ buf.pc \in {"count", "address", "write"} => buf.frame \in Frame

TypeInv == TypeOK /\ LocalsOK

(* dno and inBucketSize stay in the range of their type (sendBuf.c:59 and  *)
(* sendBuf.c:91), and the list holds frames.                               *)
LEMMA BucketType ==
    ASSUME NEW b \in Bucket, NEW f \in Frame
    PROVE  /\ FreeSendData(b) \in Bucket
           /\ Appended(b, f) \in Bucket
           /\ b.q # <<>> => Popped(b) \in Bucket /\ Head(b.q) \in Frame
           /\ CountedOff(b, f) \in Bucket
<1>1. \A n \in Int : n % Word \in 0..(Word - 1)
  BY BucketAssumption
<1>2. Size[f] \in Int /\ b.dno \in Int /\ b.bytes \in Int
  BY FrameAssumption, BucketAssumption DEF Bucket
<1>3. b.q \in Seq(Frame) /\ b.locked \in BOOLEAN
      /\ b.dno \in 0..(Word - 1) /\ b.bytes \in 0..(Word - 1)
  BY DEF Bucket
<1>4. FreeSendData(b) \in Bucket
  BY <1>3 DEF FreeSendData, Bucket
<1>5. Appended(b, f) \in Bucket
  <2>1. (b.dno + 1) % Word \in 0..(Word - 1) /\ (b.bytes + Size[f]) % Word \in 0..(Word - 1)
    BY <1>1, <1>2
  <2>2. Append(b.q, f) \in Seq(Frame)
    BY <1>3
  <2> QED
    BY <1>3, <2>1, <2>2 DEF Appended, Bucket
<1>6. b.q # <<>> => Popped(b) \in Bucket /\ Head(b.q) \in Frame
  BY <1>3, HeadTailProperties DEF Popped, Bucket
<1>7. CountedOff(b, f) \in Bucket
  <2>1. (b.dno - 1) % Word \in 0..(Word - 1) /\ (b.bytes - Size[f]) % Word \in 0..(Word - 1)
    BY <1>1, <1>2
  <2> QED
    BY <1>3, <2>1 DEF CountedOff, Bucket
<1> QED
  BY <1>4, <1>5, <1>6, <1>7

(* The shared effects of Ip2MacSearch keep tables and buckets well formed. *)
LEMMA SearchType ==
    ASSUME TypeOK, NEW d \in Dev, NEW a \in Addr, NEW hw \in Mac \cup {NoMac},
           Search(d, a, hw)
    PROVE  /\ arp' \in [Dev -> Table]
           /\ bucket' \in [Ref -> Bucket]
           /\ overrun' \in BOOLEAN
           /\ <<d, Place(arp[d], a, hw)>> \in Ref
<1>1. arp[d] \in Table /\ HasRoom(arp[d], a, hw)
  BY DEF TypeOK, Search
<1>2. Searched(arp[d], a, hw) \in Table
  BY <1>1, SearchedType
<1>3. arp' \in [Dev -> Table]
  BY <1>2 DEF Search, TypeOK
<1>4. EmptyBucket \in Bucket
  BY BucketAssumption DEF EmptyBucket, Bucket
<1>5. \A b \in Bucket : FreeSendData(b) \in Bucket
  BY DEF FreeSendData, Bucket
<1>6. bucket' \in [Ref -> Bucket]
  BY <1>4, <1>5, Zenon DEF Search, TypeOK
<1>7. overrun' \in BOOLEAN
  BY DEF Search, TypeOK
<1>8. <<d, Place(arp[d], a, hw)>> \in Ref
  BY <1>1, PlaceProperties DEF Ref
<1> QED
  BY <1>3, <1>6, <1>7, <1>8

(* At the end of a device's turn the main thread holds nothing. *)
LEMMA NextDeviceType ==
    ASSUME main \in MainLocals, NextDevice
    PROVE  main' \in MainLocals /\ main'.pc \in {"poll", "loop"}
BY DEF NextDevice, MainLocals, Dev

(* The initial state is well typed. *)
LEMMA InitType == Init => TypeInv
<1> SUFFICES ASSUME Init PROVE TypeInv
  OBVIOUS
<1>1. EmptyTable \in Table
  BY TimeAssumption DEF EmptyTable, Table, Entry, Flag, MaxAge
<1>2. EmptyBucket \in Bucket
  BY BucketAssumption DEF EmptyBucket, Bucket
<1>3. main \in MainLocals /\ buf \in BufLocals /\ LocalsOK
  BY DEF Init, MainLocals, BufLocals, LocalsOK, Dev
<1>4. reqs \in Seq(Ref) /\ wire \subseteq WireFrame
  BY EmptySeq DEF Init
<1> QED
  BY <1>1, <1>2, <1>3, <1>4 DEF Init, TypeInv, TypeOK

(* Every step preserves the types. *)
LEMMA NextType == TypeInv /\ [Next]_vars => TypeInv'
<1> SUFFICES ASSUME TypeInv, [Next]_vars PROVE TypeInv'
  OBVIOUS
<1> USE DEF TypeInv, TypeOK, MainAt
<1>1. CASE Poll
  BY <1>1 DEF Poll, tables, MainLocals, LocalsOK
<1>2. CASE Skip
  BY <1>2, NextDeviceType DEF Skip, tables, LocalsOK
<1>3. ASSUME NEW h \in Host, RecvArp(h[1], h[2], h[3]) PROVE TypeInv'
  <2>1. h[1] \in Dev /\ h[2] \in Addr /\ h[3] \in Mac
    BY HostAssumption
  <2>2. /\ arp' \in [Dev -> Table]
        /\ bucket' \in [Ref -> Bucket]
        /\ overrun' \in BOOLEAN
        /\ <<h[1], Place(arp[h[1]], h[2], h[3])>> \in Ref
    BY <1>3, <2>1, SearchType DEF RecvArp
  <2>3. CASE NextDevice
    BY <1>3, <2>2, <2>3, NextDeviceType DEF RecvArp, LocalsOK
  <2>4. CASE main' = [main EXCEPT !.pc = "wake",
                        !.slot = <<h[1], Place(arp[h[1]], h[2], h[3])>>]
    BY <1>3, <2>2, <2>4 DEF RecvArp, MainLocals, LocalsOK
  <2> QED
    BY <1>3, <2>3, <2>4 DEF RecvArp
<1>4. CASE Wake
  <2>1. CASE NextDevice
    BY <1>4, <2>1, NextDeviceType DEF Wake, tables, LocalsOK
  <2>2. CASE main' = [main EXCEPT !.pc = "request"]
    BY <1>4, <2>2 DEF Wake, tables, MainLocals, LocalsOK
  <2> QED
    BY <1>4, <2>1, <2>2 DEF Wake
<1>5. CASE AppendSendReqData
  <2>1. reqs' \in Seq(Ref)
    BY <1>5 DEF AppendSendReqData, LocalsOK
  <2> QED
    BY <1>5, <2>1, NextDeviceType DEF AppendSendReqData, tables, LocalsOK
<1>6. ASSUME NEW f \in Frame, RecvIp(f) PROVE TypeInv'
  <2>1. Egress(f) \in Dev /\ NextHop[f] \in Addr
    BY FrameAssumption DEF Egress, Dev
  <2>2. /\ arp' \in [Dev -> Table]
        /\ bucket' \in [Ref -> Bucket]
        /\ overrun' \in BOOLEAN
        /\ <<Egress(f), Place(arp[Egress(f)], NextHop[f], NoMac)>> \in Ref
    BY <1>6, <2>1, SearchType DEF RecvIp
  <2> QED
    BY <1>6, <2>2 DEF RecvIp, MainLocals, LocalsOK
<1>7. CASE Test
  <2>1. EntryAt(main.slot).hwaddr \in Mac \cup {NoMac}
    BY <1>7 DEF Test, EntryAt, Ref, Table, Entry, LocalsOK
  <2> QED
    BY <1>7, <2>1 DEF Test, tables, MainLocals, LocalsOK
<1>8. CASE CheckBucket
  <2>1. CASE NextDevice
    BY <1>8, <2>1, NextDeviceType DEF CheckBucket, tables, LocalsOK
  <2>2. CASE main' = [main EXCEPT !.pc = "append"]
    BY <1>8, <2>2 DEF CheckBucket, tables, MainLocals, LocalsOK
  <2> QED
    BY <1>8, <2>1, <2>2 DEF CheckBucket
<1>9. CASE AppendSendData
  <2>1. bucket' \in [Ref -> Bucket]
    BY <1>9, BucketType DEF AppendSendData, LocalsOK
  <2> QED
    BY <1>9, <2>1, NextDeviceType DEF AppendSendData, LocalsOK
<1>10. CASE Write
  <2>1. Written(main.frame, main.mac, "router") \in WireFrame
    BY <1>10 DEF Write, Written, WireFrame, MainLocals, LocalsOK
  <2> QED
    BY <1>10, <2>1, NextDeviceType DEF Write, tables, LocalsOK
<1>11. CASE Leave
  BY <1>11 DEF Leave, tables, MainLocals, LocalsOK
<1>12. CASE Join
  BY <1>12 DEF Join, tables, MainLocals, LocalsOK
<1>13. CASE BufLoop
  BY <1>13 DEF BufLoop, tables, BufLocals, LocalsOK
<1>14. CASE BufWait
  BY <1>14 DEF BufWait, tables, BufLocals, LocalsOK
<1>15. CASE GetSendReqData
  BY <1>15 DEF GetSendReqData, tables, BufLocals, LocalsOK
<1>16. CASE TakeRequest
  <2>1. CASE reqs = <<>>
    BY <1>16, <2>1 DEF TakeRequest, tables, BufLocals, LocalsOK
  <2>2. CASE reqs # <<>>
    <3>1. Head(reqs) \in Ref /\ Tail(reqs) \in Seq(Ref)
      BY <2>2, HeadTailProperties
    <3> QED
      BY <1>16, <2>2, <3>1 DEF TakeRequest, tables, BufLocals, LocalsOK
  <2> QED
    BY <2>1, <2>2
<1>17. CASE GetSendData
  BY <1>17 DEF GetSendData, tables, BufLocals, LocalsOK
<1>18. CASE PopFrame
  <2> DEFINE b == bucket[buf.slot]
  <2>1. CASE b.q = <<>>
    BY <1>18, <2>1 DEF PopFrame, BufLocals, LocalsOK
  <2>2. CASE b.q # <<>>
    <3>1. b \in Bucket
      BY <1>18 DEF PopFrame, LocalsOK
    <3>2. Popped(b) \in Bucket /\ Head(b.q) \in Frame
      BY <2>2, <3>1, HeadTailProperties DEF Bucket, Popped
    <3> QED
      BY <1>18, <2>2, <3>2 DEF PopFrame, BufLocals, LocalsOK
  <2> QED
    BY <2>1, <2>2
<1>19. CASE CountOff
  <2>1. bucket' \in [Ref -> Bucket]
    BY <1>19, BucketType DEF CountOff, LocalsOK
  <2> QED
    BY <1>19, <2>1 DEF CountOff, BufLocals, LocalsOK
<1>20. CASE ReadAddress
  <2>1. EntryAt(buf.slot).hwaddr \in Mac \cup {NoMac}
    BY <1>20 DEF ReadAddress, EntryAt, Ref, Table, Entry, LocalsOK
  <2> QED
    BY <1>20, <2>1 DEF ReadAddress, tables, BufLocals, LocalsOK
<1>21. CASE BufWrite
  <2>1. Written(buf.frame, buf.mac, "sender") \in WireFrame
    BY <1>21 DEF BufWrite, Written, WireFrame, BufLocals, LocalsOK
  <2> QED
    BY <1>21, <2>1 DEF BufWrite, tables, BufLocals, LocalsOK
<1>22. CASE EndSignal
  BY <1>22 DEF EndSignal, tables, LocalsOK
<1>23. CASE Tick
  <2>1. arp' \in [Dev -> Table]
    BY <1>23, AgedProperties DEF Tick
  <2> QED
    BY <1>23, <2>1 DEF Tick, LocalsOK
<1>24. CASE UNCHANGED vars
  BY <1>24 DEF vars, LocalsOK
<1> QED
  BY <1>1, <1>2, <1>3, <1>4, <1>5, <1>6, <1>7, <1>8, <1>9, <1>10, <1>11, <1>12,
     <1>13, <1>14, <1>15, <1>16, <1>17, <1>18, <1>19, <1>20, <1>21, <1>22, <1>23,
     <1>24
  DEF Next, MainThread, BufThread, Halted

(* The state of the two threads is well typed; a lock, a slot and a frame  *)
(* are there wherever the code uses them (router/base.h, ip2mac.c, main.c). *)
THEOREM TypeInvariant == Spec => []TypeInv
<1> QED
  BY InitType, NextType, PTL DEF Spec

(* TypeOK is the part of it that the runs check. *)
THEOREM TypeCorrect == Spec => []TypeOK
<1>1. TypeInv => TypeOK
  BY DEF TypeInv
<1> QED
  BY <1>1, TypeInvariant, PTL


-----------------------------------------------------------------------------
(* The inductive invariant                                                 *)

(* What a table says of a host is what the host announced.                 *)
TablesOK ==
    \A d \in Dev :
        /\ FilledTable(arp[d])
        /\ \A s \in Slot :
              arp[d][s].flag = "OK" => <<d, arp[d][s].addr, arp[d][s].hwaddr>> \in Host

(* The entry at r is the one `f` has to wait in. *)
For(r, f) == Live(EntryAt(r)) /\ EntryAt(r).addr = NextHop[f] /\ r[1] = Egress(f)

(* Frames wait in the bucket of their next hop. *)
ParkedOK == \A r \in Ref : \A f \in ToSet(bucket[r].q) : For(r, f)

(* What the main thread has found holds until its next lookup: no one else *)
(* changes a table.                                                        *)
MainOK ==
    /\ main.pc \in {"wake", "request"} => EntryAt(main.slot).flag = "OK"
    /\ main.pc \in {"test", "park", "append", "write"} => For(main.slot, main.frame)
    /\ main.pc = "write" =>
           <<Egress(main.frame), NextHop[main.frame], main.mac>> \in Host

(* Before an entry has expired that the buffer thread has to serve: what   *)
(* it has to serve is resolved, and the frame it holds is for that entry.  *)
BufOK ==
    ~overrun =>
        /\ \A r \in Ref : Busy(r) => EntryAt(r).flag = "OK"
        /\ buf.pc = "pop" => bucket[buf.slot].q # <<>>
        /\ buf.pc \in {"count", "address", "write"} => For(buf.slot, buf.frame)
        /\ buf.pc = "write" =>
               <<Egress(buf.frame), NextHop[buf.frame], buf.mac>> \in Host

SafeInv ==
    /\ TypeInv
    /\ TablesOK /\ ParkedOK /\ MainOK /\ BufOK
    /\ TakeSafe /\ CrashOnlyAfterOverrun /\ RightMac

-----------------------------------------------------------------------------
(* Lemmas                                                                  *)

(* The requests after one is added, and after the first is taken: what     *)
(* AppendSendReqData and GetSendReqData (ip2mac.c:246, ip2mac.c:274) do.   *)
LEMMA Requests ==
    ASSUME NEW S, NEW q \in Seq(S)
    PROVE  /\ \A x \in S : ToSet(Append(q, x)) = ToSet(q) \cup {x}
           /\ q # <<>> => /\ Head(q) \in ToSet(q)
                          /\ ToSet(Tail(q)) \subseteq ToSet(q)
<1>1. ASSUME NEW x \in S PROVE ToSet(Append(q, x)) = ToSet(q) \cup {x}
  <2>1. /\ Append(q, x) \in Seq(S)
        /\ Len(Append(q, x)) = Len(q) + 1
        /\ \A i \in 1..Len(q) : Append(q, x)[i] = q[i]
        /\ Append(q, x)[Len(q) + 1] = x
    BY AppendProperties
  <2>2. DOMAIN Append(q, x) = 1..(Len(q) + 1) /\ DOMAIN q = 1..Len(q) /\ Len(q) \in Nat
    BY <2>1, LenProperties
  <2>3. 1..(Len(q) + 1) = 1..Len(q) \cup {Len(q) + 1}
    BY <2>2
  <2> QED
    BY <2>1, <2>2, <2>3 DEF ToSet
<1>2. ASSUME q # <<>>
      PROVE  Head(q) \in ToSet(q) /\ ToSet(Tail(q)) \subseteq ToSet(q)
  <2>1. /\ Len(q) \in Nat /\ Len(q) > 0 /\ DOMAIN q = 1..Len(q)
        /\ Head(q) = q[1]
        /\ Tail(q) \in Seq(S) /\ Len(Tail(q)) = Len(q) - 1
        /\ \A i \in 1..Len(Tail(q)) : Tail(q)[i] = q[i + 1]
    BY <1>2, HeadTailProperties, LenProperties, EmptySeq
  <2>2. DOMAIN Tail(q) = 1..(Len(q) - 1)
    BY <2>1, LenProperties
  <2>3. \A i \in 1..(Len(q) - 1) : i + 1 \in 1..Len(q)
    BY <2>1
  <2> QED
    BY <2>1, <2>2, <2>3 DEF ToSet
<1> QED
  BY <1>1, <1>2

(* What a lookup or an ARP packet leaves behind in the tables and buckets: *)
(* an entry it does not free keeps its address, its bucket, and its answer *)
(* if it has one.                                                          *)
SearchLeaves(d, a, hw) ==
    LET p == <<d, Place(arp[d], a, hw)>>
        Gone(r) == r[1] = d /\ r[2] \in Expired(arp[d], a, hw)
    IN  /\ TablesOK'
        /\ p \in Ref
        /\ \A r \in Ref : r = p =>
               /\ Live(EntryAt(r))' /\ EntryAt(r)'.addr = a
               /\ hw # NoMac => EntryAt(r)'.flag = "OK"
        /\ \A r \in Ref : Live(EntryAt(r)) /\ ~Gone(r) =>
               /\ Live(EntryAt(r))'
               /\ EntryAt(r)'.addr = EntryAt(r).addr
               /\ EntryAt(r).flag = "OK" => EntryAt(r)'.flag = "OK"
               /\ bucket'[r] = bucket[r]
        /\ \A r \in Ref : bucket'[r].q # <<>> =>
               ~Gone(r) /\ bucket'[r].q = bucket[r].q
        /\ ~overrun' => ~overrun /\ \A r \in Ref : Busy(r) => ~Gone(r)

(* That is what Search does (Ip2MacSearch, ip2mac.c:34).                   *)
LEMMA SearchStep ==
    ASSUME TypeOK, TablesOK,
           NEW d \in Dev, NEW a \in Addr, NEW hw \in Mac \cup {NoMac},
           hw = NoMac \/ <<d, a, hw>> \in Host,
           Search(d, a, hw)
    PROVE  SearchLeaves(d, a, hw)
<1> DEFINE t == arp[d]
           u == Searched(t, a, hw)
           s0 == Place(t, a, hw)
           p == <<d, s0>>
           Gone(r) == r[1] = d /\ r[2] \in Expired(t, a, hw)
<1>1. t \in Table /\ HasRoom(t, a, hw) /\ FilledTable(t)
  BY DEF TypeOK, Search, TablesOK
<1>2. arp' = [arp EXCEPT ![d] = u] /\ arp'[d] = u
      /\ \A e \in Dev \ {d} : arp'[e] = arp[e]
  BY DEF Search, TypeOK
<1>3. s0 \in Slot /\ p \in Ref
  BY <1>1, PlaceProperties DEF Ref
<1>4. /\ Live(u[s0]) /\ u[s0].addr = a
      /\ hw # NoMac => u[s0].flag = "OK" /\ u[s0].hwaddr = hw
      /\ hw = NoMac /\ u[s0].flag = "OK" =>
             t[s0].flag = "OK" /\ t[s0].addr = a /\ u[s0].hwaddr = t[s0].hwaddr
      /\ \A s \in Slot : s # s0 /\ Live(u[s]) =>
             u[s] = t[s] /\ s \notin Expired(t, a, hw)
      /\ \A s \in Slot : Live(t[s]) /\ s \notin Expired(t, a, hw) =>
             /\ Live(u[s]) /\ u[s].addr = t[s].addr
             /\ t[s].flag = "OK" => u[s].flag = "OK"
             /\ s = s0 => Found(t, a, hw)
      /\ Found(t, a, hw) => Live(t[s0]) /\ s0 \notin Expired(t, a, hw)
  BY <1>1, SearchedEntries
<1>5. FilledTable(u)
  BY <1>1, SearchedFilled
<1>6. \A r \in Ref : bucket'[r] =
          IF r = p /\ ~Found(t, a, hw) THEN EmptyBucket
          ELSE IF Gone(r) THEN FreeSendData(bucket[r])
          ELSE bucket[r]
  BY Zenon DEF Search
<1>7. overrun' = (overrun \/ \E s \in Expired(t, a, hw) : Busy(<<d, s>>))
  BY DEF Search
<1>8. \A r \in Ref : r = <<r[1], r[2]>> /\ r[1] \in Dev /\ r[2] \in Slot
  BY DEF Ref
<1> HIDE DEF t, u, s0
<1>9. TablesOK'
  <2>1. ASSUME NEW s \in Slot, u[s].flag = "OK"
        PROVE  <<d, u[s].addr, u[s].hwaddr>> \in Host
    <3>1. CASE s = s0 /\ hw # NoMac
      BY <1>4, <2>1, <3>1
    <3>2. CASE s = s0 /\ hw = NoMac
      BY <1>3, <1>4, <2>1, <3>2 DEF TablesOK, t
    <3>3. CASE s # s0
      BY <1>4, <2>1, <3>3 DEF TablesOK, t, Live
    <3> QED
      BY <3>1, <3>2, <3>3
  <2> QED
    BY <1>2, <1>5, <2>1 DEF TablesOK
<1>10. \A r \in Ref : EntryAt(r)' = IF r[1] = d THEN u[r[2]] ELSE EntryAt(r)
  BY <1>2, <1>8 DEF EntryAt
<1>11. ASSUME NEW r \in Ref, r = p
       PROVE  /\ Live(EntryAt(r))' /\ EntryAt(r)'.addr = a
              /\ hw # NoMac => EntryAt(r)'.flag = "OK"
  <2>1. EntryAt(r)' = u[s0]
    BY <1>3, <1>10, <1>11
  <2> QED
    BY <1>4, <2>1 DEF Live
<1>12. ASSUME NEW r \in Ref, Live(EntryAt(r)), ~Gone(r)
       PROVE  /\ Live(EntryAt(r))'
              /\ EntryAt(r)'.addr = EntryAt(r).addr
              /\ EntryAt(r).flag = "OK" => EntryAt(r)'.flag = "OK"
              /\ bucket'[r] = bucket[r]
  <2>1. CASE r[1] = d
    <3>1. EntryAt(r) = t[r[2]] /\ EntryAt(r)' = u[r[2]]
      BY <1>10, <2>1 DEF EntryAt, t
    <3> QED
      BY <1>4, <1>6, <1>8, <1>12, <2>1, <3>1 DEF Live
  <2>2. CASE r[1] # d
    BY <1>6, <1>10, <1>12, <2>2 DEF Live
  <2> QED
    BY <2>1, <2>2
<1>13. ASSUME NEW r \in Ref, bucket'[r].q # <<>>
       PROVE  ~Gone(r) /\ bucket'[r].q = bucket[r].q
  <2>1. EmptyBucket.q = <<>> /\ FreeSendData(bucket[r]).q = <<>>
    BY DEF EmptyBucket, FreeSendData
  <2> QED
    BY <1>6, <1>13, <2>1, Zenon
<1>14. ASSUME ~overrun' PROVE ~overrun /\ \A r \in Ref : Busy(r) => ~Gone(r)
  BY <1>7, <1>8, <1>14
<1> QED
  BY <1>3, <1>9, <1>11, <1>12, <1>13, <1>14 DEF t, s0, SearchLeaves

-----------------------------------------------------------------------------
(* The invariant                                                           *)

(* The router starts with empty tables and nothing to serve. *)
LEMMA InitSafe == Init => SafeInv
<1> SUFFICES ASSUME Init PROVE SafeInv
  OBVIOUS
<1>1. TypeInv
  BY InitType
<1>2. \A d \in Dev, s \in Slot : arp[d][s].flag = "FREE"
  BY DEF Init, EmptyTable
<1>3. TablesOK
  BY <1>2 DEF TablesOK, FilledTable, Live
<1>4. \A r \in Ref : bucket[r].q = <<>>
  BY DEF Init, EmptyBucket
<1>5. ParkedOK
  BY <1>4, EmptySeq DEF ParkedOK, ToSet
<1>6. MainOK /\ TakeSafe /\ CrashOnlyAfterOverrun /\ RightMac
  BY DEF Init, MainOK, TakeSafe, CrashOnlyAfterOverrun, Crashed, RightMac
<1>7. BufOK
  <2>1. \A r \in Ref : ~Busy(r)
    <3>1. \A r \in Ref : r # NoRef
      BY DEF Ref, NoRef
    <3> QED
      BY <3>1, EmptySeq DEF Init, Busy, ToSet
  <2> QED
    BY <2>1 DEF Init, BufOK
<1> QED
  BY <1>1, <1>3, <1>5, <1>6, <1>7 DEF SafeInv

(* A step that leaves the tables and the lists alone leaves the frames     *)
(* with their next hops.                                                   *)
LEMMA Steady ==
    ASSUME SafeInv, arp' = arp
    PROVE  /\ TablesOK'
           /\ (\A r \in Ref : bucket'[r].q = bucket[r].q) => ParkedOK'
           /\ main' = main => MainOK'
           /\ UNCHANGED <<bucket, overrun, reqs, buf>> =>
                  BufOK' /\ TakeSafe' /\ CrashOnlyAfterOverrun'
           /\ UNCHANGED <<wire, overrun>> => RightMac'
<1>1. TablesOK'
  BY DEF SafeInv, TablesOK
<1>2. (\A r \in Ref : bucket'[r].q = bucket[r].q) => ParkedOK'
  BY DEF SafeInv, ParkedOK, For, EntryAt
<1>3. main' = main => MainOK'
  BY DEF SafeInv, MainOK, For, EntryAt
<1>4. UNCHANGED <<bucket, overrun, reqs, buf>> =>
          BufOK' /\ TakeSafe' /\ CrashOnlyAfterOverrun'
  BY DEF SafeInv, BufOK, Busy, For, EntryAt, TakeSafe, CrashOnlyAfterOverrun, Crashed
<1>5. UNCHANGED <<wire, overrun>> => RightMac'
  BY DEF SafeInv, RightMac
<1> QED
  BY <1>1, <1>2, <1>3, <1>4, <1>5

(* The entry the main thread is given for a frame is that of its next hop. *)
LEMMA SearchPlace ==
    ASSUME TypeOK, TablesOK, NEW d \in Dev, NEW a \in Addr, Search(d, a, NoMac)
    PROVE  LET p == <<d, Place(arp[d], a, NoMac)>>
           IN  /\ p \in Ref
               /\ \A r \in Ref : r = p => Live(EntryAt(r))' /\ EntryAt(r)'.addr = a
<1>1. NoMac \in Mac \cup {NoMac}
  OBVIOUS
<1>2. NoMac = NoMac \/ <<d, a, NoMac>> \in Host
  OBVIOUS
<1>3. SearchLeaves(d, a, NoMac)
  BY <1>1, <1>2, SearchStep
<1> QED
  BY <1>3 DEF SearchLeaves

(* A lookup leaves both threads and the lists as the invariant wants them; *)
(* the main thread is then in a new state.                                 *)
LEMMA SearchSafe ==
    ASSUME SafeInv,
           NEW d \in Dev, NEW a \in Addr, NEW hw \in Mac \cup {NoMac},
           hw = NoMac \/ <<d, a, hw>> \in Host,
           Search(d, a, hw),
           UNCHANGED <<reqs, buf, wire>>
    PROVE  /\ TablesOK' /\ ParkedOK' /\ BufOK'
           /\ TakeSafe' /\ CrashOnlyAfterOverrun' /\ RightMac'
<1> DEFINE Gone(r) == r[1] = d /\ r[2] \in Expired(arp[d], a, hw)
<1>1. /\ TablesOK'
      /\ \A r \in Ref : Live(EntryAt(r)) /\ ~Gone(r) =>
             /\ Live(EntryAt(r))'
             /\ EntryAt(r)'.addr = EntryAt(r).addr
             /\ EntryAt(r).flag = "OK" => EntryAt(r)'.flag = "OK"
             /\ bucket'[r] = bucket[r]
      /\ \A r \in Ref : bucket'[r].q # <<>> => ~Gone(r) /\ bucket'[r].q = bucket[r].q
      /\ ~overrun' => ~overrun /\ \A r \in Ref : Busy(r) => ~Gone(r)
  <2>1. SearchLeaves(d, a, hw)
    BY SearchStep DEF SafeInv, TypeInv
  <2> QED
    BY <2>1 DEF SearchLeaves
<1> HIDE DEF Gone
<1>2. ParkedOK'
  <2> SUFFICES ASSUME NEW r \in Ref, NEW f \in ToSet(bucket'[r].q) PROVE For(r, f)'
    BY DEF ParkedOK
  <2>1. bucket'[r].q # <<>>
    BY EmptySeq DEF ToSet
  <2>2. ~Gone(r) /\ f \in ToSet(bucket[r].q)
    BY <1>1, <2>1
  <2>3. For(r, f)
    BY <2>2 DEF SafeInv, ParkedOK
  <2> QED
    BY <1>1, <2>2, <2>3 DEF For
<1>3. BufOK'
  <2> SUFFICES ASSUME ~overrun' PROVE BufOK'
    BY DEF BufOK
  <2>1. ~overrun /\ \A r \in Ref : Busy(r) => ~Gone(r)
    BY <1>1
  <2>2. \A r \in Ref : Busy(r)' <=> Busy(r)
    BY DEF Busy
  <2>3. ASSUME NEW r \in Ref, Busy(r)
        PROVE  /\ EntryAt(r)'.flag = "OK"
               /\ Live(EntryAt(r))'
               /\ EntryAt(r)'.addr = EntryAt(r).addr
               /\ bucket'[r] = bucket[r]
    BY <1>1, <2>1, <2>3 DEF SafeInv, BufOK, Live
  <2>4. buf.pc \in {"pop", "count", "address", "write"} =>
            buf.slot \in Ref /\ Busy(buf.slot)
    BY DEF SafeInv, TypeInv, LocalsOK, Busy
  <2>5. buf.pc = "pop" => bucket'[buf.slot].q # <<>>
    BY <2>1, <2>3, <2>4 DEF SafeInv, BufOK
  <2>6. ASSUME buf.pc \in {"count", "address", "write"} PROVE For(buf.slot, buf.frame)'
    <3>1. For(buf.slot, buf.frame)
      BY <2>1, <2>6 DEF SafeInv, BufOK
    <3>2. PICK r \in Ref : r = buf.slot /\ Busy(r)
      BY <2>4, <2>6
    <3> QED
      BY <2>3, <3>1, <3>2 DEF For, EntryAt
  <2> QED
    BY <2>1, <2>2, <2>3, <2>5, <2>6 DEF SafeInv, BufOK
<1>4. TakeSafe' /\ CrashOnlyAfterOverrun' /\ RightMac'
  BY <1>1 DEF SafeInv, TakeSafe, CrashOnlyAfterOverrun, Crashed, RightMac
<1> QED
  BY <1>1, <1>2, <1>3, <1>4

(* At the end of a device's turn nothing is asked of the main thread. *)
LEMMA NextDeviceSafe == NextDevice => MainOK'
BY DEF NextDevice, MainOK

(* The main thread's steps preserve the invariant (main.c:106, main.c:243). *)
LEMMA MainSafe ==
    ASSUME SafeInv, TypeInv', MainThread
    PROVE  SafeInv'
<1> USE DEF MainAt
<1>1. ASSUME UNCHANGED <<tables, reqs, buf, wire>>, MainOK' PROVE SafeInv'
  BY <1>1, Steady DEF SafeInv, tables
<1>2. CASE Poll
  <2>1. MainOK'
    BY <1>2 DEF Poll, SafeInv, TypeInv, TypeOK, MainLocals, MainOK
  <2> QED
    BY <1>1, <1>2, <2>1 DEF Poll
<1>3. CASE Skip
  BY <1>1, <1>3, NextDeviceSafe DEF Skip
<1>4. CASE Wake
  <2>1. CASE NextDevice
    BY <1>1, <1>4, <2>1, NextDeviceSafe DEF Wake
  <2>2. CASE main' = [main EXCEPT !.pc = "request"]
    <3>1. MainOK'
      BY <1>4, <2>2
      DEF Wake, tables, SafeInv, TypeInv, TypeOK, MainLocals, MainOK, EntryAt
    <3> QED
      BY <1>1, <1>4, <3>1 DEF Wake
  <2> QED
    BY <1>4, <2>1, <2>2 DEF Wake
<1>5. CASE AppendSendReqData
  <2>1. main.slot \in Ref /\ EntryAt(main.slot).flag = "OK" /\ reqs \in Seq(Ref)
    BY <1>5 DEF AppendSendReqData, SafeInv, TypeInv, TypeOK, LocalsOK, MainOK
  <2>2. ToSet(reqs') \subseteq ToSet(reqs) \cup {main.slot}
        /\ (reqs # <<>> => reqs' # <<>>)
    <3>1. reqs' = reqs \/ reqs' = Append(reqs, main.slot)
      BY <1>5 DEF AppendSendReqData
    <3>2. Append(reqs, main.slot) # <<>>
      BY <2>1, AppendProperties, EmptySeq
    <3>3. ToSet(Append(reqs, main.slot)) = ToSet(reqs) \cup {main.slot}
      BY <2>1, Requests
    <3> QED
      BY <3>1, <3>2, <3>3
  <2>3. BufOK'
    <3> SUFFICES ASSUME ~overrun PROVE BufOK'
      BY <1>5 DEF AppendSendReqData, tables, BufOK
    <3>1. \A r \in Ref : Busy(r)' => Busy(r) \/ r = main.slot
      BY <1>5, <2>2 DEF AppendSendReqData, Busy
    <3>2. \A r \in Ref : Busy(r)' => EntryAt(r)'.flag = "OK"
      BY <1>5, <2>1, <3>1 DEF AppendSendReqData, tables, SafeInv, BufOK, EntryAt
    <3> QED
      BY <1>5, <3>2 DEF AppendSendReqData, tables, SafeInv, BufOK, For, EntryAt
  <2>4. TakeSafe' /\ CrashOnlyAfterOverrun'
    BY <1>5, <2>2
    DEF AppendSendReqData, tables, SafeInv, TakeSafe, CrashOnlyAfterOverrun, Crashed
  <2> QED
    BY <1>5, <2>3, <2>4, Steady, NextDeviceSafe DEF AppendSendReqData, tables, SafeInv
<1>6. ASSUME NEW h \in Host, RecvArp(h[1], h[2], h[3]) PROVE SafeInv'
  <2>1. h = <<h[1], h[2], h[3]>> /\ h[1] \in Dev /\ h[2] \in Addr /\ h[3] \in Mac
    BY HostAssumption
  <2>2. Search(h[1], h[2], h[3]) /\ UNCHANGED <<reqs, buf, wire>>
    BY <1>6 DEF RecvArp
  <2>3. /\ TablesOK' /\ ParkedOK' /\ BufOK'
        /\ TakeSafe' /\ CrashOnlyAfterOverrun' /\ RightMac'
    BY <2>1, <2>2, SearchSafe
  <2>4. CASE NextDevice
    BY <2>3, <2>4, NextDeviceSafe DEF SafeInv
  <2>5. CASE main' = [main EXCEPT !.pc = "wake",
                        !.slot = <<h[1], Place(arp[h[1]], h[2], h[3])>>]
    <3> DEFINE p == <<h[1], Place(arp[h[1]], h[2], h[3])>>
    <3>1. p \in Ref /\ \A r \in Ref : r = p => EntryAt(r)'.flag = "OK"
      <4>1. SearchLeaves(h[1], h[2], h[3])
        BY <2>1, <2>2, SearchStep DEF SafeInv, TypeInv
      <4> QED
        BY <2>1, <4>1, MacAssumption DEF SearchLeaves
    <3>2. main'.pc = "wake" /\ main'.slot = p
      BY <2>5 DEF SafeInv, TypeInv, TypeOK, MainLocals
    <3> HIDE DEF p
    <3>3. MainOK'
      BY <3>1, <3>2 DEF MainOK, EntryAt
    <3> QED
      BY <2>3, <3>3 DEF SafeInv
  <2> QED
    BY <1>6, <2>4, <2>5 DEF RecvArp
<1>7. ASSUME NEW f \in Frame, RecvIp(f) PROVE SafeInv'
  <2> DEFINE d == Egress(f)
             a == NextHop[f]
             p == <<d, Place(arp[d], a, NoMac)>>
  <2>1. d \in Dev /\ a \in Addr
    BY FrameAssumption DEF Egress, Dev
  <2>2. Search(d, a, NoMac) /\ UNCHANGED <<reqs, buf, wire>>
    BY <1>7 DEF RecvIp
  <2>3. /\ TablesOK' /\ ParkedOK' /\ BufOK'
        /\ TakeSafe' /\ CrashOnlyAfterOverrun' /\ RightMac'
    BY <2>1, <2>2, SearchSafe
  <2>4. p \in Ref /\ \A r \in Ref : r = p => Live(EntryAt(r))' /\ EntryAt(r)'.addr = a
    BY <2>1, <2>2, SearchPlace DEF SafeInv, TypeInv
  <2>5. main'.pc = "test" /\ main'.slot = p /\ main'.frame = f
    BY <1>7 DEF RecvIp, SafeInv, TypeInv, TypeOK, MainLocals
  <2>6. p[1] = d
    OBVIOUS
  <2> HIDE DEF p
  <2>7. MainOK'
    BY <2>4, <2>5, <2>6 DEF MainOK, For, EntryAt
  <2> QED
    BY <2>3, <2>7 DEF SafeInv
<1>8. CASE Test
  <2>1. For(main.slot, main.frame) /\ main.slot \in Ref
    BY <1>8 DEF Test, SafeInv, MainOK, TypeInv, LocalsOK
  <2>2. CASE main' = [main EXCEPT !.pc = "park"]
    <3>1. MainOK'
      BY <1>8, <2>1, <2>2
      DEF Test, tables, SafeInv, TypeInv, TypeOK, MainLocals, MainOK, For, EntryAt
    <3> QED
      BY <1>1, <1>8, <3>1 DEF Test
  <2>3. CASE /\ EntryAt(main.slot).flag # "NG"
             /\ main' = [main EXCEPT !.pc = "write", !.mac = EntryAt(main.slot).hwaddr]
    <3>1. <<Egress(main.frame), NextHop[main.frame], EntryAt(main.slot).hwaddr>> \in Host
      <4>1. EntryAt(main.slot).flag = "OK"
        <5>1. EntryAt(main.slot) \in Entry
          BY <2>1 DEF SafeInv, TypeInv, TypeOK, EntryAt, Table, Ref
        <5> QED
          BY <2>1, <2>3, <5>1 DEF For, Live, Entry, Flag
      <4> QED
        BY <2>1, <4>1 DEF SafeInv, TablesOK, For, EntryAt, Ref
    <3>2. MainOK'
      BY <1>8, <2>1, <2>3, <3>1
      DEF Test, tables, SafeInv, TypeInv, TypeOK, MainLocals, MainOK, For, EntryAt
    <3> QED
      BY <1>1, <1>8, <3>2 DEF Test
  <2> QED
    BY <1>8, <2>2, <2>3 DEF Test
<1>9. CASE CheckBucket
  <2>1. CASE NextDevice
    BY <1>1, <1>9, <2>1, NextDeviceSafe DEF CheckBucket
  <2>2. CASE main' = [main EXCEPT !.pc = "append"]
    <3>1. MainOK'
      BY <1>9, <2>2
      DEF CheckBucket, tables, SafeInv, TypeInv, TypeOK, MainLocals, MainOK, For, EntryAt
    <3> QED
      BY <1>1, <1>9, <3>1 DEF CheckBucket
  <2> QED
    BY <1>9, <2>1, <2>2 DEF CheckBucket
<1>10. CASE AppendSendData
  <2>1. /\ main.slot \in Ref /\ For(main.slot, main.frame)
        /\ main.frame \in Frame /\ bucket[main.slot].q \in Seq(Frame)
    BY <1>10
    DEF AppendSendData, SafeInv, MainOK, TypeInv, TypeOK, LocalsOK, Bucket
  <2>2. \A r \in Ref : bucket'[r].q = IF r = main.slot
                                      THEN Append(bucket[r].q, main.frame)
                                      ELSE bucket[r].q
    BY <1>10, <2>1 DEF AppendSendData, Appended, SafeInv, TypeInv, TypeOK
  <2>3. \A r \in Ref : /\ bucket[r].q # <<>> => bucket'[r].q # <<>>
                       /\ ToSet(bucket'[r].q) \subseteq
                              ToSet(bucket[r].q) \cup (IF r = main.slot THEN {main.frame} ELSE {})
    <3>1. Append(bucket[main.slot].q, main.frame) # <<>>
      BY <2>1, AppendProperties, EmptySeq
    <3>2. ToSet(Append(bucket[main.slot].q, main.frame))
              = ToSet(bucket[main.slot].q) \cup {main.frame}
      BY <2>1, Requests
    <3> SUFFICES ASSUME NEW r \in Ref
                 PROVE  /\ bucket[r].q # <<>> => bucket'[r].q # <<>>
                        /\ ToSet(bucket'[r].q) \subseteq ToSet(bucket[r].q)
                              \cup (IF r = main.slot THEN {main.frame} ELSE {})
      OBVIOUS
    <3>3. CASE r = main.slot
      BY <2>2, <3>1, <3>2, <3>3
    <3>4. CASE r # main.slot
      BY <2>2, <3>4
    <3> QED
      BY <3>3, <3>4
  <2>4. ParkedOK'
    BY <1>10, <2>1, <2>3 DEF AppendSendData, SafeInv, ParkedOK, For, EntryAt
  <2>5. BufOK'
    BY <1>10, <2>3
    DEF AppendSendData, SafeInv, TypeInv, LocalsOK, BufOK, Busy, For, EntryAt
  <2>6. TakeSafe' /\ CrashOnlyAfterOverrun'
    BY <1>10 DEF AppendSendData, SafeInv, TakeSafe, CrashOnlyAfterOverrun, Crashed
  <2> QED
    BY <1>10, <2>4, <2>5, <2>6, Steady, NextDeviceSafe DEF AppendSendData, SafeInv
<1>11. CASE Write
  <2>1. RightMac'
    BY <1>11 DEF Write, tables, Written, SafeInv, MainOK, RightMac
  <2> QED
    BY <1>11, <2>1, Steady, NextDeviceSafe DEF Write, tables, SafeInv
<1>12. CASE Leave
  <2>1. MainOK'
    BY <1>12 DEF Leave, SafeInv, TypeInv, TypeOK, MainLocals, MainOK
  <2> QED
    BY <1>1, <1>12, <2>1 DEF Leave
<1>13. CASE Join
  <2>1. MainOK'
    BY <1>13 DEF Join, SafeInv, TypeInv, TypeOK, MainLocals, MainOK
  <2> QED
    BY <1>1, <1>13, <2>1 DEF Join
<1> QED
  BY <1>2, <1>3, <1>4, <1>5, <1>6, <1>7, <1>8, <1>9, <1>10, <1>11, <1>12, <1>13
  DEF MainThread

(* The buffer thread's steps preserve it (ip2mac.c:160, ip2mac.c:290). *)
LEMMA BufSafe ==
    ASSUME SafeInv, TypeInv', BufThread
    PROVE  SafeInv'
<1> DEFINE Quiet == UNCHANGED <<tables, reqs, main, wire>>
<1>1. ASSUME Quiet, BufOK', TakeSafe', CrashOnlyAfterOverrun' PROVE SafeInv'
  BY <1>1, Steady DEF SafeInv, tables
<1>2. ASSUME arp' = arp, overrun' = overrun, reqs' = reqs,
             \A r \in Ref : buf'.slot = r => buf.slot = r,
             buf'.pc \notin {"pop", "count", "address", "write"}
      PROVE  BufOK'
  BY <1>2 DEF SafeInv, BufOK, Busy, EntryAt
<1>3. CASE BufLoop \/ BufWait
  <2>1. buf'.slot = buf.slot /\ buf'.pc \in {"done", "wait", "get"} /\ Quiet
    BY <1>3 DEF BufLoop, BufWait, SafeInv, TypeInv, TypeOK, BufLocals
  <2> QED
    BY <1>1, <1>2, <2>1 DEF tables, TakeSafe, CrashOnlyAfterOverrun, Crashed
<1>4. CASE GetSendReqData
  <2>1. /\ buf'.slot = buf.slot /\ Quiet
        /\ buf'.pc = IF reqs = <<>> THEN "loop" ELSE "take"
    BY <1>4 DEF GetSendReqData, SafeInv, TypeInv, TypeOK, BufLocals
  <2> QED
    BY <1>1, <1>2, <2>1 DEF tables, TakeSafe, CrashOnlyAfterOverrun, Crashed
<1>5. CASE TakeRequest
  <2>1. reqs # <<>> /\ reqs \in Seq(Ref)
    BY <1>5 DEF TakeRequest, SafeInv, TakeSafe, TypeInv, TypeOK
  <2>2. /\ buf'.pc = "check" /\ buf'.slot = Head(reqs) /\ reqs' = Tail(reqs)
        /\ UNCHANGED <<tables, main, wire>>
    BY <1>5, <2>1 DEF TakeRequest, SafeInv, TypeInv, TypeOK, BufLocals
  <2>3. \A r \in Ref : Busy(r)' => Busy(r)
    BY <2>1, <2>2, Requests DEF Busy
  <2>4. BufOK'
    BY <2>2, <2>3 DEF tables, SafeInv, BufOK, EntryAt
  <2>5. TakeSafe' /\ CrashOnlyAfterOverrun'
    BY <2>2 DEF TakeSafe, CrashOnlyAfterOverrun, Crashed
  <2> QED
    BY <2>2, <2>4, <2>5, Steady DEF tables, SafeInv
<1>6. CASE GetSendData
  <2>1. CASE bucket[buf.slot].q = <<>>
    <3>1. buf'.pc = "get" /\ buf'.slot = NoRef /\ Quiet /\ reqs' = reqs
      BY <1>6, <2>1 DEF GetSendData, SafeInv, TypeInv, TypeOK, BufLocals
    <3>2. \A r \in Ref : r # NoRef
      BY DEF Ref, NoRef
    <3> QED
      BY <1>1, <1>2, <3>1, <3>2 DEF tables, TakeSafe, CrashOnlyAfterOverrun, Crashed
  <2>2. CASE bucket[buf.slot].q # <<>>
    <3>1. buf'.pc = "pop" /\ buf'.slot = buf.slot /\ Quiet
      BY <1>6, <2>2 DEF GetSendData, SafeInv, TypeInv, TypeOK, BufLocals
    <3>2. BufOK'
      BY <2>2, <3>1 DEF tables, SafeInv, BufOK, Busy, EntryAt
    <3> QED
      BY <1>1, <3>1, <3>2 DEF TakeSafe, CrashOnlyAfterOverrun, Crashed
  <2> QED
    BY <2>1, <2>2
<1>7. CASE PopFrame
  <2>1. buf.slot \in Ref /\ bucket[buf.slot].q \in Seq(Frame)
    BY <1>7 DEF PopFrame, SafeInv, TypeInv, TypeOK, LocalsOK, Bucket
  <2>2. CASE bucket[buf.slot].q = <<>>
    <3>1. overrun /\ buf'.pc = "crashed" /\ Quiet
      BY <1>7, <2>2 DEF PopFrame, tables, SafeInv, BufOK, TypeInv, TypeOK, BufLocals
    <3> QED
      BY <1>1, <3>1 DEF tables, BufOK, TakeSafe, CrashOnlyAfterOverrun, Crashed
  <2>3. CASE bucket[buf.slot].q # <<>>
    <3>1. /\ buf'.pc = "count" /\ buf'.slot = buf.slot
          /\ buf'.frame = Head(bucket[buf.slot].q)
          /\ UNCHANGED <<arp, overrun, reqs, main, wire>>
      BY <1>7, <2>3 DEF PopFrame, SafeInv, TypeInv, TypeOK, BufLocals
    <3>2. \A r \in Ref : bucket'[r].q = IF r = buf.slot THEN Tail(bucket[r].q)
                                        ELSE bucket[r].q
      <4>1. bucket \in [Ref -> Bucket]
            /\ bucket' = [bucket EXCEPT ![buf.slot] = Popped(bucket[buf.slot])]
        BY <1>7, <2>3 DEF PopFrame, SafeInv, TypeInv, TypeOK
      <4>2. Popped(bucket[buf.slot]).q = Tail(bucket[buf.slot].q)
        BY DEF Popped
      <4> QED
        BY <2>1, <4>1, <4>2
    <3>3. /\ Head(bucket[buf.slot].q) \in ToSet(bucket[buf.slot].q)
          /\ ToSet(Tail(bucket[buf.slot].q)) \subseteq ToSet(bucket[buf.slot].q)
      BY <2>1, <2>3, Requests
    <3>4. \A r \in Ref : ToSet(bucket'[r].q) \subseteq ToSet(bucket[r].q)
      <4> SUFFICES ASSUME NEW r \in Ref
                   PROVE  ToSet(bucket'[r].q) \subseteq ToSet(bucket[r].q)
        OBVIOUS
      <4>1. CASE r = buf.slot
        BY <3>2, <3>3, <4>1
      <4>2. CASE r # buf.slot
        BY <3>2, <4>2
      <4> QED
        BY <4>1, <4>2
    <3>5. ParkedOK'
      BY <3>1, <3>4 DEF SafeInv, ParkedOK, For, EntryAt
    <3>6. For(buf.slot, Head(bucket[buf.slot].q))
      BY <2>1, <3>3 DEF SafeInv, ParkedOK
    <3>7. BufOK'
      BY <3>1, <3>6 DEF SafeInv, BufOK, Busy, For, EntryAt
    <3> QED
      BY <3>1, <3>5, <3>7, Steady DEF SafeInv, TakeSafe, CrashOnlyAfterOverrun, Crashed
  <2> QED
    BY <2>2, <2>3
<1>8. CASE CountOff
  <2>1. buf.slot \in Ref /\ buf.pc = "count"
    BY <1>8 DEF CountOff, SafeInv, TypeInv, LocalsOK
  <2>2. /\ buf'.pc = "address" /\ buf'.slot = buf.slot /\ buf'.frame = buf.frame
        /\ UNCHANGED <<arp, overrun, reqs, main, wire>>
    BY <1>8 DEF CountOff, SafeInv, TypeInv, TypeOK, BufLocals
  <2>3. \A r \in Ref : bucket'[r].q = bucket[r].q
    BY <1>8 DEF CountOff, CountedOff, SafeInv, TypeInv, TypeOK
  <2>4. BufOK'
    BY <2>1, <2>2 DEF SafeInv, BufOK, Busy, For, EntryAt
  <2> QED
    BY <2>2, <2>3, <2>4, Steady DEF SafeInv, TakeSafe, CrashOnlyAfterOverrun, Crashed
<1>9. CASE ReadAddress
  <2>1. buf.slot \in Ref /\ buf.pc = "address"
    BY <1>9 DEF ReadAddress, SafeInv, TypeInv, LocalsOK
  <2>2. /\ buf'.pc = "write" /\ buf'.slot = buf.slot /\ buf'.frame = buf.frame
        /\ buf'.mac = EntryAt(buf.slot).hwaddr /\ Quiet
    BY <1>9 DEF ReadAddress, SafeInv, TypeInv, TypeOK, BufLocals
  <2>3. BufOK'
    <3> SUFFICES ASSUME ~overrun PROVE BufOK'
      BY <2>2 DEF tables, BufOK
    <3>1. For(buf.slot, buf.frame) /\ EntryAt(buf.slot).flag = "OK"
      BY <2>1 DEF SafeInv, BufOK, Busy
    <3>2. <<Egress(buf.frame), NextHop[buf.frame], EntryAt(buf.slot).hwaddr>> \in Host
      BY <2>1, <3>1 DEF SafeInv, TablesOK, For, EntryAt, Ref
    <3> QED
      BY <2>1, <2>2, <3>1, <3>2 DEF tables, SafeInv, BufOK, Busy, For, EntryAt
  <2> QED
    BY <1>1, <2>2, <2>3 DEF TakeSafe, CrashOnlyAfterOverrun, Crashed
<1>10. CASE BufWrite
  <2>1. /\ buf.pc = "write" /\ buf'.pc = "check" /\ buf'.slot = buf.slot
        /\ wire' = wire \cup {Written(buf.frame, buf.mac, "sender")}
        /\ UNCHANGED <<tables, reqs, main>>
    BY <1>10 DEF BufWrite, SafeInv, TypeInv, TypeOK, BufLocals
  <2>2. BufOK'
    BY <1>2, <2>1 DEF tables
  <2>3. RightMac'
    BY <2>1 DEF tables, Written, SafeInv, BufOK, RightMac
  <2> QED
    BY <2>1, <2>2, <2>3, Steady
    DEF tables, SafeInv, TakeSafe, CrashOnlyAfterOverrun, Crashed
<1> QED
  BY <1>3, <1>4, <1>5, <1>6, <1>7, <1>8, <1>9, <1>10 DEF BufThread

(* Every step preserves the invariant. *)
LEMMA NextSafe == SafeInv /\ [Next]_vars => SafeInv'
<1> SUFFICES ASSUME SafeInv, [Next]_vars PROVE SafeInv'
  OBVIOUS
<1>1. TypeInv'
  BY NextType DEF SafeInv
<1>2. CASE MainThread
  BY <1>1, <1>2, MainSafe
<1>3. CASE BufThread
  BY <1>1, <1>3, BufSafe
<1>4. CASE EndSignal \/ UNCHANGED vars
  <2>1. UNCHANGED <<arp, bucket, overrun, reqs, main, buf, wire>>
    BY <1>4 DEF EndSignal, tables, vars
  <2> QED
    BY <1>1, <2>1, Steady DEF SafeInv
<1>5. CASE Tick
  <2>1. \A d \in Dev, s \in Slot :
            /\ arp'[d][s].flag = arp[d][s].flag
            /\ arp'[d][s].addr = arp[d][s].addr
            /\ arp'[d][s].hwaddr = arp[d][s].hwaddr
    BY <1>5, AgedProperties DEF Tick, SafeInv, TypeInv, TypeOK
  <2>2. \A r \in Ref : /\ EntryAt(r)'.flag = EntryAt(r).flag
                       /\ EntryAt(r)'.addr = EntryAt(r).addr
    <3>1. \A r \in Ref : r[1] \in Dev /\ r[2] \in Slot
      BY DEF Ref
    <3> QED
      BY <2>1, <3>1 DEF EntryAt
  <2>3. UNCHANGED <<bucket, overrun, reqs, main, buf, wire>>
    BY <1>5 DEF Tick
  <2>4. TablesOK'
    BY <2>1 DEF SafeInv, TablesOK, FilledTable, Live
  <2>5. ParkedOK'
    BY <2>2, <2>3 DEF SafeInv, ParkedOK, For, Live
  <2>6. MainOK'
    BY <2>2, <2>3 DEF SafeInv, TypeInv, LocalsOK, MainOK, For, Live
  <2>7. BufOK'
    BY <2>2, <2>3 DEF SafeInv, TypeInv, LocalsOK, BufOK, Busy, For, Live
  <2> QED
    BY <1>1, <2>3, <2>4, <2>5, <2>6, <2>7
    DEF SafeInv, TakeSafe, CrashOnlyAfterOverrun, Crashed, RightMac
<1> QED
  BY <1>2, <1>3, <1>4, <1>5 DEF Next, Halted

(* The invariant of the two threads: what each may count on at each point. *)
THEOREM SafetyInvariant == Spec => []SafeInv
  BY InitSafe, NextSafe, PTL DEF Spec

-----------------------------------------------------------------------------
(* What follows from it                                                    *)

(* The unlocked test of SendReq.top in GetSendReqData (ip2mac.c:265) is    *)
(* good for what follows it; that of sd->top in GetSendData (sendBuf.c:76) *)
(* is as long as no entry expires that the buffer thread has to serve.     *)
THEOREM NullSafety == Spec => []NullSafe
<1>1. SafeInv => NullSafe
  BY DEF SafeInv, NullSafe
<1> QED
  BY <1>1, SafetyInvariant, PTL

(* Frames carry an address their next hop announced: those the main thread *)
(* writes (main.c:237) always, those the buffer thread writes              *)
(* (ip2mac.c:200) until such an entry expires.                             *)
THEOREM RightHardwareAddress == Spec => []RightMac
<1>1. SafeInv => RightMac
  BY DEF SafeInv
<1> QED
  BY <1>1, SafetyInvariant, PTL

(* AppendSendReqData (ip2mac.c:229) never enters a slot that is already    *)
(* in SendReq, and taking the first request leaves the others.             *)
LEMMA RequestsStayDistinct ==
    ASSUME NEW S, NEW q \in Seq(S), IsInjective(q)
    PROVE  /\ \A x \in S \ ToSet(q) : IsInjective(Append(q, x))
           /\ q # <<>> => IsInjective(Tail(q))
<1>1. Len(q) \in Nat /\ DOMAIN q = 1..Len(q)
  BY LenProperties
<1>2. \A i, j \in 1..Len(q) : q[i] = q[j] => i = j
  BY <1>1 DEF IsInjective
<1>3. ASSUME NEW x \in S \ ToSet(q) PROVE IsInjective(Append(q, x))
  <2> DEFINE w == Append(q, x)
  <2>1. /\ DOMAIN w = 1..(Len(q) + 1)
        /\ \A i \in 1..Len(q) : w[i] = q[i]
        /\ w[Len(q) + 1] = x
    BY AppendProperties, LenProperties
  <2>2. \A i \in 1..Len(q) : q[i] # x
    BY <1>1, <1>3 DEF ToSet
  <2> HIDE DEF w
  <2>3. \A i, j \in DOMAIN w : w[i] = w[j] => i = j
    <3> SUFFICES ASSUME NEW i \in 1..(Len(q) + 1), NEW j \in 1..(Len(q) + 1), w[i] = w[j]
                 PROVE  i = j
      BY <2>1
    <3>1. CASE i \in 1..Len(q) /\ j \in 1..Len(q)
      BY <1>2, <2>1, <3>1
    <3>2. CASE i \notin 1..Len(q) /\ j \notin 1..Len(q)
      BY <1>1, <3>2
    <3>3. CASE i \in 1..Len(q) /\ j \notin 1..Len(q)
      <4>1. j = Len(q) + 1
        BY <1>1, <3>3
      <4> QED
        BY <2>1, <2>2, <3>3, <4>1
    <3>4. CASE i \notin 1..Len(q) /\ j \in 1..Len(q)
      <4>1. i = Len(q) + 1
        BY <1>1, <3>4
      <4> QED
        BY <2>1, <2>2, <3>4, <4>1
    <3> QED
      BY <3>1, <3>2, <3>3, <3>4
  <2> QED
    BY <2>3 DEF IsInjective, w
<1>4. ASSUME q # <<>> PROVE IsInjective(Tail(q))
  <2>1. /\ Len(q) > 0 /\ Tail(q) \in Seq(S) /\ Len(Tail(q)) = Len(q) - 1
        /\ \A i \in 1..Len(Tail(q)) : Tail(q)[i] = q[i + 1]
    BY <1>1, <1>4, HeadTailProperties, EmptySeq
  <2>2. DOMAIN Tail(q) = 1..(Len(q) - 1)
    BY <2>1, LenProperties
  <2> SUFFICES ASSUME NEW i \in 1..(Len(q) - 1), NEW j \in 1..(Len(q) - 1),
                      Tail(q)[i] = Tail(q)[j]
               PROVE  i = j
    BY <2>2 DEF IsInjective
  <2>3. i + 1 \in 1..Len(q) /\ j + 1 \in 1..Len(q) /\ q[i + 1] = q[j + 1]
    BY <1>1, <2>1
  <2>4. i + 1 = j + 1
    BY <1>2, <2>3
  <2> QED
    BY <1>1, <2>4
<1> QED
  BY <1>3, <1>4

(* A slot is never requested twice at a time (ip2mac.c:229).               *)
THEOREM RequestedOnlyOnce == Spec => []RequestedOnce
<1>1. Init => RequestedOnce
  BY EmptySeq DEF Init, RequestedOnce, IsInjective
<1>2. TypeInv /\ RequestedOnce /\ [Next]_vars => RequestedOnce'
  <2> SUFFICES ASSUME TypeInv, RequestedOnce, [Next]_vars PROVE RequestedOnce'
    OBVIOUS
  <2>1. reqs \in Seq(Ref) /\ IsInjective(reqs)
    BY DEF TypeInv, TypeOK, RequestedOnce
  <2>2. CASE AppendSendReqData
    <3>1. main.slot \in Ref
      BY <2>2 DEF AppendSendReqData, MainAt, TypeInv, LocalsOK
    <3> QED
      BY <2>1, <2>2, <3>1, RequestsStayDistinct DEF AppendSendReqData, RequestedOnce
  <2>3. CASE TakeRequest
    BY <2>1, <2>3, RequestsStayDistinct DEF TakeRequest, RequestedOnce
  <2>4. CASE reqs' = reqs
    BY <2>4 DEF RequestedOnce
  <2>5. AppendSendReqData \/ TakeRequest \/ reqs' = reqs
    BY DEF Next, MainThread, BufThread, Poll, Skip, RecvArp, Wake, RecvIp, Test,
           CheckBucket, AppendSendData, Write, Leave, Join, BufLoop, BufWait,
           GetSendReqData, GetSendData, PopFrame, CountOff, ReadAddress, BufWrite,
           EndSignal, Tick, Halted, vars
  <2> QED
    BY <2>2, <2>3, <2>4, <2>5
<1> QED
  BY <1>1, <1>2, TypeInvariant, PTL DEF Spec

(* So SendReq, which has no limit of its own, holds at most one request    *)
(* for each slot of the two tables, however fast ARP packets come and      *)
(* however slow the buffer thread is (ip2mac.c:235).                       *)
QueueShort == Len(reqs) <= 2 * MaxSlot

THEOREM QueueBounded == Spec => []QueueShort
<1>1. TypeInv /\ RequestedOnce => QueueShort
  <2> SUFFICES ASSUME TypeInv, RequestedOnce PROVE Len(reqs) <= 2 * MaxSlot
    BY DEF QueueShort
  <2>1. reqs \in Seq(Ref) /\ Len(reqs) \in Nat /\ DOMAIN reqs = 1..Len(reqs)
    BY LenProperties DEF TypeInv, TypeOK
  <2>2. reqs \in Injection(1..Len(reqs), Ref)
    <3>1. reqs \in [1..Len(reqs) -> Ref]
      BY <2>1, ElementOfSeq
    <3>2. \A i, j \in 1..Len(reqs) : reqs[i] = reqs[j] => i = j
      BY <2>1 DEF RequestedOnce, IsInjective
    <3> QED
      BY <3>1, <3>2, Zenon DEF Injection, IsInjective
  <2>3. IsFiniteSet(Ref) /\ Cardinality(Ref) = 2 * MaxSlot
    <3>1. IsFiniteSet(Slot) /\ Cardinality(Slot) = MaxSlot
      <4>1. 1 \in Int /\ MaxSlot \in Int /\ ~(1 > MaxSlot)
        BY SlotAssumption
      <4>2. IsFiniteSet(1..MaxSlot) /\ Cardinality(1..MaxSlot) = MaxSlot - 1 + 1
        BY <4>1, FS_Interval, Zenon
      <4> QED
        BY <4>1, <4>2 DEF Slot
    <3>2. IsFiniteSet(Dev) /\ Cardinality(Dev) = 2
      <4>1. Dev = 0..1 /\ 0 \in Int /\ 1 \in Int /\ ~(0 > 1)
        BY DEF Dev
      <4>2. IsFiniteSet(0..1) /\ Cardinality(0..1) = 1 - 0 + 1
        BY <4>1, FS_Interval, Zenon
      <4> QED
        BY <4>1, <4>2
    <3> QED
      BY <3>1, <3>2, FS_Product DEF Ref
  <2>4. IsFiniteSet(1..Len(reqs)) /\ Cardinality(1..Len(reqs)) = Len(reqs)
    <3>1. 1 \in Int /\ Len(reqs) \in Int
      BY <2>1
    <3>2. /\ IsFiniteSet(1..Len(reqs))
          /\ Cardinality(1..Len(reqs)) = IF 1 > Len(reqs) THEN 0 ELSE Len(reqs) - 1 + 1
      BY <3>1, FS_Interval, Zenon
    <3> QED
      BY <2>1, <3>2
  <2>5. Cardinality(1..Len(reqs)) <= Cardinality(Ref)
    BY <2>2, <2>3, FS_Injection
  <2> QED
    BY <2>3, <2>4, <2>5
<1> QED
  BY <1>1, TypeInvariant, RequestedOnlyOnce, PTL

-----------------------------------------------------------------------------
(* The mutexes and the end                                                 *)

(* A bucket's mutex is held across a step only by the buffer thread, which *)
(* is then about to count its frame off and to unlock (sendBuf.c:80 to     *)
(* sendBuf.c:94): no expired entry and no slot that changes hands leaves   *)
(* one locked.  So the main thread, which waits for one in AppendSendData  *)
(* and FreeSendData, never waits for more than one step of the buffer      *)
(* thread, and no mutex keeps that thread from taking it.                  *)
LockHeld == \A r \in Ref : bucket[r].locked => buf.pc = "count" /\ buf.slot = r

(* The threads end in order: each leaves its loop on EndFlag only, and the *)
(* sockets are closed when the buffer thread is done with them             *)
(* (router/main.c:253, router/main.c:359, ip2mac.c:296).                   *)
EndOrder ==
    /\ buf.pc = "done" \/ main.pc \in {"join", "exit"} => endFlag
    /\ Exited => buf.pc = "done"

(* Only the buffer thread locks for longer than a step.                    *)
LEMMA NextLocks ==
    ASSUME TypeInv, LockHeld, [Next]_vars
    PROVE  LockHeld'
<1>t. /\ bucket \in [Ref -> Bucket] /\ buf \in BufLocals
      /\ buf.pc \in {"check", "pop", "count", "address", "write"} => buf.slot \in Ref
  BY DEF TypeInv, TypeOK, LocalsOK
<1>1. ASSUME UNCHANGED buf, \A r \in Ref : bucket'[r].locked => bucket[r].locked
      PROVE  LockHeld'
  BY <1>1 DEF LockHeld
<1>2. ASSUME NEW d, NEW a, NEW hw, Search(d, a, hw), UNCHANGED buf
      PROVE  LockHeld'
  <2>1. \A r \in Ref : \/ bucket'[r] = EmptyBucket
                        \/ bucket'[r] = FreeSendData(bucket[r])
                        \/ bucket'[r] = bucket[r]
    BY <1>2 DEF Search
  <2>2. ~EmptyBucket.locked /\ \A b : FreeSendData(b).locked = b.locked
    BY DEF EmptyBucket, FreeSendData
  <2>3. \A r \in Ref : bucket'[r].locked => bucket[r].locked
    BY <2>1, <2>2
  <2> QED
    BY <1>1, <1>2, <2>3
<1>3. CASE AppendSendData
  <2>1. \A r \in Ref : bucket'[r].locked => bucket[r].locked
    BY <1>3, <1>t DEF AppendSendData, Appended
  <2> QED
    BY <1>1, <1>3, <2>1 DEF AppendSendData
<1>4. CASE PopFrame
  <2>1. CASE bucket[buf.slot].q = <<>>
    BY <1>4, <2>1 DEF PopFrame, LockHeld
  <2>2. CASE bucket[buf.slot].q # <<>>
    <3>1. buf'.pc = "count" /\ buf'.slot = buf.slot /\ buf.pc = "pop"
      BY <1>4, <1>t, <2>2 DEF PopFrame, BufLocals
    <3>2. \A r \in Ref : r # buf.slot => bucket'[r] = bucket[r]
      BY <1>4, <1>t, <2>2 DEF PopFrame
    <3> QED
      BY <3>1, <3>2 DEF LockHeld
  <2> QED
    BY <2>1, <2>2
<1>5. CASE CountOff
  <2>1. buf.slot \in Ref /\ buf.pc = "count"
    BY <1>5, <1>t DEF CountOff
  <2>2. ~bucket'[buf.slot].locked /\ \A r \in Ref : r # buf.slot => bucket'[r] = bucket[r]
    BY <1>5, <1>t, <2>1 DEF CountOff, CountedOff
  <2> QED
    BY <2>1, <2>2 DEF LockHeld
<1>6. CASE /\ UNCHANGED bucket
           /\ UNCHANGED buf \/ buf.pc # "count"
  BY <1>6 DEF LockHeld
<1>7. CASE \/ \E h \in Host : RecvArp(h[1], h[2], h[3])
           \/ \E f \in Frame : RecvIp(f)
  <2>1. \E d, a, hw : Search(d, a, hw)
    BY <1>7 DEF RecvArp, RecvIp
  <2>2. UNCHANGED buf
    BY <1>7 DEF RecvArp, RecvIp
  <2> QED
    BY <1>2, <2>1, <2>2
<1>8. CASE \/ Poll \/ Skip \/ Wake \/ AppendSendReqData \/ Test \/ CheckBucket \/ Write
           \/ Leave \/ Join \/ EndSignal \/ Tick \/ UNCHANGED vars
  <2>1. UNCHANGED <<bucket, buf>>
    BY <1>8 DEF Poll, Skip, Wake, AppendSendReqData, Test, CheckBucket, Write, Leave, Join,
                EndSignal, Tick, vars, tables
  <2> QED
    BY <1>6, <2>1
<1>9. CASE \/ BufLoop \/ BufWait \/ GetSendReqData \/ TakeRequest \/ GetSendData
           \/ ReadAddress \/ BufWrite
  <2>1. UNCHANGED bucket /\ buf.pc # "count"
    BY <1>9 DEF BufLoop, BufWait, GetSendReqData, TakeRequest, GetSendData, ReadAddress,
                BufWrite, tables
  <2> QED
    BY <1>6, <2>1
<1> QED
  BY <1>3, <1>4, <1>5, <1>7, <1>8, <1>9 DEF Next, MainThread, BufThread, Halted

(* EndFlag stays set, and a thread that has ended does nothing more.       *)
LEMMA NextEnd ==
    ASSUME TypeInv, EndOrder, [Next]_vars
    PROVE  EndOrder'
<1>t. main \in MainLocals /\ buf \in BufLocals
  BY DEF TypeInv, TypeOK
<1>1. CASE Leave
  BY <1>1, <1>t DEF Leave, EndOrder, Exited, MainLocals
<1>2. CASE Join
  BY <1>2, <1>t DEF Join, MainAt, EndOrder, Exited, MainLocals
<1>3. CASE BufLoop
  BY <1>3, <1>t DEF BufLoop, EndOrder, Exited, BufLocals
<1>4. CASE EndSignal
  BY <1>4 DEF EndSignal, EndOrder, Exited
<1>5. CASE \/ Poll \/ Skip \/ Wake \/ AppendSendReqData \/ Test \/ CheckBucket
           \/ AppendSendData \/ Write
           \/ \E h \in Host : RecvArp(h[1], h[2], h[3])
           \/ \E f \in Frame : RecvIp(f)
  <2>1. UNCHANGED <<buf, endFlag>>
    BY <1>5 DEF Poll, Skip, Wake, AppendSendReqData, Test, CheckBucket, AppendSendData,
                Write, RecvArp, RecvIp
  <2>2. NextDevice => main'.pc \notin {"join", "exit"}
    BY DEF NextDevice
  <2>3. ASSUME NEW h \in Host, RecvArp(h[1], h[2], h[3]) PROVE main'.pc \notin {"join", "exit"}
    BY <1>t, <2>2, <2>3 DEF RecvArp, MainLocals
  <2>4. ASSUME NEW f \in Frame, RecvIp(f) PROVE main'.pc \notin {"join", "exit"}
    BY <1>t, <2>4 DEF RecvIp, MainLocals
  <2>5. ASSUME Skip \/ AppendSendReqData \/ AppendSendData \/ Write
        PROVE  main'.pc \notin {"join", "exit"}
    BY <2>2, <2>5 DEF Skip, AppendSendReqData, AppendSendData, Write
  <2>6. ASSUME Poll \/ Wake \/ Test \/ CheckBucket
        PROVE  main'.pc \notin {"join", "exit"}
    BY <1>t, <2>2, <2>6 DEF Poll, Wake, Test, CheckBucket, MainLocals
  <2>7. main'.pc \notin {"join", "exit"}
    BY <1>5, <2>3, <2>4, <2>5, <2>6
  <2> QED
    BY <2>1, <2>7 DEF EndOrder, Exited
<1>6. CASE \/ BufWait \/ GetSendReqData \/ TakeRequest \/ GetSendData
           \/ PopFrame \/ CountOff \/ ReadAddress \/ BufWrite
  <2>1. UNCHANGED <<main, endFlag>> /\ buf.pc # "done" /\ buf'.pc # "done"
    BY <1>6, <1>t DEF BufWait, GetSendReqData, TakeRequest, GetSendData, PopFrame, CountOff,
                      ReadAddress, BufWrite, BufLocals
  <2> QED
    BY <2>1 DEF EndOrder, Exited
<1>7. CASE Tick \/ UNCHANGED vars
  BY <1>7 DEF Tick, vars, EndOrder, Exited
<1> QED
  BY <1>1, <1>2, <1>3, <1>4, <1>5, <1>6, <1>7 DEF Next, MainThread, BufThread, Halted

(* Both hold from the start.                                               *)
LEMMA EndInvariant == Spec => [](LockHeld /\ EndOrder)
<1>1. Init => LockHeld /\ EndOrder
  BY DEF Init, LockHeld, EmptyBucket, EndOrder, Exited
<1>2. TypeInv /\ LockHeld /\ EndOrder /\ [Next]_vars => (LockHeld /\ EndOrder)'
  BY NextLocks, NextEnd
<1> QED
  BY <1>1, <1>2, TypeInvariant, PTL DEF Spec

(* No thread is left waiting for a mutex that nobody will unlock.          *)
THEOREM LocksReleased == Spec => []LockHeld
BY EndInvariant, PTL

(* The program ends in order, and then nothing is written any more, not to *)
(* a socket that is closed either (router/main.c:359).                     *)
THEOREM EndsAfterBuffer == Spec => []EndOrder /\ [][Exited => UNCHANGED wire]_vars
<1>1. TypeInv /\ EndOrder /\ [Next]_vars => [Exited => UNCHANGED wire]_vars
  <2> SUFFICES ASSUME TypeInv, EndOrder, Next, Exited PROVE UNCHANGED wire
    OBVIOUS
  <2>1. main.pc = "exit" /\ buf.pc = "done"
    BY DEF EndOrder, Exited
  <2> QED
    BY <2>1 DEF Exited, Next, MainThread, Poll, Skip, RecvArp, Wake, AppendSendReqData, RecvIp, Test,
                CheckBucket, AppendSendData, Write, Leave, Join, MainAt, BufThread, BufLoop,
                BufWait, GetSendReqData, TakeRequest, GetSendData, PopFrame, CountOff,
                ReadAddress, BufWrite, EndSignal, Tick, Halted, vars
<1> QED
  BY <1>1, TypeInvariant, EndInvariant, PTL DEF Spec

-----------------------------------------------------------------------------
(* The tables                                                              *)

Table0 == INSTANCE Ip2Mac WITH tbl <- arp[0]
Table1 == INSTANCE Ip2Mac WITH tbl <- arp[1]

(* The table of a device, as Ip2Mac has it, means by a search, by an empty *)
(* table and by a second what this module means: the constants are the     *)
(* same.                                                                   *)
LEMMA SameTable0 ==
    /\ Table0!EmptyTable = EmptyTable
    /\ \A t : Table0!Aged(t) = Aged(t)
    /\ \A t, a, hw : /\ Table0!HasRoom(t, a, hw) = HasRoom(t, a, hw)
                     /\ Table0!Searched(t, a, hw) = Searched(t, a, hw)
<1>1. /\ Table0!Slot = Slot /\ Table0!MaxAge = MaxAge
      /\ \A e : Table0!Live(e) = Live(e) /\ Table0!TimedOut(e) = TimedOut(e)
      /\ \A e, hw : Table0!Refreshed(e, hw) = Refreshed(e, hw)
      /\ \A a, hw : Table0!NewEntry(a, hw) = NewEntry(a, hw)
  BY Zenon DEF Table0!Slot, Slot, Table0!MaxAge, MaxAge, Table0!Live, Live,
               Table0!TimedOut, TimedOut, Table0!Refreshed, Refreshed,
               Table0!NewEntry, NewEntry
<1>2. \A t, a, hw : Table0!Hits(t, a, hw) = Hits(t, a, hw)
  BY <1>1, Zenon DEF Table0!Hits, Hits
<1>3. \A t, a, hw : Table0!Expired(t, a, hw) = Expired(t, a, hw)
  BY <1>1, <1>2, Zenon DEF Table0!Expired, Expired, Table0!Scanned, Scanned
<1>4. \A t, a, hw : /\ Table0!Free(t, a, hw) = Free(t, a, hw)
                    /\ Table0!Found(t, a, hw) = Found(t, a, hw)
  BY <1>1, <1>2, <1>3, Zenon DEF Table0!Free, Free, Table0!Found, Found
<1>5. ASSUME NEW t, NEW a, NEW hw PROVE Table0!Place(t, a, hw) = Place(t, a, hw)
  <2>1. \A S : Table0!Min(S) = Min(S)
    BY Zenon DEF Table0!Min, Min
  <2>2. /\ Table0!Found(t, a, hw) = Found(t, a, hw)
        /\ Table0!Hits(t, a, hw) = Hits(t, a, hw)
        /\ Table0!Free(t, a, hw) = Free(t, a, hw)
    BY <1>2, <1>4, Zenon
  <2> QED
    BY <2>1, <2>2, Zenon DEF Table0!Place, Place
<1>6. Table0!EmptyTable = EmptyTable
  BY <1>1, Zenon DEF Table0!EmptyTable, EmptyTable
<1>7. \A t : Table0!Aged(t) = Aged(t)
  BY <1>1, Zenon DEF Table0!Aged, Aged
<1>8. ASSUME NEW t, NEW a, NEW hw
      PROVE  /\ Table0!HasRoom(t, a, hw) = HasRoom(t, a, hw)
             /\ Table0!Searched(t, a, hw) = Searched(t, a, hw)
  BY <1>1, <1>3, <1>4, <1>5, Zenon
  DEF Table0!HasRoom, HasRoom, Table0!Searched, Searched
<1> QED
  BY <1>6, <1>7, <1>8

(* The same of the second device's table.                                  *)
LEMMA SameTable1 ==
    /\ Table1!EmptyTable = EmptyTable
    /\ \A t : Table1!Aged(t) = Aged(t)
    /\ \A t, a, hw : /\ Table1!HasRoom(t, a, hw) = HasRoom(t, a, hw)
                     /\ Table1!Searched(t, a, hw) = Searched(t, a, hw)
<1>1. /\ Table1!Slot = Slot /\ Table1!MaxAge = MaxAge
      /\ \A e : Table1!Live(e) = Live(e) /\ Table1!TimedOut(e) = TimedOut(e)
      /\ \A e, hw : Table1!Refreshed(e, hw) = Refreshed(e, hw)
      /\ \A a, hw : Table1!NewEntry(a, hw) = NewEntry(a, hw)
  BY Zenon DEF Table1!Slot, Slot, Table1!MaxAge, MaxAge, Table1!Live, Live,
               Table1!TimedOut, TimedOut, Table1!Refreshed, Refreshed,
               Table1!NewEntry, NewEntry
<1>2. \A t, a, hw : Table1!Hits(t, a, hw) = Hits(t, a, hw)
  BY <1>1, Zenon DEF Table1!Hits, Hits
<1>3. \A t, a, hw : Table1!Expired(t, a, hw) = Expired(t, a, hw)
  BY <1>1, <1>2, Zenon DEF Table1!Expired, Expired, Table1!Scanned, Scanned
<1>4. \A t, a, hw : /\ Table1!Free(t, a, hw) = Free(t, a, hw)
                    /\ Table1!Found(t, a, hw) = Found(t, a, hw)
  BY <1>1, <1>2, <1>3, Zenon DEF Table1!Free, Free, Table1!Found, Found
<1>5. ASSUME NEW t, NEW a, NEW hw PROVE Table1!Place(t, a, hw) = Place(t, a, hw)
  <2>1. \A S : Table1!Min(S) = Min(S)
    BY Zenon DEF Table1!Min, Min
  <2>2. /\ Table1!Found(t, a, hw) = Found(t, a, hw)
        /\ Table1!Hits(t, a, hw) = Hits(t, a, hw)
        /\ Table1!Free(t, a, hw) = Free(t, a, hw)
    BY <1>2, <1>4, Zenon
  <2> QED
    BY <2>1, <2>2, Zenon DEF Table1!Place, Place
<1>6. Table1!EmptyTable = EmptyTable
  BY <1>1, Zenon DEF Table1!EmptyTable, EmptyTable
<1>7. \A t : Table1!Aged(t) = Aged(t)
  BY <1>1, Zenon DEF Table1!Aged, Aged
<1>8. ASSUME NEW t, NEW a, NEW hw
      PROVE  /\ Table1!HasRoom(t, a, hw) = HasRoom(t, a, hw)
             /\ Table1!Searched(t, a, hw) = Searched(t, a, hw)
  BY <1>1, <1>3, <1>4, <1>5, Zenon
  DEF Table1!HasRoom, HasRoom, Table1!Searched, Searched
<1> QED
  BY <1>6, <1>7, <1>8

(* What a step does to the table of a device: one call of Ip2Mac, a        *)
(* second, or nothing.                                                     *)
LEMMA TableStep ==
    ASSUME TypeOK, [Next]_vars, NEW d \in Dev
    PROVE  \/ \E a \in Addr, hw \in Mac \cup {NoMac} :
                  HasRoom(arp[d], a, hw) /\ arp'[d] = Searched(arp[d], a, hw)
           \/ arp'[d] = Aged(arp[d])
           \/ arp'[d] = arp[d]
<1>1. ASSUME NEW e \in Dev, NEW a \in Addr, NEW hw \in Mac \cup {NoMac}, Search(e, a, hw)
      PROVE  \/ HasRoom(arp[d], a, hw) /\ arp'[d] = Searched(arp[d], a, hw)
             \/ arp'[d] = arp[d]
  BY <1>1 DEF Search, TypeOK
<1>2. ASSUME NEW h \in Host, RecvArp(h[1], h[2], h[3])
      PROVE  \/ \E a \in Addr, hw \in Mac \cup {NoMac} :
                    HasRoom(arp[d], a, hw) /\ arp'[d] = Searched(arp[d], a, hw)
             \/ arp'[d] = arp[d]
  <2>1. h[1] \in Dev /\ h[2] \in Addr /\ h[3] \in Mac \cup {NoMac}
    BY HostAssumption
  <2>2. Search(h[1], h[2], h[3])
    BY <1>2 DEF RecvArp
  <2> QED
    BY <1>1, <2>1, <2>2
<1>3. ASSUME NEW f \in Frame, RecvIp(f)
      PROVE  \/ \E a \in Addr, hw \in Mac \cup {NoMac} :
                    HasRoom(arp[d], a, hw) /\ arp'[d] = Searched(arp[d], a, hw)
             \/ arp'[d] = arp[d]
  <2>1. Egress(f) \in Dev /\ NextHop[f] \in Addr /\ NoMac \in Mac \cup {NoMac}
    BY FrameAssumption DEF Egress, Dev
  <2>2. Search(Egress(f), NextHop[f], NoMac)
    BY <1>3 DEF RecvIp
  <2> QED
    BY <1>1, <2>1, <2>2
<1>4. CASE Tick
  BY <1>4 DEF Tick
<1>5. CASE \/ Poll \/ Skip \/ Wake \/ AppendSendReqData \/ Test \/ CheckBucket
           \/ AppendSendData \/ Write \/ Leave \/ Join \/ BufThread \/ EndSignal
           \/ UNCHANGED vars
  <2>1. arp' = arp
    BY <1>5 DEF Poll, Skip, Wake, AppendSendReqData, Test, CheckBucket, AppendSendData,
                Write, Leave, Join, BufThread, BufLoop, BufWait, GetSendReqData,
                TakeRequest, GetSendData, PopFrame, CountOff, ReadAddress, BufWrite,
                EndSignal, vars, tables
  <2> QED
    BY <2>1
<1> QED
  BY <1>2, <1>3, <1>4, <1>5 DEF Next, MainThread, Halted

(* A table of the router is one of Ip2Mac: it changes by searches and by   *)
(* seconds (ip2mac.c:34, called by the main thread alone).                 *)
LEMMA TablesOnTheirOwn == Spec => Table0!Spec /\ Table1!Spec
<1>1. Init => Table0!Init /\ Table1!Init
  BY SameTable0, SameTable1 DEF Init, Dev, Table0!Init, Table1!Init
<1>2. TypeInv /\ [Next]_vars => [Table0!Next]_(arp[0]) /\ [Table1!Next]_(arp[1])
  <2> SUFFICES ASSUME TypeInv, [Next]_vars
               PROVE  [Table0!Next]_(arp[0]) /\ [Table1!Next]_(arp[1])
    OBVIOUS
  <2>1. TypeOK /\ 0 \in Dev /\ 1 \in Dev
    BY DEF TypeInv, Dev
  <2>2. [Table0!Next]_(arp[0])
    <3>1. \/ \E a \in Addr, hw \in Mac \cup {NoMac} :
                 HasRoom(arp[0], a, hw) /\ arp'[0] = Searched(arp[0], a, hw)
          \/ arp'[0] = Aged(arp[0])
          \/ arp'[0] = arp[0]
      BY <2>1, TableStep
    <3> QED
      BY <3>1, SameTable0 DEF Table0!Next, Table0!Lookup, Table0!Learn, Table0!Tick
  <2>3. [Table1!Next]_(arp[1])
    <3>1. \/ \E a \in Addr, hw \in Mac \cup {NoMac} :
                 HasRoom(arp[1], a, hw) /\ arp'[1] = Searched(arp[1], a, hw)
          \/ arp'[1] = Aged(arp[1])
          \/ arp'[1] = arp[1]
      BY <2>1, TableStep
    <3> QED
      BY <3>1, SameTable1 DEF Table1!Next, Table1!Lookup, Table1!Learn, Table1!Tick
  <2> QED
    BY <2>2, <2>3
<1> QED
  BY <1>1, <1>2, TypeInvariant, PTL DEF Spec, Table0!Spec, Table1!Spec

(* What a step does to what is known on a device: a lookup or an ARP       *)
(* packet settles its own address and may forget others, and nothing else  *)
(* shows.                                                                  *)
Settles(old, new, a, hw) ==
    \E gone \in SUBSET Addr :
        new = [x \in Addr |->
                 IF x = a
                 THEN IF hw \in Mac THEN hw
                      ELSE IF old[a] = "unknown" THEN "asking" ELSE old[a]
                 ELSE IF x \in gone THEN "unknown" ELSE old[x]]

LEMMA BookStep ==
    ASSUME SafeInv, [Next]_vars, NEW d \in Dev, Unique(arp[d])
    PROVE  \/ \E a \in Addr, hw \in Mac \cup {NoMac} :
                  Settles(BookOf(arp[d]), BookOf(arp'[d]), a, hw)
           \/ BookOf(arp'[d]) = BookOf(arp[d])
<1>1. TypeOK /\ arp[d] \in Table /\ FilledTable(arp[d])
  BY DEF SafeInv, TypeInv, TypeOK, TablesOK
<1>2. ASSUME NEW a \in Addr, NEW hw \in Mac \cup {NoMac},
             HasRoom(arp[d], a, hw), arp'[d] = Searched(arp[d], a, hw)
      PROVE  Settles(BookOf(arp[d]), BookOf(arp'[d]), a, hw)
  <2> DEFINE old == BookOf(arp[d])
             new == BookOf(arp'[d])
             gone == {x \in Addr : new[x] = "unknown"}
             v == IF hw \in Mac THEN hw
                  ELSE IF old[a] = "unknown" THEN "asking" ELSE old[a]
  <2>1. /\ new[a] = v
        /\ \A x \in Addr \ {a} : new[x] # "unknown" => new[x] = old[x]
    BY <1>1, <1>2, SearchedBook
  <2>2. new = [x \in Addr |-> new[x]]
    BY Zenon DEF BookOf
  <2>3. new = [x \in Addr |-> IF x = a THEN v ELSE IF x \in gone THEN "unknown" ELSE old[x]]
    BY <2>1, <2>2
  <2>4. gone \in SUBSET Addr
    OBVIOUS
  <2> QED
    BY <2>3, <2>4, Zenon DEF Settles
<1>3. ASSUME arp'[d] = Aged(arp[d]) PROVE BookOf(arp'[d]) = BookOf(arp[d])
  BY <1>1, <1>3, AgedBook
<1>4. \/ \E a \in Addr, hw \in Mac \cup {NoMac} :
             HasRoom(arp[d], a, hw) /\ arp'[d] = Searched(arp[d], a, hw)
      \/ arp'[d] = Aged(arp[d])
      \/ arp'[d] = arp[d]
  BY <1>1, TableStep
<1> QED
  BY <1>2, <1>3, <1>4

(* No address has two entries in a table, whatever the threads do.         *)
LEMMA TablesUnique == Spec => [](\A d \in Dev : Unique(arp[d]))
<1>1. Init => \A d \in Dev : Unique(arp[d])
  BY DEF Init, EmptyTable, Unique, Live
<1>2. SafeInv /\ (\A d \in Dev : Unique(arp[d])) /\ [Next]_vars
      => (\A d \in Dev : Unique(arp[d]))'
  <2> SUFFICES ASSUME SafeInv, [Next]_vars, NEW d \in Dev, Unique(arp[d])
               PROVE  Unique(arp'[d])
    OBVIOUS
  <2>1. TypeOK /\ arp[d] \in Table /\ FilledTable(arp[d])
    BY DEF SafeInv, TypeInv, TypeOK, TablesOK
  <2>2. ASSUME arp'[d] = Aged(arp[d]) PROVE Unique(arp'[d])
    BY <2>1, <2>2, AgedProperties DEF Unique, Live
  <2>3. ASSUME NEW a \in Addr, NEW hw \in Mac \cup {NoMac},
               HasRoom(arp[d], a, hw), arp'[d] = Searched(arp[d], a, hw)
        PROVE  Unique(arp'[d])
    BY <2>1, <2>3, SearchedUnique
  <2> QED
    BY <2>1, <2>2, <2>3, TableStep
<1> QED
  BY <1>1, <1>2, SafetyInvariant, PTL DEF Spec

(* A table means by its map what this module means.                        *)
LEMMA SameBooks ==
    \A t : Table0!BookOf(t) = BookOf(t) /\ Table1!BookOf(t) = BookOf(t)
BY Zenon DEF Table0!BookOf, Table1!BookOf, BookOf, Table0!Said, Table1!Said, Said,
             Table0!Live, Table1!Live, Live, Table0!Slot, Table1!Slot, Slot

(* Table0's steps are those of a map.                                       *)
LEMMA BookNext0 ==
    ASSUME SafeInv, [Next]_vars, \A d \in Dev : Unique(arp[d])
    PROVE  [Table0!Book!Next]_(Table0!BookOf(arp[0]))
<1> DEFINE old == Table0!BookOf(arp[0])
           new == Table0!BookOf(arp'[0])
<1>1. \/ \E a \in Addr, hw \in Mac \cup {NoMac} : Settles(old, new, a, hw)
      \/ new = old
  BY BookStep, SameBooks DEF Dev
<1>2. ASSUME NEW a \in Addr, NEW hw \in Mac \cup {NoMac}, Settles(old, new, a, hw)
      PROVE  Table0!Book!Next
  <2>1. CASE hw \in Mac
    <3>1. Table0!Book!Told(a, hw)
      BY <1>2, <2>1, Zenon DEF Settles, Table0!Book!Told, Table0!Book!Settled, Table0!Book!Unknown
    <3> QED
      BY <2>1, <3>1, Zenon DEF Table0!Book!Next
  <2>2. CASE hw \notin Mac
    <3>1. Table0!Book!Ask(a)
      BY <1>2, <2>2, Zenon DEF Settles, Table0!Book!Ask, Table0!Book!Settled,
                               Table0!Book!Unknown, Table0!Book!Asking
    <3> QED
      BY <3>1, Zenon DEF Table0!Book!Next
  <2> QED
    BY <2>1, <2>2
<1> QED
  BY <1>1, <1>2

(* Table1's steps are those of a map.                                       *)
LEMMA BookNext1 ==
    ASSUME SafeInv, [Next]_vars, \A d \in Dev : Unique(arp[d])
    PROVE  [Table1!Book!Next]_(Table1!BookOf(arp[1]))
<1> DEFINE old == Table1!BookOf(arp[1])
           new == Table1!BookOf(arp'[1])
<1>1. \/ \E a \in Addr, hw \in Mac \cup {NoMac} : Settles(old, new, a, hw)
      \/ new = old
  BY BookStep, SameBooks DEF Dev
<1>2. ASSUME NEW a \in Addr, NEW hw \in Mac \cup {NoMac}, Settles(old, new, a, hw)
      PROVE  Table1!Book!Next
  <2>1. CASE hw \in Mac
    <3>1. Table1!Book!Told(a, hw)
      BY <1>2, <2>1, Zenon DEF Settles, Table1!Book!Told, Table1!Book!Settled, Table1!Book!Unknown
    <3> QED
      BY <2>1, <3>1, Zenon DEF Table1!Book!Next
  <2>2. CASE hw \notin Mac
    <3>1. Table1!Book!Ask(a)
      BY <1>2, <2>2, Zenon DEF Settles, Table1!Book!Ask, Table1!Book!Settled,
                               Table1!Book!Unknown, Table1!Book!Asking
    <3> QED
      BY <3>1, Zenon DEF Table1!Book!Next
  <2> QED
    BY <2>1, <2>2
<1> QED
  BY <1>1, <1>2

(* To whoever calls Ip2Mac while the buffer thread serves its entries, the *)
(* table of each device is a map: a call settles the address it is for,    *)
(* and neither the clock nor the threads change what is known of another,  *)
(* but that it may be forgotten (ip2mac.c:34, ip2mac.c:140).               *)
THEOREM TablesAreMaps == Spec => Table0!ImplementsBook /\ Table1!ImplementsBook
<1>1. Init => Table0!Book!Init /\ Table1!Book!Init
  BY SameBooks, EmptyBook
  DEF Init, Dev, Table0!Book!Init, Table1!Book!Init, Table0!Book!Unknown, Table1!Book!Unknown
<1>2. SafeInv /\ (\A d \in Dev : Unique(arp[d])) /\ [Next]_vars
      => [Table0!Book!Next]_(Table0!BookOf(arp[0])) /\ [Table1!Book!Next]_(Table1!BookOf(arp[1]))
  BY BookNext0, BookNext1
<1> QED
  BY <1>1, <1>2, SafetyInvariant, TablesUnique, PTL
  DEF Spec, Table0!ImplementsBook, Table1!ImplementsBook, Table0!Book!Spec, Table1!Book!Spec

-----------------------------------------------------------------------------
(* What becomes of the frames: each is in one place at a time and is       *)
(* written at most once, the counters of a bucket say what its list holds, *)
(* and a bucket stays within its limit.  First the inductive invariants.   *)

(* A thread has a frame in its hands only while it is at work on it. *)
HandsOK ==
    /\ main.pc \notin {"test", "park", "append", "write"} => main.frame = NoFrame
    /\ buf.pc \notin {"count", "address", "write"} => buf.frame = NoFrame

(* No two lists share a frame. *)
ListsApart ==
    \A r, s \in Ref : r # s => ToSet(bucket[r].q) \cap ToSet(bucket[s].q) = {}

PlaceInv == SafeInv /\ HandsOK /\ ListsApart /\ OnePlace

(* The bytes and the number of the frames taken off the list of r that are *)
(* not counted off yet.                                                    *)
Pending(r) == IF buf.pc = "count" /\ buf.slot = r THEN Size[buf.frame] ELSE 0
Missing(r) == IF buf.pc = "count" /\ buf.slot = r THEN 1 ELSE 0

(* The counters of a live entry count its list and the frame that was just *)
(* taken off it; what was there before the last frame was parked is within *)
(* the limit.                                                              *)
CountOK(r) ==
    /\ bucket[r].dno = Len(bucket[r].q) + Missing(r)
    /\ bucket[r].bytes = Total(bucket[r].q) + Pending(r)
    /\ bucket[r].q # <<>> => bucket[r].bytes <= MaxBucket + Size[Last(bucket[r].q)]

CountInv ==
    /\ SafeInv
    /\ ~overrun =>
          /\ \A r \in Ref : Live(EntryAt(r)) => CountOK(r)
          /\ main.pc = "append" => bucket[main.slot].bytes <= MaxBucket

(* The buffer thread has an entry in its hands only while it serves it. *)
ServeInv ==
    /\ SafeInv
    /\ buf.pc \notin {"check", "pop", "count", "address", "write", "crashed"} =>
           buf.slot = NoRef

-----------------------------------------------------------------------------
(* Lists                                                                   *)

(* A list and what is left when its first is taken (GetSendData,           *)
(* sendBuf.c:84): the first is not among the rest of a list without        *)
(* repetitions, and the last stays the last.                               *)
LEMMA FirstTaken ==
    ASSUME NEW S, NEW q \in Seq(S), q # <<>>
    PROVE  /\ Head(q) \in S /\ Tail(q) \in Seq(S)
           /\ Len(Tail(q)) = Len(q) - 1
           /\ ToSet(q) = {Head(q)} \cup ToSet(Tail(q))
           /\ IsInjective(q) => Head(q) \notin ToSet(Tail(q)) /\ IsInjective(Tail(q))
           /\ Tail(q) # <<>> => Last(Tail(q)) = Last(q)
<1>1. /\ Len(q) \in Nat /\ Len(q) > 0 /\ DOMAIN q = 1..Len(q)
      /\ Head(q) = q[1] /\ Head(q) \in S
      /\ Tail(q) \in Seq(S) /\ Len(Tail(q)) = Len(q) - 1
      /\ \A i \in 1..Len(Tail(q)) : Tail(q)[i] = q[i + 1]
  BY HeadTailProperties, LenProperties, EmptySeq
<1>2. DOMAIN Tail(q) = 1..(Len(q) - 1)
  BY <1>1, LenProperties
<1>3. \A i \in 1..(Len(q) - 1) : i + 1 \in 1..Len(q) /\ Tail(q)[i] = q[i + 1]
  BY <1>1
<1>4. ToSet(q) = {Head(q)} \cup ToSet(Tail(q))
  <2>1. ToSet(q) \subseteq {Head(q)} \cup ToSet(Tail(q))
    <3> SUFFICES ASSUME NEW i \in 1..Len(q) PROVE q[i] \in {Head(q)} \cup ToSet(Tail(q))
      BY <1>1 DEF ToSet
    <3>1. i # 1 => i - 1 \in 1..(Len(q) - 1) /\ q[i] = Tail(q)[i - 1]
      BY <1>1, <1>3
    <3> QED
      BY <1>1, <1>2, <3>1 DEF ToSet
  <2> QED
    BY <2>1, Requests
<1>5. ASSUME IsInjective(q) PROVE Head(q) \notin ToSet(Tail(q))
  <2>1. \A i \in 1..(Len(q) - 1) : q[i + 1] # q[1]
    BY <1>1, <1>3, <1>5 DEF IsInjective
  <2> QED
    BY <1>1, <1>2, <1>3, <2>1 DEF ToSet
<1>6. ASSUME Tail(q) # <<>> PROVE Last(Tail(q)) = Last(q)
  <2>1. Len(Tail(q)) \in 1..Len(Tail(q))
    BY <1>1, <1>6, EmptySeq
  <2> QED
    BY <1>1, <2>1 DEF Last
<1> QED
  BY <1>1, <1>4, <1>5, <1>6, RequestsStayDistinct

(* A list and a frame added to it (AppendSendData, sendBuf.c:52). *)
LEMMA LastAdded ==
    ASSUME NEW S, NEW q \in Seq(S), NEW x \in S
    PROVE  /\ Append(q, x) \in Seq(S) /\ Append(q, x) # <<>>
           /\ Len(Append(q, x)) = Len(q) + 1
           /\ Last(Append(q, x)) = x
           /\ ToSet(Append(q, x)) = ToSet(q) \cup {x}
           /\ IsInjective(q) /\ x \notin ToSet(q) => IsInjective(Append(q, x))
<1>1. /\ Append(q, x) \in Seq(S) /\ Append(q, x) # <<>>
      /\ Len(Append(q, x)) = Len(q) + 1
      /\ Append(q, x)[Len(q) + 1] = x
  BY AppendProperties, EmptySeq
<1>2. Last(Append(q, x)) = x
  BY <1>1 DEF Last
<1> QED
  BY <1>1, <1>2, Requests, RequestsStayDistinct

(* An empty list holds nothing. *)
LEMMA EmptyList == ToSet(<<>>) = {} /\ IsInjective(<<>>) /\ Len(<<>>) = 0
BY EmptySeq DEF ToSet, IsInjective

-----------------------------------------------------------------------------
(* The bytes of a list                                                     *)

(* The function that sums the sizes of the first 0, 1, ..., n of a list. *)
IsSum(sum, q, n) ==
    /\ sum[0] = 0
    /\ \A i \in 1..n : sum[i] = sum[i - 1] + Size[q[i]]

(* There is one, for any part of any list of frames. *)
HasSum(q, n) == \E sum \in [0..n -> Nat] : IsSum(sum, q, n)

(* It exists for lists of frames.                                          *)
LEMMA SumExists ==
    ASSUME NEW q \in Seq(Frame), NEW n \in 0..Len(q)
    PROVE  HasSum(q, n)
<1> DEFINE S == {k \in Nat : k <= Len(q) => HasSum(q, k)}
<1>1. Len(q) \in Nat
  BY LenProperties
<1>2. 0 \in S
  <2>1. /\ [i \in 0..0 |-> 0] \in [0..0 -> Nat]
        /\ IsSum([i \in 0..0 |-> 0], q, 0)
    BY DEF IsSum
  <2>2. HasSum(q, 0)
    BY <2>1 DEF HasSum
  <2> QED
    BY <2>2
<1>3. ASSUME NEW k \in S PROVE k + 1 \in S
  <2> SUFFICES ASSUME k + 1 <= Len(q) PROVE HasSum(q, k + 1)
    OBVIOUS
  <2>1. PICK s \in [0..k -> Nat] : IsSum(s, q, k)
    BY <1>1, <1>3 DEF HasSum
  <2> DEFINE t == [i \in 0..(k + 1) |-> IF i = k + 1 THEN s[k] + Size[q[k + 1]] ELSE s[i]]
  <2>2. k \in Nat /\ s[k] \in Nat /\ Size[q[k + 1]] \in Nat
    <3>1. q[k + 1] \in Frame
      BY <1>1
    <3> QED
      BY <2>1, <3>1, FrameAssumption DEF IsSum
  <2>3. t \in [0..(k + 1) -> Nat] /\ t[0] = 0
    BY <2>1, <2>2 DEF IsSum
  <2>4. ASSUME NEW i \in 1..(k + 1) PROVE t[i] = t[i - 1] + Size[q[i]]
    <3>1. CASE i = k + 1
      BY <2>2, <3>1
    <3>2. CASE i # k + 1
      BY <2>1, <2>2, <3>2 DEF IsSum
    <3> QED
      BY <3>1, <3>2
  <2> HIDE DEF t
  <2>5. IsSum(t, q, k + 1)
    BY <2>3, <2>4 DEF IsSum
  <2> QED
    BY <2>3, <2>5 DEF HasSum
<1>4. S = Nat
  <2>1. S \subseteq Nat
    OBVIOUS
  <2> HIDE DEF S
  <2> QED
    BY <1>2, <1>3, <2>1, AllNumbers
<1> QED
  BY <1>1, <1>4

(* There is only one. *)
LEMMA SumUnique ==
    ASSUME NEW q, NEW n \in Nat, NEW s, IsSum(s, q, n),
           NEW w, NEW m \in Nat, NEW t, IsSum(t, w, m),
           n <= m, \A i \in 1..n : q[i] = w[i]
    PROVE  \A i \in 0..n : s[i] = t[i]
<1> DEFINE S == {k \in Nat : k <= n => s[k] = t[k]}
<1>1. 0 \in S
  BY DEF IsSum
<1>2. ASSUME NEW k \in S PROVE k + 1 \in S
  <2> SUFFICES ASSUME k + 1 <= n PROVE s[k + 1] = t[k + 1]
    OBVIOUS
  <2>1. k \in Nat /\ k + 1 \in 1..n /\ k + 1 \in 1..m /\ (k + 1) - 1 = k
    OBVIOUS
  <2>2. s[k] = t[k]
    BY <1>2, <2>1
  <2>3. s[k + 1] = s[k] + Size[q[k + 1]] /\ t[k + 1] = t[k] + Size[w[k + 1]]
    BY <2>1 DEF IsSum
  <2> QED
    BY <2>1, <2>2, <2>3
<1>3. S = Nat
  <2>1. S \subseteq Nat
    OBVIOUS
  <2> HIDE DEF S
  <2> QED
    BY <1>1, <1>2, <2>1, AllNumbers
<1> QED
  BY <1>3

(* Total is its last value. *)
LEMMA TotalIsSum ==
    ASSUME NEW q \in Seq(Frame)
    PROVE  /\ Total(q) \in Nat
           /\ \A s : IsSum(s, q, Len(q)) => Total(q) = s[Len(q)]
<1> DEFINE Def(s) == s = [n \in 0..Len(q) |-> IF n = 0 THEN 0 ELSE s[n - 1] + Size[q[n]]]
<1>1. Len(q) \in Nat
  BY LenProperties
<1>2. PICK s \in [0..Len(q) -> Nat] : IsSum(s, q, Len(q))
  BY <1>1, SumExists DEF HasSum
<1>3. Def(s)
  BY <1>1, <1>2 DEF IsSum
<1>4. Totals(q) = CHOOSE f : Def(f)
  BY DEF Totals
<1>5. Def(Totals(q))
  BY <1>3, <1>4
<1>6. IsSum(Totals(q), q, Len(q))
  <2> HIDE DEF Def
  <2> DEFINE T == Totals(q)
  <2>1. T = [n \in 0..Len(q) |-> IF n = 0 THEN 0 ELSE T[n - 1] + Size[q[n]]]
    BY <1>5 DEF Def
  <2> HIDE DEF T
  <2>2. IsSum(T, q, Len(q))
    BY <1>1, <2>1 DEF IsSum
  <2> QED
    BY <2>2 DEF T
<1> HIDE DEF Def
<1>7. ASSUME NEW t, IsSum(t, q, Len(q)) PROVE Total(q) = t[Len(q)]
  <2>1. Totals(q)[Len(q)] = t[Len(q)]
    BY <1>1, <1>6, <1>7, SumUnique
  <2> QED
    BY <2>1 DEF Total
<1>8. s[Len(q)] \in Nat
  BY <1>1
<1> QED
  BY <1>2, <1>7, <1>8

(* What is parked adds its size to that of the list (sendBuf.c:60), and    *)
(* what is taken off it takes its own away (sendBuf.c:92).                 *)
LEMMA TotalAppend ==
    ASSUME NEW q \in Seq(Frame), NEW f \in Frame
    PROVE  Total(Append(q, f)) = Total(q) + Size[f]
<1> DEFINE w == Append(q, f)
<1>1. /\ w \in Seq(Frame) /\ Len(w) = Len(q) + 1
      /\ Len(q) \in Nat /\ Len(w) \in Nat
      /\ \A i \in 1..Len(q) : w[i] = q[i]
      /\ w[Len(q) + 1] = f
  BY AppendProperties, LenProperties
<1> HIDE DEF w
<1>2. PICK s \in [0..Len(w) -> Nat] : IsSum(s, w, Len(w))
  <2>1. w \in Seq(Frame) /\ Len(w) \in 0..Len(w)
    BY <1>1
  <2>2. HasSum(w, Len(w))
    BY <2>1, SumExists, Zenon
  <2> QED
    BY <2>2 DEF HasSum
<1>3. IsSum(s, q, Len(q))
  BY <1>1, <1>2 DEF IsSum
<1>4. Total(w) = s[Len(w)] /\ Total(q) = s[Len(q)]
  BY <1>1, <1>2, <1>3, TotalIsSum
<1>5. s[Len(q) + 1] = s[Len(q)] + Size[w[Len(q) + 1]]
  <2>1. Len(q) + 1 \in 1..Len(w) /\ (Len(q) + 1) - 1 = Len(q)
    BY <1>1
  <2> QED
    BY <1>2, <2>1 DEF IsSum
<1> QED
  BY <1>1, <1>4, <1>5 DEF w

(* A list is as long as its first frame and the rest together.             *)
LEMMA TotalTail ==
    ASSUME NEW q \in Seq(Frame), q # <<>>
    PROVE  Total(q) = Size[Head(q)] + Total(Tail(q))
<1> DEFINE w == Tail(q)
           g == Size[Head(q)]
<1>1. /\ w \in Seq(Frame) /\ Len(q) = Len(w) + 1 /\ Len(w) \in Nat
      /\ \A i \in 1..Len(w) : w[i] = q[i + 1]
      /\ Head(q) = q[1] /\ Head(q) \in Frame
  BY HeadTailProperties, LenProperties, EmptySeq
<1>2. g \in Nat
  BY <1>1, FrameAssumption
<1> HIDE DEF w
<1>3. PICK s \in [0..Len(w) -> Nat] : IsSum(s, w, Len(w))
  BY <1>1, SumExists DEF HasSum
<1> DEFINE t == [i \in 0..Len(q) |-> IF i = 0 THEN 0 ELSE g + s[i - 1]]
<1>4. ASSUME NEW i \in 1..Len(q) PROVE t[i] = t[i - 1] + Size[q[i]]
  <2>1. CASE i = 1
    BY <1>1, <1>2, <1>3, <2>1 DEF IsSum
  <2>2. CASE i # 1
    <3>1. PICK j \in 1..Len(w) : i = j + 1
      BY <1>1, <2>2
    <3>2. s[j] = s[j - 1] + Size[w[j]] /\ w[j] = q[i]
      BY <1>1, <1>3, <3>1 DEF IsSum
    <3>3. s[j - 1] \in Nat /\ Size[q[i]] \in Nat
      <4>1. q[i] \in Frame /\ j - 1 \in 0..Len(w)
        BY <1>1
      <4> QED
        BY <4>1, FrameAssumption
    <3>4. t[i] = g + s[j] /\ t[i - 1] = g + s[j - 1]
      BY <1>1, <3>1
    <3> HIDE DEF t, g
    <3> QED
      BY <1>2, <3>2, <3>3, <3>4
  <2> QED
    BY <2>1, <2>2
<1>5. t[0] = 0 /\ t[Len(q)] = g + s[Len(w)]
  BY <1>1
<1> HIDE DEF t
<1>6. IsSum(t, q, Len(q))
  BY <1>4, <1>5 DEF IsSum
<1>7. Total(q) = t[Len(q)] /\ Total(w) = s[Len(w)]
  BY <1>1, <1>3, <1>6, TotalIsSum
<1> QED
  BY <1>5, <1>7 DEF w

(* An empty list has no bytes.                                             *)
LEMMA TotalEmpty == Total(<<>>) = 0
<1>1. <<>> \in Seq(Frame) /\ Len(<<>>) = 0
  BY EmptySeq
<1>2. IsSum([i \in 0..0 |-> 0], <<>>, 0)
  BY DEF IsSum
<1> QED
  BY <1>1, <1>2, TotalIsSum

(* A frame has at least a byte, so a list has no more frames than bytes.   *)
LEMMA FewerThanBytes ==
    ASSUME NEW q \in Seq(Frame)
    PROVE  Len(q) <= Total(q)
<1>1. Len(q) \in Nat
  BY LenProperties
<1>2. PICK s \in [0..Len(q) -> Nat] : IsSum(s, q, Len(q))
  BY <1>1, SumExists DEF HasSum
<1> DEFINE S == {k \in Nat : k <= Len(q) => k <= s[k]}
<1>3. 0 \in S
  BY <1>2 DEF IsSum
<1>4. ASSUME NEW k \in S PROVE k + 1 \in S
  <2> SUFFICES ASSUME k + 1 <= Len(q) PROVE k + 1 <= s[k + 1]
    OBVIOUS
  <2>1. k \in 0..Len(q) /\ k + 1 \in 1..Len(q) /\ (k + 1) - 1 = k /\ k <= s[k]
    BY <1>1
  <2>2. s[k + 1] = s[k] + Size[q[k + 1]]
    BY <1>2, <2>1 DEF IsSum
  <2>3. q[k + 1] \in Frame
    BY <2>1
  <2> QED
    BY <2>1, <2>2, <2>3, FrameAssumption
<1>5. S = Nat
  <2>1. S \subseteq Nat
    OBVIOUS
  <2> HIDE DEF S
  <2> QED
    BY <1>3, <1>4, <2>1, AllNumbers
<1> QED
  BY <1>1, <1>2, <1>5, TotalIsSum

-----------------------------------------------------------------------------
(* A search and the lists                                                  *)

(* After a search a live entry either was live and keeps its bucket, or is *)
(* new and has a zeroed one (Ip2MacSearch, ip2mac.c:129); an entry with    *)
(* frames that is resolved was resolved before, unless the search was for  *)
(* its own ARP packet.                                                     *)
LEMMA SearchFresh ==
    ASSUME TypeOK, TablesOK,
           NEW d \in Dev, NEW a \in Addr, NEW hw \in Mac \cup {NoMac},
           Search(d, a, hw)
    PROVE  LET p == <<d, Place(arp[d], a, hw)>>
               Gone(r) == r[1] = d /\ r[2] \in Expired(arp[d], a, hw)
           IN  \A r \in Ref :
                  /\ Live(EntryAt(r))' =>
                        \/ Live(EntryAt(r)) /\ ~Gone(r) /\ bucket'[r] = bucket[r]
                        \/ (Live(EntryAt(r)) => Gone(r)) /\ bucket'[r] = EmptyBucket
                  /\ EntryAt(r)'.flag = "OK" /\ bucket'[r].q # <<>> =>
                        \/ EntryAt(r).flag = "OK"
                        \/ r = p /\ hw # NoMac /\ Found(arp[d], a, hw)
<1> DEFINE t == arp[d]
           u == Searched(t, a, hw)
           s0 == Place(t, a, hw)
           p == <<d, s0>>
           Gone(r) == r[1] = d /\ r[2] \in Expired(t, a, hw)
<1>1. t \in Table /\ HasRoom(t, a, hw) /\ FilledTable(t)
  BY DEF TypeOK, Search, TablesOK
<1>2. arp'[d] = u /\ \A e \in Dev \ {d} : arp'[e] = arp[e]
  BY DEF Search, TypeOK
<1>3. s0 \in Slot /\ p \in Ref
  BY <1>1, PlaceProperties DEF Ref
<1>4. /\ hw = NoMac /\ u[s0].flag = "OK" => t[s0].flag = "OK"
      /\ \A s \in Slot : s # s0 /\ Live(u[s]) =>
             u[s] = t[s] /\ s \notin Expired(t, a, hw)
      /\ Found(t, a, hw) => Live(t[s0]) /\ s0 \notin Expired(t, a, hw)
  BY <1>1, SearchedEntries
<1>5. ~Found(t, a, hw) => (Live(t[s0]) => s0 \in Expired(t, a, hw))
  BY <1>1, PlaceProperties DEF Free
<1>6. \A r \in Ref : bucket'[r] =
          IF r = p /\ ~Found(t, a, hw) THEN EmptyBucket
          ELSE IF Gone(r) THEN FreeSendData(bucket[r])
          ELSE bucket[r]
  BY Zenon DEF Search
<1>7. \A r \in Ref : r = <<r[1], r[2]>> /\ r[1] \in Dev /\ r[2] \in Slot
  BY DEF Ref
<1> HIDE DEF t, u, s0
<1>8. \A r \in Ref : /\ EntryAt(r)' = IF r[1] = d THEN u[r[2]] ELSE EntryAt(r)
                     /\ r[1] = d => EntryAt(r) = t[r[2]]
  BY <1>2, <1>7 DEF EntryAt, t
<1> SUFFICES ASSUME NEW r \in Ref
             PROVE  /\ Live(EntryAt(r))' =>
                          \/ Live(EntryAt(r)) /\ ~Gone(r) /\ bucket'[r] = bucket[r]
                          \/ (Live(EntryAt(r)) => Gone(r)) /\ bucket'[r] = EmptyBucket
                    /\ EntryAt(r)'.flag = "OK" /\ bucket'[r].q # <<>> =>
                          \/ EntryAt(r).flag = "OK"
                          \/ r = p /\ hw # NoMac /\ Found(t, a, hw)
  BY DEF t, s0
<1>9. CASE r = p
  <2>1. r[1] = d /\ r[2] = s0 /\ EntryAt(r)' = u[s0] /\ EntryAt(r) = t[s0]
    BY <1>8, <1>9
  <2>2. EmptyBucket.q = <<>>
    BY DEF EmptyBucket
  <2> QED
    BY <1>4, <1>5, <1>6, <1>9, <2>1, <2>2
<1>10. CASE r # p /\ r[1] = d
  <2>1. r[2] # s0 /\ r[2] \in Slot /\ EntryAt(r)' = u[r[2]] /\ EntryAt(r) = t[r[2]]
    BY <1>7, <1>8, <1>10
  <2> QED
    BY <1>4, <1>6, <1>10, <2>1 DEF Live
<1>11. CASE r[1] # d
  BY <1>6, <1>8, <1>11 DEF Live
<1> QED
  BY <1>9, <1>10, <1>11

-----------------------------------------------------------------------------
(* The counters                                                            *)

(* A number in the range of its type is what it is stored as. *)
LEMMA Fits ==
    ASSUME NEW n \in Int, 0 <= n, n < Word
    PROVE  n % Word = n
BY BucketAssumption

(* Of a table that stays the same the same entries are live. *)
LEMMA SameLive ==
    ASSUME arp' = arp
    PROVE  \A r \in Ref : /\ Live(EntryAt(r))' <=> Live(EntryAt(r))
                          /\ EntryAt(r)' = EntryAt(r)
BY DEF Live, EntryAt

(* What the counters of an entry say depends on its bucket and on what the *)
(* buffer thread has not counted off.                                      *)
LEMMA CountKept ==
    ASSUME NEW r \in Ref, CountOK(r), bucket'[r] = bucket[r],
           \/ UNCHANGED <<buf.pc, buf.slot, buf.frame>>
           \/ buf.slot # r /\ buf'.slot # r
           \/ buf.pc # "count" /\ buf'.pc # "count"
    PROVE  CountOK(r)'
<1>1. Pending(r)' = Pending(r) /\ Missing(r)' = Missing(r)
  BY DEF Pending, Missing
<1> QED
  BY <1>1 DEF CountOK

(* A step that leaves the buckets and what is live alone, and counts       *)
(* nothing off.                                                            *)
LEMMA CountSteady ==
    ASSUME CountInv, SafeInv',
           UNCHANGED <<bucket, overrun>>,
           \A r \in Ref : Live(EntryAt(r))' => Live(EntryAt(r)),
           \/ UNCHANGED <<buf.pc, buf.slot, buf.frame>>
           \/ buf.pc # "count" /\ buf'.pc # "count",
           main'.pc = "append" =>
               \/ UNCHANGED <<main.pc, main.slot>>
               \/ main'.slot = main.slot /\ bucket[main.slot].bytes <= MaxBucket
    PROVE  CountInv'
<1>1. ASSUME ~overrun', NEW r \in Ref, Live(EntryAt(r))' PROVE CountOK(r)'
  BY <1>1, CountKept DEF CountInv
<1>2. ASSUME ~overrun', main'.pc = "append" PROVE bucket'[main'.slot].bytes <= MaxBucket
  BY <1>2 DEF CountInv
<1> QED
  BY <1>1, <1>2 DEF CountInv

(* A search frees entries and may add one, with counters at zero: no frame *)
(* of it can be uncounted, or the entry that was there was being served.   *)
LEMMA CountSearch ==
    ASSUME CountInv, SafeInv',
           NEW d \in Dev, NEW a \in Addr, NEW hw \in Mac \cup {NoMac},
           hw = NoMac \/ <<d, a, hw>> \in Host,
           Search(d, a, hw), buf' = buf, reqs' = reqs, main'.pc # "append"
    PROVE  CountInv'
<1> DEFINE Gone(r) == r[1] = d /\ r[2] \in Expired(arp[d], a, hw)
<1>1. TypeOK /\ TablesOK
  BY DEF CountInv, SafeInv, TypeInv
<1>2. ~overrun' => ~overrun /\ \A r \in Ref : Busy(r) => ~Gone(r)
  <2>1. SearchLeaves(d, a, hw)
    BY <1>1, SearchStep
  <2> QED
    BY <2>1 DEF SearchLeaves
<1>3. \A r \in Ref : Live(EntryAt(r))' =>
          \/ Live(EntryAt(r)) /\ ~Gone(r) /\ bucket'[r] = bucket[r]
          \/ (Live(EntryAt(r)) => Gone(r)) /\ bucket'[r] = EmptyBucket
  BY <1>1, SearchFresh
<1> HIDE DEF Gone
<1>4. ASSUME ~overrun', NEW r \in Ref, Live(EntryAt(r))' PROVE CountOK(r)'
  <2>1. CASE Live(EntryAt(r)) /\ bucket'[r] = bucket[r]
    <3>1. CountOK(r)
      BY <1>2, <1>4, <2>1 DEF CountInv
    <3> QED
      BY <2>1, <3>1, CountKept
  <2>2. CASE (Live(EntryAt(r)) => Gone(r)) /\ bucket'[r] = EmptyBucket
    <3>1. ~Busy(r)
      BY <1>2, <1>4, <2>2 DEF CountInv, SafeInv, BufOK, Live
    <3>2. buf'.slot # r
      BY <3>1 DEF Busy
    <3>3. Pending(r)' = 0 /\ Missing(r)' = 0
      BY <3>2 DEF Pending, Missing
    <3> QED
      BY <2>2, <3>3, TotalEmpty, EmptyList DEF CountOK, EmptyBucket
  <2> QED
    BY <1>3, <1>4, <2>1, <2>2
<1> QED
  BY <1>4 DEF CountInv

(* Without an expired entry in the way, the counters of a live entry stay  *)
(* far from 2^64, and so does their sum with another frame.                *)
LEMMA CountRange ==
    ASSUME SafeInv, NEW r \in Ref, CountOK(r)
    PROVE  /\ bucket[r].q \in Seq(Frame) /\ Len(bucket[r].q) \in Nat
           /\ Total(bucket[r].q) \in Nat
           /\ bucket[r].dno \in Nat /\ bucket[r].bytes \in Nat
           /\ Pending(r) \in Nat /\ Missing(r) \in Nat
           /\ bucket[r].dno < Word /\ bucket[r].bytes < Word
           /\ bucket[r].dno <= bucket[r].bytes
<1>1. /\ bucket[r].q \in Seq(Frame) /\ Len(bucket[r].q) \in Nat
      /\ bucket[r].dno \in Nat /\ bucket[r].bytes \in Nat
      /\ bucket[r].dno < Word /\ bucket[r].bytes < Word
  BY BucketAssumption, LenProperties DEF SafeInv, TypeInv, TypeOK, Bucket
<1>2. buf.pc = "count" => Size[buf.frame] \in Nat \ {0}
  BY FrameAssumption DEF SafeInv, TypeInv, LocalsOK
<1>3. Pending(r) \in Nat /\ Missing(r) \in Nat /\ Missing(r) <= Pending(r)
  BY <1>2 DEF Pending, Missing
<1>4. Total(bucket[r].q) \in Nat /\ Len(bucket[r].q) <= Total(bucket[r].q)
  BY <1>1, TotalIsSum, FewerThanBytes
<1>5. bucket[r].dno <= bucket[r].bytes
  <2>1. /\ bucket[r].dno = Len(bucket[r].q) + Missing(r)
        /\ bucket[r].bytes = Total(bucket[r].q) + Pending(r)
    BY DEF CountOK
  <2> QED
    BY <1>1, <1>3, <1>4, <2>1
<1> QED
  BY <1>1, <1>3, <1>4, <1>5

(* The initial state, and every step. *)
LEMMA InitCount == Init => CountInv
<1> SUFFICES ASSUME Init PROVE CountInv
  OBVIOUS
<1>1. SafeInv
  BY InitSafe
<1>2. \A r \in Ref : ~Live(EntryAt(r))
  BY DEF Init, EmptyTable, EntryAt, Ref, Live
<1> QED
  BY <1>1, <1>2 DEF Init, CountInv

(* Every step keeps the counters right.                                    *)
LEMMA NextCount == CountInv /\ [Next]_vars => CountInv'
<1> SUFFICES ASSUME CountInv, [Next]_vars PROVE CountInv'
  OBVIOUS
<1>1. SafeInv /\ SafeInv'
  BY NextSafe DEF CountInv
<1>2. main \in MainLocals /\ buf \in BufLocals
  BY <1>1 DEF SafeInv, TypeInv, TypeOK
<1> USE DEF MainAt
<1>3. ASSUME UNCHANGED <<tables, buf>>, main'.pc # "append" PROVE CountInv'
  <2>1. arp' = arp /\ UNCHANGED <<bucket, overrun>>
    BY <1>3 DEF tables
  <2> QED
    BY <1>1, <1>3, <2>1, CountSteady, SameLive
<1>4. NextDevice => main'.pc # "append"
  BY DEF NextDevice
<1>5. CASE Poll \/ Skip \/ Wake \/ Test \/ Write \/ Leave \/ Join
  <2>1. UNCHANGED <<tables, buf>>
    BY <1>5 DEF Poll, Skip, Wake, Test, Write, Leave, Join
  <2>2. main'.pc # "append"
    BY <1>2, <1>4, <1>5 DEF Poll, Skip, Wake, Test, Write, Leave, Join, MainLocals
  <2> QED
    BY <1>3, <2>1, <2>2
<1>6. CASE AppendSendReqData
  BY <1>3, <1>4, <1>6 DEF AppendSendReqData
<1>7. ASSUME NEW h \in Host, RecvArp(h[1], h[2], h[3]) PROVE CountInv'
  <2>1. h = <<h[1], h[2], h[3]>> /\ h[1] \in Dev /\ h[2] \in Addr /\ h[3] \in Mac
    BY HostAssumption
  <2>2. Search(h[1], h[2], h[3]) /\ UNCHANGED <<reqs, buf>>
    BY <1>7 DEF RecvArp
  <2>3. main'.pc # "append"
    BY <1>2, <1>4, <1>7 DEF RecvArp, MainLocals
  <2> QED
    BY <1>1, <2>1, <2>2, <2>3, CountSearch
<1>8. ASSUME NEW f \in Frame, RecvIp(f) PROVE CountInv'
  <2>1. Egress(f) \in Dev /\ NextHop[f] \in Addr
    BY FrameAssumption DEF Egress, Dev
  <2>2. Search(Egress(f), NextHop[f], NoMac) /\ UNCHANGED <<reqs, buf>>
    BY <1>8 DEF RecvIp
  <2>3. main'.pc # "append"
    BY <1>2, <1>8 DEF RecvIp, MainLocals
  <2> QED
    BY <1>1, <2>1, <2>2, <2>3, CountSearch
<1>9. CASE CheckBucket
  <2>1. UNCHANGED <<arp, bucket, overrun, buf>>
    BY <1>9 DEF CheckBucket, tables
  <2>2. main'.pc = "append" =>
            main'.slot = main.slot /\ bucket[main.slot].bytes <= MaxBucket
    BY <1>2, <1>4, <1>9 DEF CheckBucket, MainLocals
  <2> QED
    BY <1>1, <2>1, <2>2, CountSteady, SameLive
<1>10. CASE AppendSendData
  <2>0. PICK p \in Ref : p = main.slot
    BY <1>1, <1>10 DEF AppendSendData, SafeInv, TypeInv, LocalsOK
  <2> DEFINE b == bucket[p]
             f == main.frame
  <2>1. /\ f \in Frame /\ For(p, f) /\ main.pc = "append"
        /\ bucket \in [Ref -> Bucket]
    BY <1>1, <1>10, <2>0 DEF AppendSendData, SafeInv, TypeInv, TypeOK, LocalsOK, MainOK
  <2>2. /\ bucket' = [bucket EXCEPT ![p] = Appended(b, f)]
        /\ UNCHANGED <<arp, overrun, buf>> /\ main'.pc # "append"
    BY <1>4, <1>10, <2>0 DEF AppendSendData
  <2>3. bucket'[p] = Appended(b, f) /\ \A r \in Ref \ {p} : bucket'[r] = bucket[r]
    BY <2>1, <2>2
  <2>4. ASSUME ~overrun', NEW r \in Ref, Live(EntryAt(r))', r # p PROVE CountOK(r)'
    <3>1. CountOK(r)
      BY <2>2, <2>4, SameLive DEF CountInv
    <3> QED
      BY <2>2, <2>3, <2>4, <3>1, CountKept
  <2>5. ASSUME ~overrun' PROVE CountOK(p)'
    <3>1. CountOK(p) /\ b.bytes <= MaxBucket
      BY <2>0, <2>1, <2>2, <2>5 DEF CountInv, For
    <3>2. /\ b.q \in Seq(Frame) /\ Len(b.q) \in Nat /\ Total(b.q) \in Nat
          /\ b.dno \in Nat /\ b.bytes \in Nat /\ b.dno <= b.bytes
          /\ Pending(p) \in Nat /\ Missing(p) \in Nat
      BY <1>1, <2>1, <3>1, CountRange
    <3>3. Size[f] \in Nat \ {0} /\ MaxBucket + Size[f] < Word
          /\ MaxBucket \in Nat /\ Word \in Nat
      BY <2>1, FrameAssumption, BucketAssumption, WordAssumption
    <3>4. (b.dno + 1) % Word = b.dno + 1 /\ (b.bytes + Size[f]) % Word = b.bytes + Size[f]
      <4> HIDE DEF b, f
      <4>1. /\ b.dno + 1 \in Int /\ 0 <= b.dno + 1 /\ b.dno + 1 < Word
            /\ b.bytes + Size[f] \in Int /\ 0 <= b.bytes + Size[f]
            /\ b.bytes + Size[f] < Word
        <5>1. b.dno <= b.bytes /\ b.bytes <= MaxBucket /\ b.dno \in Nat /\ b.bytes \in Nat
          BY <3>1, <3>2
        <5> QED
          BY <5>1, <3>3
      <4> QED
        BY <4>1, Fits, Zenon
    <3> DEFINE w == Append(b.q, f)
    <3>5. /\ bucket'[p].q = w
          /\ bucket'[p].dno = b.dno + 1 /\ bucket'[p].bytes = b.bytes + Size[f]
      BY <2>3, <3>4 DEF Appended
    <3>6. Total(w) = Total(b.q) + Size[f] /\ Len(w) = Len(b.q) + 1 /\ Last(w) = f
      BY <2>1, <3>2, TotalAppend, LastAdded
    <3>7. Pending(p)' = Pending(p) /\ Missing(p)' = Missing(p)
      BY <2>2 DEF Pending, Missing
    <3>8. b.dno = Len(b.q) + Missing(p) /\ b.bytes = Total(b.q) + Pending(p)
      BY <3>1 DEF CountOK
    <3> HIDE DEF w, b, f
    <3>9. bucket'[p].dno = Len(w) + Missing(p)'
      BY <3>2, <3>5, <3>6, <3>7, <3>8
    <3>10. bucket'[p].bytes = Total(w) + Pending(p)'
      BY <3>2, <3>3, <3>5, <3>6, <3>7, <3>8
    <3>11. bucket'[p].bytes <= MaxBucket + Size[Last(w)]
      BY <3>1, <3>2, <3>3, <3>5, <3>6
    <3> QED
      BY <3>5, <3>9, <3>10, <3>11 DEF CountOK
  <2>6. ASSUME ~overrun', NEW r \in Ref, Live(EntryAt(r))' PROVE CountOK(r)'
    BY <2>4, <2>5, <2>6
  <2> QED
    BY <1>1, <2>2, <2>6 DEF CountInv
<1>11. CASE PopFrame
  <2>0. PICK p \in Ref : p = buf.slot
    BY <1>1, <1>11 DEF PopFrame, SafeInv, TypeInv, LocalsOK
  <2> DEFINE b == bucket[p]
  <2>1. b.q \in Seq(Frame) /\ bucket \in [Ref -> Bucket]
    BY <1>1, <1>11, <2>0 DEF PopFrame, SafeInv, TypeInv, TypeOK, LocalsOK, Bucket
  <2>2. CASE b.q = <<>>
    <3>1. UNCHANGED <<bucket, arp, overrun, main>> /\ buf.pc # "count" /\ buf'.pc # "count"
      BY <1>2, <1>11, <2>0, <2>2 DEF PopFrame, BufLocals
    <3> QED
      BY <1>1, <3>1, CountSteady, SameLive
  <2>3. CASE b.q # <<>>
    <3>1. /\ buf.pc # "count" /\ buf'.pc = "count" /\ buf.slot = p /\ buf'.slot = p
          /\ buf'.frame = Head(b.q)
          /\ bucket' = [bucket EXCEPT ![p] = Popped(b)]
          /\ UNCHANGED <<arp, overrun, main>>
      BY <1>2, <1>11, <2>0, <2>3 DEF PopFrame, BufLocals
    <3>2. /\ bucket'[p].q = Tail(b.q) /\ bucket'[p].dno = b.dno
          /\ bucket'[p].bytes = b.bytes
          /\ \A r \in Ref \ {p} : bucket'[r] = bucket[r]
      BY <2>1, <3>1 DEF Popped
    <3>3. ASSUME ~overrun', NEW r \in Ref, Live(EntryAt(r))', r # p PROVE CountOK(r)'
      <4>1. CountOK(r)
        BY <3>1, <3>3, SameLive DEF CountInv
      <4> QED
        BY <3>1, <3>2, <3>3, <4>1, CountKept
    <3>4. ASSUME CountOK(p) PROVE CountOK(p)'
      <4>1. Pending(p) = 0 /\ Missing(p) = 0
        BY <3>1 DEF Pending, Missing
      <4>2. Pending(p)' = Size[Head(b.q)] /\ Missing(p)' = 1
        BY <3>1 DEF Pending, Missing
      <4>3. /\ Len(Tail(b.q)) = Len(b.q) - 1
            /\ Head(b.q) \in Frame /\ Tail(b.q) \in Seq(Frame)
            /\ Tail(b.q) # <<>> => Last(Tail(b.q)) = Last(b.q)
            /\ Total(b.q) = Size[Head(b.q)] + Total(Tail(b.q))
        BY <2>1, <2>3, FirstTaken, TotalTail
      <4>4. Total(Tail(b.q)) \in Nat /\ Size[Head(b.q)] \in Nat /\ Len(b.q) \in Nat
        BY <2>1, <4>3, TotalIsSum, FrameAssumption, LenProperties
      <4> QED
        BY <2>3, <3>2, <3>4, <4>1, <4>2, <4>3, <4>4 DEF CountOK
    <3>5. \A r \in Ref : bucket'[r].bytes = bucket[r].bytes
      BY <3>2
    <3>6. main.pc = "append" => main.slot \in Ref
      BY <1>1 DEF SafeInv, TypeInv, LocalsOK
    <3>7. ASSUME ~overrun', NEW r \in Ref, Live(EntryAt(r))' PROVE CountOK(r)'
      BY <3>1, <3>3, <3>4, <3>7 DEF CountInv, EntryAt
    <3> QED
      BY <1>1, <3>1, <3>5, <3>6, <3>7 DEF CountInv
  <2> QED
    BY <2>2, <2>3
<1>12. CASE CountOff
  <2>0. PICK p \in Ref : p = buf.slot
    BY <1>1, <1>12 DEF CountOff, SafeInv, TypeInv, LocalsOK
  <2> DEFINE b == bucket[p]
             f == buf.frame
  <2>1. f \in Frame /\ b.q \in Seq(Frame) /\ bucket \in [Ref -> Bucket]
    BY <1>1, <1>12, <2>0 DEF CountOff, SafeInv, TypeInv, TypeOK, LocalsOK, Bucket
  <2>2. /\ buf.pc = "count" /\ buf'.pc = "address" /\ buf.slot = p /\ buf'.slot = p
        /\ bucket' = [bucket EXCEPT ![p] = CountedOff(b, f)]
        /\ UNCHANGED <<arp, overrun, main>>
    BY <1>2, <1>12, <2>0 DEF CountOff, BufLocals
  <2>3. bucket'[p] = CountedOff(b, f) /\ \A r \in Ref \ {p} : bucket'[r] = bucket[r]
    BY <2>1, <2>2
  <2>4. ASSUME ~overrun', NEW r \in Ref, Live(EntryAt(r))', r # p PROVE CountOK(r)'
    <3>1. CountOK(r)
      BY <2>2, <2>4, SameLive DEF CountInv
    <3> QED
      BY <2>2, <2>3, <2>4, <3>1, CountKept
  <2>5. ASSUME CountOK(p) PROVE CountOK(p)' /\ bucket'[p].bytes <= b.bytes
    <3>1. /\ Len(b.q) \in Nat /\ Total(b.q) \in Nat
          /\ b.dno \in Nat /\ b.bytes \in Nat /\ b.dno < Word /\ b.bytes < Word
      BY <1>1, <2>1, <2>5, CountRange
    <3>2. Pending(p) = Size[f] /\ Size[f] \in Nat /\ Missing(p) = 1
      BY <2>1, <2>2, FrameAssumption DEF Pending, Missing
    <3>3. Pending(p)' = 0 /\ Missing(p)' = 0
      BY <2>2 DEF Pending, Missing
    <3>4. /\ b.dno = Len(b.q) + 1 /\ b.bytes = Total(b.q) + Size[f]
          /\ b.q # <<>> => b.bytes <= MaxBucket + Size[Last(b.q)]
      BY <2>5, <3>2 DEF CountOK
    <3>5. (b.dno - 1) % Word = b.dno - 1 /\ (b.bytes - Size[f]) % Word = b.bytes - Size[f]
      <4> HIDE DEF b, f
      <4>1. /\ b.dno - 1 \in Int /\ 0 <= b.dno - 1 /\ b.dno - 1 < Word
            /\ b.bytes - Size[f] \in Int /\ 0 <= b.bytes - Size[f]
            /\ b.bytes - Size[f] < Word
        BY <3>1, <3>2, <3>4, BucketAssumption
      <4> QED
        BY <4>1, Fits, Zenon
    <3>6. /\ bucket'[p].q = b.q
          /\ bucket'[p].dno = b.dno - 1 /\ bucket'[p].bytes = b.bytes - Size[f]
      BY <2>3, <3>5 DEF CountedOff
    <3>7. b.q # <<>> => Size[Last(b.q)] \in Nat
      <4>1. b.q # <<>> => Last(b.q) \in Frame
        BY <2>1, EmptySeq, LenProperties DEF Last
      <4> QED
        BY <4>1, FrameAssumption
    <3> QED
      BY <3>1, <3>2, <3>3, <3>4, <3>6, <3>7, BucketAssumption DEF CountOK
  <2>6. ASSUME ~overrun', NEW r \in Ref, Live(EntryAt(r))' PROVE CountOK(r)'
    BY <2>2, <2>4, <2>5, <2>6 DEF CountInv, EntryAt
  <2>7. ASSUME ~overrun', main'.pc = "append" PROVE bucket'[main'.slot].bytes <= MaxBucket
    <3>1. /\ main.pc = "append" /\ main'.slot = main.slot /\ main.slot \in Ref
          /\ bucket[main.slot].bytes <= MaxBucket
          /\ Live(EntryAt(main.slot))
      BY <1>1, <2>2, <2>7 DEF CountInv, SafeInv, TypeInv, LocalsOK, MainOK, For
    <3>2. CASE main.slot = p
      <4>1. CountOK(p)
        BY <2>2, <2>7, <3>1, <3>2 DEF CountInv
      <4>2. b.bytes \in Nat /\ bucket'[p].bytes \in Nat
        BY <1>1, <2>1, BucketAssumption DEF SafeInv, TypeInv, TypeOK, Bucket
      <4> QED
        BY <2>5, <3>1, <3>2, <4>1, <4>2, BucketAssumption
    <3>3. CASE main.slot # p
      BY <2>3, <3>1, <3>3
    <3> QED
      BY <3>2, <3>3
  <2> QED
    BY <1>1, <2>6, <2>7 DEF CountInv
<1>13. CASE BufLoop \/ BufWait \/ GetSendReqData \/ TakeRequest \/ GetSendData
            \/ ReadAddress \/ BufWrite
  <2>1. /\ UNCHANGED <<arp, bucket, overrun, main>>
        /\ buf.pc # "count" /\ buf'.pc # "count"
    BY <1>2, <1>13 DEF BufLoop, BufWait, GetSendReqData, TakeRequest, GetSendData,
                       ReadAddress, BufWrite, BufLocals, tables
  <2> QED
    BY <1>1, <2>1, CountSteady, SameLive
<1>14. CASE EndSignal \/ UNCHANGED vars
  <2>1. UNCHANGED <<arp, bucket, overrun, main, buf>>
    BY <1>14 DEF EndSignal, vars, tables
  <2> QED
    BY <1>1, <2>1, CountSteady, SameLive
<1>15. CASE Tick
  <2>1. \A r \in Ref : Live(EntryAt(r))' => Live(EntryAt(r))
    <3>1. \A d \in Dev, s \in Slot : arp'[d][s].flag = arp[d][s].flag
      BY <1>1, <1>15, AgedProperties DEF Tick, SafeInv, TypeInv, TypeOK
    <3> QED
      BY <3>1 DEF EntryAt, Live, Ref
  <2>2. UNCHANGED <<bucket, overrun, main, buf>>
    BY <1>15 DEF Tick
  <2> QED
    BY <1>1, <2>1, <2>2, CountSteady
<1> QED
  BY <1>5, <1>6, <1>7, <1>8, <1>9, <1>10, <1>11, <1>12, <1>13, <1>14, <1>15
  DEF Next, MainThread, BufThread, Halted

(* The counters' invariant. *)
LEMMA CountInvariant == Spec => []CountInv
BY InitCount, NextCount, PTL DEF Spec

(* What is in a list and not at its end is before the end.                 *)
LEMMA BeforeLast ==
    ASSUME NEW n \in Nat, NEW i \in 1..n, i # n
    PROVE  i \in 1..(n - 1)
OBVIOUS

(* What a sum of a list is without its last, and with one more at its head. *)
LEMMA TotalFront ==
    ASSUME NEW q \in Seq(Frame), q # <<>>
    PROVE  /\ Front(q) \in Seq(Frame) /\ Last(q) \in Frame
           /\ Total(q) = Total(Front(q)) + Size[Last(q)]
<1>1. Len(q) \in Nat /\ Len(q) > 0 /\ DOMAIN q = 1..Len(q)
  BY LenProperties, EmptySeq
<1>2. Front(q) \in Seq(Frame) /\ Last(q) \in Frame /\ q = Append(Front(q), Last(q))
  <2>1. Front(q) = [i \in 1..(Len(q) - 1) |-> q[i]]
    BY <1>1 DEF Front
  <2>2. Front(q) \in Seq(Frame) /\ Len(Front(q)) = Len(q) - 1
    BY <1>1, <2>1
  <2>3. Last(q) \in Frame /\ Last(q) = q[Len(q)]
    BY <1>1 DEF Last
  <2>4. q = Append(Front(q), Last(q))
    <3> DEFINE w == Append(Front(q), Last(q))
    <3>1. /\ w \in Seq(Frame) /\ Len(w) = Len(Front(q)) + 1
          /\ \A i \in 1..Len(Front(q)) : w[i] = Front(q)[i]
          /\ w[Len(Front(q)) + 1] = Last(q)
      BY <2>2, <2>3, AppendProperties
    <3> HIDE DEF w
    <3>2. ASSUME NEW i \in 1..Len(q) PROVE w[i] = q[i]
      <4>1. CASE i = Len(q)
        BY <1>1, <2>2, <2>3, <3>1, <4>1
      <4>2. CASE i # Len(q)
        <5>1. i \in 1..(Len(q) - 1)
          BY <1>1, <4>2, BeforeLast, Zenon
        <5>2. i \in 1..Len(Front(q))
          BY <2>2, <5>1
        <5> QED
          BY <2>1, <3>1, <5>1, <5>2
      <4> QED
        BY <4>1, <4>2
    <3>3. w = q
      BY <1>1, <2>2, <3>1, <3>2, SeqEqual
    <3> QED
      BY <3>3 DEF w
  <2> QED
    BY <2>2, <2>3, <2>4
<1>3. Total(Append(Front(q), Last(q))) = Total(Front(q)) + Size[Last(q)]
  BY <1>2, TotalAppend
<1> QED
  BY <1>2, <1>3

(* A frame put back at the head of a list adds its size and 1.             *)
LEMMA TotalHead ==
    ASSUME NEW f \in Frame, NEW q \in Seq(Frame)
    PROVE  /\ Total(<<f>> \o q) = Size[f] + Total(q)
           /\ Len(<<f>> \o q) = Len(q) + 1
<1> DEFINE w == <<f>> \o q
<1>1. w \in Seq(Frame) /\ Len(w) = Len(q) + 1 /\ Len(q) \in Nat
      /\ w[1] = f /\ \A i \in 1..Len(q) : w[i + 1] = q[i]
  BY ConcatProperties, LenProperties
<1> HIDE DEF w
<1>2. w # <<>>
  BY <1>1, EmptySeq
<1>3. Head(w) = f
  BY <1>1
<1>4. Tail(w) = q
  <2>1. /\ Tail(w) \in Seq(Frame) /\ Len(Tail(w)) = Len(w) - 1
        /\ \A i \in 1..Len(Tail(w)) : Tail(w)[i] = w[i + 1]
    BY <1>1, <1>2, HeadTailProperties
  <2>2. Len(Tail(w)) = Len(q) /\ \A i \in 1..Len(q) : Tail(w)[i] = q[i]
    BY <1>1, <2>1
  <2> QED
    BY <2>1, <2>2, SeqEqual
<1> QED
  BY <1>1, <1>2, <1>3, <1>4, TotalTail DEF w

(* dno and inBucketSize of a live entry say what its list holds            *)
(* (sendBuf.c:59, sendBuf.c:91), the frame not counted off yet included,   *)
(* until an entry expires that the buffer thread has to serve.             *)
THEOREM CountersHold == Spec => []BucketCount
<1>1. CountInv => BucketCount
  <2> SUFFICES ASSUME CountInv, ~overrun, NEW r \in Ref, Live(EntryAt(r))
               PROVE  LET all == Uncounted(r) \o bucket[r].q
                      IN  /\ bucket[r].dno = Len(all)
                          /\ bucket[r].bytes = Total(all)
    BY DEF BucketCount
  <2>1. CountOK(r) /\ SafeInv
    BY DEF CountInv
  <2>2. /\ bucket[r].q \in Seq(Frame) /\ Len(bucket[r].q) \in Nat
        /\ Total(bucket[r].q) \in Nat
    BY <2>1, CountRange
  <2>3. /\ bucket[r].dno = Len(bucket[r].q) + Missing(r)
        /\ bucket[r].bytes = Total(bucket[r].q) + Pending(r)
    BY <2>1 DEF CountOK
  <2>4. CASE buf.pc = "count" /\ buf.slot = r
    <3>1. buf.frame \in Frame
      BY <2>1, <2>4 DEF SafeInv, TypeInv, LocalsOK
    <3>2. Uncounted(r) = <<buf.frame>> /\ Missing(r) = 1 /\ Pending(r) = Size[buf.frame]
      BY <2>4 DEF Uncounted, Missing, Pending
    <3>3. Size[buf.frame] \in Nat
      BY <3>1, FrameAssumption
    <3>4. /\ Total(<<buf.frame>> \o bucket[r].q) = Size[buf.frame] + Total(bucket[r].q)
          /\ Len(<<buf.frame>> \o bucket[r].q) = Len(bucket[r].q) + 1
      BY <2>2, <3>1, TotalHead
    <3> QED
      BY <2>2, <2>3, <3>2, <3>3, <3>4
  <2>5. CASE ~(buf.pc = "count" /\ buf.slot = r)
    <3>1. Uncounted(r) = <<>> /\ Missing(r) = 0 /\ Pending(r) = 0
      BY <2>5 DEF Uncounted, Missing, Pending
    <3>2. Uncounted(r) \o bucket[r].q = bucket[r].q
      BY <2>2, <3>1, ConcatEmptySeq
    <3> QED
      BY <2>2, <2>3, <3>1, <3>2
  <2> QED
    BY <2>4, <2>5
<1> QED
  BY <1>1, CountInvariant, PTL

(* A bucket is over its limit by less than one frame: AppendSendData       *)
(* (sendBuf.c:26) reads inBucketSize before it adds the frame, and the     *)
(* buffer thread, which may change it in between, only lowers it.          *)
THEOREM BucketsBounded == Spec => []BucketBound
<1>1. CountInv => BucketBound
  <2> SUFFICES ASSUME CountInv, ~overrun, NEW r \in Ref, bucket[r].q # <<>>
               PROVE  Total(Front(bucket[r].q)) <= MaxBucket
    BY DEF BucketBound
  <2> DEFINE q == bucket[r].q
  <2>1. SafeInv /\ q \in Seq(Frame)
    BY DEF CountInv, SafeInv, TypeInv, TypeOK, Bucket
  <2>2. Live(EntryAt(r))
    <3>1. Head(q) \in ToSet(q)
      BY <2>1, FirstTaken
    <3> QED
      BY <2>1, <3>1 DEF SafeInv, ParkedOK, For
  <2>3. CountOK(r)
    BY <2>2 DEF CountInv
  <2>4. bucket[r].bytes = Total(q) + Pending(r)
        /\ bucket[r].bytes <= MaxBucket + Size[Last(q)]
    BY <2>3 DEF CountOK
  <2>5. Pending(r) \in Nat /\ Total(q) \in Nat
    BY <2>1, <2>3, CountRange
  <2>6. Total(q) = Total(Front(q)) + Size[Last(q)]
        /\ Total(Front(q)) \in Nat /\ Size[Last(q)] \in Nat
    BY <2>1, TotalFront, TotalIsSum, FrameAssumption
  <2> HIDE DEF q
  <2>7. Total(Front(q)) <= MaxBucket
    BY <2>4, <2>5, <2>6, BucketAssumption
  <2> QED
    BY <2>7 DEF q
<1> QED
  BY <1>1, CountInvariant, PTL

-----------------------------------------------------------------------------
(* A count that is lost                                                    *)

(* A number is its remainder and some multiple of Word. *)
LEMMA Parts ==
    ASSUME NEW n \in Int
    PROVE  \E k \in Int : n = Word * k + (n % Word)
<1>1. n \div Word \in Int /\ n = Word * (n \div Word) + (n % Word)
  BY BucketAssumption
<1> QED
  BY <1>1

(* It has one remainder only. *)
LEMMA OneRemainder ==
    ASSUME NEW n \in Int, NEW r \in 0..(Word - 1), NEW k \in Int, n = Word * k + r
    PROVE  n % Word = r
<1> DEFINE j == n \div Word
           s == n % Word
<1>1. j \in Int /\ s \in 0..(Word - 1) /\ Word * j + s = Word * k + r
  BY BucketAssumption
<1> SUFFICES s = r
  OBVIOUS
<1> HIDE DEF j, s
<1>2. Word * (j - k) = r - s
  BY <1>1, BucketAssumption
<1>3. CASE j - k >= 1
  <2>1. Word * (j - k) >= Word
    BY <1>1, <1>3, BucketAssumption
  <2> QED
    BY <1>1, <1>2, <2>1, BucketAssumption
<1>4. CASE j - k <= -1
  <2>1. Word * (j - k) <= -Word
    BY <1>1, <1>4, BucketAssumption
  <2> QED
    BY <1>1, <1>2, <2>1, BucketAssumption
<1>5. CASE j = k
  BY <1>1, <1>5, BucketAssumption
<1> QED
  BY <1>1, <1>3, <1>4, <1>5

(* A counter of sendBuf.c:59 and of sendBuf.c:91, moved by k. *)
Up(a, k) == (a + k) % Word
Down(a, k) == (a - k) % Word

(* Counting up or down modulo Word keeps a difference modulo Word          *)
(* (sendBuf.c:59, sendBuf.c:91).                                           *)
LEMMA CountMoves ==
    ASSUME NEW a \in Int, NEW b \in Int, NEW k \in Int, NEW l \in Int,
           Up(a, l) = Up(b, 0)
    PROVE  Up(Up(a, k), l) = Up(b, k)
<1> USE DEF Up
<1>0. (a + l) % Word = b % Word
  OBVIOUS
<1>1. PICK i \in Int : a + l = Word * i + ((a + l) % Word)
  BY Parts
<1>2. PICK j \in Int : b = Word * j + (b % Word)
  BY Parts
<1>3. PICK m \in Int : a + k = Word * m + ((a + k) % Word)
  BY Parts
<1> DEFINE s == (a + k) % Word
           x == s + l
           y == b + k
<1>4. s \in Int /\ x \in Int /\ y \in Int
  BY BucketAssumption
<1>5. a + l - b = Word * (i - j)
  <2> DEFINE u == (a + l) % Word
  <2>1. u \in Int /\ a + l = Word * i + u /\ b = Word * j + u
    BY <1>0, <1>1, <1>2, BucketAssumption
  <2> HIDE DEF u
  <2> QED
    BY <2>1, BucketAssumption
<1>6. x - y = Word * (i - j - m)
  <2>1. a + k = Word * m + s
    BY <1>3
  <2> HIDE DEF s
  <2> QED
    BY <1>4, <1>5, <2>1, BucketAssumption
<1>7. PICK n \in Int : y = Word * n + (y % Word)
  BY <1>4, Parts
<1> DEFINE r == y % Word
           c == i - j - m + n
<1>8. r \in 0..(Word - 1)
  BY <1>4, BucketAssumption
<1>9. c \in Int /\ x = Word * c + r
  <2>1. y = Word * n + r
    BY <1>7
  <2> HIDE DEF r, x, y
  <2> QED
    BY <1>4, <1>6, <1>8, <2>1, BucketAssumption
<1> HIDE DEF x, y, r, c
<1>10. x % Word = r
  BY <1>4, <1>8, <1>9, OneRemainder
<1> QED
  BY <1>10 DEF x, y, r, s

(* Counting down undoes counting up. *)
LEMMA CountBack ==
    ASSUME NEW a \in Int, NEW b \in Int, NEW k \in Int, NEW l \in Int,
           Up(a, l) = Up(b, k)
    PROVE  Up(Down(a, k), l) = Up(b, 0)
<1>1. PICK j \in Int : j = -k
  OBVIOUS
<1>2. PICK c \in Int : c = b + k
  OBVIOUS
<1>3. Up(a, l) = Up(c, 0)
  BY <1>2 DEF Up
<1>4. Up(Up(a, j), l) = Up(c, j)
  BY <1>1, <1>2, <1>3, CountMoves
<1>5. a + j = a - k /\ c + j = b + 0
  BY <1>1, <1>2
<1>6. Up(a, j) = Down(a, k) /\ Up(c, j) = Up(b, 0)
  BY <1>5 DEF Up, Down
<1> QED
  BY <1>4, <1>6

(* At most one frame. *)
Loss == {<<>>} \cup {<<f>> : f \in Frame}

(* The counters of r are too low by the frames of `lost`. *)
Lacks(r, lost) ==
    /\ (bucket[r].dno + Len(lost)) % Word = (Len(bucket[r].q) + Missing(r)) % Word
    /\ (bucket[r].bytes + Total(lost)) % Word = (Total(bucket[r].q) + Pending(r)) % Word

NearOK(r) == \E lost \in Loss : Lacks(r, lost)

NearInv == SafeInv /\ \A r \in Ref : Live(EntryAt(r)) => NearOK(r)

(* What the numbers are that the counters are made of (sendBuf.c:59). *)
LEMMA NearTypes ==
    ASSUME SafeInv, NEW r \in Ref
    PROVE  /\ bucket[r].q \in Seq(Frame) /\ Len(bucket[r].q) \in Nat
           /\ Total(bucket[r].q) \in Nat
           /\ bucket[r].dno \in Nat /\ bucket[r].bytes \in Nat
           /\ Pending(r) \in Nat /\ Missing(r) \in Nat
<1>1. /\ bucket[r].q \in Seq(Frame) /\ Len(bucket[r].q) \in Nat
      /\ bucket[r].dno \in Nat /\ bucket[r].bytes \in Nat
  BY BucketAssumption, LenProperties DEF SafeInv, TypeInv, TypeOK, Bucket
<1>2. buf.pc = "count" => Size[buf.frame] \in Nat
  BY FrameAssumption DEF SafeInv, TypeInv, LocalsOK
<1> QED
  BY <1>1, <1>2, TotalIsSum DEF Pending, Missing

(* A list of one frame has its size. *)
LEMMA OneFrame ==
    ASSUME NEW f \in Frame
    PROVE  Len(<<f>>) = 1 /\ Total(<<f>>) = Size[f]
<1>1. <<>> \in Seq(Frame) /\ <<f>> \in Seq(Frame) /\ <<f>> \o <<>> = <<f>>
  BY ConcatEmptySeq
<1>2. Total(<<f>> \o <<>>) = Size[f] + Total(<<>>)
  BY <1>1, TotalHead
<1> QED
  BY <1>1, <1>2, TotalEmpty, FrameAssumption

(* The frames of a loss have a number and a size. *)
LEMMA LossTypes ==
    ASSUME NEW lost \in Loss
    PROVE  Len(lost) \in Nat /\ Total(lost) \in Nat
<1>1. CASE lost = <<>>
  BY <1>1, TotalEmpty, EmptyList
<1>2. ASSUME NEW f \in Frame, lost = <<f>> PROVE Len(lost) \in Nat /\ Total(lost) \in Nat
  BY <1>2, OneFrame, FrameAssumption
<1> QED
  BY <1>1, <1>2 DEF Loss

(* A step that leaves a bucket and what is not counted off of it alone.    *)
LEMMA NearKept ==
    ASSUME NEW r \in Ref, NearOK(r), bucket'[r] = bucket[r],
           \/ UNCHANGED <<buf.pc, buf.slot, buf.frame>>
           \/ buf.slot # r /\ buf'.slot # r
           \/ buf.pc # "count" /\ buf'.pc # "count"
    PROVE  NearOK(r)'
<1>1. Pending(r)' = Pending(r) /\ Missing(r)' = Missing(r)
  BY DEF Pending, Missing
<1>2. PICK lost \in Loss : Lacks(r, lost)
  BY DEF NearOK
<1>3. Lacks(r, lost)'
  BY <1>1, <1>2 DEF Lacks
<1> QED
  BY <1>2, <1>3 DEF NearOK

(* A new entry has counters at zero, and lacks the frame of the entry      *)
(* before it that is still to be counted off (ip2mac.c:129).               *)
LEMMA NearNew ==
    ASSUME SafeInv, NEW r \in Ref, bucket'[r] = EmptyBucket, buf' = buf
    PROVE  NearOK(r)'
<1>1. bucket'[r].q = <<>> /\ bucket'[r].dno = 0 /\ bucket'[r].bytes = 0
  BY DEF EmptyBucket
<1>2. Pending(r)' = Pending(r) /\ Missing(r)' = Missing(r)
  BY DEF Pending, Missing
<1>3. CASE buf.pc = "count" /\ buf.slot = r
  <2>1. buf.frame \in Frame
    BY <1>3 DEF SafeInv, TypeInv, LocalsOK
  <2>2. Pending(r) = Size[buf.frame] /\ Missing(r) = 1
    BY <1>3 DEF Pending, Missing
  <2>3. Lacks(r, <<buf.frame>>)'
    BY <1>1, <1>2, <2>1, <2>2, OneFrame, TotalEmpty, EmptyList, FrameAssumption DEF Lacks
  <2> QED
    BY <2>1, <2>3 DEF NearOK, Loss
<1>4. CASE ~(buf.pc = "count" /\ buf.slot = r)
  <2>1. Pending(r) = 0 /\ Missing(r) = 0
    BY <1>4 DEF Pending, Missing
  <2>2. Lacks(r, <<>>)'
    BY <1>1, <1>2, <2>1, TotalEmpty, EmptyList DEF Lacks
  <2> QED
    BY <2>2 DEF NearOK, Loss
<1> QED
  BY <1>3, <1>4

(* A search leaves the bucket of a live entry alone, or the entry is new.  *)
LEMMA NearSearch ==
    ASSUME NearInv, SafeInv',
           NEW d \in Dev, NEW a \in Addr, NEW hw \in Mac \cup {NoMac},
           Search(d, a, hw), buf' = buf
    PROVE  NearInv'
<1>1. TypeOK /\ TablesOK /\ SafeInv
  BY DEF NearInv, SafeInv, TypeInv
<1>2. \A r \in Ref : Live(EntryAt(r))' =>
          \/ Live(EntryAt(r)) /\ bucket'[r] = bucket[r]
          \/ bucket'[r] = EmptyBucket
  BY <1>1, SearchFresh
<1>3. ASSUME NEW r \in Ref, Live(EntryAt(r))' PROVE NearOK(r)'
  <2>1. CASE Live(EntryAt(r)) /\ bucket'[r] = bucket[r]
    <3>1. NearOK(r)
      BY <2>1 DEF NearInv
    <3> QED
      BY <2>1, <3>1, NearKept
  <2>2. CASE bucket'[r] = EmptyBucket
    BY <1>1, <2>2, NearNew
  <2> QED
    BY <1>2, <1>3, <2>1, <2>2
<1> QED
  BY <1>3 DEF NearInv

(* A frame is added to the list and counted (AppendSendData).              *)
LEMMA NearAppend ==
    ASSUME SafeInv, NEW r \in Ref, NearOK(r), NEW f \in Frame,
           bucket'[r] = Appended(bucket[r], f), buf' = buf
    PROVE  NearOK(r)'
<1> DEFINE b == bucket[r]
           w == Append(b.q, f)
<1>1. PICK lost \in Loss : Lacks(r, lost)
  BY DEF NearOK
<1>2. /\ b.q \in Seq(Frame) /\ Len(b.q) \in Nat /\ Total(b.q) \in Nat
      /\ b.dno \in Nat /\ b.bytes \in Nat
      /\ Pending(r) \in Nat /\ Missing(r) \in Nat /\ Size[f] \in Nat
      /\ Len(lost) \in Nat /\ Total(lost) \in Nat
  BY NearTypes, LossTypes, FrameAssumption
<1>3. Total(w) = Total(b.q) + Size[f] /\ Len(w) = Len(b.q) + 1
  BY <1>2, TotalAppend, LastAdded
<1>4. /\ bucket'[r].q = w
      /\ bucket'[r].dno = (b.dno + 1) % Word
      /\ bucket'[r].bytes = (b.bytes + Size[f]) % Word
  BY DEF Appended
<1>5. Pending(r)' = Pending(r) /\ Missing(r)' = Missing(r)
  BY DEF Pending, Missing
<1>6. (((b.dno + 1) % Word) + Len(lost)) % Word = (Len(b.q) + Missing(r) + 1) % Word
  <2> DEFINE x == b.dno
             y == Len(b.q) + Missing(r)
             l == Len(lost)
             k == 1
  <2>1. x \in Int /\ y \in Int /\ l \in Int /\ k \in Int
    BY <1>2
  <2>2. (x + l) % Word = y % Word
    BY <1>1 DEF Lacks
  <2>3. Up(x, l) = Up(y, 0)
    BY <2>1, <2>2 DEF Up
  <2> HIDE DEF x, y, l, k
  <2>4. Up(Up(x, k), l) = Up(y, k)
    BY <2>1, <2>3, CountMoves
  <2> QED
    BY <2>4 DEF x, y, l, k, Up
<1>7. (((b.bytes + Size[f]) % Word) + Total(lost)) % Word
          = (Total(b.q) + Pending(r) + Size[f]) % Word
  <2> DEFINE x == b.bytes
             y == Total(b.q) + Pending(r)
             l == Total(lost)
             s == Size[f]
  <2>1. x \in Int /\ y \in Int /\ l \in Int /\ s \in Int
    BY <1>2
  <2>2. (x + l) % Word = y % Word
    BY <1>1 DEF Lacks
  <2>3. Up(x, l) = Up(y, 0)
    BY <2>1, <2>2 DEF Up
  <2> HIDE DEF x, y, l, s
  <2>4. Up(Up(x, s), l) = Up(y, s)
    BY <2>1, <2>3, CountMoves
  <2> QED
    BY <2>4 DEF x, y, l, s, Up
<1> HIDE DEF b, w
<1>8. /\ Len(w) + Missing(r) = Len(b.q) + Missing(r) + 1
      /\ Total(w) + Pending(r) = Total(b.q) + Pending(r) + Size[f]
  BY <1>2, <1>3
<1>9. Lacks(r, lost)'
  BY <1>4, <1>5, <1>6, <1>7, <1>8 DEF Lacks
<1> QED
  BY <1>1, <1>9 DEF NearOK

(* A frame is taken off the list, to be counted off next (GetSendData).    *)
LEMMA NearPop ==
    ASSUME SafeInv, NEW r \in Ref, NearOK(r), bucket[r].q # <<>>,
           bucket'[r] = Popped(bucket[r]),
           buf.pc # "count", buf'.pc = "count", buf'.slot = r,
           buf'.frame = Head(bucket[r].q)
    PROVE  NearOK(r)'
<1> DEFINE q == bucket[r].q
<1>1. PICK lost \in Loss : Lacks(r, lost)
  BY DEF NearOK
<1>2. q \in Seq(Frame) /\ Len(q) \in Nat /\ Total(q) \in Nat
  BY NearTypes
<1>3. /\ Len(Tail(q)) = Len(q) - 1
      /\ Head(q) \in Frame /\ Tail(q) \in Seq(Frame)
      /\ Total(q) = Size[Head(q)] + Total(Tail(q))
  BY <1>2, FirstTaken, TotalTail
<1>4. Total(Tail(q)) \in Nat /\ Size[Head(q)] \in Nat
  BY <1>3, TotalIsSum, FrameAssumption
<1>5. Pending(r) = 0 /\ Missing(r) = 0 /\ Pending(r)' = Size[Head(q)] /\ Missing(r)' = 1
  BY DEF Pending, Missing
<1>6. /\ bucket'[r].q = Tail(q)
      /\ bucket'[r].dno = bucket[r].dno /\ bucket'[r].bytes = bucket[r].bytes
  BY DEF Popped
<1>7. /\ Len(Tail(q)) + 1 = Len(q) + 0
      /\ Total(Tail(q)) + Size[Head(q)] = Total(q) + 0
  BY <1>2, <1>3, <1>4
<1>8. Lacks(r, lost)'
  BY <1>1, <1>5, <1>6, <1>7 DEF Lacks
<1> QED
  BY <1>1, <1>8 DEF NearOK

(* It is counted off. *)
LEMMA NearCountOff ==
    ASSUME SafeInv, NEW r \in Ref, NearOK(r),
           buf.pc = "count", buf.slot = r, buf'.pc # "count",
           bucket'[r] = CountedOff(bucket[r], buf.frame)
    PROVE  NearOK(r)'
<1> DEFINE b == bucket[r]
           f == buf.frame
<1>1. PICK lost \in Loss : Lacks(r, lost)
  BY DEF NearOK
<1>2. f \in Frame
  BY DEF SafeInv, TypeInv, LocalsOK
<1>3. /\ Len(b.q) \in Nat /\ Total(b.q) \in Nat
      /\ b.dno \in Nat /\ b.bytes \in Nat /\ Size[f] \in Nat
      /\ Len(lost) \in Nat /\ Total(lost) \in Nat
  BY <1>2, NearTypes, LossTypes, FrameAssumption
<1>4. Pending(r) = Size[f] /\ Missing(r) = 1 /\ Pending(r)' = 0 /\ Missing(r)' = 0
  BY DEF Pending, Missing
<1>5. /\ bucket'[r].q = b.q
      /\ bucket'[r].dno = (b.dno - 1) % Word
      /\ bucket'[r].bytes = (b.bytes - Size[f]) % Word
  BY DEF CountedOff
<1>6. /\ (b.dno + Len(lost)) % Word = (Len(b.q) + 1) % Word
      /\ (b.bytes + Total(lost)) % Word = (Total(b.q) + Size[f]) % Word
  BY <1>1, <1>4 DEF Lacks
<1> HIDE DEF b, f
<1>7. (((b.dno - 1) % Word) + Len(lost)) % Word = Len(b.q) % Word
  <2> DEFINE x == b.dno
             y == Len(b.q)
             l == Len(lost)
             k == 1
  <2>1. x \in Int /\ y \in Int /\ l \in Int /\ k \in Int
    BY <1>3
  <2>2. Up(x, l) = Up(y, k)
    BY <1>6 DEF Up
  <2> HIDE DEF x, y, l, k
  <2>3. Up(Down(x, k), l) = Up(y, 0)
    BY <2>1, <2>2, CountBack
  <2>4. Up(y, 0) = y % Word
    BY <2>1 DEF Up
  <2>5. (((x - k) % Word) + l) % Word = y % Word
    BY <2>3, <2>4 DEF Up, Down
  <2> QED
    BY <2>5 DEF x, y, l, k
<1>8. (((b.bytes - Size[f]) % Word) + Total(lost)) % Word = Total(b.q) % Word
  <2> DEFINE x == b.bytes
             y == Total(b.q)
             l == Total(lost)
             s == Size[f]
  <2>1. x \in Int /\ y \in Int /\ l \in Int /\ s \in Int
    BY <1>3
  <2>2. Up(x, l) = Up(y, s)
    BY <1>6 DEF Up
  <2> HIDE DEF x, y, l, s
  <2>3. Up(Down(x, s), l) = Up(y, 0)
    BY <2>1, <2>2, CountBack
  <2>4. Up(y, 0) = y % Word
    BY <2>1 DEF Up
  <2>5. (((x - s) % Word) + l) % Word = y % Word
    BY <2>3, <2>4 DEF Up, Down
  <2> QED
    BY <2>5 DEF x, y, l, s
<1>9. Len(b.q) + 0 = Len(b.q) /\ Total(b.q) + 0 = Total(b.q)
  BY <1>3
<1>10. Lacks(r, lost)'
  BY <1>4, <1>5, <1>7, <1>8, <1>9 DEF Lacks, b
<1> QED
  BY <1>1, <1>10 DEF NearOK

(* Every step keeps the counters that near. *)
LEMMA NextNear == NearInv /\ [Next]_vars => NearInv'
<1> SUFFICES ASSUME NearInv, [Next]_vars PROVE NearInv'
  OBVIOUS
<1>1. SafeInv /\ SafeInv'
  BY NextSafe DEF NearInv
<1>2. main \in MainLocals /\ buf \in BufLocals /\ bucket \in [Ref -> Bucket]
  BY <1>1 DEF SafeInv, TypeInv, TypeOK
<1>3. ASSUME bucket' = bucket, \A r \in Ref : Live(EntryAt(r))' => Live(EntryAt(r)),
             buf' = buf \/ (buf.pc # "count" /\ buf'.pc # "count")
      PROVE  NearInv'
  BY <1>1, <1>3, NearKept DEF NearInv
<1>4. CASE Poll \/ Skip \/ Wake \/ AppendSendReqData \/ Test \/ CheckBucket \/ Write
           \/ Leave \/ Join \/ EndSignal \/ UNCHANGED vars
  <2>1. arp' = arp /\ bucket' = bucket /\ buf' = buf
    BY <1>4 DEF Poll, Skip, Wake, AppendSendReqData, Test, CheckBucket, Write, Leave, Join,
                EndSignal, tables, vars
  <2> QED
    BY <1>3, <2>1, SameLive
<1>5. ASSUME NEW h \in Host, RecvArp(h[1], h[2], h[3]) PROVE NearInv'
  <2>1. h[1] \in Dev /\ h[2] \in Addr /\ h[3] \in Mac
    BY HostAssumption
  <2> QED
    BY <1>1, <1>5, <2>1, NearSearch DEF RecvArp
<1>6. ASSUME NEW f \in Frame, RecvIp(f) PROVE NearInv'
  <2>1. Egress(f) \in Dev /\ NextHop[f] \in Addr
    BY FrameAssumption DEF Egress, Dev
  <2> QED
    BY <1>1, <1>6, <2>1, NearSearch DEF RecvIp
<1>7. CASE AppendSendData
  <2>0. PICK p \in Ref : p = main.slot
    BY <1>1, <1>7 DEF AppendSendData, MainAt, SafeInv, TypeInv, LocalsOK
  <2>1. main.frame \in Frame
    BY <1>1, <1>7 DEF AppendSendData, MainAt, SafeInv, TypeInv, LocalsOK
  <2>2. /\ bucket' = [bucket EXCEPT ![p] = Appended(bucket[p], main.frame)]
        /\ UNCHANGED <<arp, buf>>
    BY <1>7, <2>0 DEF AppendSendData
  <2>3. ASSUME NEW r \in Ref, Live(EntryAt(r))' PROVE NearOK(r)'
    <3>1. NearOK(r)
      BY <2>2, <2>3, SameLive DEF NearInv
    <3>2. CASE r = p
      <4>1. bucket'[r] = Appended(bucket[r], main.frame) /\ buf' = buf
        BY <1>2, <2>2, <3>2
      <4> QED
        BY <1>1, <2>1, <3>1, <4>1, NearAppend
    <3>3. CASE r # p
      BY <1>2, <2>2, <3>1, <3>3, NearKept
    <3> QED
      BY <3>2, <3>3
  <2> QED
    BY <1>1, <2>3 DEF NearInv
<1>8. CASE PopFrame
  <2>0. PICK p \in Ref : p = buf.slot
    BY <1>1, <1>8 DEF PopFrame, SafeInv, TypeInv, LocalsOK
  <2>1. CASE bucket[p].q = <<>>
    <3>1. UNCHANGED <<bucket, arp>> /\ buf.pc # "count" /\ buf'.pc # "count"
      BY <1>2, <1>8, <2>0, <2>1 DEF PopFrame, BufLocals
    <3> QED
      BY <1>3, <3>1, SameLive
  <2>2. CASE bucket[p].q # <<>>
    <3>1. /\ buf.pc # "count" /\ buf'.pc = "count" /\ buf.slot = p /\ buf'.slot = p
          /\ buf'.frame = Head(bucket[p].q)
          /\ bucket' = [bucket EXCEPT ![p] = Popped(bucket[p])]
          /\ UNCHANGED arp
      BY <1>2, <1>8, <2>0, <2>2 DEF PopFrame, BufLocals
    <3>2. ASSUME NEW r \in Ref, Live(EntryAt(r))' PROVE NearOK(r)'
      <4>1. NearOK(r)
        BY <3>1, <3>2, SameLive DEF NearInv
      <4>2. CASE r = p
        <5>1. bucket'[r] = Popped(bucket[r])
          BY <1>2, <3>1, <4>2
        <5> QED
          BY <1>1, <2>2, <3>1, <4>1, <4>2, <5>1, NearPop
      <4>3. CASE r # p
        BY <1>2, <3>1, <4>1, <4>3, NearKept
      <4> QED
        BY <4>2, <4>3
    <3> QED
      BY <1>1, <3>2 DEF NearInv
  <2> QED
    BY <2>1, <2>2
<1>9. CASE CountOff
  <2>0. PICK p \in Ref : p = buf.slot
    BY <1>1, <1>9 DEF CountOff, SafeInv, TypeInv, LocalsOK
  <2>1. /\ buf.pc = "count" /\ buf'.pc # "count" /\ buf.slot = p /\ buf'.slot = p
        /\ bucket' = [bucket EXCEPT ![p] = CountedOff(bucket[p], buf.frame)]
        /\ UNCHANGED arp
    BY <1>2, <1>9, <2>0 DEF CountOff, BufLocals
  <2>2. ASSUME NEW r \in Ref, Live(EntryAt(r))' PROVE NearOK(r)'
    <3>1. NearOK(r)
      BY <2>1, <2>2, SameLive DEF NearInv
    <3>2. CASE r = p
      <4>1. bucket'[r] = CountedOff(bucket[r], buf.frame)
        BY <1>2, <2>1, <3>2
      <4> QED
        BY <1>1, <2>1, <3>1, <3>2, <4>1, NearCountOff
    <3>3. CASE r # p
      BY <1>2, <2>1, <3>1, <3>3, NearKept
    <3> QED
      BY <3>2, <3>3
  <2> QED
    BY <1>1, <2>2 DEF NearInv
<1>10. CASE BufLoop \/ BufWait \/ GetSendReqData \/ TakeRequest \/ GetSendData
            \/ ReadAddress \/ BufWrite
  <2>1. UNCHANGED <<arp, bucket>> /\ buf.pc # "count" /\ buf'.pc # "count"
    BY <1>2, <1>10 DEF BufLoop, BufWait, GetSendReqData, TakeRequest, GetSendData,
                       ReadAddress, BufWrite, BufLocals, tables
  <2> QED
    BY <1>3, <2>1, SameLive
<1>11. CASE Tick
  <2>1. \A d \in Dev, s \in Slot : arp'[d][s].flag = arp[d][s].flag
    BY <1>1, <1>11, AgedProperties DEF Tick, SafeInv, TypeInv, TypeOK
  <2>2. \A r \in Ref : Live(EntryAt(r))' => Live(EntryAt(r))
    BY <2>1 DEF EntryAt, Live, Ref
  <2>3. bucket' = bucket /\ buf' = buf
    BY <1>11 DEF Tick
  <2> QED
    BY <1>3, <2>2, <2>3
<1> QED
  BY <1>4, <1>5, <1>6, <1>7, <1>8, <1>9, <1>10, <1>11
  DEF Next, MainThread, BufThread, Halted

(* With one frame at most, of one entry before, the counters of an entry   *)
(* say what its list holds: also when the entry before expired under the   *)
(* buffer thread, which had taken a frame and not counted it off           *)
(* (ip2mac.c:129, sendBuf.c:91).                                           *)
THEOREM AtMostOneLost == Spec => []OneCountLost
<1>1. Init => NearInv
  <2> SUFFICES ASSUME Init PROVE NearInv
    OBVIOUS
  <2>1. \A r \in Ref : ~Live(EntryAt(r))
    BY DEF Init, EmptyTable, EntryAt, Ref, Live
  <2> QED
    BY <2>1, InitSafe DEF NearInv
<1>2. NearInv => OneCountLost
  <2> SUFFICES ASSUME NearInv, NEW r \in Ref, Live(EntryAt(r))
               PROVE  LET all == Uncounted(r) \o bucket[r].q
                      IN  \E lost \in {<<>>} \cup {<<f>> : f \in Frame} :
                             /\ (bucket[r].dno + Len(lost)) % Word = Len(all) % Word
                             /\ (bucket[r].bytes + Total(lost)) % Word = Total(all) % Word
    BY DEF OneCountLost
  <2> DEFINE all == Uncounted(r) \o bucket[r].q
  <2>1. PICK lost \in Loss : Lacks(r, lost)
    BY DEF NearInv, NearOK
  <2>2. /\ bucket[r].q \in Seq(Frame) /\ Len(bucket[r].q) \in Nat
        /\ Total(bucket[r].q) \in Nat
    BY NearTypes DEF NearInv
  <2>3. /\ Len(all) = Len(bucket[r].q) + Missing(r)
        /\ Total(all) = Total(bucket[r].q) + Pending(r)
    <3>1. CASE buf.pc = "count" /\ buf.slot = r
      <4>1. buf.frame \in Frame
        BY <3>1 DEF NearInv, SafeInv, TypeInv, LocalsOK
      <4>2. Uncounted(r) = <<buf.frame>> /\ Missing(r) = 1 /\ Pending(r) = Size[buf.frame]
        BY <3>1 DEF Uncounted, Missing, Pending
      <4>3. Size[buf.frame] \in Nat
        BY <4>1, FrameAssumption
      <4> QED
        BY <2>2, <4>1, <4>2, <4>3, TotalHead
    <3>2. CASE ~(buf.pc = "count" /\ buf.slot = r)
      <4>1. Uncounted(r) = <<>> /\ Missing(r) = 0 /\ Pending(r) = 0
        BY <3>2 DEF Uncounted, Missing, Pending
      <4>2. all = bucket[r].q
        BY <2>2, <4>1, ConcatEmptySeq
      <4> QED
        BY <2>2, <4>1, <4>2
    <3> QED
      BY <3>1, <3>2
  <2> QED
    BY <2>1, <2>3 DEF Lacks, Loss
<1> QED
  BY <1>1, <1>2, NextNear, PTL DEF Spec

-----------------------------------------------------------------------------
(* Frames that wait                                                        *)

LEMMA InitServe == Init => ServeInv
BY InitSafe DEF Init, ServeInv

(* The buffer thread lets go of an entry when its list is empty            *)
(* (ip2mac.c:170), and takes the next only then.                           *)
LEMMA NextServe == ServeInv /\ [Next]_vars => ServeInv'
<1> SUFFICES ASSUME ServeInv, [Next]_vars PROVE ServeInv'
  OBVIOUS
<1>1. SafeInv /\ SafeInv'
  BY NextSafe DEF ServeInv
<1>2. buf \in BufLocals
  BY <1>1 DEF SafeInv, TypeInv, TypeOK
<1>3. CASE MainThread \/ EndSignal \/ Tick \/ UNCHANGED vars
  <2>1. buf' = buf
    BY <1>3 DEF MainThread, Poll, Skip, RecvArp, Wake, AppendSendReqData, RecvIp, Test,
                CheckBucket, AppendSendData, Write, Leave, Join, EndSignal, Tick, vars
  <2> QED
    BY <1>1, <2>1 DEF ServeInv
<1>4. CASE BufThread
  <2> QED
    BY <1>1, <1>2, <1>4
    DEF BufThread, BufLoop, BufWait, GetSendReqData, TakeRequest, GetSendData, PopFrame,
        CountOff, ReadAddress, BufWrite, ServeInv, BufLocals
<1> QED
  BY <1>3, <1>4 DEF Next, Halted

(* While it serves no entry the buffer thread has none in its hands        *)
(* (ip2mac.c:160, ip2mac.c:290).                                           *)
LEMMA ServeInvariant == Spec => []ServeInv
BY InitServe, NextServe, PTL DEF Spec

(* A search strands nothing: it resolves no entry but that of the ARP      *)
(* packet, and of that one the main thread looks at the bucket next        *)
(* (ip2mac.c:60).                                                          *)
LEMMA SearchStrands ==
    ASSUME SafeInv,
           NEW d \in Dev, NEW a \in Addr, NEW hw \in Mac \cup {NoMac},
           hw = NoMac \/ <<d, a, hw>> \in Host,
           Search(d, a, hw), UNCHANGED <<reqs, buf>>,
           main.pc = "poll",
           hw # NoMac /\ Found(arp[d], a, hw) =>
               main'.pc = "wake" /\ main'.slot = <<d, Place(arp[d], a, hw)>>
    PROVE  \A r \in Ref : Stranded(r)' => Stranded(r)
<1> SUFFICES ASSUME NEW r \in Ref, Stranded(r)' PROVE Stranded(r)
  OBVIOUS
<1>1. TypeOK /\ TablesOK
  BY DEF SafeInv, TypeInv
<1>2. EntryAt(r)'.flag = "OK" /\ bucket'[r].q # <<>> /\ ~Busy(r)' /\ ~Asking(r)'
  BY DEF Stranded
<1>3. bucket[r].q # <<>>
  <2>1. SearchLeaves(d, a, hw)
    BY <1>1, SearchStep
  <2> QED
    BY <1>2, <2>1 DEF SearchLeaves
<1>4. \/ EntryAt(r).flag = "OK"
      \/ r = <<d, Place(arp[d], a, hw)>> /\ hw # NoMac /\ Found(arp[d], a, hw)
  BY <1>1, <1>2, SearchFresh
<1>5. EntryAt(r).flag = "OK"
  BY <1>2, <1>4 DEF Asking
<1>6. ~Busy(r) /\ ~Asking(r)
  BY <1>2 DEF Busy, Asking
<1> QED
  BY <1>3, <1>5, <1>6 DEF Stranded

(* No step strands the frames of an entry but the one that parks a frame.  *)
LEMMA NextStrands ==
    ASSUME ServeInv, [Next]_vars, main.pc # "append"
    PROVE  \A r \in Ref : Stranded(r)' => Stranded(r)
<1> SUFFICES ASSUME NEW r \in Ref, Stranded(r)' PROVE Stranded(r)
  OBVIOUS
<1>1. SafeInv
  BY DEF ServeInv
<1>2. EntryAt(r)'.flag = "OK" /\ bucket'[r].q # <<>> /\ ~Busy(r)' /\ ~Asking(r)'
  BY DEF Stranded
<1>3. main \in MainLocals /\ buf \in BufLocals /\ reqs \in Seq(Ref) /\ arp \in [Dev -> Table]
      /\ bucket \in [Ref -> Bucket]
  BY <1>1 DEF SafeInv, TypeInv, TypeOK
<1>4. ASSUME arp' = arp, bucket'[r].q = bucket[r].q, ~Busy(r), ~Asking(r) PROVE Stranded(r)
  BY <1>2, <1>4, SameLive DEF Stranded
<1> USE DEF MainAt
<1>5. CASE Poll \/ Skip \/ Wake \/ Test \/ CheckBucket \/ Write \/ Leave \/ Join
  <2>1. UNCHANGED <<arp, bucket, reqs, buf>>
    BY <1>5 DEF Poll, Skip, Wake, Test, CheckBucket, Write, Leave, Join, tables
  <2>2. ~Asking(r)
    <3>1. CASE Wake
      BY <1>2, <1>3, <2>1, <3>1 DEF Wake, Asking, MainLocals
    <3>2. CASE ~Wake
      BY <1>5, <3>2 DEF Poll, Skip, Test, CheckBucket, Write, Leave, Join, Asking
    <3> QED
      BY <3>1, <3>2
  <2>3. ~Busy(r)
    BY <1>2, <2>1 DEF Busy
  <2> QED
    BY <1>4, <2>1, <2>2, <2>3
<1>6. CASE AppendSendReqData
  <2>1. UNCHANGED <<arp, bucket, buf>> /\ main.pc = "request" /\ main.slot \in Ref
    BY <1>1, <1>6 DEF AppendSendReqData, tables, SafeInv, TypeInv, LocalsOK
  <2>2. ToSet(reqs') = ToSet(reqs) \cup {main.slot}
    BY <1>3, <1>6, <2>1, Requests DEF AppendSendReqData
  <2>3. ~Busy(r) /\ ~Asking(r)
    BY <1>2, <2>1, <2>2 DEF Busy, Asking
  <2> QED
    BY <1>4, <2>1, <2>3
<1>7. ASSUME NEW h \in Host, RecvArp(h[1], h[2], h[3]) PROVE Stranded(r)
  <2>1. h = <<h[1], h[2], h[3]>> /\ h[1] \in Dev /\ h[2] \in Addr /\ h[3] \in Mac
    BY HostAssumption
  <2>2. Search(h[1], h[2], h[3]) /\ UNCHANGED <<reqs, buf>> /\ main.pc = "poll"
    BY <1>7 DEF RecvArp
  <2>3. Found(arp[h[1]], h[2], h[3]) =>
            main'.pc = "wake" /\ main'.slot = <<h[1], Place(arp[h[1]], h[2], h[3])>>
    BY <1>3, <1>7 DEF RecvArp, MainLocals
  <2> QED
    BY <1>1, <2>1, <2>2, <2>3, SearchStrands
<1>8. ASSUME NEW f \in Frame, RecvIp(f) PROVE Stranded(r)
  <2>1. Egress(f) \in Dev /\ NextHop[f] \in Addr
    BY FrameAssumption DEF Egress, Dev
  <2>2. /\ Search(Egress(f), NextHop[f], NoMac) /\ UNCHANGED <<reqs, buf>>
        /\ main.pc = "poll"
    BY <1>8 DEF RecvIp
  <2> QED
    BY <1>1, <2>1, <2>2, SearchStrands
<1>9. CASE BufLoop \/ BufWait \/ GetSendReqData \/ ReadAddress \/ BufWrite
  <2>1. UNCHANGED <<arp, bucket, reqs, main>> /\ buf'.slot = buf.slot
    BY <1>3, <1>9 DEF BufLoop, BufWait, GetSendReqData, ReadAddress, BufWrite, BufLocals,
                      tables
  <2> QED
    BY <1>2, <1>4, <2>1 DEF Busy, Asking
<1>10. CASE TakeRequest
  <2>1. buf.slot = NoRef /\ reqs # <<>>
    BY <1>1, <1>10 DEF TakeRequest, ServeInv, SafeInv, TakeSafe
  <2>2. /\ UNCHANGED <<arp, bucket, main>>
        /\ reqs' = Tail(reqs) /\ buf'.slot = Head(reqs)
    BY <1>3, <1>10, <2>1 DEF TakeRequest, BufLocals, tables
  <2>3. ToSet(reqs) = {Head(reqs)} \cup ToSet(Tail(reqs))
    BY <1>3, <2>1, FirstTaken
  <2>4. r # NoRef
    BY DEF Ref, NoRef
  <2>5. ~Busy(r) /\ ~Asking(r)
    BY <1>2, <2>1, <2>2, <2>3, <2>4 DEF Busy, Asking
  <2> QED
    BY <1>4, <2>2, <2>5
<1>11. CASE GetSendData
  <2>1. UNCHANGED <<arp, bucket, reqs, main>>
    BY <1>11 DEF GetSendData, tables
  <2>2. buf'.slot = buf.slot \/ bucket[buf.slot].q = <<>>
    BY <1>3, <1>11 DEF GetSendData, BufLocals
  <2> QED
    BY <1>2, <1>4, <2>1, <2>2 DEF Busy, Asking
<1>12. CASE PopFrame \/ CountOff
  <2>1. UNCHANGED <<arp, reqs, main>> /\ buf'.slot = buf.slot
    BY <1>3, <1>12 DEF PopFrame, CountOff, BufLocals
  <2>2. r # buf.slot
    BY <1>2, <2>1 DEF Busy
  <2>3. bucket'[r] = bucket[r]
    BY <1>3, <1>12, <2>2 DEF PopFrame, CountOff
  <2> QED
    BY <1>2, <1>4, <2>1, <2>3 DEF Busy, Asking
<1>13. CASE EndSignal \/ UNCHANGED vars
  BY <1>2, <1>4, <1>13 DEF EndSignal, vars, tables, Busy, Asking
<1>14. CASE Tick
  <2>1. EntryAt(r)'.flag = EntryAt(r).flag
    <3>1. \A d \in Dev, s \in Slot : arp'[d][s].flag = arp[d][s].flag
      BY <1>3, <1>14, AgedProperties DEF Tick
    <3> QED
      BY <3>1 DEF EntryAt, Ref
  <2> QED
    BY <1>2, <1>14, <2>1 DEF Tick, Stranded, Busy, Asking
<1>15. ~AppendSendData
  BY DEF AppendSendData
<1> QED
  BY <1>5, <1>6, <1>7, <1>8, <1>9, <1>10, <1>11, <1>12, <1>13, <1>14, <1>15
  DEF Next, MainThread, BufThread, Halted

(* Frames are left behind in a resolved entry only by the main thread,     *)
(* which parks one after its test of the entry went stale (main.c:207,     *)
(* sendBuf.c:52): no other step of either thread strands any.              *)
THEOREM OnlyParkingStrands == Spec => StrandedOnlyByPark
<1>1. ServeInv /\ [Next]_vars =>
          [\A r \in Ref : ~Stranded(r) /\ Stranded(r)' => main.pc = "append"]_vars
  BY NextStrands
<1> QED
  BY <1>1, ServeInvariant, PTL DEF Spec, StrandedOnlyByPark

-----------------------------------------------------------------------------
(* Each frame in one place                                                 *)

Listed(r) == ToSet(bucket[r].q)

(* OnePlace but for what ParkedOK says, and ListsApart. *)
Places ==
    /\ inbox \cap (InHand \cup Queued \cup Sent) = {}
    /\ InHand \cap (Queued \cup Sent) = {}
    /\ Queued \cap Sent = {}
    /\ main.frame = buf.frame => main.frame = NoFrame
    /\ \A r \in Ref : IsInjective(bucket[r].q)
    /\ \A v, w \in wire : v.frame = w.frame => v = w
    /\ \A r, s \in Ref : r # s => Listed(r) \cap Listed(s) = {}

(* Where the frames are, with what the threads have in their hands, is all *)
(* the invariant of the places needs.                                      *)
LEMMA PlacesEnough ==
    /\ PlaceInv => Places
    /\ SafeInv /\ HandsOK /\ Places => PlaceInv
<1>1. PlaceInv => Places
  BY DEF PlaceInv, OnePlace, ListsApart, Places, Listed
<1>2. ASSUME SafeInv, HandsOK, Places PROVE PlaceInv
  <2>1. \A r \in Ref : \A f \in ToSet(bucket[r].q) :
            EntryAt(r).addr = NextHop[f] /\ r[1] = Egress(f)
    BY <1>2 DEF SafeInv, ParkedOK, For
  <2> QED
    BY <1>2, <2>1 DEF PlaceInv, OnePlace, ListsApart, Places, Listed
<1> QED
  BY <1>1, <1>2

(* Where a frame is kept. *)
LEMMA Kept ==
    ASSUME TypeOK
    PROVE  /\ \A f : f \in Queued <=> \E r \in Ref : f \in Listed(r)
           /\ \A f : f \in Queued' <=> \E r \in Ref : f \in Listed(r)'
           /\ \A f : f \in InHand <=> f # NoFrame /\ (f = main.frame \/ f = buf.frame)
           /\ Queued \subseteq Frame /\ InHand \subseteq Frame
           /\ Sent \subseteq Frame /\ inbox \subseteq Frame
<1>1. ASSUME NEW f PROVE f \in Queued <=> \E r \in Ref : f \in Listed(r)
  BY DEF Queued, Listed
<1>2. Queued \subseteq Frame
  <2> SUFFICES ASSUME NEW r \in Ref, NEW f \in Listed(r) PROVE f \in Frame
    BY <1>1
  <2>1. bucket[r].q \in Seq(Frame)
    BY DEF TypeOK, Bucket
  <2> QED
    BY <2>1, LenProperties DEF Listed, ToSet
<1>3. InHand \subseteq Frame /\ Sent \subseteq Frame /\ inbox \subseteq Frame
  BY DEF TypeOK, InHand, Sent, MainLocals, BufLocals, WireFrame
<1>4. ASSUME NEW f PROVE f \in Queued' <=> \E r \in Ref : f \in Listed(r)'
  BY DEF Queued, Listed
<1> QED
  BY <1>1, <1>2, <1>3, <1>4 DEF InHand

(* What is written is sent. *)
LEMMA SentMore ==
    ASSUME NEW f, NEW m, NEW src, wire' = wire \cup {Written(f, m, src)}
    PROVE  Sent' = Sent \cup {f}
<1>1. Written(f, m, src).frame = f
  BY DEF Written
<1>2. Sent' = {w.frame : w \in wire'} /\ Sent = {w.frame : w \in wire}
  BY DEF Sent
<1> QED
  BY <1>1, <1>2

(* At first no frame is anywhere, and the threads have none in hand. *)
LEMMA InitPlace == Init => PlaceInv
<1> SUFFICES ASSUME Init PROVE PlaceInv
  OBVIOUS
<1>1. \A r \in Ref : bucket[r].q = <<>>
  BY DEF Init, EmptyBucket
<1>2. \A r \in Ref : Listed(r) = {} /\ IsInjective(bucket[r].q)
  BY <1>1, EmptyList DEF Listed
<1>3. Queued = {} /\ Sent = {} /\ InHand = {}
  BY <1>2 DEF Init, Queued, Listed, Sent, InHand
<1>4. HandsOK
  BY DEF Init, HandsOK
<1>5. Places
  BY <1>2, <1>3 DEF Places, Init
<1> QED
  BY <1>4, <1>5, InitSafe, PlacesEnough

(* A thread puts a frame down when its work on it is done (main.c:209,     *)
(* main.c:237, ip2mac.c:200).                                              *)
LEMMA NextHands == HandsOK /\ TypeOK /\ [Next]_vars => HandsOK'
<1> SUFFICES ASSUME HandsOK, main \in MainLocals, buf \in BufLocals, [Next]_vars
             PROVE  HandsOK'
  BY DEF TypeOK
<1> USE DEF HandsOK, MainAt
<1>1. CASE MainThread
  <2>1. NextDevice => main'.frame = NoFrame
    BY DEF NextDevice
  <2>2. UNCHANGED buf
    BY <1>1 DEF MainThread, Poll, Skip, RecvArp, Wake, AppendSendReqData, RecvIp, Test,
                CheckBucket, AppendSendData, Write, Leave, Join
  <2>3. main'.pc \notin {"test", "park", "append", "write"} => main'.frame = NoFrame
    BY <1>1, <2>1 DEF MainThread, Poll, Skip, RecvArp, Wake, AppendSendReqData, RecvIp,
                Test, CheckBucket, AppendSendData, Write, Leave, Join, MainLocals
  <2> QED
    BY <2>2, <2>3
<1>2. CASE BufThread
  BY <1>2 DEF BufThread, BufLoop, BufWait, GetSendReqData, TakeRequest, GetSendData,
              PopFrame, CountOff, ReadAddress, BufWrite, BufLocals
<1>3. CASE EndSignal \/ Tick \/ UNCHANGED vars
  BY <1>3 DEF EndSignal, Tick, vars
<1> QED
  BY <1>1, <1>2, <1>3 DEF Next, Halted

(* What a step does with frames, as Forwarder has it. *)
Held == InHand \cup Queued

GivenUp    == inbox' = inbox /\ Sent' = Sent /\ Held' \subseteq Held
Arrives(f) == /\ f \in inbox /\ inbox' = inbox \ {f} /\ Sent' = Sent
              /\ f \in Held' /\ Held' \ {f} \subseteq Held
Leaves(f)  == /\ f \in Held /\ Held' = Held \ {f}
              /\ inbox' = inbox /\ Sent' = Sent \cup {f}

Moves == GivenUp \/ \E f \in Frame : Arrives(f) \/ Leaves(f)

(* A step that at most lets go of frames. *)
LEMMA FewerPlaces ==
    ASSUME TypeOK, TypeOK', Places,
           UNCHANGED <<inbox, wire>>,
           main'.frame \in {main.frame, NoFrame},
           buf'.frame \in {buf.frame, NoFrame},
           \A r \in Ref : Listed(r)' \subseteq Listed(r) /\ IsInjective(bucket'[r].q)
    PROVE  Places' /\ GivenUp
<1>1. Sent' = Sent
  BY DEF Sent
<1>2. Queued' \subseteq Queued
  BY Kept
<1>3. InHand' \subseteq InHand
  BY DEF InHand
<1>4. main'.frame = buf'.frame => main'.frame = NoFrame
  BY DEF Places
<1>5. \A r, s \in Ref : r # s => Listed(r)' \cap Listed(s)' = {}
  BY DEF Places
<1>6. /\ inbox \cap (InHand' \cup Queued' \cup Sent) = {}
      /\ InHand' \cap (Queued' \cup Sent) = {}
      /\ Queued' \cap Sent = {}
  BY <1>2, <1>3 DEF Places
<1>7. \A v, w \in wire : v.frame = w.frame => v = w
  BY DEF Places
<1>8. Places'
  BY <1>1, <1>4, <1>5, <1>6, <1>7 DEF Places
<1> QED
  BY <1>1, <1>2, <1>3, <1>8 DEF GivenUp, Held

(* A search at most empties lists (FreeSendData, sendBuf.c:129). *)
LEMMA SearchLists ==
    ASSUME SafeInv,
           NEW d \in Dev, NEW a \in Addr, NEW hw \in Mac \cup {NoMac},
           hw = NoMac \/ <<d, a, hw>> \in Host,
           Search(d, a, hw),
           \A r \in Ref : IsInjective(bucket[r].q)
    PROVE  \A r \in Ref : Listed(r)' \subseteq Listed(r) /\ IsInjective(bucket'[r].q)
<1> SUFFICES ASSUME NEW r \in Ref
             PROVE  Listed(r)' \subseteq Listed(r) /\ IsInjective(bucket'[r].q)
  OBVIOUS
<1>1. bucket'[r].q # <<>> => bucket'[r].q = bucket[r].q
  <2>1. SearchLeaves(d, a, hw)
    BY SearchStep DEF SafeInv, TypeInv
  <2> QED
    BY <2>1 DEF SearchLeaves
<1>2. CASE bucket'[r].q = <<>>
  BY <1>2, EmptyList DEF Listed
<1>3. CASE bucket'[r].q = bucket[r].q
  BY <1>3 DEF Listed
<1> QED
  BY <1>1, <1>2, <1>3

(* A frame arrives (main.c:206). *)
LEMMA ArrivePlaces ==
    ASSUME PlaceInv, TypeOK', NEW f \in Frame, RecvIp(f)
    PROVE  Places' /\ Moves
<1>1. /\ TypeOK /\ SafeInv /\ Places /\ HandsOK
      /\ main \in MainLocals
  BY PlacesEnough DEF PlaceInv, SafeInv, TypeInv, TypeOK
<1>2. Egress(f) \in Dev /\ NextHop[f] \in Addr
  BY FrameAssumption DEF Egress, Dev
<1>3. /\ Search(Egress(f), NextHop[f], NoMac)
      /\ f \in inbox /\ inbox' = inbox \ {f} /\ UNCHANGED <<buf, wire>>
      /\ main.pc = "poll" /\ main'.frame = f
  BY <1>1 DEF RecvIp, MainAt, MainLocals
<1>4. \A r \in Ref : Listed(r)' \subseteq Listed(r) /\ IsInjective(bucket'[r].q)
  BY <1>1, <1>2, <1>3, SearchLists DEF Places
<1>5. main.frame = NoFrame
  BY <1>1, <1>3 DEF HandsOK
<1>6. f # NoFrame
  BY FrameAssumption
<1>7. InHand' = InHand \cup {f}
  BY <1>3, <1>5, <1>6 DEF InHand
<1>8. Queued' \subseteq Queued
  BY <1>1, <1>4, Kept
<1>9. Sent' = Sent
  BY <1>3 DEF Sent
<1>10. f \notin InHand /\ f \notin Queued /\ f \notin Sent
  BY <1>1, <1>3 DEF Places
<1>11. main'.frame = buf'.frame => main'.frame = NoFrame
  BY <1>1, <1>3, <1>6, <1>10, Kept
<1>12. /\ inbox' \cap (InHand' \cup Queued' \cup Sent') = {}
       /\ InHand' \cap (Queued' \cup Sent') = {}
       /\ Queued' \cap Sent' = {}
  BY <1>1, <1>3, <1>7, <1>8, <1>9, <1>10 DEF Places
<1>13. \A r, s \in Ref : r # s => Listed(r)' \cap Listed(s)' = {}
  BY <1>1, <1>4 DEF Places
<1>14. Places'
  BY <1>1, <1>3, <1>4, <1>11, <1>12, <1>13 DEF Places
<1>15. Arrives(f)
  BY <1>3, <1>7, <1>8, <1>9 DEF Arrives, Held
<1> QED
  BY <1>14, <1>15 DEF Moves

(* A frame is parked (sendBuf.c:52). *)
LEMMA ParkPlaces ==
    ASSUME PlaceInv, TypeOK', AppendSendData
    PROVE  Places' /\ Moves
<1>1. /\ TypeOK /\ SafeInv /\ Places /\ bucket \in [Ref -> Bucket]
  BY PlacesEnough DEF PlaceInv, SafeInv, TypeInv, TypeOK
<1>2. PICK p \in Ref : p = main.slot
  BY <1>1 DEF AppendSendData, MainAt, SafeInv, TypeInv, LocalsOK
<1> DEFINE f == main.frame
<1>3. f \in Frame /\ f # NoFrame
  BY <1>1, FrameAssumption DEF AppendSendData, MainAt, SafeInv, TypeInv, LocalsOK
<1>4. /\ bucket' = [bucket EXCEPT ![p] = Appended(bucket[p], f)]
      /\ main'.frame = NoFrame /\ UNCHANGED <<buf, inbox, wire>>
  BY <1>2 DEF AppendSendData, NextDevice
<1>5. /\ bucket'[p].q = Append(bucket[p].q, f)
      /\ \A r \in Ref \ {p} : bucket'[r] = bucket[r]
  BY <1>1, <1>4 DEF Appended
<1>6. bucket[p].q \in Seq(Frame)
  BY <1>1 DEF Bucket
<1>7. f \in InHand /\ f \notin Queued /\ f \notin Sent /\ f \notin inbox /\ f # buf.frame
  BY <1>1, <1>3, Kept DEF Places
<1>8. \A r \in Ref : f \notin Listed(r) /\ IsInjective(bucket[r].q)
  BY <1>1, <1>7, Kept DEF Places
<1>9. /\ Listed(p)' = Listed(p) \cup {f} /\ IsInjective(bucket'[p].q)
      /\ \A r \in Ref \ {p} : Listed(r)' = Listed(r)
  BY <1>3, <1>5, <1>6, <1>8, LastAdded DEF Listed
<1> HIDE DEF f
<1>10. Queued' = Queued \cup {f}
  BY <1>1, <1>9, Kept
<1>11. InHand' = InHand \ {f}
  BY <1>3, <1>4, <1>7 DEF InHand, f
<1>12. Sent' = Sent
  BY <1>4 DEF Sent
<1>13. /\ inbox' \cap (InHand' \cup Queued' \cup Sent') = {}
       /\ InHand' \cap (Queued' \cup Sent') = {}
       /\ Queued' \cap Sent' = {}
  BY <1>1, <1>4, <1>7, <1>10, <1>11, <1>12 DEF Places
<1>14. \A r, s \in Ref : r # s => Listed(r)' \cap Listed(s)' = {}
  BY <1>1, <1>8, <1>9 DEF Places
<1>15. \A r \in Ref : IsInjective(bucket'[r].q)
  BY <1>5, <1>8, <1>9
<1>16. Places'
  BY <1>1, <1>4, <1>13, <1>14, <1>15 DEF Places
<1>17. GivenUp
  BY <1>4, <1>7, <1>10, <1>11, <1>12 DEF GivenUp, Held
<1> QED
  BY <1>16, <1>17 DEF Moves

(* The first of a list is taken (sendBuf.c:84). *)
LEMMA PopPlaces ==
    ASSUME PlaceInv, TypeOK', PopFrame
    PROVE  Places' /\ Moves
<1>1. /\ TypeOK /\ SafeInv /\ Places /\ HandsOK
      /\ bucket \in [Ref -> Bucket] /\ buf \in BufLocals
  BY PlacesEnough DEF PlaceInv, SafeInv, TypeInv, TypeOK
<1>2. PICK p \in Ref : p = buf.slot
  BY <1>1 DEF PopFrame, SafeInv, TypeInv, LocalsOK
<1> DEFINE q == bucket[p].q
           f == Head(q)
<1>3. CASE q = <<>>
  <2>1. UNCHANGED <<inbox, wire, main, bucket>> /\ buf'.frame = buf.frame
    BY <1>1, <1>2, <1>3 DEF PopFrame, BufLocals
  <2>2. \A r \in Ref : Listed(r)' \subseteq Listed(r) /\ IsInjective(bucket'[r].q)
    BY <1>1, <2>1 DEF Places, Listed
  <2> QED
    BY <1>1, <2>1, <2>2, FewerPlaces DEF Moves
<1>4. CASE q # <<>>
  <2>1. /\ bucket' = [bucket EXCEPT ![p] = Popped(bucket[p])]
        /\ buf'.frame = f /\ buf.pc = "pop" /\ UNCHANGED <<main, inbox, wire>>
    BY <1>1, <1>2, <1>4 DEF PopFrame, BufLocals
  <2>2. bucket'[p].q = Tail(q) /\ \A r \in Ref \ {p} : bucket'[r] = bucket[r]
    BY <1>1, <2>1 DEF Popped
  <2>3. q \in Seq(Frame) /\ IsInjective(q)
    BY <1>1 DEF Bucket, Places
  <2>4. /\ f \in Frame /\ Listed(p) = {f} \cup Listed(p)'
        /\ f \notin Listed(p)' /\ IsInjective(bucket'[p].q)
        /\ \A r \in Ref \ {p} : Listed(r)' = Listed(r)
    BY <1>4, <2>2, <2>3, FirstTaken DEF Listed
  <2>5. f # NoFrame /\ buf.frame = NoFrame
    BY <1>1, <2>1, <2>4, FrameAssumption DEF HandsOK
  <2> HIDE DEF f, q
  <2>6. f \in Queued /\ f \notin Queued' /\ Queued = {f} \cup Queued'
    <3>1. \A r \in Ref \ {p} : f \notin Listed(r)
      BY <1>1, <2>4 DEF Places
    <3> QED
      BY <1>1, <2>4, <3>1, Kept
  <2>7. InHand' = InHand \cup {f}
    BY <2>1, <2>5 DEF InHand
  <2>8. Sent' = Sent
    BY <2>1 DEF Sent
  <2>9. main'.frame # buf'.frame
    BY <1>1, <2>1, <2>5, <2>6, Kept DEF Places
  <2>10. /\ inbox' \cap (InHand' \cup Queued' \cup Sent') = {}
         /\ InHand' \cap (Queued' \cup Sent') = {}
         /\ Queued' \cap Sent' = {}
    BY <1>1, <2>1, <2>6, <2>7, <2>8 DEF Places
  <2>11. \A r, s \in Ref : r # s => Listed(r)' \cap Listed(s)' = {}
    BY <1>1, <2>4 DEF Places
  <2>12. \A r \in Ref : IsInjective(bucket'[r].q)
    BY <1>1, <2>2, <2>4 DEF Places
  <2>13. Places'
    BY <1>1, <2>1, <2>9, <2>10, <2>11, <2>12 DEF Places
  <2>14. GivenUp
    BY <2>1, <2>6, <2>7, <2>8 DEF GivenUp, Held
  <2> QED
    BY <2>13, <2>14 DEF Moves
<1> QED
  BY <1>3, <1>4

(* A frame is written, by the main thread (main.c:237) or by the buffer    *)
(* thread (ip2mac.c:200): it leaves the hands of its thread.               *)
LEMMA WritePlaces ==
    ASSUME TypeOK, Places, UNCHANGED <<bucket, inbox>>,
           NEW f \in Frame, NEW m, NEW src, wire' = wire \cup {Written(f, m, src)},
           f \in InHand, InHand' = InHand \ {f},
           main'.frame = buf'.frame => main'.frame = NoFrame
    PROVE  Places' /\ Moves
<1>1. Sent' = Sent \cup {f}
  BY SentMore
<1>2. Queued' = Queued
  BY DEF Queued
<1>3. f \notin Queued /\ f \notin Sent /\ f \notin inbox
  BY DEF Places
<1>4. /\ inbox' \cap (InHand' \cup Queued' \cup Sent') = {}
      /\ InHand' \cap (Queued' \cup Sent') = {}
      /\ Queued' \cap Sent' = {}
  BY <1>1, <1>2, <1>3 DEF Places
<1>5. /\ \A r, s \in Ref : r # s => Listed(r)' \cap Listed(s)' = {}
      /\ \A r \in Ref : IsInjective(bucket'[r].q)
  BY DEF Places, Listed
<1>6. \A v, w \in wire' : v.frame = w.frame => v = w
  <2>1. \A w \in wire : w.frame # f
    BY <1>3 DEF Sent
  <2>2. Written(f, m, src).frame = f
    BY DEF Written
  <2> QED
    BY <2>1, <2>2 DEF Places
<1>7. Places'
  BY <1>4, <1>5, <1>6 DEF Places
<1>8. Leaves(f)
  BY <1>1, <1>2, <1>3 DEF Leaves, Held
<1> QED
  BY <1>7, <1>8 DEF Moves

(* Every step. *)
LEMMA NextPlaces ==
    ASSUME PlaceInv, TypeOK', [Next]_vars
    PROVE  Places' /\ Moves
<1>1. /\ TypeOK /\ SafeInv /\ Places /\ HandsOK
      /\ main \in MainLocals /\ buf \in BufLocals
  BY PlacesEnough DEF PlaceInv, SafeInv, TypeInv, TypeOK
<1>2. ASSUME UNCHANGED <<inbox, wire, bucket>>,
             main'.frame \in {main.frame, NoFrame}, buf'.frame \in {buf.frame, NoFrame}
      PROVE  Places' /\ Moves
  <2>1. \A r \in Ref : Listed(r)' \subseteq Listed(r) /\ IsInjective(bucket'[r].q)
    BY <1>1, <1>2 DEF Places, Listed
  <2> QED
    BY <1>1, <1>2, <2>1, FewerPlaces DEF Moves
<1>3. NextDevice => main'.frame = NoFrame
  BY DEF NextDevice
<1> USE DEF MainAt
<1>4. CASE Poll \/ Skip \/ Wake \/ AppendSendReqData \/ Test \/ CheckBucket \/ Leave \/ Join
  <2>1. UNCHANGED <<inbox, wire, bucket, buf>>
    BY <1>4 DEF Poll, Skip, Wake, AppendSendReqData, Test, CheckBucket, Leave, Join, tables
  <2>2. main'.frame \in {main.frame, NoFrame}
    BY <1>1, <1>3, <1>4 DEF Poll, Skip, Wake, AppendSendReqData, Test, CheckBucket, Leave,
                            Join, MainLocals
  <2> QED
    BY <1>2, <2>1, <2>2
<1>5. ASSUME NEW h \in Host, RecvArp(h[1], h[2], h[3]) PROVE Places' /\ Moves
  <2>1. h = <<h[1], h[2], h[3]>> /\ h[1] \in Dev /\ h[2] \in Addr /\ h[3] \in Mac
    BY HostAssumption
  <2>2. Search(h[1], h[2], h[3]) /\ UNCHANGED <<buf, inbox, wire>>
    BY <1>5 DEF RecvArp
  <2>3. \A r \in Ref : Listed(r)' \subseteq Listed(r) /\ IsInjective(bucket'[r].q)
    BY <1>1, <2>1, <2>2, SearchLists DEF Places
  <2>4. main'.frame \in {main.frame, NoFrame}
    BY <1>1, <1>3, <1>5 DEF RecvArp, MainLocals
  <2> QED
    BY <1>1, <2>2, <2>3, <2>4, FewerPlaces DEF Moves
<1>6. ASSUME NEW f \in Frame, RecvIp(f) PROVE Places' /\ Moves
  BY <1>6, ArrivePlaces
<1>7. CASE AppendSendData
  BY <1>7, ParkPlaces
<1>8. CASE Write
  <2>1. PICK f \in Frame : f = main.frame
    BY <1>1, <1>8 DEF Write, SafeInv, TypeInv, LocalsOK
  <2>2. /\ wire' = wire \cup {Written(f, main.mac, "router")}
        /\ UNCHANGED <<bucket, inbox, buf>> /\ main'.frame = NoFrame
    BY <1>3, <1>8, <2>1 DEF Write, tables
  <2>3. f # NoFrame /\ f # buf.frame
    BY <1>1, <2>1, FrameAssumption DEF Places
  <2>4. f \in InHand /\ InHand' = InHand \ {f}
    BY <2>1, <2>2, <2>3 DEF InHand
  <2> QED
    BY <1>1, <2>2, <2>4, WritePlaces
<1>9. CASE BufLoop \/ BufWait \/ GetSendReqData \/ TakeRequest \/ GetSendData \/ ReadAddress
  <2>1. UNCHANGED <<inbox, wire, bucket, main>> /\ buf'.frame = buf.frame
    BY <1>1, <1>9 DEF BufLoop, BufWait, GetSendReqData, TakeRequest, GetSendData,
                      ReadAddress, BufLocals, tables
  <2> QED
    BY <1>2, <2>1
<1>10. CASE PopFrame
  BY <1>10, PopPlaces
<1>11. CASE CountOff
  <2>1. UNCHANGED <<inbox, wire, main>> /\ buf'.frame = buf.frame
    BY <1>1, <1>11 DEF CountOff, BufLocals
  <2>2. \A r \in Ref : bucket'[r].q = bucket[r].q
    BY <1>1, <1>11 DEF CountOff, CountedOff, TypeOK
  <2>3. \A r \in Ref : Listed(r)' \subseteq Listed(r) /\ IsInjective(bucket'[r].q)
    BY <1>1, <2>2 DEF Places, Listed
  <2> QED
    BY <1>1, <2>1, <2>3, FewerPlaces DEF Moves
<1>12. CASE BufWrite
  <2>1. PICK f \in Frame : f = buf.frame
    BY <1>1, <1>12 DEF BufWrite, SafeInv, TypeInv, LocalsOK
  <2>2. /\ wire' = wire \cup {Written(f, buf.mac, "sender")}
        /\ UNCHANGED <<bucket, inbox, main>> /\ buf'.frame = NoFrame
    BY <1>1, <1>12, <2>1 DEF BufWrite, tables, BufLocals
  <2>3. f # NoFrame /\ f # main.frame
    BY <1>1, <2>1, FrameAssumption DEF Places
  <2>4. f \in InHand /\ InHand' = InHand \ {f}
    BY <2>1, <2>2, <2>3 DEF InHand
  <2> QED
    BY <1>1, <2>2, <2>4, WritePlaces
<1>13. CASE EndSignal \/ Tick \/ UNCHANGED vars
  BY <1>2, <1>13 DEF EndSignal, Tick, vars, tables
<1> QED
  BY <1>4, <1>5, <1>6, <1>7, <1>8, <1>9, <1>10, <1>11, <1>12, <1>13
  DEF Next, MainThread, BufThread, Halted

(* Each frame is in one place at a time.                                   *)
LEMMA PlaceInvariant == Spec => []PlaceInv
<1>1. PlaceInv /\ [Next]_vars => PlaceInv'
  <2> SUFFICES ASSUME PlaceInv, [Next]_vars PROVE PlaceInv'
    OBVIOUS
  <2>1. SafeInv' /\ TypeOK /\ TypeOK'
    BY NextSafe DEF PlaceInv, SafeInv, TypeInv
  <2>2. HandsOK' /\ Places'
    BY <2>1, NextHands, NextPlaces DEF PlaceInv
  <2>3. (\A r \in Ref : \A f \in ToSet(bucket[r].q) :
            EntryAt(r).addr = NextHop[f] /\ r[1] = Egress(f))'
    BY <2>1 DEF SafeInv, ParkedOK, For
  <2> QED
    BY <2>1, <2>2, <2>3 DEF PlaceInv, OnePlace, ListsApart, Places, Listed
<1> QED
  BY <1>1, InitPlace, PTL DEF Spec

(* The two threads handle frames as Forwarder says: one that has arrived   *)
(* is held until it is written once or dropped, and is in one place at a   *)
(* time on the way (main.c:106, sendBuf.c, ip2mac.c:160).                  *)
THEOREM ForwardsOnce == Spec => ImplementsForwarder
<1>1. Init => Fate!Init
  <2> SUFFICES ASSUME Init PROVE Fate!Init
    OBVIOUS
  <2>1. \A r \in Ref : bucket[r].q = <<>>
    BY DEF Init, EmptyBucket
  <2>2. Queued = {} /\ Sent = {} /\ InHand = {} /\ inbox = Frame
    BY <2>1, EmptyList DEF Init, Queued, Sent, InHand
  <2> QED
    BY <2>2 DEF Fate!Init
<1>2. PlaceInv /\ PlaceInv' /\ [Next]_vars => [Fate!Next]_(Fate!vars)
  <2> SUFFICES ASSUME PlaceInv, PlaceInv', [Next]_vars PROVE Fate!Next
    OBVIOUS
  <2>1. TypeOK /\ TypeOK' /\ Places /\ Moves
    BY PlacesEnough, NextPlaces DEF PlaceInv, SafeInv, TypeInv
  <2>2. /\ Held \subseteq Frame /\ Sent \subseteq Frame /\ inbox \subseteq Frame
        /\ inbox \cap Held = {} /\ Held \cap Sent = {} /\ inbox \cap Sent = {}
    BY <2>1, Kept DEF Held, Places
  <2> DEFINE D == Frame \ (inbox \cup InHand \cup Queued \cup Sent)
             gone == Held \ Held'
  <2>3. D = Frame \ (inbox \cup Held \cup Sent) /\ D' = Frame \ (inbox' \cup Held' \cup Sent')
    BY DEF Held
  <2>4. CASE GivenUp
    <3>1. gone \in SUBSET Held /\ Held' = Held \ gone /\ D' = D \cup gone
      BY <2>2, <2>3, <2>4 DEF GivenUp
    <3>2. inbox' = inbox /\ Sent' = Sent
      BY <2>4 DEF GivenUp
    <3> QED
      BY <3>1, <3>2 DEF Fate!Next, Fate!Drop, Held
  <2>5. ASSUME NEW f \in Frame, Arrives(f) PROVE Fate!Next
    <3>1. gone \in SUBSET Held /\ Held' = (Held \ gone) \cup {f} /\ D' = D \cup gone
      BY <2>2, <2>3, <2>5 DEF Arrives
    <3>2. f \in inbox /\ inbox' = inbox \ {f} /\ Sent' = Sent
      BY <2>5 DEF Arrives
    <3> QED
      BY <3>1, <3>2 DEF Fate!Next, Fate!Receive, Held
  <2>6. ASSUME NEW f \in Frame, Leaves(f) PROVE Fate!Next
    <3>1. D' = D
      BY <2>2, <2>3, <2>6 DEF Leaves
    <3> QED
      BY <2>6, <3>1 DEF Fate!Next, Fate!Send, Held, Leaves
  <2> QED
    BY <2>1, <2>4, <2>5, <2>6 DEF Moves
<1>3. PlaceInv' => [OnePlace']_vars
  BY DEF PlaceInv
<1> QED
  BY <1>1, <1>2, <1>3, PlaceInvariant, PTL DEF Spec, ImplementsForwarder, Fate!Spec

=============================================================================
