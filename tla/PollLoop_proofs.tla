--------------------------- MODULE PollLoop_proofs --------------------------
(***************************************************************************)
(* What is proved of the loop, for any frames, sizes and number of errors: *)
(* when it can wait in read, and that the bridge is a cable, which cuts    *)
(* what is longer than its buffer.                                         *)
(***************************************************************************)
EXTENDS PollLoop, SequenceTheorems, TLAPS

(* A frame as it is sent, and as it is in buf. *)
OnWire == [frame : Frame, size : Nat]

InBuf(p) == [p EXCEPT !.size = Min({@, BufLen})]

(* The frames that come are from S, and so is what is read of them.        *)
Closed(S) == /\ \A f \in Frame : Sent(f) \in S
             /\ \A p \in S : InBuf(p) \in S

PollType(S) ==
    /\ program \in {"router", "bridge"} /\ shared \in BOOLEAN
    /\ i \in Dev /\ at \in {"poll", "each", "handle", "end"}
    /\ rx \in [Dev -> Seq(S)] /\ tx \in [Dev -> Seq(S)]
    /\ at = "handle" => inHand \in S
    /\ failed \in [Dev -> BOOLEAN] /\ taken \in [Dev -> BOOLEAN]
    /\ revents \in [Dev -> SUBSET {"in", "err"}]

(* The devices the for loop has still to read. *)
Left(d) == (at = "each" /\ i <= d) \/ (at = "handle" /\ i < d)

(* What poll said of a device: a frame is still there, and an error is too *)
(* unless a write has taken it.                                            *)
Said(d) ==
    /\ "in" \in revents[d] => rx[d] # <<>>
    /\ "err" \in revents[d] => failed[d] \/ taken[d]

PollInv(S) == PollType(S) /\ \A d \in Dev : Left(d) => Said(d)

-----------------------------------------------------------------------------
(* Sequences and sizes                                                     *)

LEMMA Appended ==
    ASSUME NEW S, NEW s \in Seq(S), NEW c \in S
    PROVE  Append(s, c) \in Seq(S) /\ Append(s, c) # <<>>
BY AppendProperties, EmptySeq

(* What is read off a socket, and what is left there.                      *)
LEMMA Taken ==
    ASSUME NEW S, NEW s \in Seq(S), s # <<>>
    PROVE  Head(s) \in S /\ Tail(s) \in Seq(S)
OBVIOUS

(* read returns the shorter of the frame and the buffer.                   *)
LEMMA MinIs ==
    ASSUME NEW a \in Nat, NEW b \in Nat
    PROVE  Min({a, b}) = IF a <= b THEN a ELSE b
BY DEF Min

(* Cut frames are frames of some length.                                   *)
LEMMA OnWireClosed == Closed(OnWire)
<1>1. \A f \in Frame : Sent(f) \in OnWire
  BY FrameAssumption DEF Sent, OnWire
<1>2. ASSUME NEW p \in OnWire PROVE InBuf(p) \in OnWire
  <2>1. Min({p.size, BufLen}) \in Nat
    BY MinIs, FrameAssumption DEF OnWire
  <2> QED
    BY <2>1 DEF OnWire, InBuf
<1> QED
  BY <1>1, <1>2 DEF Closed

-----------------------------------------------------------------------------
(* The invariant                                                           *)

LEMMA InitPoll == ASSUME NEW S PROVE Init => PollInv(S)
<1> SUFFICES ASSUME Init PROVE PollInv(S)
  OBVIOUS
<1>1. <<>> \in Seq(S)
  OBVIOUS
<1>2. rx \in [Dev -> Seq(S)] /\ tx \in [Dev -> Seq(S)]
  BY <1>1 DEF Init
<1>3. failed \in [Dev -> BOOLEAN] /\ taken \in [Dev -> BOOLEAN] /\ revents \in [Dev -> SUBSET {"in", "err"}]
  BY DEF Init
<1>4. shared \in BOOLEAN
  BY DEF Init
<1>5. i \in Dev /\ at = "poll" /\ program \in {"router", "bridge"}
  BY DEF Init, Dev
<1> QED
  BY <1>2, <1>3, <1>4, <1>5 DEF PollInv, PollType, Left

(* The turn of the next device: those left are among those left before. *)
LEMMA Turn ==
    ASSUME i \in Dev, at \in {"each", "handle"}, NextDevice
    PROVE  /\ i' \in Dev /\ at' \in {"each", "poll"}
           /\ \A d \in Dev : Left(d)' => Left(d) /\ d # i
BY DEF NextDevice, Other, Dev, Left

(* A write that fails takes the error of its device, or leaves it. *)
LEMMA Took ==
    ASSUME failed \in [Dev -> BOOLEAN], taken \in [Dev -> BOOLEAN],
           NEW e \in Dev, failed[e], WriteError(e)
    PROVE  /\ failed' \in [Dev -> BOOLEAN] /\ taken' \in [Dev -> BOOLEAN]
           /\ \A d \in Dev : failed[d] \/ taken[d] => failed'[d] \/ taken'[d]
<1>1. failed' \in [Dev -> BOOLEAN]
  BY DEF WriteError
<1>2. taken' \in [Dev -> BOOLEAN]
  BY DEF WriteError
<1> QED
  BY <1>1, <1>2 DEF WriteError

(* The loop keeps what is said of its next read.                           *)
LEMMA LoopPoll ==
    ASSUME NEW S, Closed(S), PollInv(S), Loop
    PROVE  PollInv(S)'
<1> USE DEF PollInv, PollType
<1>1. CASE Poll
  <2>1. \A d \in Dev : Pending(d) \in SUBSET {"in", "err"} /\ ("in" \in Pending(d) => rx[d] # <<>>)
                       /\ ("err" \in Pending(d) => failed[d])
    BY DEF Pending
  <2>2. revents' \in [Dev -> SUBSET {"in", "err"}] /\ taken' \in [Dev -> BOOLEAN]
    BY <1>1, <2>1 DEF Poll
  <2>3. \A d \in Dev : Said(d)'
    BY <1>1, <2>1 DEF Poll, Said, devices
  <2> QED
    BY <1>1, <2>2, <2>3 DEF Poll, setting, devices, segments, Dev
<1>2. CASE Skip
  BY <1>2, Turn DEF Skip, setting, devices, segments, Said
<1>3. CASE ReadFails
  <2>1. failed' \in [Dev -> BOOLEAN]
    BY <1>3 DEF ReadFails
  <2>2. \A d \in Dev : Left(d)' => Said(d)'
    BY <1>3, Turn DEF ReadFails, Said
  <2> QED
    BY <1>3, <2>1, <2>2, Turn DEF ReadFails, setting, segments
<1>4. CASE Read
  <2>1. Head(rx[i]) \in S /\ Tail(rx[i]) \in Seq(S)
    BY <1>4, Taken DEF Read
  <2>2. inHand' \in S
    BY <1>4, <2>1 DEF Read, Closed, InBuf
  <2>3. rx' \in [Dev -> Seq(S)]
    BY <1>4, <2>1 DEF Read
  <2>4. \A d \in Dev : Left(d)' => Left(d) /\ d # i
    BY <1>4 DEF Read, Left, Dev
  <2>5. \A d \in Dev : Left(d)' => Said(d)'
    BY <1>4, <2>4 DEF Read, Said
  <2> QED
    BY <1>4, <2>2, <2>3, <2>5 DEF Read, setting, segments
<1>5. CASE Leave
  BY <1>5 DEF Leave, setting, devices, segments, Left
<1>6. CASE Write
  <2>1. tx' \in [Dev -> Seq(S)]
    BY <1>6, Appended DEF Write
  <2> QED
    BY <1>6, <2>1, Turn DEF Write, setting, devices, Said
<1>7. CASE WriteFails
  <2>1. PICK e \in Dev : e = Other(i)
    BY DEF Other, Dev
  <2>2. failed[e] /\ WriteError(e)
    BY <1>7, <2>1 DEF WriteFails
  <2> QED
    BY <1>7, <2>2, Took, Turn DEF WriteFails, setting, segments, Said
<1>8. CASE TooShort
  BY <1>8, Turn DEF TooShort, setting, devices, segments, Said
<1>9. CASE AnalyzePacket
  <2>1. /\ failed' \in [Dev -> BOOLEAN] /\ taken' \in [Dev -> BOOLEAN]
        /\ \A d \in Dev : failed[d] \/ taken[d] => failed'[d] \/ taken'[d]
    BY <1>9, Took DEF AnalyzePacket
  <2> QED
    BY <1>9, <2>1, Turn DEF AnalyzePacket, setting, segments, Said
<1> QED
  BY <1>1, <1>2, <1>3, <1>4, <1>5, <1>6, <1>7, <1>8, <1>9 DEF Loop

(* So does every step: frames and errors come, but an error goes only by a *)
(* read or a write.                                                        *)
LEMMA NextPoll ==
    ASSUME NEW S, Closed(S), PollInv(S), [Next]_vars
    PROVE  PollInv(S)'
<1> USE DEF PollInv, PollType
<1>1. CASE Loop
  BY <1>1, LoopPoll
<1>2. CASE EndSignal
  BY <1>2 DEF EndSignal, setting, devices, control, segments, Left, Said
<1>3. ASSUME NEW e \in Dev, BufferSendOne(e) PROVE PollInv(S)'
  <2>1. /\ failed' \in [Dev -> BOOLEAN] /\ taken' \in [Dev -> BOOLEAN]
        /\ \A d \in Dev : failed[d] \/ taken[d] => failed'[d] \/ taken'[d]
    BY <1>3, Took DEF BufferSendOne
  <2> QED
    BY <1>3, <2>1 DEF BufferSendOne, setting, control, segments, Left, Said
<1>4. ASSUME NEW e \in Dev, Hear(e) PROVE PollInv(S)'
  <2>1. Head(tx[e]) \in S /\ Tail(tx[e]) \in Seq(S) /\ Other(e) \in Dev
    BY <1>4, Taken DEF Hear, Other, Dev
  <2>2. tx' \in [Dev -> Seq(S)]
    BY <1>4, <2>1 DEF Hear
  <2>3. rx' \in [Dev -> Seq(S)] /\ \A d \in Dev : rx[d] # <<>> => rx'[d] # <<>>
    BY <1>4, <2>1, Appended DEF Hear
  <2> QED
    BY <1>4, <2>2, <2>3 DEF Hear, setting, control, Left, Said
<1>5. ASSUME NEW e \in Dev, Fail(e) PROVE PollInv(S)'
  <2>1. failed' \in [Dev -> BOOLEAN] /\ \A d \in Dev : failed[d] => failed'[d]
    BY <1>5 DEF Fail
  <2> QED
    BY <1>5, <2>1 DEF Fail, setting, control, segments, Left, Said
<1>6. ASSUME NEW e \in Dev, NEW f \in Frame, Arrive(e, f) PROVE PollInv(S)'
  <2>1. Sent(f) \in S
    BY DEF Closed
  <2>2. rx' \in [Dev -> Seq(S)] /\ \A d \in Dev : rx[d] # <<>> => rx'[d] # <<>>
    BY <1>6, <2>1, Appended DEF Arrive
  <2> QED
    BY <1>6, <2>2 DEF Arrive, setting, control, Left, Said
<1>7. CASE UNCHANGED vars
  BY <1>7 DEF vars, setting, devices, control, segments, Left, Said
<1> QED
  BY <1>1, <1>2, <1>3, <1>4, <1>5, <1>6, <1>7 DEF Next

(* The loop waits in read only when a write took the error that poll       *)
(* reported, and only the router's (router/main.c:265, bridge/main.c:95).  *)
THEOREM BlockedByWrites == Spec => []BlockedOnlyByWrite
<1>1. Init => PollInv(OnWire)
  BY InitPoll
<1>2. PollInv(OnWire) /\ [Next]_vars => PollInv(OnWire)'
  BY OnWireClosed, NextPoll
<1>3. PollInv(OnWire) => BlockedOnlyByWrite
  <2> SUFFICES ASSUME PollInv(OnWire), Blocked PROVE program = "router" /\ taken[i]
    BY DEF BlockedOnlyByWrite
  <2>1. Said(i) /\ rx[i] = <<>> /\ ~failed[i]
    BY DEF Blocked, PollInv, PollType, Left, Dev
  <2>2. "err" \in revents[i] /\ "err" \in Mask
    BY <2>1 DEF Blocked, Selected, Said, Mask, PollInv, PollType
  <2> QED
    BY <2>1, <2>2 DEF Said, Mask, PollInv, PollType
<1> QED
  BY <1>1, <1>2, <1>3, PTL DEF Spec

-----------------------------------------------------------------------------
(* The cable                                                               *)

(* A cable that cuts: frames come out of it, and lie in it, as buf has     *)
(* them.                                                                   *)
Cut(q) == [k \in DOMAIN q |-> InBuf(q[k])]

Ins    == [d \in Dev |-> Waiting(d)]
CutIns == [d \in Dev |-> Cut(Waiting(d))]
CutTx  == [d \in Dev |-> Cut(tx[d])]

CutCable == INSTANCE PatchCable WITH Packet <- {InBuf(Sent(f)) : f \in Frame},
                                     in <- CutIns, out <- CutTx

(* The frame in hand comes before those in the socket.                     *)
LEMMA InFront ==
    ASSUME NEW S, NEW x \in S, NEW s \in Seq(S)
    PROVE  /\ <<x>> \o s # <<>> /\ Head(<<x>> \o s) = x /\ Tail(<<x>> \o s) = s
           /\ s # <<>> => <<Head(s)>> \o Tail(s) = s
OBVIOUS

(* And if there is none, only those do.                                    *)
LEMMA NothingInFront ==
    ASSUME NEW S, NEW s \in Seq(S)
    PROVE  <<>> \o s = s
OBVIOUS

(* A frame that comes is the last of all.                                  *)
LEMMA InFrontAppended ==
    ASSUME NEW S, NEW x \in S, NEW s \in Seq(S), NEW c \in S
    PROVE  <<x>> \o Append(s, c) = Append(<<x>> \o s, c)
OBVIOUS

(* What is read of a frame that was cut before is the same frame.          *)
LEMMA CutTwice ==
    ASSUME NEW p \in OnWire
    PROVE  InBuf(p) \in OnWire /\ InBuf(InBuf(p)) = InBuf(p)
<1> DEFINE n == Min({p.size, BufLen})
<1>1. InBuf(p) \in OnWire
  BY OnWireClosed DEF Closed
<1>2. n \in Nat /\ n <= BufLen
  BY MinIs, FrameAssumption DEF OnWire
<1> HIDE DEF n
<1>3. Min({n, BufLen}) = n
  BY <1>2, MinIs, FrameAssumption
<1>4. InBuf(p) = [frame |-> p.frame, size |-> n]
  BY DEF InBuf, OnWire, n
<1>5. ASSUME NEW f, NEW k
      PROVE  InBuf([frame |-> f, size |-> k]) = [frame |-> f, size |-> Min({k, BufLen})]
  BY DEF InBuf
<1> QED
  BY <1>1, <1>3, <1>4, <1>5

(* Cutting the frames of a list keeps their order and their number.        *)
LEMMA CutList ==
    ASSUME NEW s \in Seq(OnWire)
    PROVE  /\ Cut(s) \in Seq(OnWire)
           /\ Cut(s) = <<>> <=> s = <<>>
           /\ \A c \in OnWire : Cut(Append(s, c)) = Append(Cut(s), InBuf(c))
           /\ s # <<>> => Head(Cut(s)) = InBuf(Head(s)) /\ Cut(Tail(s)) = Tail(Cut(s))
<1>1. /\ Len(s) \in Nat /\ DOMAIN s = 1..Len(s)
      /\ \A k \in 1..Len(s) : s[k] \in OnWire
  BY LenProperties, ElementOfSeq
<1>2. /\ Cut(s) \in Seq(OnWire) /\ Len(Cut(s)) = Len(s)
      /\ \A k \in 1..Len(s) : Cut(s)[k] = InBuf(s[k])
  <2>1. Cut(s) = [k \in 1..Len(s) |-> InBuf(s[k])]
    BY <1>1 DEF Cut
  <2>2. \A k \in 1..Len(s) : InBuf(s[k]) \in OnWire
    BY <1>1, CutTwice
  <2> QED
    BY <1>1, <2>1, <2>2
<1>3. Cut(s) = <<>> <=> s = <<>>
  BY <1>1, <1>2, EmptySeq
<1>4. ASSUME NEW c \in OnWire PROVE Cut(Append(s, c)) = Append(Cut(s), InBuf(c))
  <2>1. InBuf(c) \in OnWire
    BY CutTwice
  <2>2. Cut(Append(s, c)) = [k \in 1..(Len(s) + 1) |-> InBuf(Append(s, c)[k])]
    BY <1>1, AppendProperties, LenProperties DEF Cut
  <2>3. /\ Append(Cut(s), InBuf(c)) \in Seq(OnWire)
        /\ Len(Append(Cut(s), InBuf(c))) = Len(s) + 1
        /\ \A k \in 1..Len(s) : Append(Cut(s), InBuf(c))[k] = InBuf(s[k])
        /\ Append(Cut(s), InBuf(c))[Len(s) + 1] = InBuf(c)
    BY <1>2, <2>1, AppendProperties
  <2>4. \A k \in 1..(Len(s) + 1) :
            Append(s, c)[k] = IF k = Len(s) + 1 THEN c ELSE s[k]
    BY <1>1, AppendProperties
  <2>5. Append(Cut(s), InBuf(c)) =
            [k \in 1..(Len(s) + 1) |-> Append(Cut(s), InBuf(c))[k]]
    BY <2>3, LenProperties
  <2>6. \A k \in 1..(Len(s) + 1) :
            Append(Cut(s), InBuf(c))[k] = InBuf(Append(s, c)[k])
    BY <1>1, <2>3, <2>4
  <2> QED
    BY <2>2, <2>5, <2>6, Zenon
<1>5. ASSUME s # <<>>
      PROVE  Head(Cut(s)) = InBuf(Head(s)) /\ Cut(Tail(s)) = Tail(Cut(s))
  <2>1. /\ Len(s) > 0 /\ Head(s) = s[1] /\ Len(Tail(s)) = Len(s) - 1
        /\ Tail(s) \in Seq(OnWire)
        /\ \A k \in 1..(Len(s) - 1) : Tail(s)[k] = s[k + 1]
    BY <1>1, <1>5, HeadTailProperties, EmptySeq
  <2>2. /\ Head(Cut(s)) = Cut(s)[1] /\ Len(Tail(Cut(s))) = Len(s) - 1
        /\ Tail(Cut(s)) \in Seq(OnWire)
        /\ \A k \in 1..(Len(s) - 1) : Tail(Cut(s))[k] = Cut(s)[k + 1]
    BY <1>2, <1>3, <1>5, HeadTailProperties
  <2>3. Head(Cut(s)) = InBuf(Head(s))
    BY <1>1, <1>2, <2>1, <2>2
  <2>4. Cut(Tail(s)) = [k \in 1..(Len(s) - 1) |-> InBuf(Tail(s)[k])]
    BY <2>1, LenProperties DEF Cut
  <2>5. Tail(Cut(s)) = [k \in 1..(Len(s) - 1) |-> Tail(Cut(s))[k]]
    BY <2>2, LenProperties
  <2>6. \A k \in 1..(Len(s) - 1) : Tail(Cut(s))[k] = InBuf(Tail(s)[k])
    BY <1>1, <1>2, <2>1, <2>2
  <2> QED
    BY <2>3, <2>4, <2>5, <2>6, Zenon
<1> QED
  BY <1>2, <1>3, <1>4, <1>5

(* And the list of a frame before others is the frame cut before the       *)
(* others cut.                                                             *)
LEMMA CutFront ==
    ASSUME NEW x \in OnWire, NEW s \in Seq(OnWire)
    PROVE  Cut(<<x>> \o s) = <<InBuf(x)>> \o Cut(s)
<1>1. InBuf(x) \in OnWire /\ Cut(s) \in Seq(OnWire)
  BY CutTwice, CutList
<1>2. <<x>> \o s \in Seq(OnWire) /\ <<x>> \o s # <<>>
  BY InFront
<1>3. Head(<<x>> \o s) = x /\ Tail(<<x>> \o s) = s
  BY InFront
<1>4. LET u == Cut(<<x>> \o s)
      IN  u \in Seq(OnWire) /\ u # <<>> /\ Head(u) = InBuf(x) /\ Tail(u) = Cut(s)
  BY <1>2, <1>3, CutList
<1>5. ASSUME NEW u \in Seq(OnWire), u # <<>> PROVE u = <<Head(u)>> \o Tail(u)
  BY <1>5
<1> QED
  BY <1>4, <1>5

(* What waits on a device is the frame in hand, if it came by it, and the  *)
(* frames in its socket.                                                   *)
LEMMA WaitingIs ==
    ASSUME PollType(OnWire), NEW d \in Dev
    PROVE  /\ Waiting(d) \in Seq(OnWire)
           /\ at = "handle" /\ i = d => Waiting(d) = <<inHand>> \o rx[d]
           /\ ~(at = "handle" /\ i = d) => Waiting(d) = rx[d]
<1>1. rx[d] \in Seq(OnWire) /\ (at = "handle" => inHand \in OnWire)
  BY DEF PollType
<1>2. CASE at = "handle" /\ i = d
  <2>1. Waiting(d) = <<inHand>> \o rx[d]
    BY <1>2 DEF Waiting
  <2>2. <<inHand>> \o rx[d] \in Seq(OnWire)
    BY <1>1, <1>2
  <2> QED
    BY <1>2, <2>1, <2>2
<1>3. CASE ~(at = "handle" /\ i = d)
  <2>1. Waiting(d) = <<>> \o rx[d]
    BY <1>3 DEF Waiting
  <2> QED
    BY <1>1, <1>3, <2>1, NothingInFront
<1> QED
  BY <1>2, <1>3

(* The same of the next state.                                             *)
LEMMA WaitingNext ==
    ASSUME PollType(OnWire)', NEW d \in Dev
    PROVE  /\ at' = "handle" /\ i' = d => Waiting(d)' = <<inHand'>> \o rx'[d]
           /\ ~(at' = "handle" /\ i' = d) => Waiting(d)' = rx'[d]
<1>1. rx'[d] \in Seq(OnWire)
  BY DEF PollType
<1>2. CASE at' = "handle" /\ i' = d
  BY <1>2 DEF Waiting
<1>3. CASE ~(at' = "handle" /\ i' = d)
  <2>1. Waiting(d)' = <<>> \o rx'[d]
    BY <1>3 DEF Waiting
  <2> QED
    BY <1>1, <1>3, <2>1, NothingInFront
<1> QED
  BY <1>2, <1>3

(* A frame joins those that wait. *)
LEMMA WaitingMore ==
    ASSUME PollType(OnWire), PollType(OnWire)', NEW d \in Dev, NEW c \in OnWire,
           UNCHANGED <<at, i, inHand>>, rx'[d] = Append(rx[d], c)
    PROVE  Waiting(d)' = Append(Waiting(d), c)
<1>1. rx[d] \in Seq(OnWire) /\ (at = "handle" => inHand \in OnWire)
  BY DEF PollType
<1>2. CASE at = "handle" /\ i = d
  <2>1. Waiting(d)' = <<inHand>> \o Append(rx[d], c) /\ Waiting(d) = <<inHand>> \o rx[d]
    BY <1>2, WaitingIs, WaitingNext
  <2>2. <<inHand>> \o Append(rx[d], c) = Append(<<inHand>> \o rx[d], c)
    BY <1>1, <1>2, InFrontAppended
  <2> QED
    BY <2>1, <2>2
<1>3. CASE ~(at = "handle" /\ i = d)
  BY <1>3, WaitingIs, WaitingNext
<1> QED
  BY <1>2, <1>3

(* What holds of the lists holds of them cut.                              *)
LEMMA CutSame ==
    ASSUME PollType(OnWire), PollType(OnWire)', UNCHANGED <<rx, tx>>,
           \/ UNCHANGED <<at, i, inHand>>
           \/ at # "handle" /\ at' # "handle"
    PROVE  UNCHANGED <<CutIns, CutTx>>
<1>1. \A d \in Dev : Waiting(d)' = Waiting(d)
  BY WaitingIs, WaitingNext
<1>2. CutIns' = CutIns
  <2>1. \A d \in Dev : Cut(Waiting(d))' = Cut(Waiting(d))
    BY <1>1 DEF Cut
  <2> QED
    BY <2>1, Zenon DEF CutIns
<1>3. CutTx' = CutTx
  BY DEF CutTx, Cut
<1> QED
  BY <1>2, <1>3

(* The frame in hand is gone, from the cut list too.                       *)
LEMMA CutHandEmpty ==
    ASSUME PollType(OnWire), PollType(OnWire)', at = "handle", NextDevice, UNCHANGED rx
    PROVE  /\ i \in Dev /\ inHand \in OnWire
           /\ CutIns[i] # <<>> /\ Head(CutIns[i]) = InBuf(inHand)
           /\ CutIns' = [CutIns EXCEPT ![i] = Tail(@)]
<1>1. i \in Dev /\ inHand \in OnWire /\ rx[i] \in Seq(OnWire)
  BY DEF PollType
<1>2. PICK j \in Dev : j = i
  BY <1>1
<1>3. /\ Waiting(j) \in Seq(OnWire) /\ Waiting(j) # <<>>
      /\ Head(Waiting(j)) = inHand /\ Tail(Waiting(j)) = rx[j]
  BY <1>1, <1>2, WaitingIs, InFront
<1>4. at' # "handle"
  BY DEF NextDevice
<1>5. \A d \in Dev : Waiting(d)' = rx[d]
  BY <1>4, WaitingNext
<1>6. \A d \in Dev : d # j => Waiting(d) = rx[d]
  BY <1>2, WaitingIs
<1>7. /\ Cut(Waiting(j)) # <<>> /\ Head(Cut(Waiting(j))) = InBuf(inHand)
      /\ Tail(Cut(Waiting(j))) = Cut(rx[j])
  BY <1>3, CutList
<1>8. \A d \in Dev : Cut(Waiting(d))' = IF d = j THEN Tail(Cut(Waiting(d))) ELSE Cut(Waiting(d))
  <2> TAKE d \in Dev
  <2>1. Cut(Waiting(d))' = Cut(rx[d])
    BY <1>5 DEF Cut
  <2> QED
    BY <1>6, <1>7, <2>1
<1> QED
  BY <1>1, <1>2, <1>7, <1>8 DEF CutIns

(* A frame joins the cut list.                                             *)
LEMMA CutMore ==
    ASSUME PollType(OnWire), PollType(OnWire)', NEW d \in Dev, NEW c \in OnWire,
           UNCHANGED <<at, i, inHand>>, rx'[d] = Append(rx[d], c)
    PROVE  Cut(Waiting(d))' = Append(Cut(Waiting(d)), InBuf(c))
<1>1. Waiting(d)' = Append(Waiting(d), c) /\ Waiting(d) \in Seq(OnWire)
  BY WaitingMore, WaitingIs
<1>2. Cut(Waiting(d))' = Cut(Append(Waiting(d), c))
  BY <1>1 DEF Cut
<1> QED
  BY <1>1, <1>2, CutList

(* A list that no frame joins stays.                                       *)
LEMMA CutStays ==
    ASSUME PollType(OnWire), PollType(OnWire)', NEW d \in Dev,
           UNCHANGED <<at, i, inHand>>, rx'[d] = rx[d]
    PROVE  Cut(Waiting(d))' = Cut(Waiting(d))
<1>1. Waiting(d)' = Waiting(d)
  BY WaitingIs, WaitingNext
<1> QED
  BY <1>1 DEF Cut

(* A frame read into buf: its list, cut, is what it was.                   *)
LEMMA CutRead ==
    ASSUME PollType(OnWire), PollType(OnWire)', Read
    PROVE  UNCHANGED <<CutIns, CutTx>>
<1>1. i \in Dev /\ rx[i] \in Seq(OnWire) /\ rx[i] # <<>>
  BY DEF Read, PollType
<1>2. PICK j \in Dev : j = i
  BY <1>1
<1> DEFINE h == Head(rx[j])
           t == Tail(rx[j])
<1>3. h \in OnWire /\ t \in Seq(OnWire)
  BY <1>1, <1>2, Taken
<1>4. inHand' = InBuf(h) /\ at = "each" /\ at' = "handle" /\ i' = i /\ tx' = tx
  BY <1>2 DEF Read, InBuf, segments
<1>5. rx'[j] = t /\ \A d \in Dev : d # j => rx'[d] = rx[d]
  BY <1>2 DEF Read, PollType
<1>6. Waiting(j) = rx[j] /\ Waiting(j)' = <<InBuf(h)>> \o t
  BY <1>2, <1>4, <1>5, WaitingIs, WaitingNext
<1> HIDE DEF h, t
<1>7. Cut(<<InBuf(h)>> \o t) = Cut(rx[j])
  <2>1. InBuf(h) \in OnWire /\ InBuf(InBuf(h)) = InBuf(h)
    BY <1>3, CutTwice
  <2>2. rx[j] = <<h>> \o t
    BY <1>1, <1>2, InFront DEF h, t
  <2>3. Cut(<<h>> \o t) = <<InBuf(h)>> \o Cut(t)
    BY <1>3, CutFront
  <2>4. Cut(<<InBuf(h)>> \o t) = <<InBuf(h)>> \o Cut(t)
    BY <1>3, <2>1, CutFront
  <2> QED
    BY <2>2, <2>3, <2>4
<1>8. Cut(Waiting(j))' = Cut(Waiting(j))
  <2>1. Cut(Waiting(j))' = Cut(<<InBuf(h)>> \o t)
    BY <1>6 DEF Cut
  <2> QED
    BY <1>6, <1>7, <2>1
<1>9. ASSUME NEW d \in Dev, d # j PROVE Cut(Waiting(d))' = Cut(Waiting(d))
  <2>1. Waiting(d)' = Waiting(d)
    BY <1>2, <1>4, <1>5, <1>9, WaitingIs, WaitingNext
  <2> QED
    BY <2>1 DEF Cut
<1>10. CutIns' = CutIns
  <2>1. \A d \in Dev : Cut(Waiting(d))' = Cut(Waiting(d))
    BY <1>8, <1>9
  <2> QED
    BY <2>1, Zenon DEF CutIns
<1>11. CutTx' = CutTx
  BY <1>4 DEF CutTx, Cut
<1> QED
  BY <1>10, <1>11

(* Every step of the loop, the segments and the devices is one of a cable  *)
(* that cuts, or none.                                                     *)
LEMMA StepCable ==
    ASSUME PollInv(OnWire), PollInv(OnWire)', [Next]_vars
    PROVE  [CutCable!Next]_<<CutIns, CutTx>>
<1>t. PollType(OnWire) /\ PollType(OnWire)'
  BY DEF PollInv
<1>1. CASE \/ Poll \/ Skip \/ ReadFails \/ Leave \/ EndSignal \/ UNCHANGED vars
           \/ \E e \in Dev : BufferSendOne(e) \/ Fail(e)
  <2>1. /\ UNCHANGED <<rx, tx>>
        /\ \/ UNCHANGED <<at, i, inHand>>
           \/ at # "handle" /\ at' # "handle"
    BY <1>1 DEF Poll, Skip, ReadFails, Leave, NextDevice, EndSignal, BufferSendOne, Fail,
                vars, devices, control, segments
  <2> QED
    BY <1>t, <2>1, CutSame
<1>2. CASE Read
  BY <1>2, <1>t, CutRead
<1>3. CASE Write
  <2>1. /\ i \in Dev /\ inHand \in OnWire
        /\ CutIns[i] # <<>> /\ Head(CutIns[i]) = InBuf(inHand)
        /\ CutIns' = [CutIns EXCEPT ![i] = Tail(@)]
    BY <1>3, <1>t, CutHandEmpty DEF Write, devices
  <2>2. PICK o \in Dev : o = 1 - i
    BY <2>1 DEF Dev
  <2>3. tx' = [tx EXCEPT ![o] = Append(@, inHand)]
    BY <1>3, <2>2 DEF Write, Other
  <2>4. Cut(tx'[o]) = Append(Cut(tx[o]), InBuf(inHand)) /\ \A d \in Dev : d # o => tx'[d] = tx[d]
    <3>1. tx[o] \in Seq(OnWire) /\ tx'[o] = Append(tx[o], inHand)
      BY <1>t, <2>3 DEF PollType
    <3>2. \A d \in Dev : d # o => tx'[d] = tx[d]
      BY <1>t, <2>3 DEF PollType
    <3> QED
      BY <2>1, <3>1, <3>2, CutList
  <2>5. CutTx' = [CutTx EXCEPT ![1 - i] = Append(@, Head(CutIns[i]))]
    BY <2>1, <2>2, <2>4 DEF CutTx, Cut
  <2>6. CutCable!Cross(i)
    BY <2>1, <2>5 DEF CutCable!Cross
  <2> QED
    BY <2>1, <2>6 DEF CutCable!Next, CutCable!Side, Dev
<1>4. CASE WriteFails \/ TooShort \/ AnalyzePacket
  <2>1. at = "handle" /\ NextDevice /\ UNCHANGED rx /\ UNCHANGED tx
    BY <1>4 DEF WriteFails, TooShort, AnalyzePacket, segments, devices
  <2>2. i \in Dev /\ CutIns[i] # <<>> /\ CutIns' = [CutIns EXCEPT ![i] = Tail(@)]
    BY <1>t, <2>1, CutHandEmpty
  <2>3. CutTx' = CutTx
    BY <2>1 DEF CutTx, Cut
  <2>4. CutCable!Lose(i)
    BY <2>2, <2>3 DEF CutCable!Lose
  <2> QED
    BY <2>2, <2>4 DEF CutCable!Next, CutCable!Side, Dev
<1>5. ASSUME NEW e \in Dev, Hear(e) PROVE CutCable!Next
  <2> DEFINE c == Head(tx[e])
  <2>1. tx[e] \in Seq(OnWire) /\ tx[e] # <<>> /\ c \in OnWire /\ UNCHANGED <<at, i, inHand>>
    BY <1>5, <1>t, Taken DEF Hear, PollType, control
  <2>2. tx' = [tx EXCEPT ![e] = Tail(@)]
    BY <1>5 DEF Hear
  <2>3. /\ CutTx[e] # <<>> /\ Head(CutTx[e]) = InBuf(c)
        /\ CutTx' = [CutTx EXCEPT ![e] = Tail(@)]
    <3>1. Cut(tx[e]) # <<>> /\ Head(Cut(tx[e])) = InBuf(c) /\ Cut(Tail(tx[e])) = Tail(Cut(tx[e]))
      BY <2>1, CutList
    <3>2. tx'[e] = Tail(tx[e]) /\ \A d \in Dev : d # e => tx'[d] = tx[d]
      BY <1>t, <2>2 DEF PollType
    <3>3. \A d \in Dev : Cut(tx'[d]) = IF d = e THEN Tail(Cut(tx[e])) ELSE Cut(tx[d])
      BY <3>1, <3>2
    <3>4. CutTx' = [d \in Dev |-> Cut(tx'[d])]
      BY DEF CutTx, Cut
    <3> QED
      BY <3>1, <3>3, <3>4 DEF CutTx
  <2>4. PICK o \in Dev : o = 1 - e
    BY DEF Dev
  <2> HIDE DEF c
  <2>5. CASE shared
    <3>1. rx'[o] = Append(rx[o], c) /\ \A d \in Dev : d # o => rx'[d] = rx[d]
      BY <1>5, <1>t, <2>4, <2>5 DEF Hear, Other, PollType, c
    <3>2. \A d \in Dev : Cut(Waiting(d))' = IF d = o THEN Append(Cut(Waiting(d)), InBuf(c))
                                            ELSE Cut(Waiting(d))
      BY <1>t, <2>1, <3>1, CutMore, CutStays
    <3>3. CutIns' = [CutIns EXCEPT ![o] = Append(@, InBuf(c))]
      BY <3>2 DEF CutIns
    <3>4. CutCable!Reach(e)
      BY <2>3, <2>4, <3>3 DEF CutCable!Reach
    <3> QED
      BY <3>4 DEF CutCable!Next, CutCable!Side, Dev
  <2>6. CASE ~shared
    <3>1. \A d \in Dev : rx'[d] = rx[d]
      BY <1>5, <2>6 DEF Hear
    <3>2. \A d \in Dev : Cut(Waiting(d))' = Cut(Waiting(d))
      BY <1>t, <2>1, <3>1, CutStays
    <3>3. CutIns' = CutIns
      BY <3>2, Zenon DEF CutIns
    <3>4. CutCable!Reach(e)
      BY <2>3, <3>3 DEF CutCable!Reach
    <3> QED
      BY <3>4 DEF CutCable!Next, CutCable!Side, Dev
  <2> QED
    BY <2>5, <2>6
<1>6. ASSUME NEW e \in Dev, NEW f \in Frame, Arrive(e, f) PROVE CutCable!Next
  <2> DEFINE sides == IF shared THEN Dev ELSE {e}
  <2>1. Sent(f) \in OnWire
    BY OnWireClosed DEF Closed
  <2>2. /\ UNCHANGED <<at, i, inHand, tx>>
        /\ \A d \in Dev : rx'[d] = IF d \in sides THEN Append(rx[d], Sent(f)) ELSE rx[d]
    BY <1>6 DEF Arrive, control
  <2>3. \A d \in Dev : Cut(Waiting(d))' = IF d \in sides THEN Append(Cut(Waiting(d)), InBuf(Sent(f)))
                                          ELSE Cut(Waiting(d))
    BY <1>t, <2>1, <2>2, CutMore, CutStays
  <2>4. CutTx' = CutTx
    BY <2>2 DEF CutTx, Cut
  <2>5. CutIns' = [d \in Dev |-> IF d \in sides THEN Append(CutIns[d], InBuf(Sent(f)))
                                 ELSE CutIns[d]]
    <3>1. CutIns' = [d \in Dev |-> Cut(Waiting(d))']
      BY DEF CutIns
    <3> QED
      BY <2>3, <3>1 DEF CutIns
  <2>6. CutCable!Come(sides, InBuf(Sent(f)))
    BY <2>4, <2>5 DEF CutCable!Come, CutCable!Side, Dev
  <2>7. sides \in SUBSET CutCable!Side /\ InBuf(Sent(f)) \in {InBuf(Sent(g)) : g \in Frame}
    BY DEF CutCable!Side, Dev
  <2> QED
    BY <2>6, <2>7 DEF CutCable!Next
<1> QED
  BY <1>1, <1>2, <1>3, <1>4, <1>5, <1>6 DEF Next, Loop

(* What the loop keeps true whatever is sent.                              *)
LEMMA LoopInvariant == Spec => []PollInv(OnWire)
<1>1. Init => PollInv(OnWire)
  BY InitPoll
<1>2. PollInv(OnWire) /\ [Next]_vars => PollInv(OnWire)'
  BY OnWireClosed, NextPoll
<1> QED
  BY <1>1, <1>2, PTL DEF Spec

(* The bridge is a cable between its two sides, whatever the sizes of the  *)
(* frames, but for what does not fit in buf: that is cut off a frame, once *)
(* (bridge/main.c:95, bridge/main.c:99).                                   *)
THEOREM BridgeCuts == Spec => CutCable!Spec
<1>1. Init => CutCable!Init
  <2> SUFFICES ASSUME Init PROVE CutCable!Init
    OBVIOUS
  <2>1. PollType(OnWire)
    BY InitPoll DEF PollInv
  <2>2. \A d \in Dev : Waiting(d) = <<>> /\ tx[d] = <<>>
    BY <2>1, WaitingIs DEF Init
  <2>3. Cut(<<>>) = <<>>
    <3>1. <<>> \in Seq(OnWire)
      OBVIOUS
    <3> QED
      BY <3>1, CutList
  <2> QED
    BY <2>2, <2>3 DEF CutCable!Init, CutCable!Side, CutIns, CutTx, Dev
<1> QED
  BY <1>1, LoopInvariant, StepCable, PTL DEF Spec, CutCable!Spec

-----------------------------------------------------------------------------
(* When nothing is cut                                                     *)

(* No frame is longer than buf. *)
Fits == \A f \in Frame : SizeOf[f] <= BufLen

Pkt == {Sent(f) : f \in Frame}

(* If no frame is longer than the buffer, none is cut.                     *)
LEMMA Whole == Fits => Closed(Pkt) /\ \A p \in Pkt : p \in OnWire /\ InBuf(p) = p
<1> SUFFICES ASSUME Fits PROVE Closed(Pkt) /\ \A p \in Pkt : p \in OnWire /\ InBuf(p) = p
  OBVIOUS
<1>1. ASSUME NEW p \in Pkt PROVE p \in OnWire /\ InBuf(p) = p
  <2>1. PICK f \in Frame : p = Sent(f)
    BY DEF Pkt
  <2>2. Min({SizeOf[f], BufLen}) = SizeOf[f]
    BY MinIs, FrameAssumption DEF Fits
  <2>3. p = [frame |-> f, size |-> SizeOf[f]] /\ Min({p.size, BufLen}) = p.size
    BY <2>1, <2>2 DEF Sent
  <2>4. p \in OnWire
    BY <2>1, OnWireClosed DEF Closed
  <2> QED
    BY <2>3, <2>4 DEF InBuf
<1> QED
  BY <1>1 DEF Closed, Pkt

(* The lists are what they would be cut.                                   *)
NothingCut == Ins = CutIns /\ tx = CutTx

LEMMA Uncut ==
    ASSUME Fits, PollType(Pkt)
    PROVE  NothingCut
<1>1. ASSUME NEW q \in Seq(Pkt) PROVE Cut(q) = q
  <2>1. DOMAIN q = 1..Len(q) /\ \A k \in 1..Len(q) : q[k] \in Pkt
    BY LenProperties, ElementOfSeq
  <2>2. \A k \in DOMAIN q : InBuf(q[k]) = q[k]
    BY <2>1, Whole
  <2>3. q = [k \in DOMAIN q |-> q[k]]
    BY LenProperties
  <2> QED
    BY <2>2, <2>3, Zenon DEF Cut
<1>2. ASSUME NEW d \in Dev PROVE Waiting(d) \in Seq(Pkt)
  <2>1. rx[d] \in Seq(Pkt) /\ (at = "handle" => inHand \in Pkt)
    BY DEF PollType
  <2>2. (IF at = "handle" /\ i = d THEN <<inHand>> ELSE <<>>) \in Seq(Pkt)
    BY <2>1
  <2> QED
    BY <2>1, <2>2 DEF Waiting
<1>3. \A d \in Dev : Cut(Waiting(d)) = Waiting(d)
  BY <1>1, <1>2
<1>4. \A d \in Dev : Cut(tx[d]) = tx[d]
  BY <1>1 DEF PollType
<1>5. tx = [d \in Dev |-> tx[d]]
  BY DEF PollType
<1> QED
  BY <1>3, <1>4, <1>5, Zenon DEF NothingCut, Ins, CutIns, CutTx

(* The bridge is a cable between its two sides when no frame is longer     *)
(* than buf (bridge/main.c:95): the sizes of Ethernet, and a buf of 2048.  *)
THEOREM BridgeIsCable == Fits => (Spec => ImplementsCable)
<1> SUFFICES ASSUME Fits PROVE Spec => ImplementsCable
  OBVIOUS
<1>1. Init => PollInv(Pkt)
  BY InitPoll
<1>2. PollInv(Pkt) /\ [Next]_vars => PollInv(Pkt)'
  BY Whole, NextPoll
<1>3. Init => Cable!Init
  <2> SUFFICES ASSUME Init PROVE Cable!Init
    OBVIOUS
  <2>1. \A d \in Dev : Waiting(d) = <<>>
    <3>1. <<>> \in Seq(Pkt) /\ at # "handle" /\ \A d \in Dev : rx[d] = <<>>
      BY DEF Init
    <3> QED
      BY <3>1, NothingInFront DEF Waiting
  <2> QED
    BY <2>1 DEF Cable!Init, Cable!Side, Init, Dev
<1>4. PollInv(Pkt) => NothingCut
  BY Uncut DEF PollInv
<1>5. /\ PollInv(OnWire) /\ PollInv(OnWire)' /\ NothingCut /\ NothingCut' /\ [Next]_vars
      => [Cable!Next]_<<[d \in Dev |-> Waiting(d)], tx>>
  <2> SUFFICES ASSUME PollInv(OnWire), PollInv(OnWire)', NothingCut, NothingCut', [Next]_vars
               PROVE  [Cable!Next]_<<Ins, tx>>
    BY Zenon DEF Ins
  <2>1. [CutCable!Next]_<<CutIns, CutTx>>
    BY StepCable
  <2>2. CutIns = Ins /\ CutTx = tx /\ CutIns' = Ins' /\ CutTx' = tx'
    BY DEF NothingCut
  <2>3. {InBuf(Sent(f)) : f \in Frame} = {Sent(f) : f \in Frame}
    BY Whole DEF Pkt
  <2>4. ASSUME NEW sides \in SUBSET Dev, NEW c, CutCable!Come(sides, c) PROVE Cable!Come(sides, c)
    BY <2>2, <2>4, Zenon DEF CutCable!Come, Cable!Come, CutCable!Side, Cable!Side, Ins
  <2>5. ASSUME NEW d \in Dev, CutCable!Cross(d) PROVE Cable!Cross(d)
    BY <2>2, <2>5, Zenon DEF CutCable!Cross, Cable!Cross, Ins
  <2>6. ASSUME NEW d \in Dev, CutCable!Lose(d) PROVE Cable!Lose(d)
    BY <2>2, <2>6, Zenon DEF CutCable!Lose, Cable!Lose, Ins
  <2>7. ASSUME NEW d \in Dev, CutCable!Reach(d) PROVE Cable!Reach(d)
    BY <2>2, <2>7, Zenon DEF CutCable!Reach, Cable!Reach, Ins
  <2> QED
    BY <2>1, <2>2, <2>3, <2>4, <2>5, <2>6, <2>7, Zenon
    DEF CutCable!Next, Cable!Next, CutCable!Side, Cable!Side, Dev
<1> QED
  BY <1>1, <1>2, <1>3, <1>4, <1>5, LoopInvariant, PTL DEF Spec, ImplementsCable, Cable!Spec

=============================================================================
