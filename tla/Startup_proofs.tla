--------------------------- MODULE Startup_proofs ---------------------------
(***************************************************************************)
(* What is proved of main(), for any failures of its calls, any frames and *)
(* a signal at any time: the loop begins with everything in place, no      *)
(* socket is left behind, the router takes up no frame of the other        *)
(* device, and the sockets outlive the buffer thread.  StartInv says how   *)
(* far each device is for the number of the next call, ExitInv where the   *)
(* thread is.                                                              *)
(***************************************************************************)
EXTENDS Startup, FiniteSetTheorems, TLAPS

InfoNames == {"SIOCGIFHWADDR", "SIOCGIFADDR", "SIOCGIFNETMASK"}

(* Which of a device's calls is rawsocket. *)
Raw == IF program = "router" THEN 6 ELSE 1

(* How many of d's calls are done: less than 0 or more than Per when it is *)
(* the other's turn.                                                       *)
Made(d) == IF d = 0 THEN step - 1 ELSE step - 1 - Per

StartType ==
    /\ program \in {"router", "bridge"}
    /\ step \in 1 .. (Calls + 1)
    /\ state \in {"starting", "looping", "joining", "closing",
                  "exited", "failed", "killed", "crashed", "hung"}
    /\ info \in BOOLEAN
    /\ known \in [Dev -> SUBSET InfoNames]
    /\ soc \in [Dev -> {"none", "unbound", "bound"}]
    /\ promisc \in SUBSET Dev
    /\ caught \in BOOLEAN
    /\ queue \in [Dev -> Seq(Frame)]

-----------------------------------------------------------------------------
(* The scripts                                                             *)

LEMMA RouterCalls ==
    ASSUME program = "router"
    PROVE  Calls = 19 /\ Per = 8 /\ Raw = 6
BY DEF Setup, Finish, Calls, Per, Raw

(* The bridge makes five calls for a device, rawsocket the first.          *)
LEMMA BridgeCalls ==
    ASSUME program = "bridge"
    PROVE  Calls = 12 /\ Per = 5 /\ Raw = 1
BY DEF Setup, Finish, Calls, Per, Raw

(* The number of each call of the router. *)
LEMMA RouterPlaces ==
    ASSUME program = "router", step \in 1..19
    PROVE  /\ NextCall = "socket" => step \in {1, 9}
           /\ NextCall = "SIOCGIFHWADDR" => step \in {2, 10}
           /\ NextCall = "SIOCGIFADDR" => step \in {3, 11}
           /\ NextCall = "SIOCGIFNETMASK" => step \in {4, 12}
           /\ NextCall = "close" => step \in {5, 13}
           /\ NextCall = "rawsocket" => step \in {6, 14}
           /\ NextCall = "SIOCGIFINDEX" => step \in {7, 15}
           /\ NextCall = "bind" => step \in {8, 16}
           /\ NextCall \notin {"SIOCGIFFLAGS", "SIOCSIFFLAGS"}
           /\ NextCall \in {"DisableIpForward", "pthread_create"} <=> step \in {17, 18}
           /\ step = 19 <=> NextCall = "signal"
<1>1. /\ Setup[1] = "socket" /\ Setup[2] = "SIOCGIFHWADDR" /\ Setup[3] = "SIOCGIFADDR"
      /\ Setup[4] = "SIOCGIFNETMASK" /\ Setup[5] = "close" /\ Setup[6] = "rawsocket"
      /\ Setup[7] = "SIOCGIFINDEX" /\ Setup[8] = "bind"
  BY DEF Setup
<1>2. Finish[1] = "DisableIpForward" /\ Finish[2] = "pthread_create" /\ Finish[3] = "signal"
  BY DEF Finish
<1>3. CASE step \in 1..8
  <2>1. NextCall = Setup[step]
    BY <1>3, RouterCalls DEF NextCall
  <2> QED
    BY <1>1, <1>3, <2>1
<1>4. CASE step \in 9..16
  <2>1. NextCall = Setup[step - 8] /\ step - 8 \in 1..8
    BY <1>4, RouterCalls DEF NextCall
  <2> QED
    BY <1>1, <1>4, <2>1
<1>5. CASE step \in 17..19
  <2>1. NextCall = Finish[step - 16] /\ step - 16 \in 1..3
    BY <1>5, RouterCalls DEF NextCall
  <2> QED
    BY <1>2, <1>5, <2>1
<1> QED
  BY <1>3, <1>4, <1>5

(* And of the bridge. *)
LEMMA BridgePlaces ==
    ASSUME program = "bridge", step \in 1..12
    PROVE  /\ NextCall \notin InfoNames \cup {"socket", "close", "pthread_create"}
           /\ NextCall = "rawsocket" => step \in {1, 6}
           /\ NextCall = "SIOCGIFINDEX" => step \in {2, 7}
           /\ NextCall = "bind" => step \in {3, 8}
           /\ NextCall = "SIOCGIFFLAGS" => step \in {4, 9}
           /\ NextCall = "SIOCSIFFLAGS" <=> step \in {5, 10}
           /\ NextCall = "DisableIpForward" <=> step = 11
           /\ step = 12 <=> NextCall = "signal"
<1>1. /\ Setup[1] = "rawsocket" /\ Setup[2] = "SIOCGIFINDEX" /\ Setup[3] = "bind"
      /\ Setup[4] = "SIOCGIFFLAGS" /\ Setup[5] = "SIOCSIFFLAGS"
  BY DEF Setup
<1>2. Finish[1] = "DisableIpForward" /\ Finish[2] = "signal"
  BY DEF Finish
<1>3. CASE step \in 1..5
  <2>1. NextCall = Setup[step]
    BY <1>3, BridgeCalls DEF NextCall
  <2> QED
    BY <1>1, <1>3, <2>1 DEF InfoNames
<1>4. CASE step \in 6..10
  <2>1. NextCall = Setup[step - 5] /\ step - 5 \in 1..5
    BY <1>4, BridgeCalls DEF NextCall
  <2> QED
    BY <1>1, <1>4, <2>1 DEF InfoNames
<1>5. CASE step \in 11..12
  <2>1. NextCall = Finish[step - 10] /\ step - 10 \in 1..2
    BY <1>5, BridgeCalls DEF NextCall
  <2> QED
    BY <1>2, <1>5, <2>1 DEF InfoNames
<1> QED
  BY <1>3, <1>4, <1>5

(* Where the program is, from the call that is next: how many calls of its *)
(* device are done.  The other device is untouched or done.                *)
LEMMA Place ==
    ASSUME StartType, step <= Calls
    PROVE  /\ dev \in Dev
           /\ NextCall = "socket" => program = "router" /\ Made(dev) = 0
           /\ NextCall = "SIOCGIFHWADDR" => program = "router" /\ Made(dev) = 1
           /\ NextCall = "SIOCGIFADDR" => program = "router" /\ Made(dev) = 2
           /\ NextCall = "SIOCGIFNETMASK" => program = "router" /\ Made(dev) = 3
           /\ NextCall = "close" => program = "router" /\ Made(dev) = 4
           /\ NextCall = "rawsocket" => Made(dev) = Raw - 1
           /\ NextCall = "SIOCGIFINDEX" => Made(dev) = Raw
           /\ NextCall = "bind" => Made(dev) = Raw + 1
           /\ NextCall = "SIOCGIFFLAGS" => program = "bridge" /\ Made(dev) = 3
           /\ NextCall = "SIOCSIFFLAGS" => program = "bridge" /\ Made(dev) = 4
           /\ NextCall \in {"DisableIpForward", "pthread_create", "signal"} <=> step > 2 * Per
           /\ step = Calls => NextCall = "signal"
<1>1. CASE program = "router"
  <2>1. Per = 8 /\ Raw = 6 /\ Calls = 19 /\ step \in 1..19
    BY <1>1, RouterCalls DEF StartType
  <2>2. dev = IF step <= 8 THEN 0 ELSE 1
    BY <2>1 DEF dev
  <2>3. Made(dev) = IF step <= 8 THEN step - 1 ELSE step - 9
    BY <2>1, <2>2 DEF Made
  <2>4. /\ NextCall = "socket" => Made(dev) = 0
        /\ NextCall = "SIOCGIFHWADDR" => Made(dev) = 1
        /\ NextCall = "SIOCGIFADDR" => Made(dev) = 2
        /\ NextCall = "SIOCGIFNETMASK" => Made(dev) = 3
        /\ NextCall = "close" => Made(dev) = 4
    BY <1>1, <2>1, <2>3, RouterPlaces
  <2>5. /\ NextCall = "rawsocket" => Made(dev) = Raw - 1
        /\ NextCall = "SIOCGIFINDEX" => Made(dev) = Raw
        /\ NextCall = "bind" => Made(dev) = Raw + 1
    BY <1>1, <2>1, <2>3, RouterPlaces
  <2>6. NextCall \notin {"SIOCGIFFLAGS", "SIOCSIFFLAGS"}
    BY <1>1, <2>1, RouterPlaces
  <2>7. /\ NextCall \in {"DisableIpForward", "pthread_create", "signal"} <=> step > 2 * Per
        /\ step = Calls => NextCall = "signal"
    BY <1>1, <2>1, RouterPlaces
  <2> QED
    BY <1>1, <2>1, <2>2, <2>4, <2>5, <2>6, <2>7 DEF Dev
<1>2. CASE program = "bridge"
  <2>1. Per = 5 /\ Raw = 1 /\ Calls = 12 /\ step \in 1..12
    BY <1>2, BridgeCalls DEF StartType
  <2>2. dev = IF step <= 5 THEN 0 ELSE 1
    BY <2>1 DEF dev
  <2>3. Made(dev) = IF step <= 5 THEN step - 1 ELSE step - 6
    BY <2>1, <2>2 DEF Made
  <2>4. NextCall \notin InfoNames \cup {"socket", "close", "pthread_create"}
    BY <1>2, <2>1, BridgePlaces
  <2>5. /\ NextCall = "rawsocket" => Made(dev) = Raw - 1
        /\ NextCall = "SIOCGIFINDEX" => Made(dev) = Raw
        /\ NextCall = "bind" => Made(dev) = Raw + 1
    BY <1>2, <2>1, <2>3, BridgePlaces
  <2>6. /\ NextCall = "SIOCGIFFLAGS" => Made(dev) = 3
        /\ NextCall = "SIOCSIFFLAGS" => Made(dev) = 4
    BY <1>2, <2>1, <2>3, BridgePlaces
  <2>7. /\ NextCall \in {"DisableIpForward", "pthread_create", "signal"} <=> step > 2 * Per
        /\ step = Calls => NextCall = "signal"
    BY <1>2, <2>1, <2>4, BridgePlaces
  <2> QED
    BY <1>2, <2>1, <2>2, <2>4, <2>5, <2>6, <2>7 DEF Dev, InfoNames
<1> QED
  BY <1>1, <1>2 DEF StartType

-----------------------------------------------------------------------------
(* The invariant                                                           *)

(* d's socket, and what is filled in of its DEVICE, go with the calls that *)
(* are done.                                                               *)
Along(d) ==
    /\ soc[d] = IF Made(d) < Raw THEN "none"
                ELSE IF Made(d) < Raw + 2 THEN "unbound" ELSE "bound"
    /\ program = "router" =>
           /\ Made(d) > 1 => "SIOCGIFHWADDR" \in known[d]
           /\ Made(d) > 2 => "SIOCGIFADDR" \in known[d]
           /\ Made(d) > 3 => "SIOCGIFNETMASK" \in known[d]
    /\ program = "bridge" /\ Made(d) > 4 => d \in promisc

InfoOpen == program = "router" /\ \E d \in Dev : Made(d) \in 1..4

Progress ==
    /\ \A d \in Dev : Along(d)
    /\ info <=> InfoOpen
    /\ step > Calls => caught

(* A router's device hears what is for itself or for all, and nothing is   *)
(* taken up that is not for the device of the socket.                      *)
Heard ==
    program = "router" =>
        /\ promisc = {}
        /\ \A d \in Dev : \A i \in 1 .. Len(queue[d]) : queue[d][i].to \in {queue[d][i].on, 2}
        /\ \A h \in handled : h[1] = h[2]

StartInv ==
    /\ StartType
    /\ state = "starting" => step <= Calls /\ Progress
    /\ state = "looping" => step = Calls + 1 /\ Progress
    /\ NothingLeft
    /\ Heard

(* main() starts with no socket open.                                      *)
LEMMA InitStart == Init => StartInv
<1> SUFFICES ASSUME Init PROVE StartInv
  OBVIOUS
<1> USE DEF Init
<1>1. /\ Per \in {5, 8} /\ Raw \in {1, 6} /\ Calls \in {12, 19}
  BY RouterCalls, BridgeCalls
<1>2. StartType
  <2>1. \A d \in Dev : queue[d] \in Seq(Frame)
    OBVIOUS
  <2>2. queue \in [Dev -> Seq(Frame)]
    BY <2>1
  <2>3. step \in 1 .. (Calls + 1)
    BY <1>1
  <2>4. known \in [Dev -> SUBSET InfoNames] /\ soc \in [Dev -> {"none", "unbound", "bound"}]
    OBVIOUS
  <2> QED
    BY <2>2, <2>3, <2>4 DEF StartType
<1>3. \A d \in Dev : Made(d) <= 0
  BY <1>1 DEF Made
<1>4. Progress
  BY <1>1, <1>3 DEF Progress, Along, InfoOpen, Made, Dev
<1>5. NothingLeft /\ Heard
  BY DEF NothingLeft, Heard
<1> QED
  BY <1>1, <1>2, <1>4, <1>5 DEF StartInv

(* How the numbers of the calls relate.                                    *)
LEMMA Numbers ==
    ASSUME StartType
    PROVE  /\ step \in Nat /\ Per \in Nat /\ Raw \in Nat /\ Calls \in Nat
           /\ \A d \in Dev : Made(d) \in Int
           /\ Raw > 0 /\ Raw + 2 <= Per /\ Per > 4 /\ 2 * Per < Calls
           /\ program = "router" => Raw = 6
<1>1. /\ Per \in {5, 8} /\ Raw \in {1, 6} /\ Calls \in {12, 19}
      /\ (Raw = 6) <=> (Per = 8)
      /\ (Calls = 19) <=> (Per = 8)
  BY RouterCalls, BridgeCalls DEF StartType
<1> QED
  BY <1>1, RouterCalls DEF StartType, Made

(* The other device is untouched or done, and both are at the end. *)
LEMMA Other ==
    ASSUME StartType, NEW d \in Dev, d # dev \/ step > 2 * Per
    PROVE  Made(d) < 0 \/ Made(d) >= Per
BY Numbers DEF Made, dev, Dev

(* The next call is one more done for each device.                         *)
LEMMA Advance ==
    ASSUME StartType, UNCHANGED program, step' = step + 1
    PROVE  /\ Per' = Per /\ Raw' = Raw /\ Calls' = Calls
           /\ \A d \in Dev : Made(d)' = Made(d) + 1
BY Numbers DEF Per, Raw, Calls, Setup, Finish, Made

(* A device whose turn it is not stays as it is. *)
LEMMA Waits ==
    ASSUME StartType, NEW d \in Dev, Along(d), d # dev \/ step > 2 * Per,
           UNCHANGED program, step' = step + 1,
           soc'[d] = soc[d], known'[d] = known[d], d \in promisc => d \in promisc'
    PROVE  Along(d)'
<1>1. Made(d)' = Made(d) + 1 /\ Raw' = Raw
  BY Advance
<1>2. Made(d) < 0 \/ Made(d) >= Per
  BY Other
<1> QED
  BY <1>1, <1>2, Numbers DEF Along

(* GetDeviceInfo's own socket is open from its second call to its last but *)
(* one.                                                                    *)
LEMMA InfoTurn ==
    ASSUME StartType, UNCHANGED program, step' = step + 1
    PROVE  /\ InfoOpen <=> program = "router" /\ step <= 2 * Per /\ Made(dev) \in 1..4
           /\ InfoOpen' <=> program = "router" /\ step <= 2 * Per /\ Made(dev) + 1 \in 1..4
<1>1. dev \in Dev
  BY DEF dev, Dev
<1>2. \A d \in Dev : d # dev \/ step > 2 * Per => Made(d) \notin 1..4 /\ Made(d) + 1 \notin 1..4
  BY Other, Numbers
<1>3. InfoOpen' <=> program = "router" /\ \E d \in Dev : Made(d) + 1 \in 1..4
  BY Advance DEF InfoOpen
<1> QED
  BY <1>1, <1>2, <1>3, Numbers DEF InfoOpen

-----------------------------------------------------------------------------
(* A call that went well                                                   *)

LEMMA Unheard ==
    ASSUME Heard, Same, UNCHANGED program, program = "router" => promisc' = promisc
    PROVE  Heard'
BY DEF Heard, Same

(* The types, but for the counter and the state. *)
Typed ==
    /\ info \in BOOLEAN /\ caught \in BOOLEAN
    /\ known \in [Dev -> SUBSET InfoNames]
    /\ soc \in [Dev -> {"none", "unbound", "bound"}]
    /\ promisc \in SUBSET Dev
    /\ queue \in [Dev -> Seq(Frame)]

(* A call that goes well takes its own device a step further and leaves    *)
(* the other where it was.                                                 *)
LEMMA Gone ==
    ASSUME StartInv, state = "starting", Go, UNCHANGED program,
           NEW c \in Dev, c = dev,
           \A d \in Dev : d # c \/ step > 2 * Per =>
               soc'[d] = soc[d] /\ known'[d] = known[d] /\ (d \in promisc => d \in promisc'),
           step <= 2 * Per => Along(c)',
           info' <=> InfoOpen',
           step = Calls => caught',
           Typed', Heard'
    PROVE  StartInv'
<1>1. step' = step + 1 /\ state' = IF step = Calls THEN "looping" ELSE "starting"
  BY DEF Go
<1>2. StartType /\ step <= Calls /\ Progress
  BY DEF StartInv
<1>3. Calls' = Calls /\ \A d \in Dev : Made(d)' = Made(d) + 1
  BY <1>1, <1>2, Advance
<1>4. \A d \in Dev : Along(d)'
  <2> TAKE d \in Dev
  <2>1. CASE d = c /\ step <= 2 * Per
    BY <2>1
  <2>2. CASE d # c \/ step > 2 * Per
    BY <1>1, <1>2, <2>2, Waits DEF Progress
  <2> QED
    BY <1>2, <2>1, <2>2, Numbers
<1>5. Progress'
  BY <1>1, <1>2, <1>3, <1>4, Numbers DEF Progress
<1>6. StartType'
  <2>1. step' \in 1 .. (Calls' + 1)
    BY <1>1, <1>2, <1>3, Numbers
  <2>2. state' \in {"starting", "looping"} /\ program' \in {"router", "bridge"}
    BY <1>1, <1>2 DEF StartType
  <2> QED
    BY <2>1, <2>2 DEF StartType, Typed
<1>7. NothingLeft'
  <2> SUFFICES ASSUME state' = "looping" PROVE ~info' /\ \A d \in Dev : soc'[d] # "unbound"
    BY <1>1 DEF NothingLeft
  <2>1. step > 2 * Per
    BY <1>1, <1>2, Numbers
  <2>2. ~InfoOpen'
    BY <1>1, <1>2, <2>1, InfoTurn, Numbers
  <2>3. \A d \in Dev : soc'[d] = soc[d] /\ soc[d] # "unbound"
    BY <1>2, <2>1, Other, Numbers DEF Progress, Along
  <2> QED
    BY <2>2, <2>3
<1> QED
  BY <1>1, <1>2, <1>3, <1>5, <1>6, <1>7, Numbers DEF StartInv

(* A call that failed: what it had opened is closed. *)
LEMMA Failed ==
    ASSUME StartInv, GiveUp, UNCHANGED program, Typed', Heard',
           ~info', \A d \in Dev : soc'[d] # "unbound"
    PROVE  StartInv'
<1>1. Calls' = Calls
  BY DEF Calls, Per, Setup, Finish
<1> QED
  BY <1>1 DEF StartInv, StartType, Typed, NothingLeft, GiveUp

(* The calls of main(), one by one, keep what is said of how far the       *)
(* devices are: the socket of GetDeviceInfo,                               *)
LEMMA SocketKeeps == StartInv /\ Socket => StartInv'
<1> SUFFICES ASSUME StartInv, Socket PROVE StartInv'
  OBVIOUS
<1>1. StartType /\ step <= Calls /\ Progress /\ state = "starting"
  BY DEF StartInv, Socket, At
<1>2. PICK c \in Dev : c = dev
  BY DEF dev, Dev
<1>3. program = "router" /\ Made(c) = 0 /\ step <= 2 * Per
  BY <1>1, <1>2, Place, Numbers DEF Socket, At
<1>4. Heard'
  BY Unheard DEF StartInv, Socket
<1>5. Typed'
  BY <1>1 DEF StartType, Typed, Socket, Same
<1>6. CASE Go /\ info' = TRUE
  <2>1. step' = step + 1
    BY <1>6 DEF Go
  <2>2. Along(c)'
    BY <1>1, <1>3, <2>1, Advance, Numbers DEF Progress, Along, Socket
  <2>3. InfoOpen'
    BY <1>1, <1>2, <1>3, <2>1, InfoTurn DEF Socket
  <2>4. step # Calls
    BY <1>1, <1>3, Numbers
  <2> QED
    BY <1>1, <1>2, <1>4, <1>5, <1>6, <2>2, <2>3, <2>4, Gone DEF Socket
<1>7. CASE GiveUp /\ UNCHANGED info
  <2>1. ~info
    BY <1>1, <1>2, <1>3, Other, Numbers DEF Progress, InfoOpen
  <2>2. \A d \in Dev : soc[d] # "unbound"
    BY <1>1, <1>2, <1>3, Other, Numbers DEF Progress, Along
  <2> QED
    BY <1>4, <1>5, <1>7, <2>1, <2>2, Failed DEF Socket
<1> QED
  BY <1>6, <1>7 DEF Socket

(* the three questions it asks,                                            *)
LEMMA InfoIoctlKeeps == StartInv /\ InfoIoctl => StartInv'
<1> SUFFICES ASSUME StartInv, InfoIoctl PROVE StartInv'
  OBVIOUS
<1>1. StartType /\ step <= Calls /\ Progress /\ state = "starting"
  BY DEF StartInv, InfoIoctl, InfoCall, At
<1>2. PICK c \in Dev : c = dev
  BY DEF dev, Dev
<1>3. /\ program = "router" /\ step <= 2 * Per /\ NextCall \in InfoNames
      /\ NextCall = "SIOCGIFHWADDR" => Made(c) = 1
      /\ NextCall = "SIOCGIFADDR" => Made(c) = 2
      /\ NextCall = "SIOCGIFNETMASK" => Made(c) = 3
  <2>1. NextCall \in InfoNames
    BY DEF InfoIoctl, InfoCall, At, InfoNames
  <2> QED
    BY <1>1, <1>2, <2>1, Place, Numbers DEF InfoNames
<1>4. Heard'
  BY Unheard DEF StartInv, InfoIoctl
<1>5. CASE Go /\ known' = [known EXCEPT ![dev] = @ \cup {NextCall}] /\ UNCHANGED info
  <2>1. step' = step + 1
    BY <1>5 DEF Go
  <2>2. /\ known'[c] = known[c] \cup {NextCall}
        /\ \A d \in Dev : d # c => known'[d] = known[d]
    BY <1>1, <1>2, <1>5 DEF StartType
  <2>3. Along(c)'
    BY <1>1, <1>3, <2>1, <2>2, Advance, Numbers DEF Progress, Along, InfoIoctl, InfoNames
  <2>4. info /\ InfoOpen'
    BY <1>1, <1>2, <1>3, <2>1, InfoTurn DEF Progress, InfoIoctl, InfoNames
  <2>5. Typed'
    BY <1>1, <1>3, <1>5 DEF StartType, Typed, InfoIoctl, Same
  <2>6. step # Calls
    BY <1>1, <1>3, Numbers
  <2>7. \A d \in Dev : d # c \/ step > 2 * Per =>
            soc'[d] = soc[d] /\ known'[d] = known[d] /\ (d \in promisc => d \in promisc')
    BY <1>1, <1>3, <2>2, Numbers DEF InfoIoctl
  <2>8. UNCHANGED program /\ Go /\ info'
    BY <1>5, <2>4 DEF InfoIoctl
  <2> QED
    BY <1>1, <1>2, <1>4, <2>3, <2>4, <2>5, <2>6, <2>7, <2>8, Gone
<1>6. CASE GiveUp /\ info' = FALSE /\ UNCHANGED known
  <2>1. \A d \in Dev : soc[d] # "unbound"
    BY <1>1, <1>2, <1>3, Other, Numbers DEF Progress, Along, InfoNames
  <2>2. Typed'
    BY <1>1, <1>6 DEF StartType, Typed, InfoIoctl, Same
  <2> QED
    BY <1>4, <1>6, <2>1, <2>2, Failed DEF InfoIoctl
<1> QED
  BY <1>5, <1>6 DEF InfoIoctl

(* its end,                                                                *)
LEMMA CloseInfoKeeps == StartInv /\ CloseInfo => StartInv'
<1> SUFFICES ASSUME StartInv, CloseInfo PROVE StartInv'
  OBVIOUS
<1>1. StartType /\ step <= Calls /\ Progress /\ state = "starting" /\ step' = step + 1
  BY DEF StartInv, CloseInfo, At, Go
<1>2. PICK c \in Dev : c = dev
  BY DEF dev, Dev
<1>3. program = "router" /\ Made(c) = 4 /\ step <= 2 * Per
  BY <1>1, <1>2, Place, Numbers DEF CloseInfo, At
<1>4. Heard' /\ Typed'
  BY <1>1, Unheard DEF StartInv, CloseInfo, StartType, Typed, Same
<1>5. Along(c)'
  BY <1>1, <1>3, Advance, Numbers DEF Progress, Along, CloseInfo
<1>6. ~InfoOpen'
  BY <1>1, <1>2, <1>3, InfoTurn DEF CloseInfo
<1>7. step # Calls
  BY <1>1, <1>3, Numbers
<1> QED
  BY <1>1, <1>2, <1>4, <1>5, <1>6, <1>7, Gone DEF CloseInfo

(* and the packet socket.                                                  *)
LEMMA RawSocketKeeps == StartInv /\ RawSocket => StartInv'
<1> SUFFICES ASSUME StartInv, RawSocket PROVE StartInv'
  OBVIOUS
<1>1. StartType /\ step <= Calls /\ Progress /\ state = "starting"
  BY DEF StartInv, RawSocket, At
<1>2. PICK c \in Dev : c = dev
  BY DEF dev, Dev
<1>3. Made(c) = Raw - 1 /\ step <= 2 * Per
  BY <1>1, <1>2, Place, Numbers DEF RawSocket, At
<1>4. Heard'
  BY Unheard DEF StartInv, RawSocket
<1>5. ~info
  BY <1>1, <1>2, <1>3, Other, Numbers DEF Progress, InfoOpen
<1>6. CASE Go /\ soc' = [soc EXCEPT ![dev] = "unbound"]
  <2>1. step' = step + 1
    BY <1>6 DEF Go
  <2>2. soc'[c] = "unbound" /\ \A d \in Dev : d # c => soc'[d] = soc[d]
    BY <1>1, <1>2, <1>6 DEF StartType
  <2>3. Along(c)'
    <3>1. Made(c)' = Raw /\ Raw' = Raw /\ Made(c) = Raw - 1 /\ Raw \in Nat
      BY <1>1, <1>3, <2>1, Advance, Numbers DEF RawSocket
    <3>2. UNCHANGED <<known, promisc, program>>
      BY DEF RawSocket
    <3>3. Along(c) /\ (program = "bridge" => Raw = 1) /\ (program = "router" => Made(c) > 4)
      BY <1>1, <1>3, BridgeCalls, Numbers DEF Progress
    <3> QED
      BY <2>2, <3>1, <3>2, <3>3 DEF Along
  <2>4. ~InfoOpen'
    BY <1>1, <1>2, <1>3, <2>1, InfoTurn, Numbers DEF RawSocket
  <2>5. Typed'
    BY <1>1, <1>6 DEF StartType, Typed, RawSocket, Same
  <2>6. step # Calls
    BY <1>1, <1>3, Numbers
  <2>7. \A d \in Dev : d # c \/ step > 2 * Per =>
            soc'[d] = soc[d] /\ known'[d] = known[d] /\ (d \in promisc => d \in promisc')
    BY <1>1, <1>3, <2>2, Numbers DEF RawSocket
  <2>8. UNCHANGED program /\ Go /\ ~info'
    BY <1>5, <1>6 DEF RawSocket
  <2> QED
    BY <1>1, <1>2, <1>4, <2>3, <2>4, <2>5, <2>6, <2>7, <2>8, Gone
<1>7. CASE GiveUp /\ UNCHANGED soc
  <2>1. \A d \in Dev : soc[d] # "unbound"
    BY <1>1, <1>2, <1>3, Other, Numbers DEF Progress, Along
  <2>2. Typed'
    BY <1>1, <1>7 DEF StartType, Typed, RawSocket, Same
  <2> QED
    BY <1>4, <1>5, <1>7, <2>1, <2>2, Failed DEF RawSocket
<1> QED
  BY <1>6, <1>7 DEF RawSocket

(* After rawsocket come the index and bind; the bridge sets the flags. *)
LEMMA RawIoctlKeeps == StartInv /\ RawIoctl => StartInv'
<1> SUFFICES ASSUME StartInv, RawIoctl PROVE StartInv'
  OBVIOUS
<1>1. StartType /\ step <= Calls /\ Progress /\ state = "starting"
  BY DEF StartInv, RawIoctl, RawCall, At
<1>2. PICK c \in Dev : c = dev
  BY DEF dev, Dev
<1>a. NextCall \in {"SIOCGIFINDEX", "bind", "SIOCGIFFLAGS", "SIOCSIFFLAGS"}
  BY DEF RawIoctl, RawCall, At
<1>3. /\ step <= 2 * Per
      /\ NextCall = "SIOCGIFINDEX" => Made(c) = Raw
      /\ NextCall = "bind" => Made(c) = Raw + 1
      /\ NextCall = "SIOCGIFFLAGS" => program = "bridge" /\ Made(c) = 3
      /\ NextCall = "SIOCSIFFLAGS" => program = "bridge" /\ Made(c) = 4
  BY <1>1, <1>2, <1>a, Place, Numbers
<1>4. promisc' = promisc \/ program = "bridge"
  BY <1>1, <1>3 DEF RawIoctl, At
<1>5. Heard'
  BY <1>1, <1>4, Unheard DEF StartInv, RawIoctl, StartType
<1>6. Made(c) >= Raw /\ (program = "router" => Made(c) > 4) /\ (program = "bridge" => Raw = 1)
  BY <1>1, <1>3, <1>a, Numbers, BridgeCalls
<1>7. ~info
  BY <1>1, <1>2, <1>3, <1>6, Other, Numbers DEF Progress, InfoOpen
<1>8. CASE /\ Go
           /\ soc' = IF At("bind") THEN [soc EXCEPT ![dev] = "bound"] ELSE soc
           /\ promisc' = IF At("SIOCSIFFLAGS") THEN promisc \cup {dev} ELSE promisc
  <2>1. step' = step + 1
    BY <1>8 DEF Go
  <2>2. /\ soc'[c] = IF NextCall = "bind" THEN "bound" ELSE soc[c]
        /\ \A d \in Dev : d # c => soc'[d] = soc[d]
    BY <1>1, <1>2, <1>8 DEF StartType, At
  <2>3. promisc \subseteq promisc' /\ (NextCall = "SIOCSIFFLAGS" => c \in promisc')
    BY <1>1, <1>2, <1>8 DEF At
  <2>4. Along(c)'
    <3>1. Made(c)' = Made(c) + 1 /\ Raw' = Raw
      BY <1>1, <2>1, Advance DEF RawIoctl
    <3>2. (soc[c])' = IF Made(c) + 1 < Raw + 2 THEN "unbound" ELSE "bound"
      BY <1>1, <1>3, <1>6, <1>a, <2>2, Numbers DEF Progress, Along
    <3> QED
      BY <1>1, <1>3, <1>6, <1>a, <2>3, <3>1, <3>2, Numbers DEF Progress, Along, RawIoctl
  <2>5. ~InfoOpen'
    BY <1>1, <1>2, <1>3, <1>6, <2>1, InfoTurn, Numbers DEF RawIoctl
  <2>6. Typed'
    BY <1>1, <1>2, <1>8 DEF StartType, Typed, RawIoctl, Same
  <2>7. step # Calls
    BY <1>1, <1>3, Numbers
  <2>8. \A d \in Dev : d # c \/ step > 2 * Per =>
            soc'[d] = soc[d] /\ known'[d] = known[d] /\ (d \in promisc => d \in promisc')
    BY <1>1, <1>3, <2>2, <2>3, Numbers DEF RawIoctl
  <2>9. UNCHANGED program /\ Go /\ ~info'
    BY <1>7, <1>8 DEF RawIoctl
  <2> QED
    BY <1>1, <1>2, <1>5, <2>4, <2>5, <2>6, <2>7, <2>8, <2>9, Gone
<1>9. CASE GiveUp /\ soc' = [soc EXCEPT ![dev] = "none"] /\ UNCHANGED promisc
  <2>1. soc'[c] = "none" /\ \A d \in Dev \ {c} : soc'[d] = soc[d]
    BY <1>1, <1>2, <1>9 DEF StartType, Typed
  <2>2. \A d \in Dev \ {c} : Along(d) /\ (Made(d) < 0 \/ Made(d) >= Per)
    BY <1>1, <1>2, <1>3, Other DEF Progress
  <2>3. \A d \in Dev \ {c} : soc[d] # "unbound"
    BY <1>1, <2>2, Numbers DEF Along
  <2>4. \A d \in Dev : soc'[d] # "unbound"
    BY <2>1, <2>3
  <2>5. Typed'
    BY <1>1, <1>9 DEF StartType, Typed, RawIoctl, Same
  <2> QED
    BY <1>5, <1>7, <1>9, <2>4, <2>5, Failed DEF RawIoctl
<1> QED
  BY <1>8, <1>9 DEF RawIoctl

(* The calls when both devices are set up: none of them changes a device,  *)
(* and the last installs the handlers.                                     *)
LEMMA FinishKeeps ==
    ASSUME StartInv, state = "starting", Go, Same,
           NextCall \in {"DisableIpForward", "pthread_create", "signal"},
           UNCHANGED <<program, info, known, soc, promisc>>,
           caught' = IF NextCall = "signal" THEN TRUE ELSE caught
    PROVE  StartInv'
<1>1. StartType /\ step <= Calls /\ Progress /\ step' = step + 1
  BY DEF StartInv, Go
<1>2. step > 2 * Per
  BY <1>1, Place
<1>3. PICK c \in Dev : c = dev
  BY DEF dev, Dev
<1>4. Heard'
  BY Unheard DEF StartInv
<1>5. Typed'
  BY <1>1 DEF StartType, Typed, Same
<1>6. ~info' /\ ~InfoOpen'
  BY <1>1, <1>2, InfoTurn, Numbers DEF Progress
<1>7. step = Calls => caught'
  BY <1>1, Place
<1>8. ~(step <= 2 * Per)
  BY <1>1, <1>2, Numbers
<1>9. \A d \in Dev : d # c \/ step > 2 * Per =>
          soc'[d] = soc[d] /\ known'[d] = known[d] /\ (d \in promisc => d \in promisc')
  OBVIOUS
<1> QED
  BY <1>3, <1>4, <1>5, <1>6, <1>7, <1>8, <1>9, Gone

-----------------------------------------------------------------------------
(* The loop, the exit and the others                                       *)

(* The loop and the exit go on, or a signal ends the program. *)
Onward ==
    \/ UNCHANGED state
    \/ state' = "killed"
    \/ /\ state \notin {"starting", "killed"}
       /\ state' \in {"joining", "closing", "exited", "crashed", "hung"}

(* What does not touch the calls that are done. *)
LEMMA Stays ==
    ASSUME StartInv, UNCHANGED <<program, step, info, known, promisc, soc>>,
           caught' = caught, queue' \in [Dev -> Seq(Frame)],
           Onward, Heard'
    PROVE  StartInv'
<1>1. /\ Calls' = Calls /\ Raw' = Raw
      /\ \A d \in Dev : Made(d)' = Made(d)
  BY DEF Calls, Per, Raw, Setup, Finish, Made
<1>2. Progress => Progress'
  BY <1>1 DEF Progress, Along, InfoOpen
<1>3. StartType'
  BY <1>1 DEF StartInv, StartType, Onward
<1>4. NothingLeft'
  BY DEF StartInv, NothingLeft, Onward
<1> QED
  BY <1>1, <1>2, <1>3, <1>4 DEF StartInv, Onward

(* A frame that is taken up came by the device of its socket, or was heard *)
(* before the socket was bound.                                            *)
LEMMA HandleKeeps ==
    ASSUME StartInv, NEW d \in Dev, Handle(d)
    PROVE  StartInv'
<1>1. queue \in [Dev -> Seq(Frame)] /\ queue[d] # <<>>
  BY DEF StartInv, StartType, Handle
<1>2. \A q \in Seq(Frame) : q # <<>> =>
         /\ Tail(q) \in Seq(Frame) /\ Len(q) \in Nat /\ 1 \in 1 .. Len(q) /\ Head(q) = q[1]
         /\ \A i \in 1 .. Len(Tail(q)) : Tail(q)[i] = q[i + 1] /\ i + 1 \in 1 .. Len(q)
  OBVIOUS
<1>3. queue' \in [Dev -> Seq(Frame)]
  BY <1>1, <1>2 DEF Handle
<1>4. ASSUME program = "router" PROVE Heard'
  <2>1. promisc' = {}
    BY <1>4 DEF StartInv, Heard, Handle, setup
  <2>2. \A e \in Dev : \A i \in 1 .. Len(queue'[e]) : queue'[e][i].to \in {queue'[e][i].on, 2}
    <3> TAKE e \in Dev
    <3>1. CASE e = d
      <4>1. queue'[e] = Tail(queue[d])
        BY <1>1, <3>1 DEF Handle
      <4> QED
        BY <1>1, <1>2, <1>4, <4>1 DEF StartInv, Heard
    <3>2. CASE e # d
      BY <1>1, <1>4, <3>2 DEF StartInv, Heard, Handle
    <3> QED
      BY <3>1, <3>2
  <2>3. Head(queue[d]).to = d => Head(queue[d]).on = d
    BY <1>1, <1>2, <1>4 DEF StartInv, Heard, Dev
  <2>4. \A h \in handled' : h[1] = h[2]
    BY <1>4, <2>3 DEF StartInv, Heard, Handle
  <2> QED
    BY <2>1, <2>2, <2>4 DEF Heard
<1>5. Heard'
  BY <1>4 DEF Heard, Handle, setup
<1> QED
  BY <1>3, <1>5, Stays DEF Handle, setup, Onward

(* A socket that is closed is one less to close.                           *)
LEMMA CloseKeeps ==
    ASSUME StartInv, NEW d \in Dev, Close(d)
    PROVE  StartInv'
<1>1. StartType /\ NothingLeft /\ state = "closing"
  BY DEF StartInv, Close
<1>2. Calls' = Calls
  BY DEF Calls, Per, Setup, Finish, Close
<1>3. StartType'
  BY <1>1, <1>2 DEF StartType, Close, Same
<1>4. NothingLeft'
  BY <1>1 DEF NothingLeft, Close, StartType
<1>5. Heard'
  BY Unheard DEF StartInv, Close
<1> QED
  BY <1>1, <1>3, <1>4, <1>5 DEF StartInv, Close

(* A frame that comes is heard by the bound sockets of its device and by   *)
(* those not bound yet.                                                    *)
LEMMA ArriveKeeps ==
    ASSUME StartInv, NEW f \in Frame, Arrive(f)
    PROVE  StartInv'
<1>1. queue \in [Dev -> Seq(Frame)]
  BY DEF StartInv, StartType
<1>2. \A q \in Seq(Frame) :
         /\ Append(q, f) \in Seq(Frame) /\ Len(Append(q, f)) = Len(q) + 1 /\ Len(q) \in Nat
         /\ \A i \in 1 .. Len(q) : Append(q, f)[i] = q[i]
         /\ Append(q, f)[Len(q) + 1] = f
  OBVIOUS
<1>3. queue' \in [Dev -> Seq(Frame)]
  BY <1>1, <1>2 DEF Arrive
<1>4. ASSUME program = "router" PROVE Heard'
  <2>1. promisc' = {} /\ promisc = {} /\ f.to \in {f.on, 2}
    BY <1>4 DEF StartInv, Heard, Arrive, setup
  <2>2. \A e \in Dev : \A i \in 1 .. Len(queue'[e]) : queue'[e][i].to \in {queue'[e][i].on, 2}
    <3> TAKE e \in Dev
    <3>1. \A i \in 1 .. Len(queue[e]) : queue[e][i].to \in {queue[e][i].on, 2}
      BY <1>4 DEF StartInv, Heard
    <3>2. CASE queue'[e] = Append(queue[e], f)
      <4> TAKE i \in 1 .. Len(queue'[e])
      <4>1. queue[e] \in Seq(Frame)
        BY <1>1
      <4>2. i \in 1 .. Len(queue[e]) \/ i = Len(queue[e]) + 1
        BY <1>2, <3>2, <4>1
      <4> QED
        BY <1>2, <2>1, <3>1, <3>2, <4>1, <4>2
    <3>3. CASE queue'[e] = queue[e]
      BY <3>1, <3>3
    <3> QED
      BY <3>2, <3>3 DEF Arrive
  <2>3. \A h \in handled' : h[1] = h[2]
    BY <1>4 DEF StartInv, Heard, Arrive
  <2> QED
    BY <2>1, <2>2, <2>3 DEF Heard
<1>5. Heard'
  BY <1>4 DEF Heard, Arrive, setup
<1> QED
  BY <1>3, <1>5, Stays DEF Arrive, setup, Onward

(* Every step keeps the invariant.                                         *)
LEMMA NextStart == StartInv /\ [Next]_vars => StartInv'
<1> SUFFICES ASSUME StartInv, [Next]_vars PROVE StartInv'
  OBVIOUS
<1>q. queue \in [Dev -> Seq(Frame)]
  BY DEF StartInv, StartType
<1>1. CASE Socket
  BY <1>1, SocketKeeps
<1>2. CASE InfoIoctl
  BY <1>2, InfoIoctlKeeps
<1>3. CASE CloseInfo
  BY <1>3, CloseInfoKeeps
<1>4. CASE RawSocket
  BY <1>4, RawSocketKeeps
<1>5. CASE RawIoctl
  BY <1>5, RawIoctlKeeps
<1>6. CASE DisableIpForward
  BY <1>6, FinishKeeps DEF DisableIpForward, At
<1>7. CASE PthreadCreate
  BY <1>7, FinishKeeps DEF PthreadCreate, At
<1>8. CASE Signal
  BY <1>8, FinishKeeps DEF Signal, At
<1>9. CASE Leave
  <2>1. Heard'
    BY <1>9, Unheard DEF StartInv, Leave, setup
  <2> QED
    BY <1>9, <1>q, <2>1, Stays DEF Leave, setup, Same, Onward
<1>10. CASE Join
  <2>1. Heard'
    BY <1>10, Unheard DEF StartInv, Join, setup
  <2> QED
    BY <1>10, <1>q, <2>1, Stays DEF Join, setup, Same, Onward
<1>11. ASSUME NEW d \in Dev, Handle(d) \/ Close(d) PROVE StartInv'
  BY <1>11, HandleKeeps, CloseKeeps
<1>12. CASE BufThread
  <2>1. Heard'
    BY <1>12, Unheard DEF StartInv, BufThread
  <2> QED
    BY <1>12, <1>q, <2>1, Stays DEF BufThread, Same, Onward
<1>13. CASE EndSignal
  <2>1. Heard'
    BY <1>13 DEF StartInv, EndSignal, Heard, setup
  <2> QED
    BY <1>13, <1>q, <2>1, Stays DEF EndSignal, setup, Onward
<1>14. ASSUME NEW f \in Frame, Arrive(f) PROVE StartInv'
  BY <1>14, ArriveKeeps
<1>15. CASE UNCHANGED vars
  <2>1. Heard'
    BY <1>15 DEF StartInv, Heard, vars, setup
  <2> QED
    BY <1>15, <1>q, <2>1, Stays DEF vars, setup, Onward
<1> QED
  BY <1>1, <1>2, <1>3, <1>4, <1>5, <1>6, <1>7, <1>8, <1>9, <1>10, <1>11, <1>12, <1>13,
     <1>14, <1>15 DEF Next, Main

(* How far each device is, at each number of the next call.                *)
LEMMA StartInvariant == Spec => []StartInv
BY InitStart, NextStart, PTL DEF Spec

-----------------------------------------------------------------------------
(* The theorems                                                            *)

(* The loop begins with everything in place (router/main.c:309-353). *)
THEOREM BeginsReady == Spec => []ReadyToRun
<1>1. StartInv => ReadyToRun
  <2> SUFFICES ASSUME StartInv, state = "looping"
               PROVE  /\ \A d \in Dev : soc[d] = "bound"
                      /\ IF program = "bridge" THEN promisc = Dev
                         ELSE \A d \in Dev : Cardinality(known[d]) = 3
                      /\ caught
    BY DEF ReadyToRun
  <2>1. StartType /\ Progress /\ step = Calls + 1
    BY DEF StartInv
  <2>2. \A d \in Dev : Made(d) >= Per
    BY <2>1, Numbers DEF Made
  <2>3. \A d \in Dev : soc[d] = "bound"
    BY <2>1, <2>2, Numbers DEF Progress, Along
  <2>4. program = "bridge" => promisc = Dev
    <3>1. program = "bridge" => \A d \in Dev : d \in promisc
      BY <2>1, <2>2, Numbers DEF Progress, Along
    <3> QED
      BY <2>1, <3>1 DEF StartType
  <2>5. ASSUME program # "bridge", NEW d \in Dev PROVE Cardinality(known[d]) = 3
    <3>1. known[d] = InfoNames
      BY <2>1, <2>2, <2>5, Numbers DEF Progress, Along, StartType, InfoNames
    <3>2. IsFiniteSet({}) /\ Cardinality({}) = 0
      BY FS_EmptySet
    <3>3. IsFiniteSet({"SIOCGIFHWADDR"}) /\ Cardinality({"SIOCGIFHWADDR"}) = 1
      BY FS_Singleton
    <3>4. /\ IsFiniteSet({"SIOCGIFHWADDR"} \cup {"SIOCGIFADDR"})
          /\ Cardinality({"SIOCGIFHWADDR"} \cup {"SIOCGIFADDR"}) = 2
      BY <3>3, FS_AddElement
    <3>5. Cardinality(({"SIOCGIFHWADDR"} \cup {"SIOCGIFADDR"}) \cup {"SIOCGIFNETMASK"}) = 3
      BY <3>4, FS_AddElement
    <3>6. InfoNames = ({"SIOCGIFHWADDR"} \cup {"SIOCGIFADDR"}) \cup {"SIOCGIFNETMASK"}
      BY DEF InfoNames
    <3> QED
      BY <3>1, <3>5, <3>6
  <2>6. caught
    BY <2>1, Numbers DEF Progress
  <2> QED
    BY <2>3, <2>4, <2>5, <2>6
<1> QED
  BY <1>1, StartInvariant, PTL

(* A start that fails leaves no socket that main() does not know of        *)
(* (netutil.c:86-119).                                                     *)
THEOREM LeavesNothing == Spec => []NothingLeft
<1>1. StartInv => NothingLeft
  BY DEF StartInv
<1> QED
  BY <1>1, StartInvariant, PTL

(* The router takes up no frame that its socket has heard of the other     *)
(* device before bind() (netutil.c:27-48, router/main.c:128).              *)
THEOREM TakesItsOwn == Spec => []OwnFrames
<1>1. StartInv => OwnFrames
  BY DEF StartInv, Heard, OwnFrames
<1> QED
  BY <1>1, StartInvariant, PTL

-----------------------------------------------------------------------------
(* The exit                                                                *)

(* While the buffer thread lives, both its devices are open. *)
ThreadHasSockets == thread = "running" => \A d \in Dev : soc[d] = "bound"

(* The exit begins with a signal, and the sockets are closed when the      *)
(* thread is gone: all of them before main() returns.                      *)
OrderlyExit ==
    /\ state \in {"joining", "closing", "exited"} => EndFlag
    /\ state \in {"closing", "exited"} => thread # "running"
    /\ state = "exited" => \A d \in Dev : soc[d] = "none"

(* The thread is the last call but one, and the bridge has none. *)
ExitInv ==
    /\ ThreadHasSockets
    /\ OrderlyExit
    /\ thread \in {"none", "running", "gone"}
    /\ thread = "gone" => EndFlag
    /\ program = "bridge" => thread = "none"
    /\ state = "starting" /\ thread # "none" => step > 2 * Per

(* While a device is set up there is no thread yet (router/main.c:309-353). *)
LEMMA NoThreadYet ==
    ASSUME StartInv, ExitInv, state = "starting", step <= 2 * Per, UNCHANGED thread,
           Same, UNCHANGED program, Go \/ GiveUp
    PROVE  ExitInv'
<1>1. thread = "none"
  BY Numbers DEF StartInv, ExitInv
<1> QED
  BY <1>1 DEF ExitInv, ThreadHasSockets, OrderlyExit, Same, Go, GiveUp

(* A call after that leaves the devices as they are. *)
LEMMA ThreadFinds ==
    ASSUME StartInv, ExitInv, state = "starting", step > 2 * Per,
           Go, Same, UNCHANGED <<program, soc>>,
           \/ UNCHANGED thread
           \/ program = "router" /\ thread' \in {"none", "running"}
    PROVE  ExitInv'
<1>1. StartType /\ Progress
  BY DEF StartInv
<1>2. \A d \in Dev : Made(d) >= Per
  BY <1>1, Numbers DEF Made
<1>3. \A d \in Dev : soc[d] = "bound"
  BY <1>1, <1>2, Numbers DEF Progress, Along
<1>4. step' > 2 * Per' /\ state' \in {"starting", "looping"}
  BY <1>1, Advance, Numbers DEF Go
<1> QED
  BY <1>3, <1>4 DEF ExitInv, ThreadHasSockets, OrderlyExit, Same

(* What neither starts the thread nor opens or closes a socket. *)
LEMMA ExitStays ==
    ASSUME ExitInv, UNCHANGED <<program, step, soc>>, EndFlag => EndFlag',
           OrderlyExit',
           \/ UNCHANGED thread
           \/ thread = "running" /\ thread' = "gone" /\ EndFlag',
           state' = "starting" => state = "starting"
    PROVE  ExitInv'
<1>1. Per' = Per
  BY DEF Per, Setup
<1> QED
  BY <1>1 DEF ExitInv, ThreadHasSockets

(* The sockets are closed when the thread is gone (router/main.c:359-362). *)
LEMMA CloseExit ==
    ASSUME StartInv, ExitInv, NEW d \in Dev, Close(d)
    PROVE  ExitInv'
<1>1. state = "closing" /\ EndFlag' /\ thread # "running" /\ UNCHANGED <<program, thread>>
  BY DEF Close, Same, ExitInv, OrderlyExit
<1>2. state' = "exited" => \A e \in Dev : soc'[e] = "none"
  BY <1>1 DEF Close, Dev, StartInv, StartType
<1>3. state' \in {"closing", "exited"}
  BY <1>1 DEF Close
<1> QED
  BY <1>1, <1>2, <1>3 DEF ExitInv, ThreadHasSockets, OrderlyExit

(* Every step keeps the exit in order.                                     *)
LEMMA NextExit == StartInv /\ ExitInv /\ [Next]_vars => ExitInv'
<1> SUFFICES ASSUME StartInv, ExitInv, [Next]_vars PROVE ExitInv'
  OBVIOUS
<1>0. StartType /\ (state = "starting" => step <= Calls)
  BY DEF StartInv
<1>1. CASE Socket \/ InfoIoctl \/ CloseInfo \/ RawSocket \/ RawIoctl
  <2>1. state = "starting" /\ NextCall \in
            {"socket", "close", "rawsocket", "SIOCGIFINDEX", "bind", "SIOCGIFFLAGS",
             "SIOCSIFFLAGS"} \cup InfoNames
    BY <1>1 DEF Socket, InfoIoctl, InfoCall, CloseInfo, RawSocket, RawIoctl, RawCall, At, InfoNames
  <2>2. NextCall \notin {"DisableIpForward", "pthread_create", "signal"}
    BY <2>1 DEF InfoNames
  <2>3. step <= 2 * Per
    BY <1>0, <2>1, <2>2, Place, Numbers
  <2>4. UNCHANGED <<program, thread>> /\ Same /\ (Go \/ GiveUp)
    BY <1>1 DEF Socket, InfoIoctl, CloseInfo, RawSocket, RawIoctl
  <2> QED
    BY <2>1, <2>3, <2>4, NoThreadYet
<1>2. CASE DisableIpForward \/ PthreadCreate \/ Signal
  <2>1. /\ state = "starting" /\ Go /\ Same /\ UNCHANGED <<program, soc>>
        /\ NextCall \in {"DisableIpForward", "pthread_create", "signal"}
        /\ \/ UNCHANGED thread
           \/ NextCall = "pthread_create" /\ thread' \in {"none", "running"}
    BY <1>2 DEF DisableIpForward, PthreadCreate, Signal, At
  <2>2. step > 2 * Per
    BY <1>0, <2>1, Place
  <2>3. NextCall = "pthread_create" => program = "router"
    BY <1>0, <2>1, BridgeCalls, BridgePlaces DEF StartType
  <2> QED
    BY <2>1, <2>2, <2>3, ThreadFinds
<1>3. CASE Leave
  <2>1. /\ state = "looping" /\ EndFlag /\ UNCHANGED <<step, program, soc, thread, EndFlag>>
        /\ state' = IF program = "router" THEN "joining" ELSE "closing"
    BY <1>3 DEF Leave, setup, Same
  <2>2. program = "bridge" => thread = "none"
    BY DEF ExitInv
  <2>3. OrderlyExit'
    BY <1>0, <2>1, <2>2 DEF OrderlyExit, StartType
  <2> QED
    BY <2>1, <2>3, ExitStays
<1>4. CASE Join
  <2>1. /\ state = "joining" /\ UNCHANGED <<step, program, soc, thread, EndFlag>>
        /\ thread # "running" /\ state' \in {"closing", "crashed", "hung"}
    BY <1>4 DEF Join, setup, Same
  <2>2. OrderlyExit'
    BY <2>1 DEF ExitInv, OrderlyExit
  <2> QED
    BY <2>1, <2>2, ExitStays
<1>5. ASSUME NEW d \in Dev, Handle(d) PROVE ExitInv'
  <2>1. UNCHANGED <<step, state, program, soc, thread, EndFlag>>
    BY <1>5 DEF Handle, setup
  <2>2. OrderlyExit'
    BY <2>1 DEF ExitInv, OrderlyExit
  <2> QED
    BY <2>1, <2>2, ExitStays
<1>6. ASSUME NEW d \in Dev, Close(d) PROVE ExitInv'
  BY <1>6, CloseExit
<1>7. CASE BufThread
  <2>1. /\ thread = "running" /\ thread' = "gone" /\ EndFlag /\ state \in {"looping", "joining"}
        /\ UNCHANGED <<step, state, program, soc, EndFlag>>
    BY <1>7 DEF BufThread, Same
  <2>2. OrderlyExit'
    BY <2>1 DEF ExitInv, OrderlyExit
  <2> QED
    BY <2>1, <2>2, ExitStays
<1>8. CASE EndSignal
  <2>1. /\ state \in {"starting", "looping"} /\ UNCHANGED <<step, program, soc, thread>>
        /\ (EndFlag => EndFlag') /\ (state' = state \/ state' = "killed")
    BY <1>8 DEF EndSignal, setup
  <2>2. OrderlyExit'
    BY <2>1 DEF OrderlyExit
  <2> QED
    BY <2>1, <2>2, ExitStays
<1>9. ASSUME UNCHANGED vars \/ \E f \in Frame : Arrive(f) PROVE ExitInv'
  <2>1. UNCHANGED <<step, state, program, soc, thread, EndFlag>>
    BY <1>9 DEF Arrive, setup, vars
  <2>2. OrderlyExit'
    BY <2>1 DEF ExitInv, OrderlyExit
  <2> QED
    BY <2>1, <2>2, ExitStays
<1> QED
  BY <1>1, <1>2, <1>3, <1>4, <1>5, <1>6, <1>7, <1>8, <1>9 DEF Next, Main

(* Where the thread is, and what it finds.                                 *)
LEMMA ExitInvariant == Spec => []ExitInv
<1>1. Init => ExitInv
  BY DEF Init, ExitInv, ThreadHasSockets, OrderlyExit
<1> QED
  BY <1>1, NextExit, StartInvariant, PTL DEF Spec

(* The buffer thread never holds the number of a socket that is not bound  *)
(* yet, or closed: whatever fails at the start, whenever the signal comes  *)
(* (router/main.c:344, main.c:359-362).                                    *)
THEOREM ThreadIsSafe == Spec => []ThreadHasSockets
<1>1. ExitInv => ThreadHasSockets
  BY DEF ExitInv
<1> QED
  BY <1>1, ExitInvariant, PTL

(* The program ends by main() only after a signal, when its thread is gone *)
(* and then its sockets: what EndsInOrder says, but for that it happens    *)
(* (router/main.c:355-362).                                                *)
THEOREM ExitsInOrder == Spec => []OrderlyExit
<1>1. ExitInv => OrderlyExit
  BY DEF ExitInv
<1> QED
  BY <1>1, ExitInvariant, PTL
=============================================================================
