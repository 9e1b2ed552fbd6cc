----------------------------- MODULE PatchCable -----------------------------
(***************************************************************************)
(* What a bridge promises the machines on its two sides: a cable from one  *)
(* to the other.  Frames go across in the order they came, each once and   *)
(* whole, or they are lost.                                                *)
(***************************************************************************)
EXTENDS Integers, Sequences

CONSTANT Packet     \* what the machines send

VARIABLES
    in,     \* in[d]: frames that came from side d and are not across yet
    out     \* out[d]: frames put on side d and not yet taken there

Side == {0, 1}

Init == in = [d \in Side |-> <<>>] /\ out = [d \in Side |-> <<>>]

(* A machine of a side sends a frame; on a segment that both sides join,   *)
(* it comes to both.                                                       *)
Come(sides, c) ==
    /\ in' = [d \in Side |-> IF d \in sides THEN Append(in[d], c) ELSE in[d]]
    /\ UNCHANGED out

Cross(d) ==
    /\ in[d] # <<>>
    /\ in' = [in EXCEPT ![d] = Tail(@)]
    /\ out' = [out EXCEPT ![1 - d] = Append(@, Head(in[d]))]

Lose(d) ==
    /\ in[d] # <<>>
    /\ in' = [in EXCEPT ![d] = Tail(@)]
    /\ UNCHANGED out

(* A frame reaches a machine, and the other side if that is the same segment. *)
Reach(d) ==
    /\ out[d] # <<>>
    /\ out' = [out EXCEPT ![d] = Tail(@)]
    /\ in' \in {in, [in EXCEPT ![1 - d] = Append(@, Head(out[d]))]}

Next ==
    \/ \E sides \in SUBSET Side, c \in Packet : Come(sides, c)
    \/ \E d \in Side : Cross(d) \/ Lose(d) \/ Reach(d)

Spec == Init /\ [][Next]_<<in, out>>

=============================================================================
