----------------------------- MODULE MCChecksum ----------------------------
(***************************************************************************)
(* Bytes of one bit, so words of two bits and a sum of four.               *)
(***************************************************************************)
EXTENDS Checksum, SequencesExt

Bytes   == 0..(Base - 1)
Headers == {s \in SeqOf(Bytes, 6) : Len(s) \in {4, 6}}
Options == SeqOf(Bytes, 5)

=============================================================================
