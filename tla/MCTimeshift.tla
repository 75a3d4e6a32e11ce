---------------------------- MODULE MCTimeshift ----------------------------
EXTENDS TimeshiftBuffer

(* Every other byte begins a packet; of the payload some bytes look like    *)
(* sync bytes, a packet apart and alone.                                    *)
MCSyncBytes == {byte \in 1..MaxBytes : byte % 2 = 1} \cup {4, 6, 8, 14, 18, 20, 26}
=============================================================================
