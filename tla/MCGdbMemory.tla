----------------------------- MODULE MCGdbMemory -----------------------------
(* GdbMemory on a small instance, in which no two bytes are the same. *)
EXTENDS GdbMemory

MCBytes == 0 .. 255
MCValues == [Offsets -> MCBytes]
MCContents == {[a \in Memory!Addresses |-> [b \in Offsets |-> 4 * a + b]]}
MCSent == [i \in 1 .. Limit |-> 100 + i]
=============================================================================
