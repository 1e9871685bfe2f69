------------------------------ MODULE MCDevice ------------------------------
(* Instance of DeviceDemo for TLC: a buffer of two bytes, and a security   *)
(* element with an answer of one byte, one that fills the buffer and one   *)
(* that is too long and ends like the header of another.                   *)
EXTENDS DeviceDemo, TLC

MCSaid == {<<\h42>>, <<\h90, 0>>, <<0, \hAA, \h55>>}
MCGarbage == {0, \hAA}
=============================================================================
