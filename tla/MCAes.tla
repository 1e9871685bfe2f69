------------------------------- MODULE MCAes -------------------------------
(* Instance of AesTA for TLC: a client that sends any command.             *)
EXTENDS AesProps
=============================================================================
