----------------------------- MODULE MCAesDemo -----------------------------
(* Instance of AesDemo for TLC: two clients with a key and a vector each.  *)
EXTENDS AesDemo, TLC

CONSTANTS s1, s2, k1, k2, iv1, iv2

MCKeyOf == s1 :> k1 @@ s2 :> k2
MCIvOf == s1 :> iv1 @@ s2 :> iv2
=============================================================================
