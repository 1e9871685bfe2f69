---------------------------- MODULE MCStorageDemo ----------------------------
(* Instance of StorageDemo for TLC: two clients with contents of their own, *)
(* one of which fits only an empty heap, and a content that never fits and *)
(* so starts the leak.                                                     *)
EXTENDS StorageDemo, TLC

CONSTANTS c1, c2, small, large, huge

MCSizeOf == small :> 1 @@ large :> 3 @@ huge :> 5 @@ Empty :> 0
MCDataOf == c1 :> small @@ c2 :> large
=============================================================================
