---------------------------- MODULE MCSbMetaUpdate ----------------------------
(* Instances of SbMetaUpdate for TLC: a board alone, and two in turn, the  *)
(* last of which has no directory; a tee.ext4 with both images, and one    *)
(* made as bin2ext4/Readme says, with tee.bin alone.                       *)
EXTENDS SbMetaUpdate

CONSTANTS LA, LB, SOM

MCModes == {<<LA>>, <<LB, SOM>>}

Complete == {Parts}
TeeAlone == {Parts, {"tee"}}
=============================================================================
