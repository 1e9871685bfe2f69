---------------------------- MODULE MCImageSign ----------------------------
(* Instance of ImageSign for TLC.                                          *)
EXTENDS ImageSign, TLC

CONSTANTS kernel, dtb, d1, d2, LA

MCBootFiles == <<kernel, dtb>>
MCVersions == {<<255, 0>>, <<1>>, <<0, 256>>}

Ask(algo, attr, type, version, board) ==
  [algo |-> algo, attr |-> attr, type |-> type, version |-> version,
   board |-> board]

(* Both algorithms for u-boot, versions at the edges, one without its      *)
(* second half, and one that is refused.                                   *)
MCRequests ==
  {Ask("ia", "nor", "tf", <<1>>, NoBoard),
   Ask("ia", "nor", "uboot", <<255, 0>>, LA),
   Ask("sm", "nor", "uboot", <<255, 0>>, LA),
   Ask("sm", "enc", "ree", <<255, 0>>, NoBoard),
   Ask("sm", "nor", "tf", <<0, 256>>, NoBoard)}

Symmetry == Permutations(Data)
=============================================================================
