------------------------------ MODULE MCSbMeta ------------------------------
(* Instances of SbMeta for TLC.  tf stands for the types imagesign.sh      *)
(* knows, dtb for those it does not; "b" is a path of the user's choosing. *)
EXTENDS SbMeta, TLC

CONSTANTS tf, dtb, a, b, v12, v21

MCSignInput == tf :> a

Entry(type, path, algorithm) ==
  [type |-> type, path |-> path, algorithm |-> algorithm, version |-> v21,
   checksum |-> "sha256", fields |-> "good"]

(* What imagesign.sh can sign, at the path it signs, and what needs no     *)
(* signature.                                                              *)
Proper ==
  {Entry(tf, a, "ia"), [Entry(tf, a, "sm") EXCEPT !.version = Invalid],
   [Entry(tf, a, "sm") EXCEPT !.checksum = "none"], Entry(dtb, b, "nor"),
   Entry(dtb, Missing, "ia")}

BadChecksum == [Entry(dtb, b, "nor") EXCEPT !.checksum = Invalid]
BadType == Entry(Invalid, b, "nor")

(* Every mistake the script looks for, and some it does not.               *)
Odd ==
  {Entry(tf, b, "sm"), Entry(dtb, b, "ia"),
   Entry(dtb, a, Missing), Entry(Invalid, b, "ia"), BadType, BadChecksum,
   [Entry(dtb, a, "nor") EXCEPT !.fields = "other"],
   [Entry(tf, a, "sm") EXCEPT !.fields = "encryption"]}

(* As many images as there are slots.                                      *)
Full == <<Entry(tf, a, "ia"), Entry(dtb, b, "nor"), Entry(tf, a, "nor")>>

(* No list has two images to be signed under one name.                     *)
MCConfigs ==
  {<<>>} \cup {<<e>> : e \in Proper \cup Odd}
  \cup {p \in Proper \X Proper : p[1] # p[2]}
  \cup {p \in Proper \X Odd : p[1] = Entry(tf, a, "ia")}
  \cup {p \in Odd \X Proper : p[2] = Entry(tf, a, "ia")}
  \cup {Full}
  \cup {Append(Full, e) : e \in {Entry(dtb, b, "nor"), BadChecksum, BadType}}

Symmetry == Permutations(Data)

(* An image of each kind that is to be signed.                             *)
UnsignedConfigs == {<<Entry(tf, a, "ia")>>, <<Entry(dtb, b, "ia")>>}
=============================================================================
