------------------------------- MODULE SbMeta -------------------------------
(***************************************************************************)
(* tools/sectool/sbmeta.py: build sbmeta.bin, one record per image of      *)
(* sbmeta.yaml, signing the images that are not signed yet by running      *)
(* imagesign.sh.                                                           *)
(*                                                                         *)
(* The script works through the list three times over: the whole list is   *)
(* checked, then every image is signed, digested and recorded, then the    *)
(* file is padded to its size.  Between builds the user replaces images    *)
(* and edits the list; signed files of earlier builds stay where they are. *)
(*                                                                         *)
(* The content of a file is what was built (data) and the signature header *)
(* it has, so that a digest is the content itself.  A record has a fixed   *)
(* size, of which Slots fit the file exactly.                              *)
(***************************************************************************)
EXTENDS Naturals, Sequences

CONSTANTS
  Types,       \* image_type_enums
  Signable,    \* of these, the ones imagesign.sh knows
  Paths,       \* files an image_path may name
  SignInput,   \* the file imagesign.sh signs for each of its types
  Data,        \* what an image may contain
  Versions,    \* version strings of the form x.y, up to 255
  Default,     \* default_version
  Configs,     \* lists of images sbmeta.yaml may hold
  Slots,       \* records that fit the file: 4096 / 128
  Faults,      \* programs that may fail: "signtool"
  Missing,     \* no such file, field or digest
  Invalid      \* a field with a value the code does not know

Schemes == {"none", "rsa_2048", "sm2"}
Content ==
  [data : Data, scheme : Schemes \cup {Invalid}, version : Versions \cup {Missing}]
Plain == [data : Data, scheme : {"none"}, version : {Missing}]
Entries ==
  [type : Types \cup {Invalid}, path : Paths \cup {Missing},
   algorithm : {"nor", "ia", "sm", Missing, Invalid},
   version : Versions \cup {Invalid}, checksum : {"none", "sha256", Invalid},
   fields : {"good", "encryption", "other"}] \* which other field is not there

ASSUME SbMetaAssumption ==
  /\ Signable \subseteq Types
  /\ SignInput \in [Signable -> Paths]
  /\ Default \in Versions
  /\ Configs \subseteq Seq(Entries)
  /\ Slots \in Nat \ {0}
  /\ Faults \subseteq {"signtool"}
  /\ Missing \notin Content

Names == [type : Signable, algorithm : {"ia", "sm"}, version : Versions]
Records == [type : Types, scheme : Schemes, digest : Content \cup {Missing}]
Rests == {"none", "torn", "padding"} \* torn: a part of another record

VARIABLES
  files,   \* the images, by path
  signed,  \* the signed images, by the name imagesign.sh gives them
  list,    \* sbmeta.yaml
  info,    \* what the check found out about each image
  out,     \* sbmeta.bin: its whole records and what follows them
  pc,      \* what is done next
  k,       \* with which image
  result,  \* of the last build
  spoiled  \* history: images of the list the sign tool failed on

vars == <<files, signed, list, info, out, pc, k, result, spoiled>>

Image == list[k]

SchemeOf(algorithm) ==
  [nor |-> "none", ia |-> "rsa_2048", sm |-> "sm2"][algorithm]

Read(path) == IF path = Missing THEN Missing ELSE files[path]

VersionOf(image) == IF image.version \in Versions THEN image.version ELSE Default

NameOf(image) ==
  [type |-> image.type, algorithm |-> image.algorithm, version |-> VersionOf(image)]

Ends(res) ==
  /\ pc' = "idle"
  /\ result' = res
  /\ info' = <<>>
  /\ k' = 0

Fail == Ends("failed")

(* sign_image has work to do for the image.                                *)
ToSign(image, about) ==
  about.exists /\ ~ about.secure /\ image.algorithm # "nor"

IsSecure(image) ==
  Read(image.path) # Missing /\ Read(image.path).scheme # "none"
-----------------------------------------------------------------------------
(* Slips: definitions as they would be with one line wrong, each named for *)
(* the property it would break.  Next uses none of them.                   *)

(* WholeMeansDone: the output is opened once the list is known to be one.  *)
BuildsOver(config) ==
  /\ pc = "idle"
  /\ list' = config
  /\ out' = IF config = <<>> THEN out ELSE [records |-> <<>>, rest |-> "none"]
  /\ pc' = "check"
  /\ result' = "none"
  /\ spoiled' = {}
  /\ UNCHANGED <<files, signed, info, k>>

(* DigestsInstalled: the image itself is digested when it had to be signed. *)
DigestsOriginal(image, about) == Read(image.path)

(* SignsImages: a signed file that is there is taken to be this image.     *)
SignsOnlyNew ==
  /\ pc = "sign"
  /\ pc' = "add"
  /\ IF /\ ToSign(Image, info[k])
        /\ Image.type \in Signable
        /\ signed[NameOf(Image)] = Missing
        /\ files[SignInput[Image.type]] # Missing
     THEN signed' = [signed EXCEPT ![NameOf(Image)] =
            [data |-> files[SignInput[Image.type]].data,
             scheme |-> SchemeOf(Image.algorithm), version |-> VersionOf(Image)]]
     ELSE UNCHANGED signed
  /\ UNCHANGED <<files, list, info, out, k, result, spoiled>>

(* SchemesHold: the algorithm of the list is recorded without a look at    *)
(* the header of the image.                                                *)
TrustsList(image) ==
  [exists |-> Read(image.path) # Missing, secure |-> FALSE,
   scheme |-> IF image.algorithm \in {"nor", "ia", "sm"}
              THEN SchemeOf(image.algorithm) ELSE "none"]
-----------------------------------------------------------------------------
Init ==
  /\ files \in [Paths -> Plain \cup {Missing}]
  /\ signed = [n \in Names |-> Missing]
  /\ list = <<>>
  /\ info = <<>>
  /\ out = [records |-> <<>>, rest |-> "none"]
  /\ pc = "idle"
  /\ k = 0
  /\ result = "none"
  /\ spoiled = {}

(* The user puts another image in place, a plain one or one signed before. *)
Replace(path) ==
  /\ pc = "idle"
  /\ \E content \in Plain \cup {Missing} \cup
         [data : Data, scheme : {"rsa_2048", Invalid}, version : {Default}] :
       files' = [files EXCEPT ![path] = content]
  /\ result' = "none"
  /\ UNCHANGED <<signed, list, info, out, pc, k, spoiled>>

(* pack_sbmeta opens its output, which empties it, and reads the list.     *)
Build(config) ==
  /\ pc = "idle"
  /\ list' = config
  /\ out' = [records |-> <<>>, rest |-> "none"]
  /\ pc' = "check"
  /\ result' = "none"
  /\ spoiled' = {}
  /\ UNCHANGED <<files, signed, info, k>>

(* An image that is signed already needs no algorithm, but a header with a *)
(* scheme that is not in the list raises an exception.                     *)
Accepted(image) ==
  IF IsSecure(image) THEN Read(image.path).scheme \in Schemes
  ELSE image.algorithm \in {"nor", "ia", "sm"}

AboutImage(image) ==
  [exists |-> Read(image.path) # Missing,
   secure |-> IsSecure(image),
   scheme |-> IF IsSecure(image) THEN Read(image.path).scheme
              ELSE SchemeOf(image.algorithm)]

(* The check of the whole list, before anything is signed.                 *)
check_config_yaml ==
  /\ pc = "check"
  /\ \/ /\ list # <<>>
        /\ \A j \in DOMAIN list : Accepted(list[j])
        /\ info' = [j \in DOMAIN list |-> AboutImage(list[j])]
        /\ k' = 1
        /\ pc' = "sign"
        /\ UNCHANGED result
     \/ /\ \/ list = <<>>
           \/ \E j \in DOMAIN list : ~ Accepted(list[j])
        /\ Fail
  /\ UNCHANGED <<files, signed, list, out, spoiled>>

(* imagesign.sh signs the file it has for the type, whatever image_path    *)
(* says.  It announces the signed file before it runs the sign tool and    *)
(* does not look at what that returns; for a type it does not know it only *)
(* says so.  Its own status is 0 in every case.                            *)
imagesign(name) ==
  LET input == files[SignInput[name.type]] IN
  \/ /\ input # Missing
     /\ signed' = [signed EXCEPT ![name] =
          [data |-> input.data, scheme |-> SchemeOf(name.algorithm),
           version |-> name.version]]
     /\ UNCHANGED spoiled
  \/ /\ input = Missing
     /\ UNCHANGED <<signed, spoiled>>
  \/ /\ "signtool" \in Faults
     /\ spoiled' = spoiled \cup {k}
     /\ UNCHANGED signed

sign_image ==
  /\ pc = "sign"
  /\ \/ /\ ToSign(Image, info[k])
        /\ Image.type = Invalid \/ Image.fields = "encryption"
        /\ Fail
        /\ UNCHANGED <<signed, spoiled>>
     \/ /\ ToSign(Image, info[k])
        /\ Image.type \in Signable /\ Image.fields # "encryption"
        /\ imagesign(NameOf(Image))
        /\ pc' = "add"
        /\ UNCHANGED <<result, info, k>>
     \/ /\ ToSign(Image, info[k]) =>
             Image.type \in Types \ Signable /\ Image.fields # "encryption"
        /\ pc' = "add"
        /\ UNCHANGED <<signed, result, info, k, spoiled>>
  /\ UNCHANGED <<files, list, out>>

(* The file that is digested: the signed one, if it was announced and is   *)
(* there, and else the image.                                              *)
Digested(image, about) ==
  IF /\ ToSign(image, about)
     /\ image.type \in Signable
     /\ signed[NameOf(image)] # Missing
  THEN signed[NameOf(image)] ELSE Read(image.path)

(* An image that is not there needs no digest.                             *)
Digestible(image, about) == about.exists => image.checksum # Invalid

(* The fields are there, with values add_image knows.  Whether an image is *)
(* encrypted may come from its header.                                     *)
Recordable(image, about) ==
  /\ image.type # Invalid /\ image.checksum # Invalid
  /\ image.fields = "good" \/ (image.fields = "encryption" /\ about.secure)

RecordOf(image, about) ==
  [type |-> image.type, scheme |-> about.scheme,
   digest |-> IF about.exists /\ image.checksum # "none"
              THEN Digested(image, about) ELSE Missing]

(* get_image_digest and add_image, which writes field by field: a field it *)
(* cannot pack leaves the ones before it in the file.                      *)
add_image ==
  /\ pc = "add"
  /\ \/ /\ Recordable(Image, info[k])
        /\ out' = [out EXCEPT !.records = Append(@, RecordOf(Image, info[k]))]
        /\ k' = k + 1
        /\ pc' = IF k = Len(list) THEN "pad" ELSE "sign"
        /\ UNCHANGED <<result, info>>
     \/ /\ ~ Recordable(Image, info[k])
        /\ Fail
        /\ \/ /\ ~ Digestible(Image, info[k]) \/ Image.fields = "other"
              /\ UNCHANGED out
           \/ /\ Digestible(Image, info[k])
              /\ out' = [out EXCEPT !.rest = "torn"]
  /\ UNCHANGED <<files, signed, list, spoiled>>

(* A list that fills the file to the last byte is refused as well, with    *)
(* every record of it written.                                             *)
padding_image ==
  /\ pc = "pad"
  /\ \/ /\ Len(out.records) < Slots
        /\ out' = [out EXCEPT !.rest = "padding"]
        /\ Ends("done")
     \/ /\ Len(out.records) >= Slots
        /\ Fail
        /\ UNCHANGED out
  /\ UNCHANGED <<files, signed, list, spoiled>>

Next ==
  \/ \E path \in Paths : Replace(path)
  \/ \E config \in Configs : Build(config)
  \/ check_config_yaml
  \/ sign_image
  \/ add_image
  \/ padding_image

Spec == Init /\ [][Next]_vars
-----------------------------------------------------------------------------
(* Every variable keeps to its type, and the build within its list.        *)
TypeOK ==
  /\ files \in [Paths -> Content \cup {Missing}]
  /\ signed \in [Names -> Content \cup {Missing}]
  /\ list \in Configs \cup {<<>>}
  /\ out \in [records : Seq(Records), rest : Rests]
  /\ pc \in {"idle", "check", "sign", "add", "pad"}
  /\ result \in {"none", "done", "failed"}
  /\ pc # "idle" => result = "none"
  /\ pc = "check" => Len(out.records) = 0
  /\ pc \in {"sign", "add"} => k \in DOMAIN list /\ Len(out.records) = k - 1
  /\ pc = "pad" \/ result = "done" => Len(out.records) = Len(list)

(* What a build of the list leaves to be installed for image j.            *)
Installed(j) ==
  IF /\ Read(list[j].path) # Missing
     /\ ~ IsSecure(list[j])
     /\ list[j].algorithm \in {"ia", "sm"}
     /\ list[j].type \in Signable
     /\ signed[NameOf(list[j])] # Missing
  THEN signed[NameOf(list[j])] ELSE Read(list[j].path)

(* sbmeta.bin has the 4096 bytes of a file that was built.                 *)
FullSize ==
  \/ out.rest = "padding"
  \/ (out.rest = "none" /\ Len(out.records) = Slots)

(* What an sbmeta.bin of full size says of its build.  Its records are     *)
(* those of the list at hand, one for one in its order, never those of an  *)
(* earlier build, whatever step this one failed in; and only a list that   *)
(* does not fit with padding leaves one without success.  Such a list is   *)
(* recorded up to the last slot and then refused.                          *)
WholeMeansDone ==
  FullSize =>
    /\ \A j \in DOMAIN out.records :
         j \in DOMAIN list /\ out.records[j].type = list[j].type
    /\ IF Len(list) < Slots
       THEN result # "failed" /\ Len(out.records) = Len(list)
       ELSE result # "done" /\ Len(out.records) = Slots

(* The digest recorded for an image is the digest of what is installed,    *)
(* though signed files of other builds lie around.                         *)
DigestsInstalled ==
  result = "done" =>
    \A j \in DOMAIN list :
      out.records[j].digest # Missing => out.records[j].digest = Installed(j)

(* The images of the list that imagesign.sh can sign: it knows the type    *)
(* and signs the very file image_path names.                               *)
Served(j) ==
  /\ list[j].type \in Signable
  /\ list[j].path = SignInput[list[j].type]

(* Where the sign tool has not failed, the scheme recorded for an image    *)
(* that imagesign.sh can sign, or that needs no signature, is that of the  *)
(* file to be installed, whatever earlier builds have left.                *)
SchemesHold ==
  result = "done" =>
    \A j \in DOMAIN list \ spoiled :
      /\ Read(list[j].path) # Missing
      /\ Served(j) \/ list[j].algorithm = "nor" \/ IsSecure(list[j])
      => out.records[j].scheme = Installed(j).scheme

(* The plain image is signed as the list says, and nothing in its place.   *)
Signed(j) ==
  /\ Read(list[j].path) \in Plain
  /\ list[j].algorithm \in {"ia", "sm"}
  => /\ Installed(j).data = Read(list[j].path).data
     /\ Installed(j).scheme = SchemeOf(list[j].algorithm)
     /\ Installed(j).version = VersionOf(list[j])

(* A build that succeeds has signed every plain image imagesign.sh can     *)
(* sign, where the sign tool has not failed: an older signed image of the  *)
(* same name is never taken for the new one.                               *)
SignsImages ==
  result = "done" => \A j \in DOMAIN list \ spoiled : Served(j) => Signed(j)

(* sbmeta.yaml: "if image_path points to a valid image without secure      *)
(* header, sbmeta.py script will sign the image by specified algorithm and *)
(* version."  So it has signed every plain image of the list: this image,  *)
(* not one an earlier build found under the same path.                     *)
SignsAsDocumented ==
  result = "done" => \A j \in DOMAIN list : Signed(j)
=============================================================================
