----------------------------- MODULE ImageSign -----------------------------
(***************************************************************************)
(* tools/sectool/imagesign.sh: sign one image, or the files inside the     *)
(* boot image, with one of two algorithms, encrypted or not.               *)
(*                                                                         *)
(* Every run works on files of fixed names.  The images tee, tf and sbmeta *)
(* are signed in one go.  A u-boot image is put together from two parts,   *)
(* whose files are shared by both algorithms and both attributes.  The     *)
(* files of boot.ext4 are signed where they are: the image is mounted, and *)
(* each signed file copied over the one it was made of.                    *)
(*                                                                         *)
(* The script looks at the result of nothing it calls, and may be          *)
(* interrupted between any two calls.  A file is what was built and the    *)
(* signatures put on it since, the outermost last.                         *)
(***************************************************************************)
EXTENDS Integers, Sequences

CONSTANTS
  Singles,   \* the types signed in one go
  BootFiles, \* ree_sign_file_list, a sequence of files
  Data,      \* what an image may be built from
  Versions,  \* version strings, each the sequence of the numbers in it
  Boards,    \* board ids, NoBoard for none given
  Requests,  \* the arguments users call the script with
  MaxRuns,   \* bound on the runs whose arguments are accepted
  Faults,    \* programs that may fail
  NoBoard,
  Missing,   \* no such file
  Broken     \* what is left of a file cut short

Programs == {"signtool", "cat", "mount", "cp", "umount"}
Algorithms == {"ia", "sm"}
Attributes == {"nor", "enc"}
Types == Singles \cup {"uboot", "ree"}
Listed == {BootFiles[i] : i \in DOMAIN BootFiles}

Arguments ==
  [algo : Algorithms \cup {Missing}, attr : Attributes \cup {Missing},
   type : Types \cup {Missing}, version : Versions, board : Boards]

ASSUME ImageSignAssumption ==
  /\ "uboot" \notin Singles \cup Listed
  /\ "ree" \notin Singles
  /\ Singles \cap Listed = {}
  /\ BootFiles \in Seq(Listed) \ {<<>>}
  /\ \A i, j \in DOMAIN BootFiles : BootFiles[i] = BootFiles[j] => i = j
  /\ \A v \in Versions : v \in Seq(Nat) /\ Len(v) \in {1, 2}
  /\ Requests \subseteq Arguments
  /\ MaxRuns \in Nat
  /\ Faults \subseteq Programs
  /\ Missing \notin Algorithms \cup Attributes \cup Types
  /\ Broken \notin Data

Signatures ==
  [algo : Algorithms, attr : Attributes, number : Int, board : Boards \cup {NoBoard}]
Contents == [data : Data \cup {Broken}, sigs : Seq(Signatures)]
Keys == [algo : Algorithms, board : Boards]
Names ==
  [file : Singles \cup Listed \cup {"uboot"}, algo : Algorithms,
   attr : Attributes, version : Versions]
Joined == [key : Keys \cup {Missing}, body : Contents \cup {Missing}]

ASSUME MissingAssumption ==
  Missing \notin Contents \cup Keys \cup Joined \cup Requests

VARIABLES
  image,   \* the images to sign, by type
  boot,    \* the files inside boot.ext4
  mounted, \* boot.ext4 is mounted on bootimg
  signed,  \* the signed images, by the arguments their names are made of
  pubkey,  \* signed_pubkey_u-boot-with-spl.bin
  part,    \* signed_image_vX_u-boot-with-spl.bin, by version
  run,     \* the arguments of the run, or of the last that got to its end
  pc,      \* what the script calls next
  k,       \* for which of BootFiles
  runs,    \* how many runs there were
  failed,  \* history: a program failed in this run
  placed,  \* history: what the boot image last put in place was built from
  lost     \* history: a step on that image failed, or was left half done

toolVars == <<signed, pubkey, part>>
bootVars == <<boot, mounted, k>>
vars ==
  <<image, boot, mounted, signed, pubkey, part, run, pc, k, runs, failed,
    placed, lost>>

Plain(d) == [data |-> d, sigs |-> <<>>]
NameOf(r, file) ==
  [file |-> file, algo |-> r.algo, attr |-> r.attr, version |-> r.version]
File == BootFiles[k]

(* get_image_version: X * 256 + Y, evaluated by let, which fails without   *)
(* the Y and leaves image_ver at its initial 0.                            *)
get_image_version(x, y) == x * 256 + y

(* For u-boot the halves are swapped and the major part is less by one.    *)
NumberOf(type, version) ==
  IF Len(version) < 2 THEN 0
  ELSE IF type = "uboot" THEN get_image_version(version[2], version[1] - 1)
  ELSE get_image_version(version[1], version[2])

(* Only the u-boot image is signed for a board.                            *)
Signature(r) ==
  [algo |-> r.algo, attr |-> r.attr, number |-> NumberOf(r.type, r.version),
   board |-> IF r.type = "uboot" THEN r.board ELSE NoBoard]

(* The sign tool adds a signature to what it is given.                     *)
sigx(r, content) == [content EXCEPT !.sigs = Append(@, Signature(r))]
ToolFails(content) == content = Missing \/ "signtool" \in Faults
-----------------------------------------------------------------------------
(* Slips: steps as they would be with one line wrong, each named for the   *)
(* property it would break.  Next takes none of them.                      *)

(* SignedAsAsked: the public key is signed only if there is no such file.  *)
SignsKeyOnce ==
  /\ pc = "pubkey"
  /\ pubkey' = IF pubkey = Missing
               THEN [algo |-> run.algo, board |-> run.board] ELSE pubkey
  /\ pc' = "part"
  /\ UNCHANGED <<image, bootVars, signed, part, run, runs, failed, placed, lost>>

(* BootFilesKept: the boot image stays mounted when all files are signed.  *)
StaysMounted ==
  /\ pc = "umount"
  /\ k' = 0
  /\ pc' = "idle"
  /\ UNCHANGED <<image, boot, mounted, toolVars, run, runs, failed, placed, lost>>
-----------------------------------------------------------------------------
Init ==
  /\ image = [type \in Singles \cup {"uboot"} |-> Missing]
  /\ placed \in Data
  /\ boot = [f \in Listed |-> Plain(placed)]
  /\ mounted = FALSE
  /\ signed = [n \in Names |-> Missing]
  /\ pubkey = Missing
  /\ part = [v \in Versions |-> Missing]
  /\ run = Missing
  /\ pc = "idle"
  /\ k = 0
  /\ runs = 0
  /\ failed = FALSE
  /\ lost = FALSE

(* The user puts another image in place, ...                               *)
Replace(type) ==
  /\ pc = "idle"
  /\ \E d \in Data : image' = [image EXCEPT ![type] = Plain(d)]
  /\ run' = Missing
  /\ failed' = FALSE
  /\ UNCHANGED <<bootVars, toolVars, pc, runs, placed, lost>>

(* ... or another boot.ext4, once the old one is not mounted any more.     *)
ReplaceBoot ==
  /\ pc = "idle"
  /\ ~ mounted
  /\ placed' \in Data
  /\ boot' = [f \in Listed |-> Plain(placed')]
  /\ lost' = FALSE
  /\ run' = Missing
  /\ failed' = FALSE
  /\ UNCHANGED <<image, mounted, toolVars, pc, k, runs>>

(* The user finds the mount an interrupted run has left, and takes it down. *)
UserUnmounts ==
  /\ pc = "idle"
  /\ mounted
  /\ mounted' = FALSE
  /\ UNCHANGED <<image, boot, toolVars, run, pc, k, runs, failed, placed, lost>>

(* The checks of imagesign_main.  The one of the board id lacks a space in *)
(* its last test, which is therefore an unknown command and false: every   *)
(* board is accepted.                                                      *)
Accepts(r) ==
  /\ r.algo \in Algorithms
  /\ r.attr \in Attributes
  /\ r.type \in Types
  /\ \A i \in DOMAIN r.version : r.version[i] <= 255

imagesign_main(r) ==
  /\ pc = "idle"
  /\ failed' = FALSE
  /\ \/ /\ Accepts(r)
        /\ runs < MaxRuns
        /\ runs' = runs + 1
        /\ run' = r
        /\ pc' = CASE r.type = "uboot" -> "pubkey"
                    [] r.type = "ree" -> "rm"
                    [] OTHER -> "single"
     \/ /\ ~ Accepts(r)
        /\ run' = Missing
        /\ UNCHANGED <<pc, runs>>
  /\ UNCHANGED <<image, bootVars, toolVars, placed, lost>>
-----------------------------------------------------------------------------
(* tee, tf and sbmeta.                                                     *)
SignSingle ==
  LET in == image[run.type] IN
  /\ pc = "single"
  /\ \/ /\ in # Missing
        /\ signed' = [signed EXCEPT ![NameOf(run, run.type)] = sigx(run, in)]
        /\ UNCHANGED failed
     \/ /\ ToolFails(in)
        /\ failed' = TRUE
        /\ UNCHANGED signed
  /\ pc' = "idle"
  /\ UNCHANGED <<image, bootVars, pubkey, part, run, runs, placed, lost>>

(* u-boot: the next public key is signed with the root key, ...            *)
SignPubkey ==
  /\ pc = "pubkey"
  /\ \/ /\ pubkey' = [algo |-> run.algo, board |-> run.board]
        /\ UNCHANGED failed
     \/ /\ "signtool" \in Faults
        /\ failed' = TRUE
        /\ UNCHANGED pubkey
  /\ pc' = "part"
  /\ UNCHANGED <<image, bootVars, signed, part, run, runs, placed, lost>>

(* ... the image with that key, ...                                        *)
SignPart ==
  LET in == image["uboot"] IN
  /\ pc = "part"
  /\ \/ /\ in # Missing
        /\ part' = [part EXCEPT ![run.version] = sigx(run, in)]
        /\ UNCHANGED failed
     \/ /\ ToolFails(in)
        /\ failed' = TRUE
        /\ UNCHANGED part
  /\ pc' = "cat"
  /\ UNCHANGED <<image, bootVars, signed, pubkey, run, runs, placed, lost>>

(* ... and cat joins what there is of the two, or gets only so far.        *)
JoinParts ==
  /\ pc = "cat"
  /\ \/ /\ signed' = [signed EXCEPT ![NameOf(run, "uboot")] =
                        [key |-> pubkey, body |-> part[run.version]]]
        /\ UNCHANGED failed
     \/ /\ "cat" \in Faults
        /\ signed' = [signed EXCEPT ![NameOf(run, "uboot")] =
                        [key |-> pubkey, body |-> Plain(Broken)]]
        /\ failed' = TRUE
  /\ pc' = "idle"
  /\ UNCHANGED <<image, bootVars, pubkey, part, run, runs, placed, lost>>
-----------------------------------------------------------------------------
(* ree: rm -rf removes what is in bootimg, and that is the content of the  *)
(* boot image if an earlier run has left it mounted.                       *)
RemoveBootimg ==
  /\ pc = "rm"
  /\ boot' = IF mounted THEN [f \in Listed |-> Missing] ELSE boot
  /\ pc' = "mount"
  /\ UNCHANGED <<image, mounted, toolVars, run, k, runs, failed, placed, lost>>

(* Without a mount the loop works on an empty directory.                   *)
MountBoot ==
  /\ pc = "mount"
  /\ \/ mounted' = TRUE /\ UNCHANGED failed
     \/ "mount" \in Faults /\ failed' = TRUE /\ UNCHANGED mounted
  /\ k' = 1
  /\ pc' = "sign"
  /\ UNCHANGED <<image, boot, toolVars, run, runs, placed, lost>>

SignFile ==
  LET in == IF mounted THEN boot[File] ELSE Missing IN
  /\ pc = "sign"
  /\ \/ /\ in # Missing
        /\ signed' = [signed EXCEPT ![NameOf(run, File)] = sigx(run, in)]
        /\ UNCHANGED <<failed, lost>>
     \/ /\ ToolFails(in)
        /\ failed' = TRUE
        /\ IF mounted THEN lost' = TRUE ELSE UNCHANGED lost
        /\ UNCHANGED signed
  /\ pc' = "cp"
  /\ UNCHANGED <<image, bootVars, pubkey, part, run, runs, placed>>

(* What is copied is the signed file of that name, be it an older one.     *)
CopyBack ==
  LET file == signed[NameOf(run, File)] IN
  /\ pc = "cp"
  /\ \/ /\ boot' = IF mounted /\ file # Missing THEN [boot EXCEPT ![File] = file]
                    ELSE boot
        /\ UNCHANGED <<failed, lost>>
     \/ /\ "cp" \in Faults
        /\ boot' = IF mounted THEN [boot EXCEPT ![File] = Plain(Broken)] ELSE boot
        /\ failed' = TRUE
        /\ IF mounted THEN lost' = TRUE ELSE UNCHANGED lost
  /\ IF k = Len(BootFiles) THEN pc' = "umount" /\ UNCHANGED k
                           ELSE pc' = "sign" /\ k' = k + 1
  /\ UNCHANGED <<image, mounted, toolVars, run, runs, placed>>

UnmountBoot ==
  /\ pc = "umount"
  /\ \/ mounted' = FALSE /\ UNCHANGED <<failed, lost>>
     \/ /\ "umount" \in Faults
        /\ failed' = TRUE
        /\ IF mounted THEN lost' = TRUE ELSE UNCHANGED lost
        /\ UNCHANGED mounted
  /\ k' = 0
  /\ pc' = "idle"
  /\ UNCHANGED <<image, boot, toolVars, run, runs, placed>>

(* The script is interrupted between two calls.                            *)
Interrupt ==
  /\ pc # "idle"
  /\ pc' = "idle"
  /\ k' = 0
  /\ run' = Missing
  /\ failed' = FALSE
  /\ IF mounted THEN lost' = TRUE ELSE UNCHANGED lost
  /\ UNCHANGED <<image, boot, mounted, toolVars, runs, placed>>

Next ==
  \/ \E type \in Singles \cup {"uboot"} : Replace(type)
  \/ ReplaceBoot
  \/ UserUnmounts
  \/ \E r \in Requests : imagesign_main(r)
  \/ SignSingle
  \/ SignPubkey
  \/ SignPart
  \/ JoinParts
  \/ RemoveBootimg
  \/ MountBoot
  \/ SignFile
  \/ CopyBack
  \/ UnmountBoot
  \/ Interrupt

Spec == Init /\ [][Next]_vars
-----------------------------------------------------------------------------
(* Every variable keeps to its type.                                       *)
TypeOK ==
  /\ image \in [Singles \cup {"uboot"} -> Contents \cup {Missing}]
  /\ boot \in [Listed -> Contents \cup {Missing}]
  /\ mounted \in BOOLEAN
  /\ signed \in [Names -> Contents \cup Joined \cup {Missing}]
  /\ \A n \in Names : signed[n] # Missing =>
       IF n.file = "uboot" THEN signed[n] \in Joined ELSE signed[n] \in Contents
  /\ pubkey \in Keys \cup {Missing}
  /\ part \in [Versions -> Contents \cup {Missing}]
  /\ run \in Requests \cup {Missing}
  /\ pc \in {"idle", "single", "pubkey", "part", "cat", "rm", "mount", "sign",
            "cp", "umount"}
  /\ run # Missing => Accepts(run)
  /\ pc # "idle" => run # Missing
  /\ pc \in {"sign", "cp"} => k \in DOMAIN BootFiles
  /\ runs \in 0..MaxRuns
  /\ failed \in BOOLEAN
  /\ placed \in Data
  /\ lost \in BOOLEAN

(* The version a header tells its reader: X is 256 times less in a u-boot  *)
(* image, and one more than what is there.                                 *)
Tells(type, number, version) ==
  LET n == IF type = "uboot" THEN number + 1 ELSE number IN
  Len(version) = 2 =>
    IF type = "uboot" THEN version = <<n % 256, n \div 256>>
                      ELSE version = <<n \div 256, n % 256>>

(* The outermost signature of a file is as asked.                          *)
AsAsked(r, file) ==
  LET s == file.sigs[Len(file.sigs)] IN
  /\ s.algo = r.algo /\ s.attr = r.attr
  /\ Tells(r.type, s.number, r.version)
  /\ r.type = "uboot" => s.board = r.board

(* file is what a run makes of the image in.                               *)
MadeOf(r, file, in) ==
  /\ file \in Contents
  /\ file.data = in.data
  /\ Len(file.sigs) = Len(in.sigs) + 1
  /\ AsAsked(r, file)

(* After a run in which nothing failed the file of the name asked for is   *)
(* the image signed as asked: algorithm, attribute, version and board, in  *)
(* both parts of a u-boot image, whatever earlier runs, broken off or of   *)
(* other arguments, have left in the files it was put together from.       *)
SignedAsAsked ==
  pc = "idle" /\ run # Missing /\ ~ failed =>
    CASE run.type \in Singles ->
           MadeOf(run, signed[NameOf(run, run.type)], image[run.type])
      [] run.type = "uboot" ->
           LET file == signed[NameOf(run, "uboot")] IN
           /\ file.key = [algo |-> run.algo, board |-> run.board]
           /\ MadeOf(run, file.body, image["uboot"])
      [] run.type = "ree" ->
           \A f \in Listed : boot[f] = signed[NameOf(run, f)] /\ AsAsked(run, boot[f])

(* Unless a step on it failed or was left half done, the boot image keeps  *)
(* all its files, each of the build it was put in place with, and none is  *)
(* signed more often than another.                                         *)
BootFilesKept ==
  ~ lost =>
    /\ \A f \in Listed : boot[f] \in Contents /\ boot[f].data = placed
    /\ pc = "idle" =>
         \A f, g \in Listed : Len(boot[f].sigs) = Len(boot[g].sigs)
=============================================================================
