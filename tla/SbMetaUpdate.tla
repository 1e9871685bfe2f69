----------------------------- MODULE SbMetaUpdate -----------------------------
(***************************************************************************)
(* tools/sectool/sbmetaupd.sh: after a new tee.ext4 has been uploaded for  *)
(* a board, rebuild the board's sbmeta.ext4, which holds the digests of    *)
(* the trust_firmware.bin and tee.bin inside it.                           *)
(*                                                                         *)
(* For each board in turn the script copies the two images out of tee.ext4 *)
(* into directories that all boards share, and calls sbmetagen.sh, which   *)
(* runs sbmeta.py, signs the result with imagesign.sh, moves it and packs  *)
(* it with bin2ext4.sh.  All of these work on files of fixed names.        *)
(*                                                                         *)
(* Nobody looks whether the images could be copied, and every failure      *)
(* inside sbmetagen.sh ends in "echo failed; exit", whose status is 0:     *)
(* sbmetaupd.sh goes on to the next board without a word.  Any program may *)
(* fail and leave its file cut short, and the script may be interrupted at *)
(* any point and run again, its images still mounted.                      *)
(***************************************************************************)
EXTENDS Naturals, Sequences

CONSTANTS
  Boards,    \* the boards the script knows
  Modes,     \* the sequence of boards each option stands for
  HasDir,    \* boards whose output directory exists
  Contents,  \* the sets of parts an uploaded tee.ext4 may hold
  MaxGen,    \* bound on the uploads
  MaxRounds, \* bound on the boards worked on in all runs
  MaxMounts, \* images that can be mounted on temp/ at a time
  Faults,    \* programs that may fail
  Missing,   \* no such file
  Broken     \* a file cut short, or an image without the file in it

Programs ==
  {"mount", "cp", "umount", "sbmeta.py", "signtool", "mv", "bin2ext4"}

(* trust_firmware.bin and tee.bin.                                         *)
Parts == {"tf", "tee"}

(* A file that is whole is known by the upload it was copied from.         *)
Uploads == [board : Boards, gen : 1..MaxGen, parts : Contents]
Files == Uploads \cup {Missing, Broken}
Records == [Parts -> Files]
Metas == Records \cup {Missing, Broken}

ASSUME UpdateAssumption ==
  /\ Modes \subseteq Seq(Boards)
  /\ Contents \subseteq SUBSET Parts
  /\ MaxGen \in Nat /\ MaxRounds \in Nat /\ MaxMounts \in Nat
  /\ Faults \subseteq Programs
  /\ Missing \notin Uploads \cup Records
  /\ Broken \notin Uploads \cup Records \cup {Missing}

VARIABLES
  teeExt,    \* the upload each board's tee.ext4 is
  wiped,     \* uploads whose files have been removed
  temp,      \* uploads mounted on temp/, the one it shows first
  local,     \* tf/trust_firmware.bin and tee/tee.bin
  bin,       \* sbmeta/sbmeta.bin, what it records
  signed,    \* sbmeta/signed_ia_nor_v1.0_sbmeta.bin
  packed,    \* bin2ext4/sbmeta.bin
  sbmetaExt, \* each board's sbmeta.ext4
  stuck,     \* boards whose sbmeta.ext4 is left mounted on tmp_root/
  todo,      \* boards left to update, the current one first
  pc,        \* what the script does next
  gens,      \* how many uploads there were
  rounds,    \* how many boards the runs were called for
  asked,     \* boards of the last run
  told,      \* boards of the last run about which it printed a message
  failed,    \* history: those for which a program failed
  unsure     \* history: boards whose sbmeta.ext4 was last written when a
             \* program had failed for them, or was interrupted

inVars == <<teeExt, wiped, gens, rounds>>
outVars == <<sbmetaExt, stuck, unsure>>
vars ==
  <<inVars, temp, local, bin, signed, packed, outVars, todo, pc, asked,
    told, failed>>

Board == Head(todo)

(* Done with the current board, whatever became of it.                     *)
NextBoard ==
  /\ todo' = Tail(todo)
  /\ pc' = IF Tail(todo) = <<>> THEN "idle" ELSE "board"

Shown == IF temp = <<>> THEN Missing ELSE Head(temp)

Shows(part) == Shown # Missing /\ part \in Shown.parts /\ Shown \notin wiped

(* What is recorded of an upload whose parts were both copied.             *)
Current(upload) == [part \in Parts |-> upload]

ProgramFails == failed' = failed \cup {Board}
-----------------------------------------------------------------------------
(* Slips: steps as they would be with one line wrong, each named for the   *)
(* property it would break.  Next takes none of them.                      *)

(* TypeOK: the loop over the boards does not stop after the last one.      *)
StaysOnEmpty ==
  /\ pc = "mv"
  /\ packed' = signed
  /\ signed' = Missing
  /\ pc' = "bin2ext4"
  /\ todo' = Tail(todo)
  /\ UNCHANGED <<inVars, temp, local, bin, outVars, asked, told, failed>>

(* CleanVouches: a signed file that is there is not made again.            *)
SignsOnlyOnce ==
  /\ pc = "signtool"
  /\ signed' = IF signed = Missing THEN bin ELSE signed
  /\ pc' = "mv"
  /\ UNCHANGED <<inVars, temp, local, bin, packed, outVars, todo, asked,
                 told, failed>>

(* UpdatedOrTold: an image that is there is not copied again.              *)
CopiesOnlyOnce(part) ==
  /\ pc = part
  /\ local' = [local EXCEPT ![part] = IF @ = Missing THEN Shown ELSE @]
  /\ pc' = IF part = "tf" THEN "tee" ELSE "umount"
  /\ UNCHANGED <<inVars, temp, bin, signed, packed, outVars, todo, asked,
                 told, failed>>
-----------------------------------------------------------------------------
Init ==
  /\ teeExt = [b \in Boards |-> Missing]
  /\ wiped = {}
  /\ temp = <<>>
  /\ local = [part \in Parts |-> Missing]
  /\ bin = Missing
  /\ signed = Missing
  /\ packed = Missing
  /\ sbmetaExt = [b \in Boards |-> Missing]
  /\ stuck = {}
  /\ todo = <<>>
  /\ pc = "idle"
  /\ gens = 0
  /\ rounds = 0
  /\ asked = {}
  /\ told = {}
  /\ failed = {}
  /\ unsure = {}

(* Somebody puts a new tee.ext4 in place, between runs.                    *)
Upload(b) ==
  /\ pc = "idle"
  /\ gens < MaxGen
  /\ gens' = gens + 1
  /\ \E parts \in Contents :
       teeExt' = [teeExt EXCEPT ![b] = [board |-> b, gen |-> gens', parts |-> parts]]
  /\ asked' = {}
  /\ told' = {}
  /\ failed' = {}
  /\ UNCHANGED <<wiped, temp, local, bin, signed, packed, outVars, todo, pc, rounds>>

(* The user takes down what earlier runs have left mounted, or reboots.    *)
UserUnmounts ==
  /\ pc = "idle"
  /\ temp # <<>> \/ stuck # {}
  /\ temp' = <<>>
  /\ stuck' = {}
  /\ UNCHANGED <<inVars, local, bin, signed, packed, sbmetaExt, unsure, todo, pc,
                 asked, told, failed>>

(* sbmetaupd.sh with one of its options.                                   *)
Run(mode) ==
  /\ pc = "idle"
  /\ mode # <<>>
  /\ rounds + Len(mode) <= MaxRounds
  /\ rounds' = rounds + Len(mode)
  /\ todo' = mode
  /\ pc' = "board"
  /\ asked' = {mode[k] : k \in DOMAIN mode}
  /\ told' = {}
  /\ failed' = {}
  /\ UNCHANGED <<teeExt, wiped, gens, temp, local, bin, signed, packed, outVars>>

(* update_LA, update_LB, update_SOM: is there a tee.ext4 ...               *)
CheckTee ==
  /\ pc = "board"
  /\ \/ /\ teeExt[Board] # Missing
        /\ pc' = "mount"
        /\ UNCHANGED <<todo, told>>
     \/ /\ teeExt[Board] = Missing
        /\ told' = told \cup {Board}
        /\ NextBoard
  /\ UNCHANGED <<inVars, temp, local, bin, signed, packed, outVars, asked,
                 failed>>

(* ... umount_tee, which looks at no result.  Its rm -rf works on what an  *)
(* earlier run has left mounted, as far as it is permitted to, and the     *)
(* mount goes on top of that.                                              *)
MountTee ==
  /\ pc = "mount"
  /\ wiped' \in {wiped, wiped \cup ({Shown} \ {Missing})}
  /\ \/ /\ Len(temp) < MaxMounts
        /\ temp' = <<teeExt[Board]>> \o temp
        /\ UNCHANGED failed
     \/ /\ "mount" \in Faults \/ Len(temp) >= MaxMounts
        /\ ProgramFails
        /\ UNCHANGED temp
  /\ pc' = "tf"
  /\ UNCHANGED <<teeExt, gens, rounds, local, bin, signed, packed, outVars, todo,
                 asked, told>>

Copy(part) ==
  /\ pc = part
  /\ \/ /\ Shows(part)
        /\ local' = [local EXCEPT ![part] = Shown]
        /\ UNCHANGED failed
     \/ /\ ~ Shows(part) \/ "cp" \in Faults
        /\ ProgramFails
        /\ \/ UNCHANGED local
           \/ Shows(part) /\ local' = [local EXCEPT ![part] = Broken]
  /\ pc' = IF part = "tf" THEN "tee" ELSE "umount"
  /\ UNCHANGED <<inVars, temp, bin, signed, packed, outVars, todo, asked, told>>

UnmountTee ==
  /\ pc = "umount"
  /\ \/ /\ temp # <<>>
        /\ temp' = Tail(temp)
        /\ UNCHANGED failed
     \/ /\ temp = <<>> \/ "umount" \in Faults
        /\ ProgramFails
        /\ UNCHANGED temp
  /\ pc' = "dir"
  /\ UNCHANGED <<inVars, local, bin, signed, packed, outVars, todo, asked, told>>

(* ... and is there a directory to write to.                               *)
CheckDir ==
  /\ pc = "dir"
  /\ \/ /\ Board \in HasDir
        /\ pc' = "sbmeta.py"
        /\ UNCHANGED <<todo, told>>
     \/ /\ Board \notin HasDir
        /\ told' = told \cup {Board}
        /\ NextBoard
  /\ UNCHANGED <<inVars, temp, local, bin, signed, packed, outVars, asked,
                 failed>>

(* Step 1 of sbmeta_gen.  sbmeta.py records an image that is not there     *)
(* without a digest.                                                       *)
SbmetaPy ==
  /\ pc = "sbmeta.py"
  /\ \/ /\ bin' = local
        /\ pc' = "signtool"
        /\ UNCHANGED <<todo, failed>>
     \/ /\ "sbmeta.py" \in Faults
        /\ bin' \in {bin, Broken}
        /\ ProgramFails
        /\ NextBoard
  /\ UNCHANGED <<inVars, temp, local, signed, packed, outVars, asked, told>>

(* Step 2.  imagesign.sh ends with status 0 whatever its sign tool did, so *)
(* what decides is whether there is a signed file, be it an old one.       *)
SignSbmeta ==
  /\ pc = "signtool"
  /\ \/ signed' = bin /\ UNCHANGED failed
     \/ "signtool" \in Faults /\ signed' \in {signed, Broken} /\ ProgramFails
  /\ IF signed' # Missing
     THEN pc' = "mv" /\ UNCHANGED todo
     ELSE NextBoard
  /\ UNCHANGED <<inVars, temp, local, bin, packed, outVars, asked, told>>

MoveSigned ==
  /\ pc = "mv"
  /\ \/ /\ packed' = signed
        /\ signed' = Missing
        /\ pc' = "bin2ext4"
        /\ UNCHANGED <<todo, failed>>
     \/ /\ "mv" \in Faults
        /\ ProgramFails
        /\ NextBoard
        /\ UNCHANGED <<signed, packed>>
  /\ UNCHANGED <<inVars, temp, local, bin, outVars, asked, told>>

(* bin2ext4.sh overwrites the old image with zeroes, mounts the new one to *)
(* copy the file into it, and removes the mount point.  When it does not   *)
(* get to its end the image may be left in any state and may stay mounted. *)
LeavesHalf ==
  /\ \E meta \in {sbmetaExt[Board], Broken, packed} :
       sbmetaExt' = [sbmetaExt EXCEPT ![Board] = meta]
  /\ stuck' \in {stuck, stuck \cup {Board}}

(* What is mounted there already may be emptied by rm -fr.                 *)
EmptiesStuck ==
  \E emptied \in SUBSET stuck :
    sbmetaExt' =
      [b \in Boards |-> IF b \in emptied THEN Broken
                        ELSE IF b = Board THEN packed ELSE sbmetaExt[b]]

(* Step 3.  As long as an image is left mounted on tmp_root the directory  *)
(* cannot be removed, and bin2ext4.sh fails in its last step.              *)
PackExt4 ==
  /\ pc = "bin2ext4"
  /\ \/ /\ stuck = {}
        /\ sbmetaExt' = [sbmetaExt EXCEPT ![Board] = packed]
        /\ UNCHANGED <<stuck, failed>>
     \/ /\ stuck # {}
        /\ EmptiesStuck
        /\ ProgramFails
        /\ UNCHANGED stuck
     \/ /\ "bin2ext4" \in Faults
        /\ LeavesHalf
        /\ ProgramFails
  /\ unsure' = IF Board \in failed' THEN unsure \cup {Board} ELSE unsure \ {Board}
  /\ NextBoard
  /\ UNCHANGED <<inVars, temp, local, bin, signed, packed, asked, told>>

(* The script is interrupted, between two programs or in the middle of     *)
(* one; the user knows that it was.                                        *)
Interrupt ==
  /\ pc # "idle"
  /\ \/ UNCHANGED <<local, bin, signed, outVars>>
     \/ /\ pc \in Parts /\ Shows(pc)
        /\ local' = [local EXCEPT ![pc] = Broken]
        /\ UNCHANGED <<bin, signed, outVars>>
     \/ /\ pc = "sbmeta.py"
        /\ bin' = Broken
        /\ UNCHANGED <<local, signed, outVars>>
     \/ /\ pc = "signtool"
        /\ signed' = Broken
        /\ UNCHANGED <<local, bin, outVars>>
     \/ /\ pc = "bin2ext4"
        /\ LeavesHalf
        /\ unsure' = unsure \cup {Board}
        /\ UNCHANGED <<local, bin, signed>>
  /\ pc' = "idle"
  /\ todo' = <<>>
  /\ asked' = {}
  /\ told' = {}
  /\ failed' = {}
  /\ UNCHANGED <<inVars, temp, packed>>

Script ==
  \/ CheckTee
  \/ MountTee
  \/ \E part \in Parts : Copy(part)
  \/ UnmountTee
  \/ CheckDir
  \/ SbmetaPy
  \/ SignSbmeta
  \/ MoveSigned
  \/ PackExt4

Next ==
  \/ \E b \in Boards : Upload(b)
  \/ UserUnmounts
  \/ \E mode \in Modes : Run(mode)
  \/ Script
  \/ Interrupt

Spec == Init /\ [][Next]_vars
-----------------------------------------------------------------------------
(* Every variable keeps to its type; the script has a board to work on     *)
(* exactly while it runs.                                                  *)
TypeOK ==
  /\ teeExt \in [Boards -> Uploads \cup {Missing}]
  /\ wiped \subseteq Uploads
  /\ temp \in Seq(Uploads) /\ Len(temp) <= MaxMounts
  /\ local \in Records
  /\ bin \in Metas /\ signed \in Metas /\ packed \in Metas
  /\ sbmetaExt \in [Boards -> Metas]
  /\ stuck \subseteq Boards
  /\ todo \in Seq(Boards)
  /\ pc \in {"idle", "board", "dir"} \cup Parts \cup (Programs \ {"cp"})
  /\ pc = "idle" <=> todo = <<>>
  /\ gens \in 0..MaxGen /\ rounds \in 0..MaxRounds
  /\ asked \subseteq Boards
  /\ told \subseteq asked /\ failed \subseteq asked
  /\ unsure \subseteq Boards

(* Though the boards share every file on the way, the sbmeta.ext4 of a     *)
(* board vouches for both parts of one upload of that board, unless a      *)
(* program failed for this very board, or was interrupted, when it was     *)
(* last written: whatever failed for other boards, in earlier runs or      *)
(* since, and whatever interrupted runs have left half done or mounted.    *)
CleanVouches ==
  \A b \in Boards \ unsure :
    sbmetaExt[b] # Missing =>
      \E upload \in Uploads : upload.board = b /\ sbmetaExt[b] = Current(upload)

(* A board asked for that no message names and for which no program failed *)
(* is up to date after the run: what it got is what was uploaded for it,   *)
(* and not something an earlier run or another board left on the way.      *)
UpdatedOrTold ==
  pc = "idle" =>
    \A b \in asked \ (told \cup failed) : sbmetaExt[b] = Current(teeExt[b])

(* sbmetaupd.sh: "after upload new tee.xxx.ext4, just run the script to    *)
(* update sbmeta.ext4".  After a run every board asked for is up to date,  *)
(* or the script has said that it is not.                                  *)
RunUpdates ==
  pc = "idle" => \A b \in asked \ told : sbmetaExt[b] = Current(teeExt[b])

(* So no board asked for is left, without a word, with an sbmeta.ext4 that *)
(* vouches for another board's images.                                     *)
OwnImagesOnly ==
  pc = "idle" =>
    \A b \in asked \ told : sbmetaExt[b] \in Records =>
      \A part \in Parts : sbmetaExt[b][part] \in Uploads => sbmetaExt[b][part].board = b
=============================================================================
