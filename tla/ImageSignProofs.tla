-------------------------- MODULE ImageSignProofs --------------------------
(***************************************************************************)
(* Proofs about ImageSign, for any images, files of the boot image, data,  *)
(* versions, requests and programs that fail.                              *)
(*                                                                         *)
(* OnTheWay follows what a run in which nothing has failed makes, from the *)
(* parts of a u-boot image to the file that joins them and through the     *)
(* loop over the files of the boot image.  Kept follows the boot image     *)
(* through runs that fail elsewhere.                                       *)
(***************************************************************************)
EXTENDS ImageSign, SequenceTheorems, TLAPS

(* A version in two parts, neither above 255, is told by its number.       *)
LEMMA NumbersTell ==
  ASSUME NEW type, NEW v \in Seq(Nat), Len(v) = 2, v[1] <= 255, v[2] <= 255
  PROVE  Tells(type, NumberOf(type, v), v)
<1> DEFINE x == v[1]
           y == v[2]
<1>1. /\ x \in Nat /\ x <= 255 /\ y \in Nat /\ y <= 255
      /\ v = <<x, y>>
  <2>1. DOMAIN v = 1..2 /\ v \in [1..2 -> Nat]
    BY LenProperties
  <2>2. <<v[1], v[2]>> \in Seq(Nat) /\ Len(<<v[1], v[2]>>) = 2
    BY <2>1
  <2>3. v = <<v[1], v[2]>>
    BY <2>1, <2>2, SeqEqual
  <2> QED BY <2>1, <2>3
<1> HIDE DEF x, y
<1>2. ASSUME NEW a \in Nat, a <= 255, NEW b \in Nat, b <= 255
      PROVE  (a * 256 + b) \div 256 = a /\ (a * 256 + b) % 256 = b
  BY <1>2
<1>3. CASE type = "uboot"
  <2>1. NumberOf(type, v) = y * 256 + (x - 1)
    BY <1>1, <1>3 DEF NumberOf, get_image_version, x, y
  <2>2. NumberOf(type, v) + 1 = y * 256 + x
    BY <1>1, <2>1
  <2> QED BY <1>1, <1>2, <1>3, <2>2 DEF Tells
<1>4. CASE type # "uboot"
  <2>1. NumberOf(type, v) = x * 256 + y
    BY <1>1, <1>4 DEF NumberOf, get_image_version, x, y
  <2> QED BY <1>1, <1>2, <1>4, <2>1 DEF Tells
<1> QED BY <1>3, <1>4

(* No two versions in two parts have one number, be the halves swapped and *)
(* the major part less by one as for u-boot or not: get_image_version loses *)
(* nothing, 0.y of a u-boot image included.                                *)
THEOREM VersionsApart ==
  ASSUME NEW type,
         NEW v \in Seq(Nat), Len(v) = 2, v[1] <= 255, v[2] <= 255,
         NEW w \in Seq(Nat), Len(w) = 2, w[1] <= 255, w[2] <= 255,
         NumberOf(type, v) = NumberOf(type, w)
  PROVE  v = w
<1>1. Tells(type, NumberOf(type, v), v) /\ Tells(type, NumberOf(type, v), w)
  BY NumbersTell
<1> QED BY <1>1, ZenonT(60) DEF Tells

(* What a request that is accepted can be relied on for.                   *)
LEMMA Request ==
  ASSUME NEW r \in Requests, Accepts(r)
  PROVE  /\ r.algo \in Algorithms /\ r.attr \in Attributes /\ r.type \in Types
         /\ r.version \in Versions /\ r.board \in Boards
         /\ r.version \in Seq(Nat) /\ Len(r.version) \in {1, 2}
         /\ \A i \in DOMAIN r.version : r.version[i] <= 255
BY ImageSignAssumption DEF Accepts, Arguments

LEMMA SignatureTyped ==
  ASSUME NEW r \in Requests, Accepts(r)
  PROVE  Signature(r) \in Signatures
<1>1. NumberOf(r.type, r.version) \in Int
  BY Request DEF NumberOf, get_image_version
<1> QED BY <1>1, Request DEF Signature, Signatures

(* The sign tool makes of an image what was asked for.                     *)
LEMMA SignsAsAsked ==
  ASSUME NEW r \in Requests, Accepts(r), NEW in \in Contents
  PROVE  MadeOf(r, sigx(r, in), in)
<1>1. in.sigs \in Seq(Signatures) /\ Signature(r) \in Signatures
  BY SignatureTyped DEF Contents
<1> DEFINE sigs == Append(in.sigs, Signature(r))
<1>2. /\ sigs \in Seq(Signatures) /\ Len(sigs) = Len(in.sigs) + 1
      /\ sigs[Len(sigs)] = Signature(r)
  BY <1>1
<1>3. sigx(r, in) = [data |-> in.data, sigs |-> sigs]
  BY SMTT(30) DEF sigx, Contents
<1>4. sigx(r, in) \in Contents
  BY <1>2, <1>3 DEF Contents
<1>5. Tells(r.type, NumberOf(r.type, r.version), r.version)
  <2>1. CASE Len(r.version) = 2
    BY <2>1, Request, NumbersTell
  <2>2. CASE Len(r.version) # 2
    BY <2>2 DEF Tells
  <2> QED BY <2>1, <2>2
<1>6. AsAsked(r, sigx(r, in))
  BY <1>2, <1>3, <1>5 DEF AsAsked, Signature
<1> QED BY <1>2, <1>3, <1>4, <1>6 DEF MadeOf
-----------------------------------------------------------------------------
(* The types, and the run each call belongs to.                            *)
Typed ==
  /\ TypeOK
  /\ pc = "single" => run.type \in Singles
  /\ pc \in {"pubkey", "part", "cat"} => run.type = "uboot"
  /\ pc \in {"rm", "mount", "sign", "cp", "umount"} => run.type = "ree"

LEMMA Naming ==
  ASSUME NEW r \in Requests, Accepts(r)
  PROVE  \A file \in Singles \cup Listed \cup {"uboot"} : NameOf(r, file) \in Names
BY Request DEF NameOf, Names

LEMMA PlainTyped ==
  \A d \in Data \cup {Broken} : Plain(d) \in Contents
BY DEF Plain, Contents

(* A file of the boot image is at hand while the loop runs.                *)
LEMMA AtHand ==
  ASSUME Typed, pc \in {"sign", "cp"}
  PROVE  File \in Listed /\ k \in DOMAIN BootFiles
BY DEF Typed, TypeOK, File, Listed

(* A run under way has been accepted.                                      *)
LEMMA Running ==
  ASSUME Typed, pc # "idle"
  PROVE  run \in Requests /\ Accepts(run)
BY DEF Typed, TypeOK

LEMMA InitTyped == Init => Typed
<1> SUFFICES ASSUME Init PROVE Typed
  OBVIOUS
<1>1. boot \in [Listed -> Contents \cup {Missing}] /\ placed \in Data
  BY PlainTyped DEF Init
<1>2. runs \in 0..MaxRuns
  BY ImageSignAssumption DEF Init
<1> QED BY <1>1, <1>2 DEF Init, Typed, TypeOK

LEMMA NextTyped == Typed /\ [Next]_vars => Typed'
<1> SUFFICES ASSUME Typed, [Next]_vars PROVE Typed'
  OBVIOUS
<1> USE DEF bootVars, toolVars
<1>1. ASSUME NEW type \in Singles \cup {"uboot"}, Replace(type) PROVE Typed'
  <2>1. image' \in [Singles \cup {"uboot"} -> Contents \cup {Missing}]
    BY <1>1, PlainTyped DEF Replace, Typed, TypeOK
  <2> QED BY <1>1, <2>1 DEF Replace, Typed, TypeOK
<1>2. CASE ReplaceBoot
  <2>1. boot' \in [Listed -> Contents \cup {Missing}] /\ placed' \in Data
    BY <1>2, PlainTyped DEF ReplaceBoot
  <2> QED BY <1>2, <2>1 DEF ReplaceBoot, Typed, TypeOK
<1>3. CASE UserUnmounts
  BY <1>3 DEF UserUnmounts, Typed, TypeOK, Accepts
<1>4. ASSUME NEW r \in Requests, imagesign_main(r) PROVE Typed'
  <2>1. runs' \in 0..MaxRuns
    BY <1>4, ImageSignAssumption DEF imagesign_main, Typed, TypeOK
  <2>2. CASE Accepts(r) /\ run' = r
    <3>1. Accepts(run')
      BY <2>2
    <3>2. Accepts(run)'
      BY <3>1 DEF Accepts
    <3>3. r # Missing /\ r.type \in Types
      BY <2>2, MissingAssumption, Request
    <3> QED BY <1>4, <2>1, <2>2, <3>2, <3>3, MissingAssumption, ImageSignAssumption
            DEF imagesign_main, Typed, TypeOK, Types
  <2>3. CASE ~ Accepts(r) /\ run' = Missing
    BY <1>4, <2>1, <2>3 DEF imagesign_main, Typed, TypeOK
  <2> QED BY <1>4, <2>2, <2>3 DEF imagesign_main
<1>5. CASE SignSingle
  <2>1. run \in Requests /\ Accepts(run) /\ run.type \in Singles
    BY <1>5, Running DEF SignSingle, Typed
  <2>2. NameOf(run, run.type) \in Names /\ NameOf(run, run.type).file # "uboot"
    BY <2>1, Naming, ImageSignAssumption DEF NameOf
  <2>3. /\ signed' \in [Names -> Contents \cup Joined \cup {Missing}]
        /\ \A n \in Names : signed'[n] # Missing =>
             IF n.file = "uboot" THEN signed'[n] \in Joined ELSE signed'[n] \in Contents
    <3>1. CASE UNCHANGED signed
      BY <3>1 DEF Typed, TypeOK
    <3>2. CASE /\ image[run.type] # Missing
               /\ signed' = [signed EXCEPT ![NameOf(run, run.type)] =
                               sigx(run, image[run.type])]
      <4>1. image[run.type] \in Contents
        BY <2>1, <3>2 DEF Typed, TypeOK
      <4>2. sigx(run, image[run.type]) \in Contents
        BY <2>1, <4>1, SignsAsAsked DEF MadeOf
      <4> QED BY <2>2, <3>2, <4>2 DEF Typed, TypeOK
    <3> QED BY <1>5, <3>1, <3>2 DEF SignSingle
  <2> QED BY <1>5, <2>3 DEF SignSingle, Typed, TypeOK, Accepts
<1>6. CASE SignPubkey
  <2>1. run \in Requests /\ Accepts(run)
    BY <1>6, Running DEF SignPubkey
  <2>2. [algo |-> run.algo, board |-> run.board] \in Keys
    BY <2>1, Request DEF Keys
  <2> QED BY <1>6, <2>2 DEF SignPubkey, Typed, TypeOK, Accepts
<1>7. CASE SignPart
  <2>1. run \in Requests /\ Accepts(run) /\ run.version \in Versions
    BY <1>7, Running, Request DEF SignPart
  <2>2. part' \in [Versions -> Contents \cup {Missing}]
    <3>1. CASE UNCHANGED part
      BY <3>1 DEF Typed, TypeOK
    <3>2. CASE /\ image["uboot"] # Missing
               /\ part' = [part EXCEPT ![run.version] = sigx(run, image["uboot"])]
      <4>1. image["uboot"] \in Contents
        BY <3>2 DEF Typed, TypeOK
      <4>2. sigx(run, image["uboot"]) \in Contents
        BY <2>1, <4>1, SignsAsAsked DEF MadeOf
      <4> QED BY <2>1, <3>2, <4>2 DEF Typed, TypeOK
    <3> QED BY <1>7, <3>1, <3>2 DEF SignPart
  <2> QED BY <1>7, <2>2 DEF SignPart, Typed, TypeOK, Accepts
<1>8. CASE JoinParts
  <2>1. run \in Requests /\ Accepts(run) /\ run.version \in Versions
    BY <1>8, Running, Request DEF JoinParts
  <2>2. NameOf(run, "uboot") \in Names /\ NameOf(run, "uboot").file = "uboot"
    BY <2>1, Naming DEF NameOf
  <2>3. /\ [key |-> pubkey, body |-> part[run.version]] \in Joined
        /\ [key |-> Missing, body |-> Missing] \in Joined
        /\ [key |-> pubkey, body |-> Plain(Broken)] \in Joined
    BY <2>1 DEF Typed, TypeOK, Joined, Plain, Contents
  <2>4. /\ signed' \in [Names -> Contents \cup Joined \cup {Missing}]
        /\ \A n \in Names : signed'[n] # Missing =>
             IF n.file = "uboot" THEN signed'[n] \in Joined ELSE signed'[n] \in Contents
    BY <1>8, <2>2, <2>3 DEF JoinParts, Typed, TypeOK
  <2> QED BY <1>8, <2>4 DEF JoinParts, Typed, TypeOK, Accepts
<1>9. CASE RemoveBootimg
  <2>1. boot' \in [Listed -> Contents \cup {Missing}]
    BY <1>9 DEF RemoveBootimg, Typed, TypeOK
  <2> QED BY <1>9, <2>1 DEF RemoveBootimg, Typed, TypeOK, Accepts
<1>10. CASE MountBoot
  <2>1. 1 \in DOMAIN BootFiles
    BY ImageSignAssumption
  <2> QED BY <1>10, <2>1 DEF MountBoot, Typed, TypeOK, Accepts
<1>11. CASE SignFile
  <2>1. run \in Requests /\ Accepts(run) /\ File \in Listed
    BY <1>11, Running, AtHand DEF SignFile
  <2>2. NameOf(run, File) \in Names /\ NameOf(run, File).file # "uboot"
    BY <2>1, Naming, ImageSignAssumption DEF NameOf
  <2>3. /\ signed' \in [Names -> Contents \cup Joined \cup {Missing}]
        /\ \A n \in Names : signed'[n] # Missing =>
             IF n.file = "uboot" THEN signed'[n] \in Joined ELSE signed'[n] \in Contents
    <3>1. CASE UNCHANGED signed
      BY <3>1 DEF Typed, TypeOK
    <3>2. CASE /\ mounted /\ boot[File] # Missing
               /\ signed' = [signed EXCEPT ![NameOf(run, File)] = sigx(run, boot[File])]
      <4>1. boot[File] \in Contents
        BY <2>1, <3>2 DEF Typed, TypeOK
      <4>2. sigx(run, boot[File]) \in Contents
        BY <2>1, <4>1, SignsAsAsked DEF MadeOf
      <4> QED BY <2>2, <3>2, <4>2 DEF Typed, TypeOK
    <3> QED BY <1>11, <3>1, <3>2 DEF SignFile
  <2>4. lost' \in BOOLEAN
    BY <1>11 DEF SignFile, Typed, TypeOK
  <2> QED BY <1>11, <2>3, <2>4 DEF SignFile, Typed, TypeOK, Accepts
<1>12. CASE CopyBack
  <2>1. run \in Requests /\ Accepts(run) /\ File \in Listed /\ k \in DOMAIN BootFiles
    BY <1>12, Running, AtHand DEF CopyBack
  <2>2. NameOf(run, File) \in Names /\ NameOf(run, File).file # "uboot"
    BY <2>1, Naming, ImageSignAssumption DEF NameOf
  <2>3. signed[NameOf(run, File)] \in Contents \cup {Missing}
    BY <2>2 DEF Typed, TypeOK
  <2>4. boot' \in [Listed -> Contents \cup {Missing}]
    BY <1>12, <2>1, <2>3, PlainTyped DEF CopyBack, Typed, TypeOK
  <2>5. lost' \in BOOLEAN /\ failed' \in BOOLEAN
    BY <1>12 DEF CopyBack, Typed, TypeOK
  <2>6. pc' \in {"sign", "umount"} /\ (pc' = "sign" => k' \in DOMAIN BootFiles)
    BY <1>12, <2>1, ImageSignAssumption DEF CopyBack
  <2> QED BY <1>12, <2>4, <2>5, <2>6 DEF CopyBack, Typed, TypeOK, Accepts
<1>13. CASE UnmountBoot
  BY <1>13, ZenonT(60) DEF UnmountBoot, Typed, TypeOK, Accepts
<1>14. CASE Interrupt
  BY <1>14 DEF Interrupt, Typed, TypeOK, Accepts
<1>15. CASE UNCHANGED vars
  BY <1>15 DEF vars, Typed, TypeOK, Accepts
<1> QED BY <1>1, <1>2, <1>3, <1>4, <1>5, <1>6, <1>7, <1>8, <1>9, <1>10, <1>11,
           <1>12, <1>13, <1>14, <1>15 DEF Next
-----------------------------------------------------------------------------
(* The loop over the files of the boot image has dealt with file i.        *)
Passed(i) == pc = "umount" \/ (pc \in {"sign", "cp"} /\ i < k)

(* What a run in which nothing has failed so far has made.                 *)
OnTheWay ==
  ~ failed =>
    /\ pc \in {"part", "cat"} => pubkey = [algo |-> run.algo, board |-> run.board]
    /\ pc = "cat" => MadeOf(run, part[run.version], image["uboot"])
    /\ pc \in {"sign", "cp", "umount"} => mounted
    /\ \A i \in DOMAIN BootFiles :
         Passed(i) => /\ boot[BootFiles[i]] = signed[NameOf(run, BootFiles[i])]
                      /\ AsAsked(run, boot[BootFiles[i]])
    /\ pc = "cp" => /\ signed[NameOf(run, File)] # Missing
                    /\ AsAsked(run, signed[NameOf(run, File)])

(* Two files of the boot image have signed files of two names.             *)
LEMMA NamesApart ==
  ASSUME NEW r, NEW i \in DOMAIN BootFiles, NEW j \in DOMAIN BootFiles, i # j
  PROVE  NameOf(r, BootFiles[i]) # NameOf(r, BootFiles[j])
BY ImageSignAssumption DEF NameOf

LEMMA NextOnTheWay ==
  Typed /\ OnTheWay /\ SignedAsAsked /\ [Next]_vars
    => OnTheWay' /\ SignedAsAsked'
<1> SUFFICES ASSUME Typed, OnTheWay, SignedAsAsked, [Next]_vars
             PROVE  OnTheWay' /\ SignedAsAsked'
  OBVIOUS
<1> USE DEF bootVars, toolVars
<1>1. ASSUME NEW type \in Singles \cup {"uboot"}, Replace(type)
      PROVE  OnTheWay' /\ SignedAsAsked'
  BY <1>1 DEF Replace, OnTheWay, Passed, SignedAsAsked
<1>2. CASE ReplaceBoot
  BY <1>2 DEF ReplaceBoot, OnTheWay, Passed, SignedAsAsked
<1>3. CASE UserUnmounts
  BY <1>3 DEF UserUnmounts, OnTheWay, Passed, SignedAsAsked
<1>4. ASSUME NEW r \in Requests, imagesign_main(r)
      PROVE  OnTheWay' /\ SignedAsAsked'
  BY <1>4 DEF imagesign_main, OnTheWay, Passed, SignedAsAsked
<1>5. CASE SignSingle
  <2>1. run \in Requests /\ Accepts(run) /\ run.type \in Singles
    BY <1>5, Running DEF SignSingle, Typed
  <2>2. OnTheWay'
    BY <1>5 DEF SignSingle, OnTheWay, Passed
  <2>3. CASE failed'
    BY <2>2, <2>3 DEF SignedAsAsked
  <2>4. CASE ~ failed'
    <3>1. /\ image[run.type] # Missing
          /\ signed' = [signed EXCEPT ![NameOf(run, run.type)] =
                          sigx(run, image[run.type])]
          /\ run' = run /\ image' = image
      BY <1>5, <2>4 DEF SignSingle
    <3>2. image[run.type] \in Contents
      BY <2>1, <3>1 DEF Typed, TypeOK
    <3>3. NameOf(run, run.type) \in Names
      BY <2>1, Naming
    <3>4. signed'[NameOf(run', run'.type)] = sigx(run, image[run.type])
      BY <3>1, <3>3 DEF Typed, TypeOK
    <3>5. MadeOf(run', signed'[NameOf(run', run'.type)], image'[run'.type])
      BY <2>1, <3>1, <3>2, <3>4, SignsAsAsked
    <3> QED BY <2>1, <2>2, <3>1, <3>5, ImageSignAssumption DEF SignedAsAsked
  <2> QED BY <2>3, <2>4
<1>6. CASE SignPubkey
  BY <1>6 DEF SignPubkey, OnTheWay, Passed, SignedAsAsked
<1>7. CASE SignPart
  <2>1. run \in Requests /\ Accepts(run) /\ run.version \in Versions
    BY <1>7, Running, Request DEF SignPart
  <2>2. CASE failed'
    BY <1>7, <2>2 DEF SignPart, OnTheWay, SignedAsAsked
  <2>3. CASE ~ failed'
    <3>1. /\ image["uboot"] # Missing
          /\ part' = [part EXCEPT ![run.version] = sigx(run, image["uboot"])]
          /\ run' = run /\ image' = image
      BY <1>7, <2>3, MissingAssumption DEF SignPart
    <3>2. image["uboot"] \in Contents
      BY <3>1 DEF Typed, TypeOK
    <3>3. part'[run'.version] = sigx(run, image["uboot"])
      BY <2>1, <3>1 DEF Typed, TypeOK
    <3>4. MadeOf(run', part'[run'.version], image'["uboot"])
      BY <2>1, <3>1, <3>2, <3>3, SignsAsAsked
    <3> QED BY <1>7, <3>1, <3>4 DEF SignPart, OnTheWay, Passed, SignedAsAsked
  <2> QED BY <2>2, <2>3
<1>8. CASE JoinParts
  <2>1. /\ run \in Requests /\ Accepts(run) /\ run.type = "uboot"
        /\ NameOf(run, "uboot") \in Names
    BY <1>8, Running, Naming DEF JoinParts, Typed
  <2>2. OnTheWay'
    BY <1>8 DEF JoinParts, OnTheWay, Passed
  <2>3. ~ failed' => /\ ~ failed
                     /\ signed'[NameOf(run', "uboot")] =
                          [key |-> pubkey, body |-> part[run.version]]
    BY <1>8, <2>1 DEF JoinParts, Typed, TypeOK
  <2>4. CASE ~ failed'
    <3>1. /\ pubkey = [algo |-> run.algo, board |-> run.board]
          /\ MadeOf(run, part[run.version], image["uboot"])
      BY <1>8, <2>3, <2>4 DEF JoinParts, OnTheWay
    <3>2. LET file == signed'[NameOf(run', "uboot")] IN
            /\ file.key = [algo |-> run'.algo, board |-> run'.board]
            /\ MadeOf(run', file.body, image'["uboot"])
      BY <1>8, <2>3, <2>4, <3>1 DEF JoinParts
    <3> QED BY <1>8, <2>1, <2>2, <3>2, ImageSignAssumption DEF JoinParts, SignedAsAsked
  <2>5. CASE failed'
    BY <1>8, <2>2, <2>5 DEF JoinParts, SignedAsAsked
  <2> QED BY <2>4, <2>5
<1>9. CASE RemoveBootimg
  BY <1>9 DEF RemoveBootimg, OnTheWay, Passed, SignedAsAsked
<1>10. CASE MountBoot
  <2>1. \A i \in DOMAIN BootFiles : ~ (i < 1)
    BY ImageSignAssumption
  <2> QED BY <1>10, <2>1 DEF MountBoot, OnTheWay, Passed, SignedAsAsked
<1>11. CASE SignFile
  <2>1. /\ run \in Requests /\ Accepts(run) /\ File \in Listed
        /\ k \in DOMAIN BootFiles /\ NameOf(run, File) \in Names
    BY <1>11, Running, AtHand, Naming DEF SignFile
  <2>2. CASE failed'
    BY <1>11, <2>2 DEF SignFile, OnTheWay, SignedAsAsked
  <2>3. CASE ~ failed'
    <3>1. /\ mounted /\ boot[File] # Missing /\ ~ failed
          /\ signed' = [signed EXCEPT ![NameOf(run, File)] = sigx(run, boot[File])]
          /\ UNCHANGED <<run, boot, mounted, k>> /\ pc = "sign" /\ pc' = "cp"
      BY <1>11, <2>3 DEF SignFile
    <3>2. boot[File] \in Contents
      BY <2>1, <3>1 DEF Typed, TypeOK
    <3>3. signed'[NameOf(run', File')] = sigx(run, boot[File])
      BY <2>1, <3>1 DEF Typed, TypeOK, File
    <3>4. MadeOf(run, sigx(run, boot[File]), boot[File])
      BY <2>1, <3>2, SignsAsAsked
    <3>5. /\ signed'[NameOf(run', File')] # Missing
          /\ AsAsked(run', signed'[NameOf(run', File')])
      BY <3>1, <3>3, <3>4, MissingAssumption DEF MadeOf
    <3>6. ASSUME NEW i \in DOMAIN BootFiles, Passed(i)'
          PROVE  /\ boot'[BootFiles[i]] = signed'[NameOf(run', BootFiles[i])]
                 /\ AsAsked(run', boot'[BootFiles[i]])
      <4>1. i < k /\ Passed(i) /\ i # k
        BY <2>1, <3>1, <3>6, ImageSignAssumption DEF Passed
      <4>2. NameOf(run, BootFiles[i]) # NameOf(run, File)
        BY <2>1, <4>1, NamesApart DEF File
      <4>3. NameOf(run, BootFiles[i]) \in Names
        BY <2>1, Naming DEF Listed
      <4>4. signed'[NameOf(run, BootFiles[i])] = signed[NameOf(run, BootFiles[i])]
        BY <3>1, <4>2, <4>3 DEF Typed, TypeOK
      <4> QED BY <3>1, <4>1, <4>4 DEF OnTheWay
    <3>7. OnTheWay'
      BY <3>1, <3>5, <3>6 DEF OnTheWay
    <3> QED BY <3>1, <3>7 DEF SignedAsAsked
  <2> QED BY <2>2, <2>3
<1>12. CASE CopyBack
  <2>1. /\ run \in Requests /\ Accepts(run) /\ File \in Listed
        /\ k \in DOMAIN BootFiles /\ k \in Nat /\ Len(BootFiles) \in Nat
        /\ DOMAIN BootFiles = 1..Len(BootFiles)
    BY <1>12, Running, AtHand, ImageSignAssumption DEF CopyBack
  <2>2. pc = "cp" /\ pc' # "idle"
    BY <1>12 DEF CopyBack
  <2>3. CASE failed'
    BY <2>2, <2>3 DEF OnTheWay, SignedAsAsked
  <2>4. CASE ~ failed'
    <3>1. ~ failed /\ UNCHANGED <<run, signed, mounted>>
      BY <1>12, <2>4 DEF CopyBack
    <3>2. /\ mounted /\ signed[NameOf(run, File)] # Missing
          /\ AsAsked(run, signed[NameOf(run, File)])
      BY <2>2, <3>1 DEF OnTheWay
    <3>3. boot' = [boot EXCEPT ![File] = signed[NameOf(run, File)]]
      BY <1>12, <2>4, <3>2 DEF CopyBack
    <3>4. ASSUME NEW i \in DOMAIN BootFiles, Passed(i)'
          PROVE  /\ boot'[BootFiles[i]] = signed'[NameOf(run', BootFiles[i])]
                 /\ AsAsked(run', boot'[BootFiles[i]])
      <4>1. i <= k
        BY <1>12, <2>1, <3>4 DEF CopyBack, Passed
      <4>2. CASE i = k
        <5>1. boot'[File] = signed[NameOf(run, File)]
          BY <2>1, <3>3 DEF Typed, TypeOK
        <5> QED BY <3>1, <3>2, <4>2, <5>1 DEF File
      <4>3. CASE i # k
        <5>1. Passed(i) /\ BootFiles[i] # File /\ BootFiles[i] \in Listed
          BY <2>1, <2>2, <4>1, <4>3, ImageSignAssumption DEF Passed, File, Listed
        <5>2. boot'[BootFiles[i]] = boot[BootFiles[i]]
          BY <3>3, <5>1 DEF Typed, TypeOK
        <5> QED BY <3>1, <5>1, <5>2 DEF OnTheWay
      <4> QED BY <4>2, <4>3
    <3>5. OnTheWay'
      <4>1. pc' \in {"sign", "umount"}
        BY <1>12 DEF CopyBack
      <4> QED BY <3>1, <3>2, <3>4, <4>1 DEF OnTheWay
    <3> QED BY <2>2, <3>5 DEF SignedAsAsked
  <2> QED BY <2>3, <2>4
<1>13. CASE UnmountBoot
  <2>1. OnTheWay'
    BY <1>13 DEF UnmountBoot, OnTheWay, Passed
  <2>2. CASE failed'
    BY <2>1, <2>2 DEF SignedAsAsked
  <2>3. CASE ~ failed'
    <3>1. ~ failed /\ UNCHANGED <<run, signed, boot>> /\ run.type = "ree"
      BY <1>13, <2>3 DEF UnmountBoot, Typed
    <3>2. \A f \in Listed : /\ boot[f] = signed[NameOf(run, f)]
                            /\ AsAsked(run, boot[f])
      BY <1>13, <3>1 DEF UnmountBoot, OnTheWay, Passed, Listed
    <3> QED BY <2>1, <3>1, <3>2, ImageSignAssumption DEF SignedAsAsked
  <2> QED BY <2>2, <2>3
<1>14. CASE Interrupt
  BY <1>14 DEF Interrupt, OnTheWay, Passed, SignedAsAsked
<1>15. CASE UNCHANGED vars
  BY <1>15 DEF vars, OnTheWay, Passed, SignedAsAsked, File
<1> QED BY <1>1, <1>2, <1>3, <1>4, <1>5, <1>6, <1>7, <1>8, <1>9, <1>10, <1>11,
           <1>12, <1>13, <1>14, <1>15 DEF Next
-----------------------------------------------------------------------------
(* While no step on the boot image has failed: it is mounted inside the    *)
(* loop only, its files are of the build put in place, those the loop has  *)
(* dealt with have one signature more than the rest, and what is to be     *)
(* copied over a file is that file with one signature more.                *)
Kept ==
  ~ lost =>
    /\ mounted => pc \in {"sign", "cp", "umount"}
    /\ \A f \in Listed : boot[f] \in Contents /\ boot[f].data = placed
    /\ \E n \in Nat : \A i \in DOMAIN BootFiles :
         Len(boot[BootFiles[i]].sigs) = IF mounted /\ Passed(i) THEN n + 1 ELSE n
    /\ pc = "cp" /\ mounted =>
         LET file == signed[NameOf(run, File)] IN
         /\ file \in Contents
         /\ file.data = boot[File].data
         /\ Len(file.sigs) = Len(boot[File].sigs) + 1

(* Steps outside the loop.                                                 *)
LEMMA KeptElsewhere ==
  ASSUME Kept, UNCHANGED <<boot, mounted, placed, lost>>,
         pc \notin {"sign", "cp", "umount"}, pc' \notin {"sign", "cp", "umount"}
  PROVE  Kept'
BY DEF Kept, Passed

LEMMA NextKept == Typed /\ Kept /\ [Next]_vars => Kept'
<1> SUFFICES ASSUME Typed, Kept, [Next]_vars PROVE Kept'
  OBVIOUS
<1> USE DEF bootVars, toolVars
<1>1. ASSUME NEW type \in Singles \cup {"uboot"}, Replace(type) PROVE Kept'
  BY <1>1, KeptElsewhere DEF Replace
<1>2. CASE ReplaceBoot
  <2>1. ~ mounted' /\ pc' = "idle" /\ boot' = [f \in Listed |-> Plain(placed')]
        /\ placed' \in Data
    BY <1>2 DEF ReplaceBoot
  <2>2. \A f \in Listed : /\ boot'[f] \in Contents /\ boot'[f].data = placed'
                          /\ Len(boot'[f].sigs) = 0
    BY <2>1, PlainTyped DEF Plain
  <2>3. \A i \in DOMAIN BootFiles :
          Len(boot'[BootFiles[i]].sigs) = IF mounted' /\ Passed(i)' THEN 0 + 1 ELSE 0
    BY <2>1, <2>2 DEF Listed
  <2> QED BY <2>1, <2>2, <2>3 DEF Kept
<1>3. CASE UserUnmounts
  BY <1>3 DEF UserUnmounts, Kept
<1>4. ASSUME NEW r \in Requests, imagesign_main(r) PROVE Kept'
  BY <1>4, KeptElsewhere DEF imagesign_main
<1>5. CASE SignSingle
  BY <1>5, KeptElsewhere DEF SignSingle
<1>6. CASE SignPubkey
  BY <1>6, KeptElsewhere DEF SignPubkey
<1>7. CASE SignPart
  BY <1>7, KeptElsewhere DEF SignPart
<1>8. CASE JoinParts
  BY <1>8, KeptElsewhere DEF JoinParts
<1>9. CASE RemoveBootimg
  <2>1. CASE mounted
    BY <1>9, <2>1 DEF RemoveBootimg, Kept
  <2>2. CASE ~ mounted
    BY <1>9, <2>2, KeptElsewhere DEF RemoveBootimg
  <2> QED BY <2>1, <2>2
<1>10. CASE MountBoot
  <2>1. SUFFICES ASSUME ~ lost' PROVE Kept'
    BY DEF Kept
  <2>2. PICK n \in Nat : \A i \in DOMAIN BootFiles :
          Len(boot[BootFiles[i]].sigs) = IF mounted /\ Passed(i) THEN n + 1 ELSE n
    BY <1>10, <2>1 DEF MountBoot, Kept
  <2>3. \A i \in DOMAIN BootFiles : ~ Passed(i) /\ ~ Passed(i)'
    BY <1>10, ImageSignAssumption DEF MountBoot, Passed
  <2>4. \A i \in DOMAIN BootFiles :
          Len(boot'[BootFiles[i]].sigs) = IF mounted' /\ Passed(i)' THEN n + 1 ELSE n
    BY <1>10, <2>2, <2>3 DEF MountBoot
  <2> QED BY <1>10, <2>1, <2>4 DEF MountBoot, Kept
<1>11. CASE SignFile
  <2>1. SUFFICES ASSUME ~ lost' PROVE Kept'
    BY DEF Kept
  <2>2. /\ ~ lost /\ UNCHANGED <<boot, mounted, placed, k, run>>
        /\ pc = "sign" /\ pc' = "cp"
    BY <1>11, <2>1 DEF SignFile
  <2>3. \A i \in DOMAIN BootFiles : Passed(i)' <=> Passed(i)
    BY <2>2 DEF Passed
  <2>4. ASSUME mounted
        PROVE  LET file == signed'[NameOf(run', File')] IN
               /\ file \in Contents
               /\ file.data = boot'[File'].data
               /\ Len(file.sigs) = Len(boot'[File'].sigs) + 1
    <3>1. /\ run \in Requests /\ Accepts(run) /\ File \in Listed /\ File' = File
          /\ NameOf(run, File) \in Names
      BY <2>2, Running, AtHand, Naming DEF File
    <3>2. boot[File] \in Contents
      BY <2>2, <3>1 DEF Kept
    <3>3. signed' = [signed EXCEPT ![NameOf(run, File)] = sigx(run, boot[File])]
      BY <1>11, <2>1, <2>4 DEF SignFile
    <3>4. signed'[NameOf(run, File)] = sigx(run, boot[File])
      BY <3>1, <3>3 DEF Typed, TypeOK
    <3>5. MadeOf(run, sigx(run, boot[File]), boot[File])
      BY <3>1, <3>2, SignsAsAsked
    <3> QED BY <2>2, <3>1, <3>4, <3>5 DEF MadeOf
  <2> QED BY <2>2, <2>3, <2>4 DEF Kept
<1>12. CASE CopyBack
  <2>1. SUFFICES ASSUME ~ lost' PROVE Kept'
    BY DEF Kept
  <2>2. /\ ~ lost /\ UNCHANGED <<mounted, placed, signed, run>>
        /\ pc = "cp" /\ pc' \in {"sign", "umount"}
    BY <1>12, <2>1 DEF CopyBack
  <2>3. /\ File \in Listed /\ k \in DOMAIN BootFiles /\ File = BootFiles[k]
        /\ k \in Nat /\ Len(BootFiles) \in Nat
        /\ DOMAIN BootFiles = 1..Len(BootFiles)
    BY <2>2, AtHand, ImageSignAssumption DEF File
  <2>4. PICK n \in Nat : \A i \in DOMAIN BootFiles :
          Len(boot[BootFiles[i]].sigs) = IF mounted /\ Passed(i) THEN n + 1 ELSE n
    BY <2>2 DEF Kept
  <2>5. CASE ~ mounted
    <3>1. boot' = boot
      BY <1>12, <2>5 DEF CopyBack
    <3>2. \A i \in DOMAIN BootFiles :
            Len(boot'[BootFiles[i]].sigs) = IF mounted' /\ Passed(i)' THEN n + 1 ELSE n
      BY <2>2, <2>4, <2>5, <3>1
    <3> QED BY <2>1, <2>2, <2>5, <3>1, <3>2 DEF Kept
  <2>6. CASE mounted
    <3> DEFINE file == signed[NameOf(run, File)]
    <3>1. /\ file \in Contents
          /\ file.data = boot[File].data
          /\ Len(file.sigs) = Len(boot[File].sigs) + 1
      BY <2>2, <2>6 DEF Kept
    <3>2. boot' = [boot EXCEPT ![File] = file]
      BY <1>12, <2>1, <2>6, <3>1, MissingAssumption DEF CopyBack
    <3> HIDE DEF file
    <3>3. \A f \in Listed : boot'[f] \in Contents /\ boot'[f].data = placed'
      BY <2>2, <2>3, <3>1, <3>2 DEF Kept, Typed, TypeOK
    <3>4. ASSUME NEW i \in DOMAIN BootFiles
          PROVE  Len(boot'[BootFiles[i]].sigs) =
                   IF mounted' /\ Passed(i)' THEN n + 1 ELSE n
      <4>1. Passed(i)' <=> i <= k
        BY <1>12, <2>3 DEF CopyBack, Passed
      <4>2. Passed(i) <=> i < k
        BY <2>2 DEF Passed
      <4>3. CASE i = k
        <5>1. ~ Passed(k) /\ Len(boot[File].sigs) = n
          BY <2>3, <2>4, <4>2, <4>3
        <5>2. boot'[BootFiles[i]] = file
          BY <2>3, <3>2, <4>3 DEF Typed, TypeOK
        <5> QED BY <2>2, <2>3, <2>6, <3>1, <4>1, <4>3, <5>1, <5>2
      <4>4. CASE i # k
        <5>1. BootFiles[i] # File /\ BootFiles[i] \in Listed
          BY <2>3, <4>4, ImageSignAssumption DEF Listed
        <5>2. boot'[BootFiles[i]] = boot[BootFiles[i]]
          BY <3>2, <5>1 DEF Typed, TypeOK
        <5>3. Passed(i)' <=> Passed(i)
          BY <2>3, <4>1, <4>2, <4>4
        <5> QED BY <2>2, <2>4, <5>2, <5>3
      <4> QED BY <4>3, <4>4
    <3> QED BY <2>2, <3>3, <3>4 DEF Kept
  <2> QED BY <2>5, <2>6
<1>13. CASE UnmountBoot
  <2>1. SUFFICES ASSUME ~ lost' PROVE Kept'
    BY DEF Kept
  <2>2. /\ ~ lost /\ UNCHANGED <<boot, placed>> /\ pc = "umount" /\ pc' = "idle"
        /\ ~ mounted'
    BY <1>13, <2>1 DEF UnmountBoot
  <2>3. PICK n \in Nat : \A i \in DOMAIN BootFiles :
          Len(boot[BootFiles[i]].sigs) = IF mounted /\ Passed(i) THEN n + 1 ELSE n
    BY <2>2 DEF Kept
  <2>4. \E m \in Nat : \A i \in DOMAIN BootFiles :
          Len(boot'[BootFiles[i]].sigs) = IF mounted' /\ Passed(i)' THEN m + 1 ELSE m
    <3>1. CASE mounted
      <4>1. \A i \in DOMAIN BootFiles : Len(boot'[BootFiles[i]].sigs) = n + 1
        BY <2>2, <2>3, <3>1 DEF Passed
      <4>2. n + 1 \in Nat
        OBVIOUS
      <4> QED BY <2>2, <4>1, <4>2
    <3>2. CASE ~ mounted
      BY <2>2, <2>3, <3>2
    <3> QED BY <3>1, <3>2
  <2> QED BY <2>2, <2>4 DEF Kept
<1>14. CASE Interrupt
  <2>1. CASE lost'
    BY <2>1 DEF Kept
  <2>2. CASE ~ lost'
    BY <1>14, <2>2 DEF Interrupt, Kept, Typed, TypeOK
  <2> QED BY <2>1, <2>2
<1>15. CASE UNCHANGED vars
  BY <1>15 DEF vars, Kept, Passed, File
<1> QED BY <1>1, <1>2, <1>3, <1>4, <1>5, <1>6, <1>7, <1>8, <1>9, <1>10, <1>11,
           <1>12, <1>13, <1>14, <1>15 DEF Next
-----------------------------------------------------------------------------
IInv == Typed /\ OnTheWay /\ SignedAsAsked /\ Kept

LEMMA InitInvariant == Init => IInv
<1> SUFFICES ASSUME Init PROVE IInv
  OBVIOUS
<1>1. OnTheWay /\ SignedAsAsked
  BY DEF Init, OnTheWay, Passed, SignedAsAsked
<1>2. \A f \in Listed : /\ boot[f] \in Contents /\ boot[f].data = placed
                        /\ Len(boot[f].sigs) = 0
  BY PlainTyped DEF Init, Plain
<1>3. \A i \in DOMAIN BootFiles :
        Len(boot[BootFiles[i]].sigs) = IF mounted /\ Passed(i) THEN 0 + 1 ELSE 0
  BY <1>2 DEF Init, Listed
<1>4. Kept
  BY <1>2, <1>3 DEF Init, Kept
<1> QED BY <1>1, <1>4, InitTyped DEF IInv

LEMMA Invariant == Spec => []IInv
<1>1. IInv /\ [Next]_vars => IInv'
  BY NextTyped, NextOnTheWay, NextKept DEF IInv
<1> QED BY <1>1, InitInvariant, PTL DEF Spec

(* Every variable keeps to its type.                                       *)
THEOREM TypeCorrect == Spec => []TypeOK
<1>1. IInv => TypeOK
  BY DEF IInv, Typed
<1> QED BY <1>1, Invariant, PTL

(* After a run in which nothing failed, the file asked for is the image    *)
(* signed as asked, in both parts of a u-boot image, whatever is left of   *)
(* other runs.                                                             *)
THEOREM RunsSign == Spec => []SignedAsAsked
<1>1. IInv => SignedAsAsked
  BY DEF IInv
<1> QED BY <1>1, Invariant, PTL

(* The boot image keeps its files, of one build and signed alike, unless a *)
(* step on it failed or was left half done.                                *)
THEOREM BootImageKept == Spec => []BootFilesKept
<1>1. ASSUME IInv PROVE BootFilesKept
  <2>1. ASSUME ~ lost, pc = "idle", NEW f \in Listed, NEW g \in Listed
        PROVE  Len(boot[f].sigs) = Len(boot[g].sigs)
    <3>1. PICK n \in Nat : \A i \in DOMAIN BootFiles : Len(boot[BootFiles[i]].sigs) = n
      BY <1>1, <2>1 DEF IInv, Kept
    <3> QED BY <3>1 DEF Listed
  <2> QED BY <1>1, <2>1 DEF IInv, Kept, BootFilesKept
<1> QED BY <1>1, Invariant, PTL
=============================================================================
