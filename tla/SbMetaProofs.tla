---------------------------- MODULE SbMetaProofs ----------------------------
(***************************************************************************)
(* Proofs about SbMeta, for any images, lists, versions and size of the    *)
(* file.                                                                   *)
(*                                                                         *)
(* Everything rests on the images staying as they are while a build is     *)
(* under way: what the check found out about an image is still so when it  *)
(* is recorded (Checked), a record once made stays right (Recorded), and   *)
(* an image once signed stays signed (Made).                               *)
(***************************************************************************)
EXTENDS SbMeta, SequenceTheorems, TLAPS

Building == pc \in {"sign", "add", "pad"}

Under == Building \/ result = "done"

(* What the check found out is still so.                                   *)
Checked ==
  /\ Building => info = [j \in DOMAIN list |-> AboutImage(list[j])]
  /\ Under => \A j \in DOMAIN list : Accepted(list[j])

LEMMA ListTyped ==
  ASSUME list \in Configs \cup {<<>>}
  PROVE  /\ list \in Seq(Entries) /\ DOMAIN list = 1..Len(list) /\ Len(list) \in Nat
         /\ \A j \in DOMAIN list : list[j] \in Entries
<1>1. Configs \subseteq Seq(Entries)
  BY SbMetaAssumption
<1>2. <<>> \in Seq(Entries)
  OBVIOUS
<1>3. list \in Seq(Entries)
  BY <1>1, <1>2
<1>4. DOMAIN list = 1..Len(list) /\ Len(list) \in Nat
  BY <1>3
<1>5. \A j \in 1..Len(list) : list[j] \in Entries
  BY <1>3
<1> QED BY <1>3, <1>4, <1>5

LEMMA NameTyped ==
  ASSUME NEW image \in Entries, image.type \in Signable, image.algorithm \in {"ia", "sm"}
  PROVE  NameOf(image) \in Names
<1>1. VersionOf(image) \in Versions
  BY SbMetaAssumption DEF VersionOf
<1> QED BY <1>1 DEF NameOf, Names

LEMMA SchemesOf ==
  SchemeOf("nor") = "none" /\ SchemeOf("ia") = "rsa_2048" /\ SchemeOf("sm") = "sm2"
BY DEF SchemeOf

(* What imagesign.sh makes for a name while the images are as they are.    *)
Product(name) ==
  [data |-> files[SignInput[name.type]].data, scheme |-> SchemeOf(name.algorithm),
   version |-> name.version]

(* Whatever the sign tool does, a signed file is the one of before or the  *)
(* one that was to be made.                                                *)
LEMMA ImagesignMakes ==
  ASSUME TypeOK, NEW name \in Names, imagesign(name)
  PROVE  /\ signed' \in [Names -> Content \cup {Missing}]
         /\ \A n \in Names : signed'[n] # signed[n] => n = name
         /\ \A n \in Names : signed'[n] = signed[n] \/ signed'[n] = Product(n)
         /\ k \notin spoiled' /\ files[SignInput[name.type]] # Missing
              => signed'[name] = Product(name)
         /\ spoiled \subseteq spoiled'
<1> DEFINE input == files[SignInput[name.type]]
<1>1. name.type \in Signable /\ name.algorithm \in {"ia", "sm"} /\ name.version \in Versions
  BY DEF Names
<1>2. input \in Content \cup {Missing}
  BY <1>1, SbMetaAssumption DEF TypeOK
<1>3. CASE /\ input # Missing
           /\ signed' = [signed EXCEPT ![name] =
                [data |-> input.data, scheme |-> SchemeOf(name.algorithm),
                 version |-> name.version]]
           /\ UNCHANGED spoiled
  <2>1. Product(name) \in Content
    BY <1>1, <1>2, <1>3, SchemesOf DEF Product, Content, Schemes
  <2>2. signed' = [signed EXCEPT ![name] = Product(name)]
    BY <1>3 DEF Product
  <2> QED BY <1>3, <2>1, <2>2 DEF TypeOK
<1>4. CASE input = Missing /\ UNCHANGED <<signed, spoiled>>
  BY <1>4 DEF TypeOK
<1>5. CASE "signtool" \in Faults /\ spoiled' = spoiled \cup {k} /\ UNCHANGED signed
  BY <1>5 DEF TypeOK
<1> QED BY <1>3, <1>4, <1>5 DEF imagesign

(* During a build the images and the list stay, and what depends on them.  *)
LEMMA Steady ==
  ASSUME UNCHANGED <<files, list>>
  PROVE  /\ \A j : AboutImage(list[j])' = AboutImage(list[j])
         /\ \A j : IsSecure(list[j])' = IsSecure(list[j])
         /\ \A j : Accepted(list[j])' = Accepted(list[j])
         /\ \A j : Read(list[j].path)' = Read(list[j].path)
         /\ \A j : Served(j)' = Served(j)
         /\ \A j : NameOf(list[j])' = NameOf(list[j])
         /\ \A j : list[j].algorithm' = list[j].algorithm
         /\ \A n : Product(n)' = Product(n)
BY DEF AboutImage, IsSecure, Accepted, Read, Served, Product, NameOf, VersionOf

(* The scheme the check gives an image of the list is one of the three.    *)
LEMMA AboutTyped ==
  ASSUME TypeOK, NEW j \in DOMAIN list, Accepted(list[j])
  PROVE  AboutImage(list[j]).scheme \in Schemes
<1>1. CASE IsSecure(list[j])
  BY <1>1 DEF AboutImage, Accepted
<1>2. CASE ~ IsSecure(list[j])
  BY <1>2, SchemesOf DEF AboutImage, Accepted, Schemes
<1> QED BY <1>1, <1>2

(* With what the check found out, the file that is digested is the one to  *)
(* be installed.                                                           *)
LEMMA DigestedIsInstalled ==
  ASSUME NEW j \in DOMAIN list, Accepted(list[j])
  PROVE  Digested(list[j], AboutImage(list[j])) = Installed(j)
BY DEF Digested, Installed, ToSign, AboutImage, Accepted

LEMMA InstalledTyped ==
  ASSUME TypeOK, NEW j \in DOMAIN list
  PROVE  Installed(j) \in Content \cup {Missing}
<1>1. list[j] \in Entries
  BY ListTyped DEF TypeOK
<1>2. Read(list[j].path) \in Content \cup {Missing}
  BY <1>1 DEF Read, TypeOK, Entries
<1>3. CASE list[j].type \in Signable /\ list[j].algorithm \in {"ia", "sm"}
  BY <1>1, <1>2, <1>3, NameTyped DEF Installed, TypeOK
<1>4. CASE ~ (list[j].type \in Signable /\ list[j].algorithm \in {"ia", "sm"})
  BY <1>2, <1>4 DEF Installed
<1> QED BY <1>3, <1>4

(* What is recorded for an image of the list.                              *)
LEMMA RecordTyped ==
  ASSUME TypeOK, NEW j \in DOMAIN list, Accepted(list[j]),
         Recordable(list[j], AboutImage(list[j]))
  PROVE  RecordOf(list[j], AboutImage(list[j])) \in Records
<1>1. list[j].type \in Types
  BY ListTyped DEF TypeOK, Entries, Recordable
<1>2. AboutImage(list[j]).scheme \in Schemes
  BY AboutTyped
<1>3. Digested(list[j], AboutImage(list[j])) \in Content \cup {Missing}
  BY DigestedIsInstalled, InstalledTyped
<1> QED BY <1>1, <1>2, <1>3 DEF RecordOf, Records
-----------------------------------------------------------------------------
(* One step of the build keeps the types, ...                              *)
LEMMA TypeNext ==
  ASSUME TypeOK, Checked, [Next]_vars
  PROVE  TypeOK'
<1>1. ASSUME NEW path \in Paths, Replace(path) PROVE TypeOK'
  <2>1. \A content \in Plain \cup {Missing} \cup
           [data : Data, scheme : {"rsa_2048", Invalid}, version : {Default}] :
          content \in Content \cup {Missing}
    BY SbMetaAssumption DEF Plain, Content, Schemes
  <2>2. files' \in [Paths -> Content \cup {Missing}]
    BY <1>1, <2>1 DEF Replace, TypeOK
  <2> QED BY <1>1, <2>2 DEF Replace, TypeOK
<1>2. ASSUME NEW config \in Configs, Build(config) PROVE TypeOK'
  <2>1. out' \in [records : Seq(Records), rest : Rests] /\ Len(out'.records) = 0
    BY <1>2 DEF Build, Rests
  <2> QED BY <1>2, <2>1 DEF Build, TypeOK
<1>3. CASE check_config_yaml
  <2>1. Len(list) \in Nat /\ DOMAIN list = 1..Len(list) /\ list \in Seq(Entries)
    BY ListTyped DEF TypeOK
  <2>2. list # <<>> => 1 \in DOMAIN list
    BY <2>1
  <2> QED BY <1>3, <2>1, <2>2 DEF check_config_yaml, TypeOK, Fail, Ends
<1>4. CASE sign_image
  <2>1. signed' \in [Names -> Content \cup {Missing}]
    <3>1. CASE UNCHANGED signed
      BY <3>1 DEF TypeOK
    <3>2. CASE /\ ToSign(Image, info[k])
               /\ Image.type \in Signable /\ Image.fields # "encryption"
               /\ imagesign(NameOf(Image))
      <4>1. pc = "sign" /\ k \in DOMAIN list
        BY <1>4 DEF sign_image, TypeOK
      <4>2. info[k] = AboutImage(list[k]) /\ Accepted(list[k])
        BY <4>1 DEF Checked, Building, Under
      <4>3. Image \in Entries /\ Image.algorithm \in {"ia", "sm"}
        BY <3>2, <4>1, <4>2, ListTyped
           DEF ToSign, AboutImage, Accepted, Image, TypeOK
      <4> QED BY <3>2, <4>3, NameTyped, ImagesignMakes
    <3> QED BY <1>4, <3>1, <3>2 DEF sign_image
  <2> QED BY <1>4, <2>1 DEF sign_image, TypeOK, Fail, Ends
<1>5. CASE add_image
  <2>1. pc = "add" /\ k \in DOMAIN list /\ Len(out.records) = k - 1
    BY <1>5 DEF add_image, TypeOK
  <2>2. Len(list) \in Nat /\ DOMAIN list = 1..Len(list) /\ out.records \in Seq(Records)
    BY ListTyped DEF TypeOK
  <2>3. CASE /\ Recordable(Image, info[k])
             /\ out' = [out EXCEPT !.records = Append(@, RecordOf(Image, info[k]))]
             /\ k' = k + 1
             /\ pc' = IF k = Len(list) THEN "pad" ELSE "sign"
             /\ UNCHANGED <<result, info>>
    <3>1. RecordOf(Image, info[k]) \in Records
      BY <2>1, <2>3, RecordTyped DEF Checked, Building, Under, Image
    <3> DEFINE s == Append(out.records, RecordOf(Image, info[k]))
    <3>2. s \in Seq(Records) /\ Len(s) = Len(out.records) + 1
      BY <2>2, <3>1
    <3>3. out \in [records : Seq(Records), rest : Rests]
      BY DEF TypeOK
    <3>4. out' = [out EXCEPT !.records = s]
      BY <2>3
    <3> HIDE DEF s
    <3>5. out' \in [records : Seq(Records), rest : Rests] /\ out'.records = s
      BY <3>2, <3>3, <3>4
    <3>6. Len(out'.records) = k /\ k \in Nat
      BY <2>1, <2>2, <3>2, <3>5
    <3>7. /\ pc' \in {"sign", "pad"}
          /\ pc' = "sign" => k' \in DOMAIN list /\ Len(out'.records) = k' - 1
          /\ pc' = "pad" => Len(out'.records) = Len(list)
      <4>1. CASE k = Len(list)
        BY <2>3, <3>6, <4>1
      <4>2. CASE k # Len(list)
        <5>1. k + 1 \in 1..Len(list) /\ k' = k + 1 /\ pc' = "sign"
          BY <2>1, <2>2, <2>3, <3>6, <4>2
        <5>2. k' \in DOMAIN list /\ k = k' - 1
          BY <2>2, <3>6, <5>1
        <5> QED BY <3>6, <5>1, <5>2
      <4> QED BY <4>1, <4>2
    <3>8. UNCHANGED <<files, signed, list, result>> /\ result = "none"
      BY <1>5, <2>1, <2>3 DEF add_image, TypeOK
    <3> QED BY <3>5, <3>7, <3>8 DEF TypeOK
  <2>4. CASE ~ Recordable(Image, info[k]) /\ Fail /\ out' \in {out, [out EXCEPT !.rest = "torn"]}
    <3>1. /\ out' \in [records : Seq(Records), rest : Rests]
          /\ out'.records = out.records
      BY <2>4 DEF TypeOK, Rests
    <3> QED BY <1>5, <2>4, <3>1 DEF add_image, TypeOK, Fail, Ends
  <2> QED BY <1>5, <2>3, <2>4 DEF add_image
<1>6. CASE padding_image
  <2>1. /\ out' \in [records : Seq(Records), rest : Rests]
        /\ out'.records = out.records
    BY <1>6 DEF padding_image, TypeOK, Rests
  <2> QED BY <1>6, <2>1 DEF padding_image, TypeOK, Fail, Ends
<1>7. CASE UNCHANGED vars
  BY <1>7 DEF vars, TypeOK
<1> QED BY <1>1, <1>2, <1>3, <1>4, <1>5, <1>6, <1>7 DEF Next

(* ... and what the check found out, as images and list stay until it ends. *)
LEMMA CheckedNext ==
  ASSUME TypeOK, Checked, [Next]_vars
  PROVE  Checked'
<1>1. ASSUME NEW path \in Paths, Replace(path) PROVE Checked'
  BY <1>1 DEF Replace, Checked, Under, Building
<1>2. ASSUME NEW config \in Configs, Build(config) PROVE Checked'
  BY <1>2 DEF Build, Checked, Under, Building
<1>3. CASE check_config_yaml
  <2>1. UNCHANGED <<files, list>>
    BY <1>3 DEF check_config_yaml
  <2> QED BY <1>3, <2>1, Steady
        DEF check_config_yaml, Checked, Under, Building, Fail, Ends, Accepted
<1>4. CASE sign_image
  <2>1. UNCHANGED <<files, list>>
    BY <1>4 DEF sign_image
  <2> QED BY <1>4, <2>1, Steady
        DEF sign_image, Checked, Under, Building, Fail, Ends, Accepted, TypeOK
<1>5. CASE add_image
  <2>1. UNCHANGED <<files, list>>
    BY <1>5 DEF add_image
  <2> QED BY <1>5, <2>1, Steady
        DEF add_image, Checked, Under, Building, Fail, Ends, Accepted, TypeOK
<1>6. CASE padding_image
  <2>1. UNCHANGED <<files, list>>
    BY <1>6 DEF padding_image
  <2> QED BY <1>6, <2>1, Steady
        DEF padding_image, Checked, Under, Building, Fail, Ends, Accepted
<1>7. CASE UNCHANGED vars
  <2>1. UNCHANGED <<files, list>>
    BY <1>7 DEF vars
  <2> QED BY <1>7, <2>1, Steady DEF vars, Checked, Under, Building, Accepted
<1> QED BY <1>1, <1>2, <1>3, <1>4, <1>5, <1>6, <1>7 DEF Next
-----------------------------------------------------------------------------
(* What is recorded so far is the type and the scheme of the image.        *)
Recorded ==
  Under => \A j \in DOMAIN out.records :
    /\ out.records[j].type = list[j].type
    /\ out.records[j].scheme = AboutImage(list[j]).scheme

(* The file is padded by a build that succeeds and by no other, after the  *)
(* last record; and what it has of records is of the list at hand.         *)
Padded ==
  /\ out.rest = "padding" =>
       /\ pc = "idle" /\ result # "failed"
       /\ Len(out.records) = Len(list) /\ Len(out.records) < Slots
  /\ result = "done" => out.rest = "padding"
  /\ \A j \in DOMAIN out.records :
       j \in DOMAIN list /\ out.records[j].type = list[j].type

(* The image needs a signature, and imagesign.sh has been called for it.   *)
Needs(j) ==
  /\ Read(list[j].path) # Missing /\ ~ IsSecure(list[j])
  /\ list[j].algorithm \in {"ia", "sm"}
Handled(j) ==
  /\ pc = "sign" => j < k
  /\ pc = "add" => j <= k

(* What imagesign.sh could sign is the product of the image as it is.      *)
Made ==
  Under => \A j \in DOMAIN list \ spoiled :
    Handled(j) /\ Served(j) /\ Needs(j) =>
      signed[NameOf(list[j])] = Product(NameOf(list[j]))

Invariant == TypeOK /\ Checked /\ Recorded /\ Padded /\ Made

(* add_image leaves the records there are and adds the one of image k.     *)
LEMMA AddsRecord ==
  ASSUME TypeOK, Checked, pc = "add", Recordable(Image, info[k]),
         out' = [out EXCEPT !.records = Append(@, RecordOf(Image, info[k]))]
  PROVE  /\ k \in DOMAIN list /\ info[k] = AboutImage(list[k])
         /\ Accepted(list[k])
         /\ DOMAIN out'.records = 1..k
         /\ DOMAIN out.records = 1..(k - 1)
         /\ out'.records[k] = RecordOf(list[k], AboutImage(list[k]))
         /\ \A j \in 1..(k - 1) : out'.records[j] = out.records[j]
         /\ UNCHANGED out.rest
<1>1. /\ k \in DOMAIN list /\ info[k] = AboutImage(list[k])
      /\ Accepted(list[k])
  BY DEF TypeOK, Checked, Building, Under
<1>2. k \in Nat
  BY <1>1, ListTyped DEF TypeOK
<1> DEFINE r == RecordOf(list[k], AboutImage(list[k]))
<1>3. r \in Records
  BY <1>1, RecordTyped DEF Image
<1>4. out.records \in Seq(Records) /\ Len(out.records) = k - 1
  BY DEF TypeOK
<1>5. /\ Len(Append(out.records, r)) = k
      /\ DOMAIN Append(out.records, r) = 1..k
      /\ Append(out.records, r)[k] = r
      /\ \A j \in 1..(k - 1) : Append(out.records, r)[j] = out.records[j]
  BY <1>2, <1>3, <1>4
<1>6. out'.records = Append(out.records, r) /\ out'.rest = out.rest
  BY <1>1 DEF TypeOK, Image
<1> QED BY <1>1, <1>4, <1>5, <1>6

LEMMA RecordSays ==
  ASSUME NEW image, NEW about
  PROVE  /\ RecordOf(image, about).type = image.type
         /\ RecordOf(image, about).scheme = about.scheme
         /\ RecordOf(image, about).digest \in {Digested(image, about), Missing}
BY DEF RecordOf

LEMMA RecordedNext ==
  ASSUME TypeOK, Checked, Recorded, [Next]_vars
  PROVE  Recorded'
<1>1. ASSUME NEW path \in Paths, Replace(path) PROVE Recorded'
  BY <1>1 DEF Replace, Recorded, Under, Building
<1>2. ASSUME NEW config \in Configs, Build(config) PROVE Recorded'
  BY <1>2 DEF Build, Recorded, Under, Building
<1>3. CASE check_config_yaml
  <2>1. out.records = <<>> /\ UNCHANGED out
    BY <1>3 DEF check_config_yaml, TypeOK
  <2> QED BY <2>1 DEF Recorded
<1>4. CASE sign_image
  <2>1. UNCHANGED <<files, list, out>>
    BY <1>4 DEF sign_image
  <2> QED BY <1>4, <2>1, Steady
        DEF sign_image, Recorded, Under, Building, Fail, Ends
<1>5. CASE add_image
  <2>1. UNCHANGED <<files, list>> /\ pc = "add"
    BY <1>5 DEF add_image
  <2>2. CASE Recordable(Image, info[k]) /\ UNCHANGED result
             /\ out' = [out EXCEPT !.records = Append(@, RecordOf(Image, info[k]))]
    <3>1. \A j \in 1..(k - 1) : /\ out.records[j].type = list[j].type
                                /\ out.records[j].scheme = AboutImage(list[j]).scheme
      BY <2>1, <2>2, AddsRecord DEF Recorded, Under, Building
    <3>2. out'.records[k].type = list[k].type
          /\ out'.records[k].scheme = AboutImage(list[k]).scheme
      <4>1. out'.records[k] = RecordOf(list[k], AboutImage(list[k]))
        BY <2>1, <2>2, AddsRecord
      <4> QED BY <4>1, RecordSays
    <3>3. k \in Nat
      BY <2>1, <2>2, AddsRecord, ListTyped DEF TypeOK
    <3>4. \A j \in DOMAIN out'.records : j = k \/ j \in 1..(k - 1)
      BY <2>1, <2>2, <3>3, AddsRecord
    <3>5. \A j \in DOMAIN out'.records :
            /\ out'.records[j].type = list[j].type
            /\ out'.records[j].scheme = AboutImage(list[j]).scheme
      BY <2>1, <2>2, <3>1, <3>2, <3>4, AddsRecord
    <3> QED BY <2>1, <3>5, Steady DEF Recorded
  <2>3. CASE Fail
    BY <2>3 DEF Fail, Ends, Recorded, Under, Building
  <2> QED BY <1>5, <2>2, <2>3 DEF add_image
<1>6. CASE padding_image
  <2>1. UNCHANGED <<files, list>> /\ pc = "pad" /\ out'.records = out.records
    BY <1>6 DEF padding_image, TypeOK
  <2> QED BY <2>1, Steady DEF Recorded, Under, Building
<1>7. CASE UNCHANGED vars
  <2>1. UNCHANGED <<files, list, out, pc, result>>
    BY <1>7 DEF vars
  <2> QED BY <2>1, Steady DEF Recorded, Under, Building
<1> QED BY <1>1, <1>2, <1>3, <1>4, <1>5, <1>6, <1>7 DEF Next

LEMMA PaddedNext ==
  ASSUME TypeOK, Checked, Padded, [Next]_vars
  PROVE  Padded'
<1>1. ASSUME NEW path \in Paths, Replace(path) PROVE Padded'
  BY <1>1 DEF Replace, Padded
<1>2. ASSUME NEW config \in Configs, Build(config) PROVE Padded'
  BY <1>2 DEF Build, Padded
<1>3. CASE check_config_yaml
  BY <1>3 DEF check_config_yaml, Padded, Fail, Ends, TypeOK
<1>4. CASE sign_image
  BY <1>4 DEF sign_image, Padded, Fail, Ends, TypeOK
<1>5. CASE add_image
  <2>1. pc = "add" /\ UNCHANGED list /\ result = "none" /\ out.rest # "padding"
    BY <1>5 DEF add_image, TypeOK, Padded
  <2>2. CASE Recordable(Image, info[k]) /\ UNCHANGED result
             /\ out' = [out EXCEPT !.records = Append(@, RecordOf(Image, info[k]))]
    <3>1. /\ k \in DOMAIN list /\ k \in Nat
          /\ DOMAIN out'.records = 1..k
          /\ DOMAIN out.records = 1..(k - 1)
          /\ out'.records[k].type = list[k].type
          /\ \A j \in 1..(k - 1) : out'.records[j] = out.records[j]
          /\ out'.rest = out.rest
      BY <2>1, <2>2, AddsRecord, RecordSays, ListTyped DEF TypeOK
    <3>2. \A j \in DOMAIN out'.records : j = k \/ j \in DOMAIN out.records
      BY <3>1
    <3>3. \A j \in DOMAIN out'.records :
            j \in DOMAIN list /\ out'.records[j].type = list[j].type
      BY <3>1, <3>2 DEF Padded
    <3> QED BY <2>1, <2>2, <3>1, <3>3 DEF Padded
  <2>3. CASE Fail /\ out' \in {out, [out EXCEPT !.rest = "torn"]}
    <3>1. out'.records = out.records /\ out'.rest # "padding"
      BY <2>1, <2>3 DEF TypeOK
    <3> QED BY <2>1, <2>3, <3>1 DEF Padded, Fail, Ends
  <2> QED BY <1>5, <2>2, <2>3 DEF add_image
<1>6. CASE padding_image
  <2>1. CASE /\ Len(out.records) < Slots
             /\ out' = [out EXCEPT !.rest = "padding"]
             /\ Ends("done")
    <3>1. pc = "pad" /\ UNCHANGED list /\ out'.records = out.records /\ out'.rest = "padding"
      BY <1>6, <2>1 DEF padding_image, TypeOK
    <3>2. Len(out.records) = Len(list)
      BY <3>1 DEF TypeOK
    <3> QED BY <2>1, <3>1, <3>2 DEF Ends, Padded
  <2>2. CASE Fail /\ UNCHANGED out
    BY <1>6, <2>2 DEF padding_image, Padded, Fail, Ends, TypeOK
  <2> QED BY <1>6, <2>1, <2>2 DEF padding_image
<1>7. CASE UNCHANGED vars
  BY <1>7 DEF vars, Padded
<1> QED BY <1>1, <1>2, <1>3, <1>4, <1>5, <1>6, <1>7 DEF Next

LEMMA MadeNext ==
  ASSUME TypeOK, Checked, Made, [Next]_vars
  PROVE  Made'
<1>1. ASSUME NEW path \in Paths, Replace(path) PROVE Made'
  BY <1>1 DEF Replace, Made, Under, Building
<1>2. ASSUME NEW config \in Configs, Build(config) PROVE Made'
  BY <1>2 DEF Build, Made, Under, Building
<1>3. CASE check_config_yaml
  <2>1. DOMAIN list = 1..Len(list) /\ Len(list) \in Nat /\ UNCHANGED list
    BY <1>3, ListTyped DEF check_config_yaml, TypeOK
  <2>2. CASE pc' = "sign" /\ k' = 1
    <3>1. \A j \in DOMAIN list : ~ (j < 1)
      BY <2>1
    <3> QED BY <2>1, <2>2, <3>1 DEF Made, Handled
  <2>3. CASE Fail
    BY <2>3 DEF Fail, Ends, Made, Under, Building
  <2> QED BY <1>3, <2>2, <2>3 DEF check_config_yaml
<1>4. CASE sign_image
  <2> USE <1>4
  <2>1. pc = "sign" /\ k \in DOMAIN list /\ k \in Int /\ UNCHANGED <<files, list>>
    <3>1. pc = "sign" /\ k \in DOMAIN list /\ UNCHANGED <<files, list>>
      BY DEF sign_image, TypeOK
    <3> QED BY <3>1, ListTyped DEF TypeOK
  <2>2. CASE Fail
    BY <2>2 DEF Fail, Ends, Made, Under, Building
  <2>3. CASE pc' = "add" /\ UNCHANGED k
    <3>1. SUFFICES ASSUME NEW j \in DOMAIN list \ spoiled', j <= k, Served(j), Needs(j)
                   PROVE  signed'[NameOf(list[j])] = Product(NameOf(list[j]))
      BY <2>1, <2>3, Steady DEF Made, Handled, Needs
    <3>2. list[j] \in Entries /\ j \in Int /\ NameOf(list[j]) \in Names
      BY <3>1, ListTyped, NameTyped DEF TypeOK, Served, Needs
    <3>3. /\ info[k] = AboutImage(list[k])
          /\ Accepted(list[k])
      BY <2>1 DEF Checked, Building, Under
    <3>4. CASE /\ ToSign(Image, info[k]) /\ Image.type \in Signable /\ Image.fields # "encryption"
               /\ imagesign(NameOf(Image))
      <4>1. NameOf(list[k]) \in Names
        <5>1. list[k] \in Entries /\ list[k].algorithm \in {"ia", "sm"}
          BY <2>1, <3>3, <3>4, ListTyped
             DEF ToSign, AboutImage, Accepted, Image, TypeOK
        <5> QED BY <3>4, <5>1, NameTyped DEF Image
      <4>2. /\ signed'[NameOf(list[j])] = signed[NameOf(list[j])]
               \/ signed'[NameOf(list[j])] = Product(NameOf(list[j]))
            /\ k \notin spoiled' /\ files[SignInput[NameOf(list[k]).type]] # Missing
                 => signed'[NameOf(list[k])] = Product(NameOf(list[k]))
            /\ spoiled \subseteq spoiled'
        BY <3>2, <3>4, <4>1, ImagesignMakes DEF Image
      <4>3. CASE j < k
        <5>1. signed[NameOf(list[j])] = Product(NameOf(list[j]))
          BY <2>1, <3>1, <4>2, <4>3 DEF Made, Under, Building, Handled
        <5> QED BY <4>2, <5>1
      <4>4. CASE j = k
        <5>1. files[SignInput[NameOf(list[k]).type]] = Read(list[k].path)
          BY <3>1, <4>4 DEF Served, Needs, NameOf, Read
        <5> QED BY <3>1, <4>2, <4>4, <5>1 DEF Needs
      <4> QED BY <2>1, <3>1, <3>2, <4>3, <4>4
    <3>5. CASE /\ ToSign(Image, info[k]) =>
                    Image.type \in Types \ Signable /\ Image.fields # "encryption"
               /\ UNCHANGED <<signed, spoiled>>
      <4>1. j # k
        <5> SUFFICES ASSUME j = k PROVE FALSE
          OBVIOUS
        <5>1. ToSign(list[k], AboutImage(list[k]))
          BY <3>1 DEF Needs, ToSign, AboutImage
        <5>2. list[k].type \in Signable
          BY <3>1 DEF Served
        <5> QED BY <3>3, <3>5, <5>1, <5>2 DEF Image
      <4>2. signed[NameOf(list[j])] = Product(NameOf(list[j]))
        BY <2>1, <3>1, <3>2, <3>5, <4>1 DEF Made, Under, Building, Handled
      <4> QED BY <3>5, <4>2
    <3> QED BY <2>3, <3>4, <3>5, <2>1 DEF sign_image, Fail, Ends
  <2> QED BY <2>1, <2>2, <2>3 DEF sign_image
<1>5. CASE add_image
  <2>1. UNCHANGED <<files, signed, list, spoiled>> /\ pc = "add" /\ k \in DOMAIN list
    BY <1>5 DEF add_image, TypeOK
  <2>2. CASE k' = k + 1 /\ pc' = (IF k = Len(list) THEN "pad" ELSE "sign")
    <3>1. DOMAIN list = 1..Len(list) /\ Len(list) \in Nat
      BY ListTyped DEF TypeOK
    <3>2. \A j \in DOMAIN list : Handled(j)' => Handled(j)
      BY <2>1, <2>2, <3>1 DEF Handled
    <3> QED BY <2>1, <3>2, Steady DEF Made, Under, Building, Needs
  <2>3. CASE Fail
    BY <2>3 DEF Fail, Ends, Made, Under, Building
  <2> QED BY <1>5, <2>2, <2>3 DEF add_image
<1>6. CASE padding_image
  <2>1. UNCHANGED <<files, signed, list, spoiled>> /\ pc = "pad"
    BY <1>6 DEF padding_image
  <2> QED BY <2>1, Steady DEF Made, Under, Building, Handled, Needs
<1>7. CASE UNCHANGED vars
  <2>1. UNCHANGED <<files, signed, list, spoiled, pc, k, result>>
    BY <1>7 DEF vars
  <2> QED BY <2>1, Steady DEF Made, Under, Building, Handled, Needs
<1> QED BY <1>1, <1>2, <1>3, <1>4, <1>5, <1>6, <1>7 DEF Next

LEMMA InitInvariant ==
  ASSUME Init
  PROVE  Invariant
<1>1. TypeOK
  <2>1. Plain \subseteq Content
    BY DEF Plain, Content, Schemes
  <2>2. files \in [Paths -> Content \cup {Missing}]
    BY <2>1 DEF Init
  <2>3. signed \in [Names -> Content \cup {Missing}]
    BY DEF Init
  <2>4. out \in [records : Seq(Records), rest : Rests]
    BY DEF Init, Rests
  <2> QED BY <2>2, <2>3, <2>4 DEF Init, TypeOK
<1>2. ~ Under /\ out.rest = "none" /\ DOMAIN out.records = {} /\ result # "done"
  BY DEF Init, Under, Building
<1> QED BY <1>1, <1>2 DEF Invariant, Checked, Under, Recorded, Padded, Made

LEMMA NextInvariant ==
  ASSUME Invariant, [Next]_vars
  PROVE  Invariant'
BY TypeNext, CheckedNext, RecordedNext, PaddedNext, MadeNext DEF Invariant

LEMMA Invariance == Spec => []Invariant
BY InitInvariant, NextInvariant, PTL DEF Spec

(* For every plain image imagesign.sh could sign, what is installed after  *)
(* the build is its product, and of the scheme that is recorded.           *)
LEMMA InstalledMade ==
  ASSUME Invariant, result = "done", NEW j \in DOMAIN list \ spoiled, Served(j), Needs(j)
  PROVE  /\ Installed(j) = Product(NameOf(list[j]))
         /\ Product(NameOf(list[j])).data = Read(list[j].path).data
<1>1. pc = "idle"
  BY DEF Invariant, TypeOK
<1>2. signed[NameOf(list[j])] = Product(NameOf(list[j]))
  BY <1>1 DEF Invariant, Made, Under, Handled
<1>3. list[j] \in Entries
  BY ListTyped DEF Invariant, TypeOK
<1>4. Read(list[j].path) \in Content /\ files[SignInput[list[j].type]] = Read(list[j].path)
  BY <1>3 DEF Needs, Served, Read, Invariant, TypeOK, Entries
<1>5. VersionOf(list[j]) \in Versions
  BY SbMetaAssumption DEF VersionOf
<1>6. Product(NameOf(list[j])) \in Content
  BY <1>4, <1>5, SchemesOf DEF Product, NameOf, Needs, Content, Schemes
<1>7. Product(NameOf(list[j])) # Missing
  BY <1>6, SbMetaAssumption
<1> QED BY <1>2, <1>4, <1>7 DEF Installed, Needs, Served, Product, NameOf
-----------------------------------------------------------------------------
(* The variables of a build keep to their types, and it to its list.       *)
THEOREM TypeCorrect == Spec => []TypeOK
BY Invariance, PTL DEF Invariant

(* pack_sbmeta empties the file first, so that one of full size is never   *)
(* that of an earlier build: whatever step the last build failed in, its   *)
(* records are those of the last list.  A build of a list that fits with   *)
(* padding leaves it full only in success, and of one that does not only   *)
(* in failure, the list's records up to the last slot written.             *)
THEOREM WholeFiles == Spec => []WholeMeansDone
<1>1. ASSUME Invariant, FullSize PROVE
        /\ \A j \in DOMAIN out.records :
             j \in DOMAIN list /\ out.records[j].type = list[j].type
        /\ IF Len(list) < Slots
           THEN result # "failed" /\ Len(out.records) = Len(list)
           ELSE result # "done" /\ Len(out.records) = Slots
  <2>1. /\ DOMAIN out.records = 1..Len(out.records) /\ Len(out.records) \in Nat
        /\ DOMAIN list = 1..Len(list) /\ Len(list) \in Nat /\ Slots \in Nat
    BY <1>1, ListTyped, SbMetaAssumption DEF Invariant, TypeOK
  <2>2. \A j \in DOMAIN out.records :
          j \in DOMAIN list /\ out.records[j].type = list[j].type
    BY <1>1 DEF Invariant, Padded
  <2>3. CASE out.rest = "padding"
    BY <1>1, <2>1, <2>2, <2>3 DEF Invariant, Padded
  <2>4. CASE out.rest = "none" /\ Len(out.records) = Slots
    <3>1. Slots \in DOMAIN list
      BY <2>1, <2>2, <2>4, SbMetaAssumption
    <3>2. ~ (Len(list) < Slots)
      BY <2>1, <3>1
    <3> QED BY <1>1, <2>2, <2>4, <3>2 DEF Invariant, Padded
  <2> QED BY <1>1, <2>3, <2>4 DEF FullSize
<1>2. Invariant => WholeMeansDone
  BY <1>1 DEF WholeMeansDone
<1> QED BY <1>2, Invariance, PTL

(* Where the sign tool has not failed, a build that succeeds has signed    *)
(* every plain image imagesign.sh could sign, as the list says.            *)
THEOREM ImagesSigned == Spec => []SignsImages
<1>1. ASSUME Invariant PROVE SignsImages
  <2>1. SUFFICES ASSUME result = "done", NEW j \in DOMAIN list \ spoiled, Served(j),
                        Read(list[j].path) \in Plain, list[j].algorithm \in {"ia", "sm"}
                 PROVE  /\ Installed(j).data = Read(list[j].path).data
                        /\ Installed(j).scheme = SchemeOf(list[j].algorithm)
                        /\ Installed(j).version = VersionOf(list[j])
    BY DEF SignsImages, Signed
  <2>2. Needs(j)
    <3>1. Read(list[j].path) \in Content /\ Read(list[j].path).scheme = "none"
      BY <2>1 DEF Plain, Content, Schemes
    <3> QED BY <2>1, <3>1, SbMetaAssumption DEF Needs, IsSecure
  <2>3. Installed(j) = Product(NameOf(list[j]))
        /\ Product(NameOf(list[j])).data = Read(list[j].path).data
    BY <1>1, <2>1, <2>2, InstalledMade
  <2> QED BY <2>3 DEF Product, NameOf
<1> QED BY <1>1, Invariance, PTL

(* And the scheme it records for an image is that of the file to be        *)
(* installed, be it plain, signed before or signed by this build.          *)
THEOREM SchemesRecorded == Spec => []SchemesHold
<1>1. ASSUME Invariant PROVE SchemesHold
  <2>1. SUFFICES ASSUME result = "done", NEW j \in DOMAIN list \ spoiled,
                        Read(list[j].path) # Missing,
                        Served(j) \/ list[j].algorithm = "nor" \/ IsSecure(list[j])
                 PROVE  out.records[j].scheme = Installed(j).scheme
    BY DEF SchemesHold
  <2>2. /\ out.records[j].scheme = AboutImage(list[j]).scheme
        /\ Accepted(list[j])
    <3>1. DOMAIN out.records = DOMAIN list
      BY <1>1, <2>1, ListTyped DEF Invariant, TypeOK
    <3> QED BY <1>1, <2>1, <3>1 DEF Invariant, Recorded, Checked, Under
  <2>3. CASE IsSecure(list[j])
    BY <2>2, <2>3 DEF AboutImage, Installed
  <2>4. CASE ~ IsSecure(list[j]) /\ list[j].algorithm = "nor"
    BY <2>1, <2>2, <2>4, SchemesOf DEF AboutImage, Installed, IsSecure
  <2>5. CASE ~ IsSecure(list[j]) /\ list[j].algorithm # "nor"
    <3>1. Needs(j) /\ Served(j)
      BY <2>1, <2>2, <2>5 DEF Needs, Accepted
    <3>2. Installed(j) = Product(NameOf(list[j]))
      BY <1>1, <2>1, <3>1, InstalledMade
    <3> QED BY <2>2, <2>5, <3>2 DEF AboutImage, Product, NameOf
  <2> QED BY <2>3, <2>4, <2>5
<1> QED BY <1>1, Invariance, PTL
-----------------------------------------------------------------------------
(* No list has two images to be signed under one name.                     *)
Named(image) == image.type \in Signable /\ image.algorithm \in {"ia", "sm"}
Distinct ==
  \A c \in Configs : \A i, j \in DOMAIN c :
    Named(c[i]) /\ Named(c[j]) /\ NameOf(c[i]) = NameOf(c[j]) => i = j

(* A digest once recorded stays that of the file to be installed.          *)
Digests ==
  Under => \A j \in DOMAIN out.records :
    out.records[j].digest # Missing => out.records[j].digest = Installed(j)

LEMMA InstalledSteady ==
  ASSUME UNCHANGED <<files, list>>, NEW j,
         Named(list[j]) => signed'[NameOf(list[j])] = signed[NameOf(list[j])]
  PROVE  Installed(j)' = Installed(j)
<1>1. CASE Named(list[j])
  BY <1>1 DEF Installed, IsSecure, Read, NameOf, VersionOf, Named
<1>2. CASE ~ Named(list[j])
  BY <1>2 DEF Installed, IsSecure, Read, Named
<1> QED BY <1>1, <1>2

LEMMA DigestsNext ==
  ASSUME Distinct, TypeOK, Checked, Digests, [Next]_vars
  PROVE  Digests'
<1>1. ASSUME NEW path \in Paths, Replace(path) PROVE Digests'
  BY <1>1 DEF Replace, Digests, Under, Building
<1>2. ASSUME NEW config \in Configs, Build(config) PROVE Digests'
  BY <1>2 DEF Build, Digests, Under, Building
<1>3. CASE check_config_yaml
  <2>1. out.records = <<>> /\ UNCHANGED out
    BY <1>3 DEF check_config_yaml, TypeOK
  <2> QED BY <2>1 DEF Digests
<1>4. CASE sign_image
  <2>1. /\ pc = "sign" /\ k \in DOMAIN list /\ UNCHANGED <<files, list, out>>
        /\ info[k] = AboutImage(list[k])
        /\ Accepted(list[k])
    BY <1>4 DEF sign_image, TypeOK, Checked, Building, Under
  <2>2. ASSUME NEW j \in DOMAIN out.records PROVE Installed(j)' = Installed(j)
    <3>1. CASE UNCHANGED signed
      BY <2>1, <3>1, InstalledSteady
    <3>2. CASE /\ ToSign(Image, info[k]) /\ Image.type \in Signable /\ Image.fields # "encryption"
               /\ imagesign(NameOf(Image))
      <4>1. list[k] \in Entries /\ Named(list[k])
        BY <2>1, <3>2, ListTyped
           DEF ToSign, AboutImage, Accepted, Image, Named, TypeOK
      <4>2. j \in DOMAIN list /\ j # k
        <5>1. /\ DOMAIN out.records = 1..Len(out.records)
              /\ Len(out.records) = k - 1 /\ Len(out.records) \in Nat
          BY <2>1 DEF TypeOK
        <5>2. DOMAIN list = 1..Len(list) /\ Len(list) \in Nat
          BY ListTyped DEF TypeOK
        <5> QED BY <2>1, <5>1, <5>2
      <4>3. CASE Named(list[j])
        <5>1. list \in Configs
          BY <2>1 DEF TypeOK
        <5>2. NameOf(list[j]) # NameOf(list[k])
          BY <2>1, <4>1, <4>2, <4>3, <5>1 DEF Distinct
        <5>3. list[j] \in Entries /\ NameOf(list[j]) \in Names /\ NameOf(list[k]) \in Names
          BY <4>1, <4>2, <4>3, ListTyped, NameTyped DEF Named, TypeOK
        <5>4. signed'[NameOf(list[j])] = signed[NameOf(list[j])]
          BY <3>2, <5>2, <5>3, ImagesignMakes DEF Image
        <5> QED BY <2>1, <5>4, InstalledSteady
      <4>4. CASE ~ Named(list[j])
        BY <2>1, <4>4, InstalledSteady
      <4> QED BY <4>3, <4>4
    <3> QED BY <1>4, <3>1, <3>2 DEF sign_image
  <2>3. Under
    BY <2>1 DEF Under, Building
  <2> QED BY <2>1, <2>2, <2>3 DEF Digests
<1>5. CASE add_image
  <2>1. UNCHANGED <<files, signed, list>> /\ pc = "add"
    BY <1>5 DEF add_image
  <2>2. CASE Recordable(Image, info[k]) /\ UNCHANGED result
             /\ out' = [out EXCEPT !.records = Append(@, RecordOf(Image, info[k]))]
    <3>1. /\ k \in DOMAIN list
          /\ Accepted(list[k])
          /\ DOMAIN out'.records = 1..k
          /\ DOMAIN out.records = 1..(k - 1)
          /\ out'.records[k] = RecordOf(list[k], AboutImage(list[k]))
          /\ \A j \in 1..(k - 1) : out'.records[j] = out.records[j]
      BY <2>1, <2>2, AddsRecord
    <3>2. k \in Nat
      BY <3>1, ListTyped DEF TypeOK
    <3>3. \A j : Installed(j)' = Installed(j)
      BY <2>1, InstalledSteady
    <3>4. out'.records[k].digest \in {Installed(k), Missing}
      BY <3>1, RecordSays, DigestedIsInstalled
    <3>5. \A j \in 1..(k - 1) :
            out.records[j].digest # Missing => out.records[j].digest = Installed(j)
      BY <2>1, <3>1 DEF Digests, Under, Building
    <3>6. \A j \in DOMAIN out'.records : j = k \/ j \in 1..(k - 1)
      BY <3>1, <3>2
    <3>7. \A j \in DOMAIN out'.records :
            out'.records[j].digest # Missing => out'.records[j].digest = Installed(j)'
      BY <3>1, <3>3, <3>4, <3>5, <3>6
    <3> QED BY <3>7 DEF Digests
  <2>3. CASE Fail
    BY <2>3 DEF Fail, Ends, Digests, Under, Building
  <2> QED BY <1>5, <2>2, <2>3 DEF add_image
<1>6. CASE padding_image
  <2>1. /\ UNCHANGED <<files, signed, list>> /\ pc = "pad"
        /\ out'.records = out.records
    BY <1>6 DEF padding_image, TypeOK
  <2>2. \A j : Installed(j)' = Installed(j)
    BY <2>1, InstalledSteady
  <2> QED BY <2>1, <2>2 DEF Digests, Under, Building
<1>7. CASE UNCHANGED vars
  <2>1. UNCHANGED <<files, signed, list, out, pc, result>>
    BY <1>7 DEF vars
  <2>2. \A j : Installed(j)' = Installed(j)
    BY <2>1, InstalledSteady
  <2> QED BY <2>1, <2>2 DEF Digests, Under, Building
<1> QED BY <1>1, <1>2, <1>3, <1>4, <1>5, <1>6, <1>7 DEF Next

(* The digest recorded for an image is that of the file to be installed,   *)
(* provided that no list has two images to be signed under one name: the   *)
(* second may be signed when the first, for which the sign tool failed,    *)
(* has been digested as it is.                                             *)
THEOREM DigestsRecorded ==
  ASSUME Distinct
  PROVE  Spec => []DigestsInstalled
<1>1. Init => Digests
  BY DEF Init, Digests, Under, Building
<1>2. Invariant /\ Digests /\ [Next]_vars => Digests'
  BY DigestsNext DEF Invariant
<1>3. Invariant /\ Digests => DigestsInstalled
  <2>1. SUFFICES ASSUME Invariant, Digests, result = "done", NEW j \in DOMAIN list,
                        out.records[j].digest # Missing
                 PROVE  out.records[j].digest = Installed(j)
    BY DEF DigestsInstalled
  <2>2. DOMAIN out.records = DOMAIN list
    BY <2>1, ListTyped DEF Invariant, TypeOK
  <2> QED BY <2>1, <2>2 DEF Digests, Under
<1> QED BY <1>1, <1>2, <1>3, Invariance, PTL DEF Spec
=============================================================================
