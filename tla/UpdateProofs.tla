----------------------------- MODULE UpdateProofs -----------------------------
(***************************************************************************)
(* Proofs about SbMetaUpdate, for any boards, any sequences of them the    *)
(* script works through, any uploads, and whatever programs fail.          *)
(*                                                                         *)
(* Typed is inductive on its own.  Fresh follows the images of the board   *)
(* being worked on from file to file, as long as no program has failed for *)
(* it.  What it tells at the last step is all that is needed of the board: *)
(* Served keeps it to the end of the run, and CleanVouches beyond it.      *)
(***************************************************************************)
EXTENDS SbMetaUpdate, SequenceTheorems, TLAPS

(* The types, and what the script has checked before it goes on.           *)
Typed ==
  /\ TypeOK
  /\ \A b \in Boards : teeExt[b] \in Uploads => teeExt[b].board = b
  /\ pc \notin {"idle", "board"} => teeExt[Board] \in Uploads
  /\ todo \in Seq(asked)

(* Unless a program has failed for it, the files on the way hold what was  *)
(* uploaded last for the board being worked on.                            *)
Fresh ==
  pc # "idle" /\ Board \notin failed =>
    /\ pc \in Parts \cup {"umount"} => Shown = teeExt[Board]
    /\ pc = "tee" => local["tf"] = teeExt[Board]
    /\ pc \in {"umount", "dir", "sbmeta.py"} => local = Current(teeExt[Board])
    /\ pc = "signtool" => bin = Current(teeExt[Board])
    /\ pc = "mv" => signed = Current(teeExt[Board])
    /\ pc = "bin2ext4" => packed = Current(teeExt[Board])

Left == {todo[n] : n \in DOMAIN todo}

(* What is asserted of the boards of a run holds already of those the      *)
(* script is done with.                                                    *)
Served ==
  \A b \in asked \ (told \cup failed) :
    b \in Left \/ (b \notin unsure /\ sbmetaExt[b] = Current(teeExt[b]))

(* An image that is left mounted was not written in peace.                 *)
Stuck == stuck \subseteq unsure

USE DEF inVars, outVars
-----------------------------------------------------------------------------
(* A script that runs has a board, and going on to the next keeps that.    *)
LEMMA Todo ==
  ASSUME Typed, pc # "idle"
  PROVE  /\ Board \in Boards /\ Board \in asked
         /\ NextBoard => /\ todo' \in Seq(Boards) /\ todo' \in Seq(asked)
                         /\ pc' \in {"idle", "board"}
                         /\ pc' = "idle" <=> todo' = <<>>
<1>1. todo \in Seq(Boards) /\ todo \in Seq(asked) /\ todo # <<>>
  BY DEF Typed, TypeOK
<1>2. Board \in Boards /\ Board \in asked
  BY <1>1, HeadTailProperties DEF Board
<1>3. Tail(todo) \in Seq(Boards) /\ Tail(todo) \in Seq(asked)
  BY <1>1, HeadTailProperties
<1> QED BY <1>2, <1>3 DEF NextBoard

LEMMA Recording ==
  ASSUME NEW upload \in Uploads
  PROVE  /\ Current(upload) \in Records
         /\ Current(upload) \in Metas
         /\ Current(upload) # Missing
<1>1. Current(upload) \in Records
  BY DEF Current, Records, Files
<1> QED BY <1>1, UpdateAssumption DEF Metas

(* What temp/ shows of a part is an upload.                                *)
LEMMA Showing ==
  ASSUME Typed
  PROVE  /\ Shown \in Uploads \cup {Missing}
         /\ \A part : Shows(part) => Shown \in Uploads
<1>1. temp \in Seq(Uploads)
  BY DEF Typed, TypeOK
<1>2. Shown \in Uploads \cup {Missing}
  BY <1>1, HeadTailProperties DEF Shown
<1> QED BY <1>2 DEF Shows

LEMMA InitTyped == Init => Typed
<1> SUFFICES ASSUME Init PROVE Typed
  OBVIOUS
<1>1. local \in Records
  BY DEF Init, Records, Files
<1>2. MaxGen \in Nat /\ MaxRounds \in Nat /\ MaxMounts \in Nat
  BY UpdateAssumption
<1> QED BY <1>1, <1>2, UpdateAssumption DEF Init, Typed, TypeOK, Metas

LEMMA RunTyped ==
  ASSUME Typed, NEW mode \in Modes, Run(mode)
  PROVE  Typed'
<1>1. mode \in Seq(Boards) BY UpdateAssumption
<1>2. {mode[k] : k \in DOMAIN mode} \subseteq Boards BY <1>1
<1>3. mode \in Seq({mode[k] : k \in DOMAIN mode}) BY <1>1
<1>4. rounds' \in 0..MaxRounds
  BY <1>1, UpdateAssumption DEF Run, Typed, TypeOK
<1> QED BY <1>1, <1>2, <1>3, <1>4 DEF Run, Typed, TypeOK

LEMMA UploadTyped ==
  ASSUME Typed, NEW b \in Boards, Upload(b)
  PROVE  Typed'
<1>1. PICK parts \in Contents :
         teeExt' = [teeExt EXCEPT ![b] = [board |-> b, gen |-> gens', parts |-> parts]]
  BY DEF Upload
<1>2. gens' \in 1..MaxGen /\ gens' \in 0..MaxGen
  BY UpdateAssumption DEF Upload, Typed, TypeOK
<1>3. [board |-> b, gen |-> gens', parts |-> parts] \in Uploads
  BY <1>2 DEF Uploads
<1> DEFINE upload == [board |-> b, gen |-> gens', parts |-> parts]
<1>4. upload.board = b
  OBVIOUS
<1> HIDE DEF upload
<1>5. teeExt' = [teeExt EXCEPT ![b] = upload] /\ upload \in Uploads
  BY <1>1, <1>3 DEF upload
<1>6. teeExt' \in [Boards -> Uploads \cup {Missing}]
      /\ \A c \in Boards : teeExt'[c] \in Uploads => teeExt'[c].board = c
  BY <1>4, <1>5 DEF Typed, TypeOK
<1> QED BY <1>2, <1>6 DEF Upload, Typed, TypeOK

(* A board more is not one the script was not asked for.                   *)
LEMMA FailsTyped ==
  ASSUME Typed, pc # "idle", ProgramFails \/ UNCHANGED failed
  PROVE  failed' \subseteq asked
BY Todo DEF ProgramFails, Typed, TypeOK

LEMMA MountTyped ==
  ASSUME Typed, MountTee
  PROVE  Typed'
<1>1. Board \in Boards /\ teeExt[Board] \in Uploads /\ failed' \subseteq asked
  BY Todo, FailsTyped DEF MountTee, Typed
<1>2. wiped' \subseteq Uploads
  BY Showing DEF MountTee, Typed, TypeOK
<1>3. temp' \in Seq(Uploads) /\ Len(temp') <= MaxMounts
  <2>1. temp \in Seq(Uploads) /\ Len(temp) <= MaxMounts
    BY DEF Typed, TypeOK
  <2>2. CASE Len(temp) < MaxMounts /\ temp' = <<teeExt[Board]>> \o temp
    <3>1. <<teeExt[Board]>> \in Seq(Uploads) /\ Len(<<teeExt[Board]>>) = 1
      BY <1>1
    <3>2. temp' \in Seq(Uploads) /\ Len(temp') = 1 + Len(temp)
      BY <2>1, <2>2, <3>1, ConcatProperties
    <3> QED BY <2>1, <2>2, <3>2, UpdateAssumption
  <2> QED BY <2>1, <2>2 DEF MountTee
<1> QED BY <1>1, <1>2, <1>3 DEF MountTee, Typed, TypeOK, Parts, Board

LEMMA CopyTyped ==
  ASSUME Typed, NEW part \in Parts, Copy(part)
  PROVE  Typed'
<1>1. failed' \subseteq asked
  BY FailsTyped DEF Copy, Parts, Typed
<1>2. local' \in Records
  BY Showing DEF Copy, Records, Files, Typed, TypeOK
<1>3. pc # "idle" /\ pc # "board" /\ pc' \in {"tee", "umount"}
  BY DEF Copy, Parts
<1> QED BY <1>1, <1>2, <1>3 DEF Copy, Typed, TypeOK, Parts, Programs, Board

LEMMA UnmountTyped ==
  ASSUME Typed, UnmountTee
  PROVE  Typed'
<1>1. failed' \subseteq asked
  BY FailsTyped DEF UnmountTee, Typed
<1>2. temp' \in Seq(Uploads) /\ Len(temp') <= MaxMounts
  <2>1. temp \in Seq(Uploads) /\ Len(temp) <= MaxMounts
    BY DEF Typed, TypeOK
  <2>2. temp # <<>> => Tail(temp) \in Seq(Uploads) /\ Len(Tail(temp)) = Len(temp) - 1
    BY <2>1, HeadTailProperties
  <2> QED BY <2>1, <2>2, UpdateAssumption DEF UnmountTee
<1> QED BY <1>1, <1>2 DEF UnmountTee, Typed, TypeOK, Board

LEMMA HalfTyped ==
  ASSUME Typed, pc # "idle", LeavesHalf
  PROVE  sbmetaExt' \in [Boards -> Metas] /\ stuck' \subseteq Boards
BY Todo DEF LeavesHalf, Typed, TypeOK, Metas

LEMMA PackTyped ==
  ASSUME Typed, PackExt4
  PROVE  Typed'
<1>1. pc # "idle" /\ Board \in Boards
  BY Todo DEF PackExt4
<1>2. failed' \subseteq asked
  BY <1>1, FailsTyped DEF PackExt4
<1>3. sbmetaExt' \in [Boards -> Metas] /\ stuck' \subseteq Boards
  <2>1. CASE sbmetaExt' = [sbmetaExt EXCEPT ![Board] = packed] /\ UNCHANGED stuck
    BY <2>1 DEF Typed, TypeOK
  <2>2. CASE EmptiesStuck /\ UNCHANGED stuck
    BY <2>2 DEF EmptiesStuck, Typed, TypeOK, Metas
  <2>3. CASE LeavesHalf
    BY <1>1, <2>3, HalfTyped
  <2> QED BY <2>1, <2>2, <2>3 DEF PackExt4
<1>4. unsure' \subseteq Boards
  BY <1>1 DEF PackExt4, Typed, TypeOK
<1>5. /\ todo' \in Seq(Boards) /\ todo' \in Seq(asked)
      /\ pc' \in {"idle", "board"} /\ (pc' = "idle" <=> todo' = <<>>)
  BY <1>1, Todo DEF PackExt4
<1> QED BY <1>2, <1>3, <1>4, <1>5 DEF PackExt4, Typed, TypeOK

LEMMA InterruptTyped ==
  ASSUME Typed, Interrupt
  PROVE  Typed'
<1>1. local' \in Records
  BY DEF Interrupt, Records, Files, Typed, TypeOK
<1>2. bin' \in Metas /\ signed' \in Metas
  BY DEF Interrupt, Metas, Typed, TypeOK
<1>3. /\ sbmetaExt' \in [Boards -> Metas] /\ stuck' \subseteq Boards
      /\ unsure' \subseteq Boards
  BY Todo, HalfTyped DEF Interrupt, Typed, TypeOK
<1> QED BY <1>1, <1>2, <1>3 DEF Interrupt, Typed, TypeOK

LEMMA NextTyped == Typed /\ [Next]_vars => Typed'
<1> SUFFICES ASSUME Typed, [Next]_vars PROVE Typed'
  OBVIOUS
<1>1. ASSUME NEW b \in Boards, Upload(b) PROVE Typed'
  BY <1>1, UploadTyped
<1>2. CASE UserUnmounts
  <2>1. temp' \in Seq(Uploads) /\ Len(temp') <= MaxMounts
    BY <1>2, UpdateAssumption DEF UserUnmounts
  <2> QED BY <1>2, <2>1 DEF UserUnmounts, Typed, TypeOK
<1>3. ASSUME NEW mode \in Modes, Run(mode) PROVE Typed'
  BY <1>3, RunTyped
<1>4. CASE CheckTee
  <2>1. Board \in Boards /\ teeExt[Board] \in Uploads \cup {Missing}
    BY <1>4, Todo DEF CheckTee, Typed, TypeOK
  <2>2. CASE teeExt[Board] # Missing
    BY <1>4, <2>1, <2>2 DEF CheckTee, Typed, TypeOK, Programs, Board
  <2>3. CASE teeExt[Board] = Missing
    <3>1. /\ todo' \in Seq(Boards) /\ todo' \in Seq(asked)
          /\ pc' \in {"idle", "board"} /\ (pc' = "idle" <=> todo' = <<>>)
      BY <1>4, <2>3, Todo DEF CheckTee
    <3>2. told' \subseteq asked
      BY <1>4, <2>3, Todo DEF CheckTee, Typed, TypeOK
    <3> QED BY <1>4, <3>1, <3>2 DEF CheckTee, Typed, TypeOK
  <2> QED BY <2>2, <2>3
<1>5. CASE MountTee
  BY <1>5, MountTyped
<1>6. ASSUME NEW part \in Parts, Copy(part) PROVE Typed'
  BY <1>6, CopyTyped
<1>7. CASE UnmountTee
  BY <1>7, UnmountTyped
<1>8. CASE CheckDir
  <2>1. CASE Board \in HasDir
    BY <1>8, <2>1 DEF CheckDir, Typed, TypeOK, Programs, Board
  <2>2. CASE Board \notin HasDir
    <3>1. /\ todo' \in Seq(Boards) /\ todo' \in Seq(asked)
          /\ pc' \in {"idle", "board"} /\ (pc' = "idle" <=> todo' = <<>>)
      BY <1>8, <2>2, Todo DEF CheckDir
    <3>2. told' \subseteq asked
      BY <1>8, <2>2, Todo DEF CheckDir, Typed, TypeOK
    <3> QED BY <1>8, <3>1, <3>2 DEF CheckDir, Typed, TypeOK
  <2> QED BY <2>1, <2>2
<1>9. CASE SbmetaPy
  <2>1. failed' \subseteq asked /\ bin' \in Metas
    BY <1>9, FailsTyped DEF SbmetaPy, Typed, TypeOK, Metas
  <2>2. CASE pc' = "signtool" /\ UNCHANGED todo
    BY <1>9, <2>1, <2>2 DEF SbmetaPy, Typed, TypeOK, Programs, Board
  <2>3. CASE NextBoard
    BY <1>9, <2>1, <2>3, Todo DEF SbmetaPy, Typed, TypeOK
  <2> QED BY <1>9, <2>2, <2>3 DEF SbmetaPy
<1>10. CASE SignSbmeta
  <2>1. failed' \subseteq asked /\ signed' \in Metas
    BY <1>10, FailsTyped DEF SignSbmeta, Typed, TypeOK, Metas
  <2>2. CASE pc' = "mv" /\ UNCHANGED todo
    BY <1>10, <2>1, <2>2 DEF SignSbmeta, Typed, TypeOK, Programs, Board
  <2>3. CASE NextBoard
    BY <1>10, <2>1, <2>3, Todo DEF SignSbmeta, Typed, TypeOK
  <2> QED BY <1>10, <2>2, <2>3 DEF SignSbmeta
<1>11. CASE MoveSigned
  <2>1. failed' \subseteq asked /\ signed' \in Metas /\ packed' \in Metas
    BY <1>11, FailsTyped DEF MoveSigned, Typed, TypeOK, Metas
  <2>2. CASE pc' = "bin2ext4" /\ UNCHANGED todo
    BY <1>11, <2>1, <2>2 DEF MoveSigned, Typed, TypeOK, Programs, Board
  <2>3. CASE NextBoard
    BY <1>11, <2>1, <2>3, Todo DEF MoveSigned, Typed, TypeOK
  <2> QED BY <1>11, <2>2, <2>3 DEF MoveSigned
<1>12. CASE PackExt4
  BY <1>12, PackTyped
<1>13. CASE Interrupt
  BY <1>13, InterruptTyped
<1>14. CASE UNCHANGED vars
  BY <1>14 DEF vars, Typed, TypeOK, Board
<1> QED
  BY <1>1, <1>2, <1>3, <1>4, <1>5, <1>6, <1>7, <1>8, <1>9, <1>10, <1>11,
     <1>12, <1>13, <1>14
  DEF Next, Script

LEMMA AlwaysTyped == Spec => []Typed
BY InitTyped, NextTyped, PTL DEF Spec

(* Every variable of the update script keeps to its type, and it has a     *)
(* board to work on exactly while it runs.                                 *)
THEOREM TypeCorrect == Spec => []TypeOK
<1>1. Typed => TypeOK BY DEF Typed
<1> QED BY AlwaysTyped, <1>1, PTL
-----------------------------------------------------------------------------
(* Going on to the next board drops the current one from those left.       *)
LEMMA LeftBehind ==
  ASSUME Typed, pc # "idle", NextBoard
  PROVE  Left \subseteq Left' \cup {Board}
<1>1. todo \in Seq(Boards) /\ todo # <<>>
  BY DEF Typed, TypeOK
<1>2. todo' = Tail(todo)
  BY DEF NextBoard
<1>3. /\ Tail(todo) \in Seq(Boards) /\ Len(Tail(todo)) = Len(todo) - 1
      /\ \A n \in 1..Len(Tail(todo)) : Tail(todo)[n] = todo[n + 1]
  BY <1>1, HeadTailProperties
<1>4. ASSUME NEW n \in DOMAIN todo PROVE todo[n] \in Left' \cup {Board}
  <2>1. CASE n = 1 BY <1>1, <2>1 DEF Board
  <2>2. CASE n # 1
    <3>1. n - 1 \in 1..Len(Tail(todo)) BY <1>1, <1>3, <1>4, <2>2
    <3>2. n - 1 \in DOMAIN todo' /\ todo'[n - 1] = todo[n]
      BY <1>1, <1>2, <1>3, <1>4, <3>1
    <3> QED BY <3>2 DEF Left
  <2> QED BY <2>1, <2>2
<1> QED BY <1>4 DEF Left

(* A step that ends the work on a board keeps Served if it says so, or     *)
(* notes a failure, or has brought the board up to date in peace.          *)
LEMMA BoardDone ==
  ASSUME Typed, Served, pc # "idle", NextBoard,
         UNCHANGED <<teeExt, asked>>, told \subseteq told', failed \subseteq failed',
         \A b \in Boards : b # Board /\ b \notin unsure =>
           b \notin unsure' /\ sbmetaExt'[b] = sbmetaExt[b],
         \/ Board \in told' \cup failed'
         \/ Board \notin unsure' /\ sbmetaExt'[Board] = Current(teeExt[Board])
  PROVE  Served'
<1>1. Left \subseteq Left' \cup {Board} BY LeftBehind
<1>2. asked \subseteq Boards BY DEF Typed, TypeOK
<1>3. ASSUME NEW b \in asked, b \notin told', b \notin failed'
      PROVE  b \in Left' \/ (b \notin unsure' /\ sbmetaExt'[b] = Current(teeExt[b]))
  <2>1. CASE b = Board BY <1>3, <2>1
  <2>2. CASE b # Board BY <1>1, <1>2, <1>3, <2>2 DEF Served
  <2> QED BY <2>1, <2>2
<1> QED BY <1>3 DEF Served, Current

(* A step within the work on a board leaves the boards before it alone.    *)
LEMMA BoardGoesOn ==
  ASSUME Served, UNCHANGED <<teeExt, sbmetaExt, unsure, todo, asked, told>>,
         failed \subseteq failed'
  PROVE  Served'
<1>1. Left' = Left
  BY DEF Left
<1>2. ASSUME NEW b \in asked, b \notin told', b \notin failed'
      PROVE  b \in Left' \/ (b \notin unsure' /\ sbmetaExt'[b] = Current(teeExt[b]))
  BY <1>1, <1>2 DEF Served
<1> QED BY <1>2 DEF Served, Current

LEMMA InitServed == Init => Fresh /\ Served /\ Stuck
BY DEF Init, Fresh, Served, Stuck

(* What is mounted there already was not written in peace, so a board that *)
(* was is touched by bin2ext4.sh only when it is its turn.                 *)
LEMMA PackSpares ==
  ASSUME Typed, Stuck, PackExt4
  PROVE  /\ Stuck'
         /\ unsure \subseteq unsure' \cup {Board}
         /\ \A b \in Boards : b # Board /\ b \notin unsure =>
              b \notin unsure' /\ sbmetaExt'[b] = sbmetaExt[b]
         /\ \/ Board \in failed' /\ Board \in unsure'
            \/ /\ Board \notin failed /\ Board \notin unsure'
               /\ sbmetaExt'[Board] = packed
<1>1. Board \in Boards /\ sbmetaExt \in [Boards -> Metas]
  BY Todo DEF PackExt4, Typed, TypeOK
<1>2. unsure' = IF Board \in failed' THEN unsure \cup {Board} ELSE unsure \ {Board}
  BY DEF PackExt4
<1>3. CASE /\ stuck = {} /\ UNCHANGED <<stuck, failed>>
           /\ sbmetaExt' = [sbmetaExt EXCEPT ![Board] = packed]
  BY <1>1, <1>2, <1>3 DEF Stuck
<1>4. CASE EmptiesStuck /\ ProgramFails /\ UNCHANGED stuck
  <2>1. \A b \in Boards : b # Board /\ b \notin stuck => sbmetaExt'[b] = sbmetaExt[b]
    BY <1>4 DEF EmptiesStuck
  <2>2. unsure' = unsure \cup {Board} /\ Board \in failed'
    BY <1>2, <1>4 DEF ProgramFails
  <2> QED BY <1>4, <2>1, <2>2 DEF Stuck
<1>5. CASE LeavesHalf /\ ProgramFails
  <2>1. \A b \in Boards : b # Board => sbmetaExt'[b] = sbmetaExt[b]
    BY <1>1, <1>5 DEF LeavesHalf
  <2>2. unsure' = unsure \cup {Board} /\ Board \in failed'
    BY <1>2, <1>5 DEF ProgramFails
  <2>3. stuck' \subseteq stuck \cup {Board}
    BY <1>5 DEF LeavesHalf
  <2> QED BY <2>1, <2>2, <2>3 DEF Stuck
<1> QED BY <1>3, <1>4, <1>5 DEF PackExt4

LEMMA InterruptSpares ==
  ASSUME Typed, Stuck, Interrupt
  PROVE  /\ Stuck'
         /\ unsure \subseteq unsure'
         /\ \A b \in Boards : b \notin unsure' => sbmetaExt'[b] = sbmetaExt[b]
<1>1. CASE UNCHANGED outVars
  BY <1>1 DEF Stuck
<1>2. CASE LeavesHalf /\ unsure' = unsure \cup {Board}
  <2>1. sbmetaExt \in [Boards -> Metas]
    BY DEF Typed, TypeOK
  <2>2. \A b \in Boards : b # Board => sbmetaExt'[b] = sbmetaExt[b]
    BY <1>2, <2>1 DEF LeavesHalf
  <2>3. stuck' \subseteq stuck \cup {Board}
    BY <1>2 DEF LeavesHalf
  <2> QED BY <1>2, <2>2, <2>3 DEF Stuck
<1> QED BY <1>1, <1>2 DEF Interrupt

LEMMA MountServed ==
  ASSUME Typed, Fresh, Served, MountTee
  PROVE  Fresh' /\ Served'
<1>1. Served'
  BY BoardGoesOn DEF MountTee, ProgramFails
<1>2. CASE temp' = <<teeExt[Board]>> \o temp
  <2>1. temp' # <<>> /\ Head(temp') = teeExt[Board]
    <3>1. temp \in Seq(Uploads) /\ <<teeExt[Board]>> \in Seq(Uploads)
      BY DEF MountTee, Typed, TypeOK
    <3>2. Len(temp') = 1 + Len(temp) /\ temp' \in Seq(Uploads) /\ Len(temp) \in Nat
          /\ temp'[1] = teeExt[Board]
      BY <1>2, <3>1, ConcatProperties
    <3> QED BY <3>2
  <2> QED BY <1>1, <2>1 DEF MountTee, Fresh, Shown, Parts, Board
<1>3. CASE ProgramFails
  BY <1>1, <1>3 DEF MountTee, ProgramFails, Fresh, Board
<1> QED BY <1>2, <1>3 DEF MountTee

LEMMA CopyServed ==
  ASSUME Typed, Fresh, Served, NEW part \in Parts, Copy(part)
  PROVE  Fresh' /\ Served'
<1>1. Served'
  BY BoardGoesOn DEF Copy, ProgramFails
<1>2. pc = part /\ UNCHANGED <<todo, temp, teeExt>> /\ pc' \in {"tee", "umount"}
  BY DEF Copy
<1>3. CASE local' = [local EXCEPT ![part] = Shown] /\ UNCHANGED failed
  <2>1. SUFFICES ASSUME Board \notin failed PROVE Fresh'
    BY <1>1, <1>2, <1>3 DEF Fresh, Board
  <2>2. Shown = teeExt[Board] /\ part \in {"tf", "tee"}
    BY <1>2, <2>1 DEF Fresh, Parts
  <2>3. local \in [Parts -> Files]
    BY DEF Typed, TypeOK, Records
  <2>4. CASE part = "tf"
    BY <1>2, <1>3, <2>2, <2>3, <2>4 DEF Copy, Fresh, Parts, Shown, Board
  <2>5. CASE part = "tee"
    <3>1. local["tf"] = teeExt[Board]
      BY <1>2, <2>1, <2>5 DEF Fresh, Parts
    <3>2. local' = Current(teeExt[Board])
      BY <1>3, <2>2, <2>3, <2>5, <3>1 DEF Current, Parts
    <3>3. pc' = "umount" /\ Shown' = teeExt'[Board'] /\ local' = Current(teeExt'[Board'])
      BY <1>2, <2>2, <2>5, <3>2 DEF Copy, Shown, Board
    <3> QED BY <3>3 DEF Fresh, Current
  <2> QED BY <2>2, <2>4, <2>5
<1>4. CASE ProgramFails
  BY <1>1, <1>2, <1>4 DEF ProgramFails, Fresh, Board
<1> QED BY <1>3, <1>4 DEF Copy

LEMMA NextServed ==
  Typed /\ Fresh /\ Served /\ Stuck /\ [Next]_vars => Fresh' /\ Served' /\ Stuck'
<1> SUFFICES ASSUME Typed, Fresh, Served, Stuck, [Next]_vars
             PROVE  Fresh' /\ Served' /\ Stuck'
  OBVIOUS
<1>1. ASSUME NEW b \in Boards, Upload(b) PROVE Fresh' /\ Served' /\ Stuck'
  BY <1>1 DEF Upload, Fresh, Served, Stuck
<1>2. CASE UserUnmounts
  <2>1. Fresh' BY <1>2 DEF UserUnmounts, Fresh
  <2>2. Served' BY <1>2, BoardGoesOn DEF UserUnmounts
  <2> QED BY <1>2, <2>1, <2>2 DEF UserUnmounts, Stuck
<1>3. ASSUME NEW mode \in Modes, Run(mode) PROVE Fresh' /\ Served' /\ Stuck'
  BY <1>3 DEF Run, Fresh, Served, Left, Stuck, Parts
<1>4. CASE CheckTee
  <2>1. Stuck' BY <1>4 DEF CheckTee, Stuck
  <2>2. CASE teeExt[Board] # Missing
    BY <1>4, <2>1, <2>2, BoardGoesOn DEF CheckTee, Fresh, Parts
  <2>3. CASE teeExt[Board] = Missing
    <3>1. NextBoard /\ told' = told \cup {Board}
      BY <1>4, <2>3 DEF CheckTee
    <3>2. Served' BY <1>4, <3>1, BoardDone DEF CheckTee
    <3>3. pc' \in {"idle", "board"} BY <1>4, <3>1, Todo DEF CheckTee
    <3> QED BY <2>1, <3>2, <3>3 DEF Fresh, Parts
  <2> QED BY <2>2, <2>3
<1>5. CASE MountTee
  BY <1>5, MountServed DEF MountTee, Stuck
<1>6. ASSUME NEW part \in Parts, Copy(part) PROVE Fresh' /\ Served' /\ Stuck'
  BY <1>6, CopyServed DEF Copy, Stuck
<1>7. CASE UnmountTee
  <2>1. Served' BY <1>7, BoardGoesOn DEF UnmountTee, ProgramFails
  <2>2. failed \subseteq failed' BY <1>7 DEF UnmountTee, ProgramFails
  <2> QED BY <1>7, <2>1, <2>2 DEF UnmountTee, Fresh, Parts, Board, Stuck, Current
<1>8. CASE CheckDir
  <2>1. Stuck' BY <1>8 DEF CheckDir, Stuck
  <2>2. CASE Board \in HasDir
    <3>1. Served' BY <1>8, <2>2, BoardGoesOn DEF CheckDir
    <3> QED BY <1>8, <2>1, <2>2, <3>1 DEF CheckDir, Fresh, Parts, Board, Current
  <2>3. CASE Board \notin HasDir
    <3>1. NextBoard /\ told' = told \cup {Board}
      BY <1>8, <2>3 DEF CheckDir
    <3>2. Served' BY <1>8, <3>1, BoardDone DEF CheckDir
    <3>3. pc' \in {"idle", "board"} BY <1>8, <3>1, Todo DEF CheckDir
    <3> QED BY <2>1, <3>2, <3>3 DEF Fresh, Parts
  <2> QED BY <2>2, <2>3
<1>9. CASE SbmetaPy
  <2>1. Stuck' BY <1>9 DEF SbmetaPy, Stuck
  <2>2. CASE bin' = local /\ pc' = "signtool" /\ UNCHANGED <<todo, failed>>
    <3>1. Served' BY <1>9, <2>2, BoardGoesOn DEF SbmetaPy
    <3> QED BY <1>9, <2>1, <2>2, <3>1 DEF SbmetaPy, Fresh, Parts, Board, Current
  <2>3. CASE NextBoard /\ ProgramFails
    <3>1. Served' BY <1>9, <2>3, BoardDone DEF SbmetaPy, ProgramFails
    <3>2. pc' \in {"idle", "board"} BY <1>9, <2>3, Todo DEF SbmetaPy
    <3> QED BY <2>1, <3>1, <3>2 DEF Fresh, Parts
  <2> QED BY <1>9, <2>2, <2>3 DEF SbmetaPy
<1>10. CASE SignSbmeta
  <2>1. Stuck' BY <1>10 DEF SignSbmeta, Stuck
  <2>2. (signed' = bin /\ UNCHANGED failed) \/ ProgramFails
    BY <1>10 DEF SignSbmeta
  <2>3. Board \notin failed' =>
          signed' = Current(teeExt[Board]) /\ UNCHANGED failed
    BY <1>10, <2>2 DEF SignSbmeta, Fresh, ProgramFails
  <2>4. CASE signed' # Missing
    <3>1. Served' BY <1>10, <2>2, <2>4, BoardGoesOn DEF SignSbmeta, ProgramFails
    <3> QED BY <1>10, <2>1, <2>3, <2>4, <3>1
            DEF SignSbmeta, Fresh, Parts, Board, Current
  <2>5. CASE signed' = Missing
    <3>1. NextBoard BY <1>10, <2>5 DEF SignSbmeta
    <3>2. Current(teeExt[Board]) # Missing
      BY <1>10, Recording DEF SignSbmeta, Typed
    <3>3. Board \in failed' BY <2>3, <2>5, <3>2
    <3>4. Served'
      BY <1>10, <2>2, <3>1, <3>3, BoardDone DEF SignSbmeta, ProgramFails
    <3>5. pc' \in {"idle", "board"} BY <1>10, <3>1, Todo DEF SignSbmeta
    <3> QED BY <2>1, <3>4, <3>5 DEF Fresh, Parts
  <2> QED BY <2>4, <2>5
<1>11. CASE MoveSigned
  <2>1. Stuck' BY <1>11 DEF MoveSigned, Stuck
  <2>2. CASE packed' = signed /\ pc' = "bin2ext4" /\ UNCHANGED <<todo, failed>>
    <3>1. Served' BY <1>11, <2>2, BoardGoesOn DEF MoveSigned
    <3> QED BY <1>11, <2>1, <2>2, <3>1 DEF MoveSigned, Fresh, Parts, Board, Current
  <2>3. CASE NextBoard /\ ProgramFails
    <3>1. Served' BY <1>11, <2>3, BoardDone DEF MoveSigned, ProgramFails
    <3>2. pc' \in {"idle", "board"} BY <1>11, <2>3, Todo DEF MoveSigned
    <3> QED BY <2>1, <3>1, <3>2 DEF Fresh, Parts
  <2> QED BY <1>11, <2>2, <2>3 DEF MoveSigned
<1>12. CASE PackExt4
  <2>1. pc' \in {"idle", "board"} /\ NextBoard
    BY <1>12, Todo DEF PackExt4
  <2>2. \/ Board \in failed'
        \/ Board \notin unsure' /\ sbmetaExt'[Board] = Current(teeExt[Board])
    BY <1>12, PackSpares DEF PackExt4, Fresh
  <2>3. failed \subseteq failed'
    BY <1>12 DEF PackExt4, ProgramFails
  <2>4. Served' BY <1>12, <2>1, <2>2, <2>3, PackSpares, BoardDone DEF PackExt4
  <2> QED BY <1>12, <2>1, <2>4, PackSpares DEF Fresh, Parts
<1>13. CASE Interrupt
  BY <1>13, InterruptSpares DEF Interrupt, Fresh, Served
<1>14. CASE UNCHANGED vars
  BY <1>14 DEF vars, Fresh, Served, Left, Board, Current, Shown, Stuck
<1> QED
  BY <1>1, <1>2, <1>3, <1>4, <1>5, <1>6, <1>7, <1>8, <1>9, <1>10, <1>11,
     <1>12, <1>13, <1>14
  DEF Next, Script

(* After a run, a board asked for that no message names and for which no   *)
(* program failed is up to date, whatever failed for the others, in this   *)
(* run or before it.                                                       *)
THEOREM AllServed == Spec => []UpdatedOrTold
<1>1. Typed /\ pc = "idle" => Left = {}
  BY DEF Typed, TypeOK, Left
<1>2. Typed /\ Served => UpdatedOrTold
  BY <1>1 DEF Served, UpdatedOrTold
<1> QED BY AlwaysTyped, InitServed, NextServed, <1>2, PTL DEF Spec
-----------------------------------------------------------------------------
LEMMA NextVouches ==
  Typed /\ Fresh /\ Stuck /\ CleanVouches /\ [Next]_vars => CleanVouches'
<1> SUFFICES ASSUME Typed, Fresh, Stuck, CleanVouches, [Next]_vars
             PROVE  CleanVouches'
  OBVIOUS
<1>1. CASE UNCHANGED <<sbmetaExt, unsure>>
  BY <1>1 DEF CleanVouches, Current
<1>2. CASE PackExt4
  <2> DEFINE Own(b, meta) ==
        meta # Missing => \E upload \in Uploads : upload.board = b /\ meta = Current(upload)
  <2>0. SUFFICES \A b \in Boards \ unsure' : Own(b, sbmetaExt'[b])
    BY DEF CleanVouches, Current
  <2>1. CASE Board \in failed' /\ Board \in unsure'
    <3>1. ASSUME NEW b \in Boards \ unsure' PROVE Own(b, sbmetaExt'[b])
      <4>1. b # Board
        BY <2>1, <3>1
      <4> QED BY <1>2, <4>1, PackSpares DEF CleanVouches
    <3> QED BY <3>1
  <2>2. CASE Board \notin failed /\ sbmetaExt'[Board] = packed
    <3>1. packed = Current(teeExt[Board])
      BY <1>2, <2>2 DEF PackExt4, Fresh
    <3>2. teeExt[Board] \in Uploads /\ teeExt[Board].board = Board
      BY <1>2, Todo DEF PackExt4, Typed
    <3>3. Own(Board, sbmetaExt'[Board])
      BY <2>2, <3>1, <3>2
    <3>4. ASSUME NEW b \in Boards \ unsure', b # Board PROVE Own(b, sbmetaExt'[b])
      BY <1>2, <3>4, PackSpares DEF CleanVouches
    <3> QED BY <3>3, <3>4
  <2> QED BY <1>2, <2>1, <2>2, PackSpares
<1>3. CASE Interrupt
  BY <1>3, InterruptSpares DEF CleanVouches, Current
<1>4. CASE Next /\ ~ PackExt4 /\ ~ Interrupt
  <2>1. UNCHANGED <<sbmetaExt, unsure>>
    BY <1>4 DEF Next, Script, Upload, UserUnmounts, Run, CheckTee, MountTee, Copy,
       UnmountTee, CheckDir, SbmetaPy, SignSbmeta, MoveSigned
  <2> QED BY <1>1, <2>1
<1>5. CASE UNCHANGED vars
  BY <1>1, <1>5 DEF vars
<1> QED BY <1>2, <1>3, <1>4, <1>5

(* What a board's sbmeta.ext4 vouches for is one upload of that board, if  *)
(* no program failed for the board and nobody interrupted when it was last *)
(* written: no leftover of another board, another upload or a run broken   *)
(* off is ever signed in its place, whichever programs fail at all.        *)
THEOREM OwnImages == Spec => []CleanVouches
<1>1. Init => CleanVouches
  BY DEF Init, CleanVouches
<1> QED BY AlwaysTyped, InitServed, NextServed, <1>1, NextVouches, PTL DEF Spec
=============================================================================
