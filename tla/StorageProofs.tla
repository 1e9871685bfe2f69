---------------------------- MODULE StorageProofs ----------------------------
(***************************************************************************)
(* Proofs about SecureStorage and its clients (StorageDemo), for every set *)
(* of clients, identifiers and contents and every size of the heap.        *)
(*                                                                         *)
(* Consistent is inductive on its own: what pc says about the request and  *)
(* the heap.  Settled, which relates storage and answers, is inductive     *)
(* relative to it as long as a delete asked of the core is carried out.    *)
(*                                                                         *)
(* The session is exclusive: while a main holds it nobody else writes to   *)
(* the storage.  DemoInv says what a main can rely on at each position.    *)
(***************************************************************************)
EXTENDS StorageDemo, TLAPS

(* A command is under way exactly when there is a request, and pc agrees   *)
(* with what is asked.                                                     *)
Underway ==
  /\ pc = "idle" => req = NoRequest
  /\ pc # "idle" => req \in Requests
  /\ pc \in {"write", "fill"} => req.cmd = "write"
  /\ pc = "read" => req.cmd = "read"
  /\ pc = "delete" => req.cmd = "delete"

Consistent == TypeOK /\ HeapAccounted /\ Underway

(* Storage and answers agree but for an object being made, which is empty. *)
Settled ==
  /\ \A i \in Ids : pc # "fill" \/ req.id # i => store[i] \in known[i]
  /\ pc = "fill" => store[req.id] = Empty
-----------------------------------------------------------------------------
(* What clients ask is a request.                                          *)
LEMMA AskedAreRequests == Asked \subseteq Requests
BY StorageAssumption DEF Asked, Requests

(* The two buffers take a natural number of blocks.                        *)
LEMMA BuffersNat == req \in Requests => Buffers \in Nat
BY DEF Requests, Buffers

LEMMA InitConsistent == Init => Consistent
BY StorageAssumption DEF Init, Consistent, TypeOK, HeapAccounted, Underway,
  NoReply, Results, Contents

LEMMA NextConsistent == Consistent /\ [Next]_vars => Consistent'
<1> SUFFICES ASSUME Consistent, [Next]_vars PROVE Consistent'
  OBVIOUS
<1> USE DEF Consistent, TypeOK, HeapAccounted, Underway, Buffers, Contents
<1>1. ASSUME NEW c \in Clients, TA_OpenSessionEntryPoint(c)
      PROVE  Consistent'
  BY <1>1 DEF TA_OpenSessionEntryPoint, Results
<1>2. ASSUME NEW c \in Clients, TA_CloseSessionEntryPoint(c)
      PROVE  Consistent'
  BY <1>2, StorageAssumption DEF TA_CloseSessionEntryPoint
<1>3. ASSUME NEW c \in Clients, NEW r \in Asked, TA_InvokeCommandEntryPoint(c, r)
      PROVE  Consistent'
  BY <1>3, AskedAreRequests DEF TA_InvokeCommandEntryPoint
<1>4. CASE MallocBuffers
  <2>1. /\ req \in Requests /\ Buffers \in Nat
        /\ req.cmd \in {"write", "read", "delete"}
        /\ heap \in Nat /\ heap = orphans /\ heap <= HeapBlocks
        /\ UNCHANGED <<store, holder, known>>
    BY <1>4, BuffersNat, StorageAssumption DEF MallocBuffers, Requests
  <2>2. CASE heap + Buffers <= HeapBlocks
    BY <1>4, <2>1, <2>2, StorageAssumption DEF MallocBuffers
  <2>3. CASE ~ (heap + Buffers <= HeapBlocks)
    <3>1. pc' = "idle" /\ req' = NoRequest /\ reply'.res \in Results
      BY <1>4, <2>3 DEF MallocBuffers, Returns, Answer, Results
    <3>2. heap' \in 0..HeapBlocks /\ orphans' \in 0..heap' /\ heap' = orphans' + 0
      <4> HIDE DEF Consistent, TypeOK, HeapAccounted, Underway, Buffers, Contents
      <4> QED BY <1>4, <2>1, <2>3, StorageAssumption DEF MallocBuffers
    <3>3. TypeOK'
      BY <2>1, <3>1, <3>2
    <3>4. HeapAccounted'
      <4>1. (IF pc \in {"idle", "malloc"} THEN 0 ELSE Buffers)' = 0
        BY <3>1
      <4> HIDE DEF Consistent, TypeOK, Underway, Buffers
      <4> QED BY <3>2, <4>1 DEF HeapAccounted
    <3> QED BY <3>1, <3>3, <3>4
  <2> QED BY <2>2, <2>3
<1>5. CASE CreatePersistentObject
  <2> USE <1>5 DEF CreatePersistentObject
  <2>1. req \in Requests /\ Buffers \in Nat /\ req.id \in Ids
    BY BuffersNat DEF Requests
  <2>2. store' \in [Ids -> Contents] BY <2>1
  <2> QED BY <2>1, <2>2, StorageAssumption DEF FreeBuffers, Returns, Answer, Results
<1>6. CASE WriteObjectData
  <2> USE <1>6 DEF WriteObjectData
  <2>1. /\ req \in Requests /\ Buffers \in Nat
        /\ req.id \in Ids /\ req.data \in Contents
    BY BuffersNat DEF Requests
  <2>2. store' \in [Ids -> Contents] BY <2>1
  <2>3. known' \in [Ids -> SUBSET Contents] BY <2>1 DEF Knows
  <2> QED BY <2>1, <2>2, <2>3, StorageAssumption
        DEF FreeBuffers, Returns, Answer, Results
<1>7. CASE read_raw_object
  <2> USE <1>7 DEF read_raw_object
  <2>1. req \in Requests /\ Buffers \in Nat /\ req.id \in Ids
    BY BuffersNat DEF Requests
  <2>2. known' \in [Ids -> SUBSET Contents] BY <2>1 DEF Knows
  <2> QED BY <2>1, <2>2, StorageAssumption DEF FreeBuffers, Returns, Answer, Results
<1>8. CASE delete_object
  <2> USE <1>8 DEF delete_object
  <2>1. req \in Requests /\ Buffers \in Nat /\ req.id \in Ids
    BY BuffersNat DEF Requests
  <2>2. store' \in [Ids -> Contents] BY <2>1
  <2>3. known' \in [Ids -> SUBSET Contents] BY <2>1 DEF Knows
  <2> QED BY <2>1, <2>2, <2>3, StorageAssumption
        DEF FreeBuffers, Returns, Answer, Results
<1>9. CASE PowerLoss
  <2> USE <1>9 DEF PowerLoss
  <2>1. known' \in [Ids -> SUBSET Contents]
    <3>1. CASE pc = "idle" BY <3>1
    <3>2. CASE pc # "idle"
      <4>1. req \in Requests BY <3>2
      <4>2. req.id \in Ids /\ InDoubt \subseteq Contents
        BY <4>1 DEF Requests, InDoubt
      <4> QED BY <3>2, <4>2
    <3> QED BY <3>1, <3>2
  <2> QED BY <2>1, StorageAssumption DEF NoReply, Results
<1>10. CASE UNCHANGED vars
  BY <1>10 DEF vars
<1> QED
  BY <1>1, <1>2, <1>3, <1>4, <1>5, <1>6, <1>7, <1>8, <1>9, <1>10 DEF Next, Handler

(* What pc says of the request and the heap is always so.                  *)
THEOREM AlwaysConsistent == Spec => []Consistent
BY InitConsistent, NextConsistent, PTL DEF Spec

(* Every variable of the secure storage TA keeps to its type, and the heap *)
(* of the instance is never overdrawn.                                     *)
THEOREM TypeCorrect == Spec => []TypeOK
<1>1. Consistent => TypeOK BY DEF Consistent
<1> QED BY AlwaysConsistent, <1>1, PTL

(* Every block on the heap is a buffer of the command under way or the     *)
(* identifier of a request refused for lack of memory.                     *)
THEOREM HeapIsAccounted == Spec => []HeapAccounted
<1>1. Consistent => HeapAccounted BY DEF Consistent
<1> QED BY AlwaysConsistent, <1>1, PTL
-----------------------------------------------------------------------------
LEMMA InitSettled == Init => Settled
BY DEF Init, Settled

LEMMA NextSettled ==
  ASSUME "delete" \notin Faults
  PROVE  Consistent /\ Settled /\ [Next]_vars => Settled'
<1> SUFFICES ASSUME Consistent, Settled, [Next]_vars PROVE Settled'
  OBVIOUS
<1>0. /\ store \in [Ids -> Contents] /\ known \in [Ids -> SUBSET Contents]
      /\ pc # "idle" => req.id \in Ids
  BY DEF Consistent, TypeOK, Underway, Requests
<1> USE DEF Settled
<1>1. ASSUME NEW c \in Clients, TA_OpenSessionEntryPoint(c)
      PROVE  Settled'
  BY <1>1 DEF TA_OpenSessionEntryPoint
<1>2. ASSUME NEW c \in Clients, TA_CloseSessionEntryPoint(c)
      PROVE  Settled'
  BY <1>2 DEF TA_CloseSessionEntryPoint
<1>3. ASSUME NEW c \in Clients, NEW r \in Asked, TA_InvokeCommandEntryPoint(c, r)
      PROVE  Settled'
  BY <1>3 DEF TA_InvokeCommandEntryPoint
<1>4. CASE MallocBuffers
  <2>1. req.cmd # "fill"
    BY <1>4 DEF MallocBuffers, Consistent, Underway, Requests
  <2> QED BY <1>4, <2>1 DEF MallocBuffers, Returns
<1>5. CASE CreatePersistentObject
  BY <1>0, <1>5 DEF CreatePersistentObject, Returns
<1>6. CASE WriteObjectData
  BY <1>0, <1>6 DEF WriteObjectData, Returns, Knows
<1>7. CASE read_raw_object
  BY <1>0, <1>7 DEF read_raw_object, Returns, Knows
<1>8. CASE delete_object
  BY <1>0, <1>8 DEF delete_object, Returns, Knows
<1>9. CASE PowerLoss
  <2>1. CASE pc = "fill"
    <3>1. req.cmd = "write" BY <2>1 DEF Consistent, Underway
    <3>2. Empty \in known'[req.id] BY <1>0, <1>9, <2>1, <3>1 DEF PowerLoss, InDoubt
    <3> QED BY <1>0, <1>9, <2>1, <3>2 DEF PowerLoss
  <2>2. CASE pc # "fill"
    BY <1>0, <1>9, <2>2 DEF PowerLoss
  <2> QED BY <2>1, <2>2
<1>10. CASE UNCHANGED vars
  BY <1>10 DEF vars
<1> QED
  BY <1>1, <1>2, <1>3, <1>4, <1>5, <1>6, <1>7, <1>8, <1>9, <1>10 DEF Next, Handler

(* Unless the core fails to delete, what clients were told is true of the  *)
(* storage, whatever else fails and whenever power is lost.                *)
THEOREM ToldIsTrue ==
  ASSUME "delete" \notin Faults
  PROVE  Spec => []ReadsWhatWasWritten
<1>1. Consistent /\ Settled => ReadsWhatWasWritten
  BY DEF Settled, ReadsWhatWasWritten
<1>2. Init => Settled BY InitSettled
<1>3. Consistent /\ Settled /\ [Next]_vars => Settled' BY NextSettled
<1> QED BY AlwaysConsistent, <1>1, <1>2, <1>3, PTL DEF Spec
-----------------------------------------------------------------------------
(* The clients: what main asks for, and where it stands.                   *)

WriteRequest(c) ==
  [cmd |-> "write", id |-> Object, data |-> DataOf[c], size |-> SizeOf[DataOf[c]]]
ReadRequest(c) ==
  [cmd |-> "read", id |-> Object, data |-> Null, size |-> SizeOf[DataOf[c]]]
DeleteRequest ==
  [cmd |-> "delete", id |-> Object, data |-> Null, size |-> 0]

Positions == {Failed, Ended, Stranger} \cup DOMAIN Script

(* The session is a main's from the command after its open to its close.   *)
Holds(c) ==
  /\ at[c] = 1 \/ at[c] = Ended => holder # c
  /\ at[c] \in 2..6 => holder = c

Pending(c) ==
  \/ At(c, "write") /\ req = WriteRequest(c)
  \/ At(c, "read") /\ req = ReadRequest(c)
  \/ At(c, "delete") /\ req = DeleteRequest

Progress(c) ==
  /\ at[c] \in 2..6 => orphans = 0
  /\ holder = c /\ at[c] # Stranger /\ pc # "idle" => Pending(c)
  /\ at[c] \in 3..5 => store[Object] = DataOf[c]
  /\ At(c, "compare") => found[c] = DataOf[c]
  /\ At(c, "terminate") => "delete" \in Faults \/ store[Object] = Null

DemoInv ==
  /\ Consistent
  /\ at \in [Clients -> Positions]
  /\ found \in [Clients -> Contents]
  /\ holder = Null => pc = "idle" /\ orphans = 0
  /\ \A c \in Clients : Holds(c) /\ Progress(c)
-----------------------------------------------------------------------------
LEMMA Steps ==
  ASSUME NEW i \in Positions
  PROVE  /\ i \in 0..8 /\ Failed = 0 /\ Ended = 7 /\ Stranger = 8
         /\ i \in DOMAIN Script <=> i \in 1..6
         /\ (i \in DOMAIN Script /\ Script[i] = "open") <=> i = 1
         /\ (i \in DOMAIN Script /\ Script[i] = "write") <=> i = 2
         /\ (i \in DOMAIN Script /\ Script[i] = "read") <=> i = 3
         /\ (i \in DOMAIN Script /\ Script[i] = "compare") <=> i = 4
         /\ (i \in DOMAIN Script /\ Script[i] = "delete") <=> i = 5
         /\ (i \in DOMAIN Script /\ Script[i] = "terminate") <=> i = 6
<1>1. /\ Len(Script) = 6 /\ DOMAIN Script = 1..6
      /\ Script[1] = "open" /\ Script[2] = "write" /\ Script[3] = "read"
      /\ Script[4] = "compare" /\ Script[5] = "delete" /\ Script[6] = "terminate"
  BY DEF Script
<1>2. Failed = 0 /\ Ended = 7 /\ Stranger = 8
  BY <1>1 DEF Failed, Ended, Stranger
<1>3. i \in 0..8
  BY <1>1, <1>2 DEF Positions
<1>4. i \in DOMAIN Script <=> i \in 1..6
  BY <1>1
<1>5. \A n \in 1..6 : n = 1 \/ n = 2 \/ n = 3 \/ n = 4 \/ n = 5 \/ n = 6
  OBVIOUS
<1>6. QED
  BY <1>1, <1>2, <1>3, <1>4, <1>5

(* The requests of main are among those any client may make.               *)
LEMMA MainAsks ==
  ASSUME NEW c \in Clients
  PROVE  /\ WriteRequest(c) \in Asked
         /\ ReadRequest(c) \in Asked
         /\ DeleteRequest \in Asked
BY DemoAssumption DEF WriteRequest, ReadRequest, DeleteRequest, Asked

(* A step of the clients is a step of the TA or leaves it alone.           *)
LEMMA DemoImplementsNext == [DemoNext]_demoVars => [Next]_vars
<1> SUFFICES ASSUME DemoNext PROVE [Next]_vars
  BY DEF demoVars, vars
<1>1. CASE DemoPowerLoss
  BY <1>1 DEF DemoPowerLoss, Next
<1>2. ASSUME NEW c \in Clients, Client(c) PROVE [Next]_vars
  <2>1. CASE prepare_tee_session(c)
    BY <2>1 DEF prepare_tee_session, Next
  <2>2. CASE write_secure_object(c)
    BY <2>2, MainAsks DEF write_secure_object, WriteRequest, Next
  <2>3. CASE read_secure_object(c)
    BY <2>3, MainAsks DEF read_secure_object, ReadRequest, Next
  <2>4. CASE delete_secure_object(c)
    BY <2>4, MainAsks DEF delete_secure_object, DeleteRequest, Next
  <2>5. CASE Serve(c)
    BY <2>5 DEF Serve, Next
  <2>6. CASE Compare(c)
    BY <2>6 DEF Compare
  <2>7. CASE terminate_tee_session(c)
    BY <2>7 DEF terminate_tee_session, Next
  <2>8. CASE CleanUp(c)
    BY <2>8 DEF CleanUp, Next
  <2>9. CASE RunAgain(c)
    BY <2>9 DEF RunAgain
  <2>10. CASE AnyCommand(c)
    BY <2>10 DEF AnyCommand, Next
  <2>11. QED
    BY <1>2, <2>1, <2>2, <2>3, <2>4, <2>5, <2>6, <2>7, <2>8, <2>9, <2>10 DEF Client
<1>3. QED
  BY <1>1, <1>2 DEF DemoNext
-----------------------------------------------------------------------------
(* Where a client stands, by number.                                       *)
Stands(c) ==
  /\ at[c] \in 0..8
  /\ At(c, "open") <=> at[c] = 1
  /\ At(c, "write") <=> at[c] = 2
  /\ At(c, "read") <=> at[c] = 3
  /\ At(c, "compare") <=> at[c] = 4
  /\ At(c, "delete") <=> at[c] = 5
  /\ At(c, "terminate") <=> at[c] = 6

LEMMA AllStand ==
  ASSUME at \in [Clients -> Positions]
  PROVE  \A c \in Clients : Stands(c)
BY Steps DEF Stands, At

LEMMA PositionsAre == Positions = 0..8 /\ Failed = 0 /\ Ended = 7 /\ Stranger = 8
<1>1. Failed \in Positions
  BY DEF Positions
<1>2. Failed = 0 /\ Ended = 7 /\ Stranger = 8
  BY <1>1, Steps
<1>3. DOMAIN Script = 1..6
  BY DEF Script
<1>4. QED
  BY <1>2, <1>3 DEF Positions

(* What the proof of each step uses of the invariant.                      *)
LEMMA InvFacts ==
  ASSUME DemoInv
  PROVE  /\ store \in [Ids -> Contents]
         /\ holder \in Clients \cup {Null}
         /\ holder = Null => pc = "idle" /\ orphans = 0
         /\ pc # "idle" => req \in Requests
         /\ orphans \in Nat /\ heap \in Nat
         /\ at \in [Clients -> 0..8]
         /\ found \in [Clients -> Contents]
         /\ \A c \in Clients : Holds(c) /\ Progress(c) /\ Stands(c)
         /\ Object \in Ids
         /\ \A c \in Clients : DataOf[c] \in Values /\ SizeOf[DataOf[c]] \in Nat
<1>1. at \in [Clients -> Positions]
  BY DEF DemoInv
<1>2. heap \in 0..HeapBlocks /\ orphans \in 0..heap
  BY DEF DemoInv, Consistent, TypeOK
<1>3. heap \in Nat /\ orphans \in Nat
  BY <1>2, StorageAssumption
<1>4. QED
  BY <1>1, <1>3, AllStand, PositionsAre, DemoAssumption, StorageAssumption
     DEF DemoInv, Consistent, TypeOK, Underway

LEMMA InitDemoInv == DemoInit => DemoInv
<1> SUFFICES ASSUME DemoInit PROVE DemoInv
  OBVIOUS
<1>1. Consistent
  BY InitConsistent DEF DemoInit
<1>2. at \in [Clients -> Positions] /\ found \in [Clients -> Contents]
  BY PositionsAre DEF DemoInit, Contents
<1>3. holder = Null /\ pc = "idle" /\ orphans = 0 /\ Null \notin Clients
  BY StorageAssumption DEF DemoInit, Init
<1>4. \A c \in Clients : at[c] = 1 /\ Stands(c)
  BY <1>2, AllStand DEF DemoInit
<1>5. \A c \in Clients : Holds(c) /\ Progress(c)
  <2> SUFFICES ASSUME NEW c \in Clients PROVE Holds(c) /\ Progress(c)
    OBVIOUS
  <2>1. at[c] = 1 /\ ~At(c, "compare") /\ ~At(c, "terminate") /\ holder # c
    BY <1>3, <1>4 DEF Stands
  <2>2. QED
    BY <2>1, <1>3 DEF Holds, Progress
<1>6. QED
  BY <1>1, <1>2, <1>3, <1>5 DEF DemoInv

(* What is left to show of a step.                                         *)
LEMMA StepKeeps ==
  ASSUME DemoInv, [DemoNext]_demoVars,
         at' \in [Clients -> 0..8],
         found' \in [Clients -> Contents],
         holder' = Null => pc' = "idle" /\ orphans' = 0,
         \A d \in Clients : Stands(d)' => Holds(d)' /\ Progress(d)'
  PROVE  DemoInv'
<1>1. Consistent'
  BY NextConsistent, DemoImplementsNext DEF DemoInv
<1>2. \A d \in Clients : Stands(d)'
  BY PositionsAre, AllStand, Steps DEF Stands, At
<1>3. QED
  BY <1>1, <1>2, PositionsAre DEF DemoInv

(* The clients a step is not about.                                        *)
LEMMA Untouched ==
  ASSUME DemoInv, NEW d \in Clients, Stands(d)',
         at'[d] = at[d], found'[d] = found[d], holder' = d <=> holder = d,
         holder = d => UNCHANGED <<store, pc, req, orphans>>
  PROVE  Holds(d)' /\ Progress(d)'
BY InvFacts, PositionsAre DEF Holds, Progress, Pending, Stands

LEMMA OpenKeepsDemo ==
  ASSUME DemoInv, DemoNext, NEW c \in Clients, prepare_tee_session(c)
  PROVE  DemoInv'
<1> USE InvFacts, PositionsAre DEF prepare_tee_session, TA_OpenSessionEntryPoint, Proceeds
<1>1. at[c] = 1 /\ UNCHANGED <<pc, found, store, req, orphans>>
  BY DEF Stands
<1>2. /\ \A d \in Clients \ {c} : at'[d] = at[d]
      /\ at' \in [Clients -> 0..8]
      /\ \/ holder = Null /\ holder' = c /\ at'[c] = 2
         \/ holder \notin {Null, c} /\ holder' = holder /\ at'[c] = 0
  BY <1>1
<1>3. ASSUME NEW d \in Clients, Stands(d)' PROVE Holds(d)' /\ Progress(d)'
  <2>1. CASE d = c
    BY <1>1, <1>2, <1>3, <2>1 DEF Holds, Progress, Stands
  <2>2. CASE d # c
    BY <1>1, <1>2, <1>3, <2>2, Untouched, StorageAssumption
  <2>3. QED
    BY <2>1, <2>2
<1>4. QED
  BY <1>1, <1>2, <1>3, StepKeeps

LEMMA StrangerOpens ==
  ASSUME DemoInv, DemoNext, NEW c \in Clients, TA_OpenSessionEntryPoint(c),
         at[c] = Stranger, UNCHANGED <<at, found>>
  PROVE  DemoInv'
<1> USE InvFacts, PositionsAre DEF TA_OpenSessionEntryPoint
<1>1. ASSUME NEW d \in Clients, Stands(d)' PROVE Holds(d)' /\ Progress(d)'
  <2>1. CASE d = c
    BY <1>1, <2>1 DEF Holds, Progress, Stands
  <2>2. CASE d # c
    BY <1>1, <2>2, Untouched, StorageAssumption
  <2>3. QED
    BY <2>1, <2>2
<1>2. holder' # Null
  BY StorageAssumption
<1>3. QED
  BY <1>1, <1>2, StepKeeps

(* A command of main, at the position where main issues it.                *)
LEMMA InvokeKeepsDemo ==
  ASSUME DemoInv, DemoNext, NEW c \in Clients, NEW r \in Asked,
         TA_InvokeCommandEntryPoint(c, r), UNCHANGED <<at, found>>,
         \/ At(c, "write") /\ r = WriteRequest(c)
         \/ At(c, "read") /\ r = ReadRequest(c)
         \/ At(c, "delete") /\ r = DeleteRequest
         \/ at[c] = Stranger
  PROVE  DemoInv'
<1> USE InvFacts, PositionsAre DEF TA_InvokeCommandEntryPoint
<1>1. ASSUME NEW d \in Clients, Stands(d)' PROVE Holds(d)' /\ Progress(d)'
  <2>1. CASE d = c
    BY <1>1, <2>1 DEF Holds, Progress, Pending, Stands, WriteRequest, ReadRequest
  <2>2. CASE d # c
    BY <1>1, <2>2, Untouched
  <2>3. QED
    BY <2>1, <2>2
<1>2. holder' # Null
  BY StorageAssumption
<1>3. QED
  BY <1>1, <1>2, StepKeeps

(* The session is given back, by a client that then stands at i.           *)
LEMMA CloseKeepsDemo ==
  ASSUME DemoInv, DemoNext, NEW c \in Clients, NEW i \in {0, 7, 8},
         TA_CloseSessionEntryPoint(c), at' = [at EXCEPT ![c] = i],
         UNCHANGED found
  PROVE  DemoInv'
<1> USE InvFacts, PositionsAre DEF TA_CloseSessionEntryPoint
<1>1. ASSUME NEW d \in Clients, Stands(d)' PROVE Holds(d)' /\ Progress(d)'
  <2>1. CASE d = c
    BY <1>1, <2>1, StorageAssumption DEF Holds, Progress, Stands
  <2>2. CASE d # c
    BY <1>1, <2>2, Untouched, StorageAssumption
  <2>3. QED
    BY <2>1, <2>2
<1>2. QED
  BY <1>1, StepKeeps

LEMMA CompareKeepsDemo ==
  ASSUME DemoInv, DemoNext, NEW c \in Clients, Compare(c)
  PROVE  DemoInv'
<1> USE InvFacts, PositionsAre DEF Compare, vars
<1>1. at[c] = 4 /\ at' = [at EXCEPT ![c] = 5]
  <2>1. at[c] = 4 /\ found[c] = DataOf[c]
    BY DEF Stands, Progress
  <2>2. QED
    BY <2>1
<1>2. ASSUME NEW d \in Clients, Stands(d)' PROVE Holds(d)' /\ Progress(d)'
  <2>1. CASE d = c
    BY <1>1, <1>2, <2>1 DEF Holds, Progress, Pending, Stands
  <2>2. CASE d # c
    BY <1>1, <1>2, <2>2, Untouched
  <2>3. QED
    BY <2>1, <2>2
<1>3. QED
  BY <1>1, <1>2, StepKeeps

LEMMA RunAgainKeepsDemo ==
  ASSUME DemoInv, DemoNext, NEW c \in Clients, RunAgain(c)
  PROVE  DemoInv'
<1> USE InvFacts, PositionsAre DEF RunAgain, vars
<1>1. PICK i \in {1, 8} : at' = [at EXCEPT ![c] = i]
  OBVIOUS
<1>2. ASSUME NEW d \in Clients, Stands(d)' PROVE Holds(d)' /\ Progress(d)'
  <2>1. CASE d = c
    BY <1>1, <1>2, <2>1 DEF Holds, Progress, Pending, Stands
  <2>2. CASE d # c
    BY <1>1, <1>2, <2>2, Untouched
  <2>3. QED
    BY <2>1, <2>2
<1>3. found' \in [Clients -> Contents]
  BY DEF Contents
<1>4. QED
  BY <1>1, <1>2, <1>3, StepKeeps

LEMMA PowerLossKeepsDemo ==
  ASSUME DemoInv, DemoNext, DemoPowerLoss
  PROVE  DemoInv'
<1> USE InvFacts, PositionsAre DEF DemoPowerLoss, PowerLoss
<1>1. ASSUME NEW d \in Clients, Stands(d)' PROVE Holds(d)' /\ Progress(d)'
  BY <1>1, StorageAssumption DEF Holds, Progress, Stands
<1>2. found' \in [Clients -> Contents]
  BY DEF Contents
<1>3. QED
  BY <1>1, <1>2, StepKeeps

(* A step of the TA on the command under way does not yet answer it, ...   *)
GoesOn ==
  /\ pc' # "idle"
  /\ UNCHANGED <<req, orphans>>
  /\ req.cmd = "write" \/ UNCHANGED store

(* ... or answers it for a reason, and with the effect the answer tells.   *)
Finishes ==
  /\ pc' = "idle" /\ reply'.data \in Contents
  /\ \/ /\ reply'.res = "NO_MEMORY"
        /\ orphans + Buffers > HeapBlocks
     \/ /\ reply'.res = "STORAGE"
     \/ /\ reply'.res = "NOT_FOUND"
        /\ req.cmd \in {"read", "delete"} /\ store[req.id] = Null
     \/ /\ reply'.res = "SHORT_BUFFER"
        /\ req.cmd = "read" /\ store[req.id] # Null
        /\ SizeOf[store[req.id]] > req.size
     \/ /\ reply'.res = "OK" /\ UNCHANGED orphans
        /\ \/ /\ req.cmd = "write"
              /\ store' = [store EXCEPT ![req.id] = req.data]
           \/ /\ req.cmd = "read"
              /\ UNCHANGED store /\ reply'.data = store[req.id]
           \/ /\ req.cmd = "delete"
              /\ "delete" \in Faults \/ store'[req.id] = Null

LEMMA HandlerEffect ==
  ASSUME DemoInv, Handler
  PROVE  pc # "idle" /\ UNCHANGED holder /\ (GoesOn \/ Finishes)
<1> USE InvFacts DEF GoesOn, Finishes, Returns, Answer, Contents
<1>1. CASE MallocBuffers
  <2>1. heap = orphans
    BY <1>1 DEF MallocBuffers, DemoInv, Consistent, HeapAccounted
  <2>2. QED
    BY <1>1, <2>1, BuffersNat, StorageAssumption DEF MallocBuffers, Requests
<1>2. CASE CreatePersistentObject
  BY <1>2 DEF CreatePersistentObject, DemoInv, Consistent, Underway
<1>3. CASE WriteObjectData
  BY <1>3 DEF WriteObjectData, DemoInv, Consistent, Underway
<1>4. CASE read_raw_object
  BY <1>4 DEF read_raw_object, Requests, DemoInv, Consistent, Underway
<1>5. CASE delete_object
  BY <1>5 DEF delete_object, DemoInv, Consistent, Underway, Requests
<1>6. QED
  BY <1>1, <1>2, <1>3, <1>4, <1>5 DEF Handler

(* A command under way is about what main asked for, so that its last step *)
(* brings main to the next position with what that one relies on.          *)
LEMMA ServeKeepsDemo ==
  ASSUME DemoInv, DemoNext, NEW c \in Clients, Serve(c)
  PROVE  DemoInv'
<1> USE InvFacts, PositionsAre
<1>1. /\ holder = c /\ holder' = c /\ holder' # Null /\ pc # "idle"
      /\ req.id \in Ids /\ req.size \in Nat
  BY StorageAssumption DEF Serve, Handler, MallocBuffers, CreatePersistentObject,
     WriteObjectData, read_raw_object, delete_object, Requests
<1>2. ASSUME NEW d \in Clients \ {c}, Stands(d)', at'[d] = at[d], found'[d] = found[d]
      PROVE  Holds(d)' /\ Progress(d)'
  BY <1>1, <1>2, Untouched
<1>3. SUFFICES ASSUME at[c] # 8
      PROVE  DemoInv'
  <2>1. ASSUME at[c] = 8 PROVE DemoInv'
    <3>1. at' = at /\ found' = found
      BY <2>1 DEF Serve, Stands
    <3>2. ASSUME NEW d \in Clients, Stands(d)' PROVE Holds(d)' /\ Progress(d)'
      <4>1. CASE d = c
        BY <1>1, <2>1, <3>1, <3>2, <4>1 DEF Holds, Progress, Stands
      <4>2. CASE d # c
        BY <1>2, <3>1, <3>2, <4>2
      <4>3. QED
        BY <4>1, <4>2
    <3>3. QED
      BY <1>1, <3>1, <3>2, StepKeeps
  <2>2. QED
    BY <2>1
<1>4. Pending(c) /\ orphans = 0 /\ at[c] \in {2, 3, 5} /\ req.id = Object
  BY <1>1, <1>3 DEF Progress, Pending, Stands, WriteRequest, ReadRequest, DeleteRequest
<1>5. CASE GoesOn
  <2>1. UNCHANGED <<at, found>>
    BY <1>5 DEF Serve, GoesOn
  <2>2. ASSUME NEW d \in Clients, Stands(d)' PROVE Holds(d)' /\ Progress(d)'
    <3>1. CASE d = c
      <4>1. req.cmd = "write" <=> at[c] = 2
        BY <1>4 DEF Pending, Stands, WriteRequest, ReadRequest, DeleteRequest
      <4>2. Pending(c)'
        BY <1>4, <1>5, <2>1 DEF Pending, GoesOn, At
      <4>3. QED
        BY <1>1, <1>4, <1>5, <2>1, <2>2, <3>1, <4>1, <4>2
           DEF GoesOn, Holds, Progress, Stands
    <3>2. CASE d # c
      BY <1>2, <2>1, <2>2, <3>2
    <3>3. QED
      BY <3>1, <3>2
  <2>3. QED
    BY <1>1, <2>1, <2>2, StepKeeps
<1>6. CASE Finishes
  <2>1. /\ at' = [at EXCEPT ![c] = IF reply'.res = "OK" THEN at[c] + 1 ELSE 0]
        /\ found' = [found EXCEPT ![c] = IF at[c] = 3 THEN reply'.data ELSE @]
    BY <1>3, <1>6 DEF Serve, Finishes, Proceeds, Stands
  <2>2. at' \in [Clients -> 0..8]
    BY <1>4, <2>1
  <2>3. found' \in [Clients -> Contents]
    BY <1>6, <2>1 DEF Finishes
  <2>4. ASSUME NEW d \in Clients, Stands(d)' PROVE Holds(d)' /\ Progress(d)'
    <3>1. CASE d = c
      <4>1. CASE reply'.res = "OK"
        BY <1>1, <1>4, <1>6, <2>1, <2>4, <3>1, <4>1
           DEF Finishes, Holds, Progress, Pending, Stands, WriteRequest,
               ReadRequest, DeleteRequest
      <4>2. CASE reply'.res # "OK"
        BY <1>1, <1>4, <1>6, <2>1, <2>4, <3>1, <4>2
           DEF Finishes, Holds, Progress, Stands
      <4>3. QED
        BY <4>1, <4>2
    <3>2. CASE d # c
      BY <1>2, <2>1, <2>4, <3>2
    <3>3. QED
      BY <3>1, <3>2
  <2>5. QED
    BY <1>1, <1>6, <2>2, <2>3, <2>4, StepKeeps DEF Finishes
<1>7. QED
  BY <1>5, <1>6, HandlerEffect DEF Serve

LEMMA DemoInvariant == DemoSpec => []DemoInv
<1>1. DemoInv /\ [DemoNext]_demoVars => DemoInv'
  <2> SUFFICES ASSUME DemoInv, [DemoNext]_demoVars PROVE DemoInv'
    OBVIOUS
  <2>1. CASE UNCHANGED demoVars
    <3>1. DemoInv /\ UNCHANGED demoVars => DemoInv'
      BY <2>1 DEF DemoInv, demoVars, Consistent, TypeOK, HeapAccounted, Buffers,
         Underway, Holds, Progress, Pending, At
    <3>2. QED
      BY <2>1, <3>1
  <2>2. CASE DemoNext /\ DemoPowerLoss
    BY <2>2, PowerLossKeepsDemo
  <2>3. ASSUME NEW c \in Clients, DemoNext, Client(c)
        PROVE  DemoInv'
    <3>1. CASE prepare_tee_session(c)
      BY <2>3, <3>1, OpenKeepsDemo
    <3>2. CASE write_secure_object(c)
      BY <2>3, <3>2, MainAsks, InvokeKeepsDemo DEF write_secure_object, WriteRequest
    <3>3. CASE read_secure_object(c)
      BY <2>3, <3>3, MainAsks, InvokeKeepsDemo DEF read_secure_object, ReadRequest
    <3>4. CASE delete_secure_object(c)
      BY <2>3, <3>4, MainAsks, InvokeKeepsDemo DEF delete_secure_object, DeleteRequest
    <3>5. CASE Serve(c)
      BY <2>3, <3>5, ServeKeepsDemo
    <3>6. CASE Compare(c)
      BY <2>3, <3>6, CompareKeepsDemo
    <3>7. CASE terminate_tee_session(c)
      BY <2>3, <3>7, CloseKeepsDemo, PositionsAre DEF terminate_tee_session
    <3>8. CASE CleanUp(c)
      <4>1. at' = [at EXCEPT ![c] = 0]
        BY <3>8, InvFacts, PositionsAre DEF CleanUp
      <4>2. QED
        BY <2>3, <3>8, <4>1, CloseKeepsDemo DEF CleanUp
    <3>9. CASE RunAgain(c)
      BY <2>3, <3>9, RunAgainKeepsDemo
    <3>10. CASE AnyCommand(c)
      <4>1. at' = [at EXCEPT ![c] = 8]
        BY <3>10, InvFacts, PositionsAre DEF AnyCommand
      <4>2. QED
        BY <2>3, <3>10, <4>1, StrangerOpens, CloseKeepsDemo, InvokeKeepsDemo
           DEF AnyCommand
    <3>11. QED
      BY <2>3, <3>1, <3>2, <3>3, <3>4, <3>5, <3>6, <3>7, <3>8, <3>9, <3>10 DEF Client
  <2>4. QED
    BY <2>1, <2>2, <2>3 DEF DemoNext
<1>2. QED
  BY <1>1, InitDemoInv, PTL DEF DemoSpec

(* The clients are clients of the TA: what is proved of SecureStorage      *)
(* holds of the processes of main, of strangers and across power losses.   *)
THEOREM ClientsRunTheTA == DemoSpec => Spec
<1>1. DemoInit => Init
  BY DEF DemoInit
<1>2. QED
  BY <1>1, DemoImplementsNext, PTL DEF DemoSpec, Spec

(* The comparison of main never finds other contents than it wrote.        *)
THEOREM ContentIsAsWritten == DemoSpec => []ContentAsWritten
<1>1. DemoInv => ContentAsWritten
  BY DEF DemoInv, Progress, ContentAsWritten
<1>2. QED
  BY <1>1, DemoInvariant, PTL

(* A main that got as far as its close has left no object behind, unless   *)
(* the core failed to delete it and the TA did not tell.                   *)
THEOREM NothingIsLeft ==
  ASSUME "delete" \notin Faults
  PROVE  DemoSpec => []LeavesNothing
<1>1. DemoInv => LeavesNothing
  BY DEF DemoInv, Progress, LeavesNothing
<1>2. QED
  BY <1>1, DemoInvariant, PTL

(* A main leaves through errx only because another holds the session or    *)
(* because the storage failed under it: never for a lack of heap, provided *)
(* its content fits one beside the session, never because the object is    *)
(* there already, is gone or is too long to read.                          *)
THEOREM FailureHasCause ==
  ASSUME \A c \in Clients : 1 + SizeOf[DataOf[c]] <= HeapBlocks
  PROVE  DemoSpec => FailsForCause
<1>1. ASSUME DemoInv, DemoNext, NEW c \in Clients, at'[c] = Failed, at[c] # Failed
      PROVE  reply'.res = IF At(c, "open") THEN "BUSY" ELSE "STORAGE"
  <2> USE <1>1, InvFacts, PositionsAre
  <2>1. ~DemoPowerLoss
    BY DEF DemoPowerLoss
  <2>2. ASSUME NEW d \in Clients, Client(d) PROVE d = c
    BY <2>2 DEF Client, prepare_tee_session, write_secure_object, Serve,
       read_secure_object, delete_secure_object, Compare, terminate_tee_session,
       CleanUp, RunAgain, AnyCommand, Proceeds
  <2>3. Client(c)
    BY <2>1, <2>2 DEF DemoNext
  <2>4. CASE prepare_tee_session(c)
    BY <2>4 DEF prepare_tee_session, TA_OpenSessionEntryPoint, Proceeds, Stands
  <2>5. CASE Serve(c)
    <3>1. /\ holder = c /\ pc # "idle" /\ Finishes /\ at[c] # Stranger
          /\ reply'.res # "OK"
      BY <2>5, HandlerEffect DEF Serve, GoesOn, Proceeds, Stands
    <3>2. Pending(c) /\ orphans = 0
      BY <3>1 DEF Progress, Pending, Stands
    <3>3. ~At(c, "open") /\ req.id = Object /\ (req.cmd # "write" => store[Object] = DataOf[c])
      BY <3>2 DEF Progress, Pending, Stands, WriteRequest, ReadRequest, DeleteRequest
    <3>4. orphans + Buffers <= HeapBlocks
      BY <3>2, StorageAssumption DEF Pending, Buffers, WriteRequest, ReadRequest,
         DeleteRequest
    <3>5. ~(orphans + Buffers > HeapBlocks)
      BY <3>1, <3>2, <3>4, BuffersNat, StorageAssumption
    <3>6. req.cmd = "read" => req.size = SizeOf[DataOf[c]]
      BY <3>2 DEF Pending, WriteRequest, ReadRequest, DeleteRequest
    <3>7. DataOf[c] # Null
      BY StorageAssumption
    <3>8. QED
      BY <3>1, <3>3, <3>5, <3>6, <3>7 DEF Finishes
  <2>6. CASE Compare(c)
    BY <2>6 DEF Compare, Progress, Stands
  <2>7. QED
    BY <2>3, <2>4, <2>5, <2>6 DEF Client, write_secure_object, read_secure_object,
       delete_secure_object, terminate_tee_session, CleanUp, RunAgain, AnyCommand
<1>2. DemoInv /\ [DemoNext]_demoVars =>
        [\A c \in Clients : at'[c] = Failed /\ at[c] # Failed =>
           reply'.res = IF At(c, "open") THEN "BUSY" ELSE "STORAGE"]_demoVars
  BY <1>1
<1>3. QED
  BY <1>2, DemoInvariant, PTL DEF DemoSpec, FailsForCause
=============================================================================
