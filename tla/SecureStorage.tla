---------------------------- MODULE SecureStorage ----------------------------
(***************************************************************************)
(* The secure storage trusted application,                                 *)
(* demo/secure_storage/ta/secure_storage_ta.c, on the private storage the  *)
(* TEE core keeps for it.                                                  *)
(*                                                                         *)
(* The TA is a single instance without multi-session: one client at a      *)
(* time holds it, and its heap lives from the first open to the close.     *)
(* The calls that change the storage are steps of their own, because power *)
(* may be lost between them; the storage survives, the instance does not.  *)
(* Contents are values with a size in heap blocks; an identifier takes one *)
(* block.  A call of the core changes one object and is atomic.            *)
(***************************************************************************)
EXTENDS Naturals

CONSTANTS
  Clients,     \* processes that may hold the session
  Ids,         \* identifiers of persistent objects
  Values,      \* contents clients write
  SizeOf,      \* blocks each content takes
  HeapBlocks,  \* blocks of the TA heap
  Faults,      \* calls of the core that may fail without a reason here
  Null,        \* the absence of a client, a content or a request
  Empty        \* the content of an object created and not yet written

Calls == {"create", "write", "open", "read", "delete"}

ASSUME StorageAssumption ==
  /\ HeapBlocks \in Nat
  /\ SizeOf \in [Values \cup {Empty} -> Nat]
  /\ SizeOf[Empty] = 0
  /\ Faults \subseteq Calls
  /\ Null \notin Clients \cup Ids \cup Values
  /\ Empty \notin Values \cup {Null}

VARIABLES
  store,   \* content of every object, Null where there is none
  holder,  \* the client whose session the instance serves
  pc,      \* where the command under way stands
  req,     \* the command under way
  heap,    \* blocks in use on the TA heap
  orphans, \* of these, blocks no pointer reaches any more
  known,   \* what the answers so far leave possible for every object
  reply    \* the last answer

vars == <<store, holder, pc, req, heap, orphans, known, reply>>

Contents == Values \cup {Null, Empty}
Results == {"OK", "NOT_FOUND", "SHORT_BUFFER", "NO_MEMORY", "STORAGE", "BUSY"}
Requests == [cmd : {"write", "read", "delete"}, id : Ids,
             data : Values \cup {Null}, size : Nat]
NoRequest == [cmd |-> "none"]
NoReply == [cmd |-> "none", id |-> Null, res |-> "OK", data |-> Null]

Answer(res, data) ==
  reply' = [cmd |-> req.cmd, id |-> req.id, res |-> res, data |-> data]

Returns(res, data) ==
  /\ Answer(res, data)
  /\ pc' = "idle"
  /\ req' = NoRequest

(* The two buffers of a command, freed together.                           *)
Buffers == 1 + req.size
FreeBuffers == heap' = heap - Buffers

Knows(contents) == known' = [known EXCEPT ![req.id] = contents]
-----------------------------------------------------------------------------
(* Slips: steps as they would be with one line wrong, each named for the   *)
(* property it would break.  Next takes none of them.                      *)

(* ReadsWhatWasWritten: a failed write closes the object and keeps it.     *)
ClosesUnwritten ==
  /\ pc = "fill"
  /\ \/ /\ store' = [store EXCEPT ![req.id] = req.data]
        /\ Returns("OK", Null)
        /\ Knows({req.data})
     \/ /\ "write" \in Faults
        /\ Returns("STORAGE", Null)
        /\ Knows({Null})
        /\ UNCHANGED store
  /\ FreeBuffers
  /\ UNCHANGED <<holder, orphans>>

(* HeapAccounted: the data buffer is not freed when the create fails.      *)
KeepsDataBuffer ==
  /\ pc = "write"
  /\ \/ /\ store' = [store EXCEPT ![req.id] = Empty]
        /\ pc' = "fill"
        /\ UNCHANGED <<req, heap, reply>>
     \/ /\ "create" \in Faults
        /\ heap' = heap - 1
        /\ Returns("STORAGE", Null)
        /\ UNCHANGED store
  /\ UNCHANGED <<holder, orphans, known>>

(* TypeOK: the identifier is taken without a look at the heap.             *)
IgnoresFullHeap ==
  /\ pc = "malloc"
  /\ IF heap + Buffers <= HeapBlocks
     THEN /\ heap' = heap + Buffers
          /\ pc' = req.cmd
          /\ UNCHANGED <<req, orphans, reply>>
     ELSE /\ Returns("NO_MEMORY", Null)
          /\ heap' = heap + 1
          /\ orphans' = orphans + 1
  /\ UNCHANGED <<store, holder, known>>
-----------------------------------------------------------------------------
Init ==
  /\ store = [i \in Ids |-> Null]
  /\ holder = Null
  /\ pc = "idle"
  /\ req = NoRequest
  /\ heap = 0
  /\ orphans = 0
  /\ known = [i \in Ids |-> {Null}]
  /\ reply = NoReply

(* The core admits one session to the instance and turns the others away.  *)
TA_OpenSessionEntryPoint(c) ==
  /\ \/ /\ holder = Null
        /\ holder' = c
        /\ reply' = [cmd |-> "open", id |-> Null, res |-> "OK", data |-> Null]
     \/ /\ holder \notin {Null, c}
        /\ reply' = [cmd |-> "open", id |-> Null, res |-> "BUSY", data |-> Null]
        /\ UNCHANGED holder
  /\ UNCHANGED <<store, pc, req, heap, orphans, known>>

(* The instance is not kept alive: its heap goes with the session.         *)
TA_CloseSessionEntryPoint(c) ==
  /\ holder = c
  /\ pc = "idle"
  /\ holder' = Null
  /\ heap' = 0
  /\ orphans' = 0
  /\ UNCHANGED <<store, pc, req, known, reply>>

TA_InvokeCommandEntryPoint(c, r) ==
  /\ holder = c
  /\ pc = "idle"
  /\ req' = r
  /\ pc' = "malloc"
  /\ UNCHANGED <<store, holder, heap, orphans, known, reply>>

(* TEE_Malloc of the identifier and, but for a delete, of the data.  When  *)
(* the second fails the function returns without freeing the first.        *)
MallocBuffers ==
  /\ pc = "malloc"
  /\ IF heap + Buffers <= HeapBlocks
     THEN /\ heap' = heap + Buffers
          /\ pc' = req.cmd
          /\ UNCHANGED <<req, orphans, reply>>
     ELSE /\ Returns("NO_MEMORY", Null)
          /\ heap' = IF heap < HeapBlocks THEN heap + 1 ELSE heap
          /\ orphans' = orphans + (heap' - heap)
  /\ UNCHANGED <<store, holder, known>>
-----------------------------------------------------------------------------
(* create_raw_object                                                       *)

(* TEE_CreatePersistentObject replaces what there was with an object that  *)
(* has no data yet.                                                        *)
CreatePersistentObject ==
  /\ pc = "write"
  /\ \/ /\ store' = [store EXCEPT ![req.id] = Empty]
        /\ pc' = "fill"
        /\ UNCHANGED <<req, heap, reply>>
     \/ /\ "create" \in Faults
        /\ FreeBuffers
        /\ Returns("STORAGE", Null)
        /\ UNCHANGED store
  /\ UNCHANGED <<holder, orphans, known>>

(* TEE_WriteObjectData, and on failure the object is deleted again, if     *)
(* that works: nothing is done about it if not.                            *)
WriteObjectData ==
  /\ pc = "fill"
  /\ \/ /\ store' = [store EXCEPT ![req.id] = req.data]
        /\ Returns("OK", Null)
        /\ Knows({req.data})
     \/ /\ "write" \in Faults
        /\ \/ store' = [store EXCEPT ![req.id] = Null]
           \/ "delete" \in Faults /\ UNCHANGED store
        /\ Returns("STORAGE", Null)
        /\ Knows({Null})
  /\ FreeBuffers
  /\ UNCHANGED <<holder, orphans>>
-----------------------------------------------------------------------------
(* read_raw_object changes nothing but the heap: one step from the open to *)
(* the close.  The core reads less than it is asked for only at the end of *)
(* the data, and the TA asks for the size the object has just been told to *)
(* have while no other session can write: that a read succeeds with fewer  *)
(* bytes, which the TA would answer with success, does not happen here.    *)
read_raw_object ==
  LET content == store[req.id] IN
  /\ pc = "read"
  /\ \/ /\ content = Null
        /\ Returns("NOT_FOUND", Null)
        /\ Knows({Null})
     \/ /\ {"open", "read"} \cap Faults # {}
        /\ Returns("STORAGE", Null)
        /\ UNCHANGED known
     \/ /\ content # Null
        /\ SizeOf[content] > req.size
        /\ Returns("SHORT_BUFFER", Null)
        /\ UNCHANGED known
     \/ /\ content # Null
        /\ SizeOf[content] <= req.size
        /\ Returns("OK", content)
        /\ Knows({content})
  /\ FreeBuffers
  /\ UNCHANGED <<store, holder, orphans>>

(* delete_object returns what the open returned: that the delete itself    *)
(* failed is not looked at.                                                *)
delete_object ==
  /\ pc = "delete"
  /\ \/ /\ store[req.id] = Null
        /\ Returns("NOT_FOUND", Null)
        /\ Knows({Null})
        /\ UNCHANGED store
     \/ /\ "open" \in Faults
        /\ Returns("STORAGE", Null)
        /\ UNCHANGED <<store, known>>
     \/ /\ store[req.id] # Null
        /\ \/ store' = [store EXCEPT ![req.id] = Null]
           \/ "delete" \in Faults /\ UNCHANGED store
        /\ Returns("OK", Null)
        /\ Knows({Null})
  /\ FreeBuffers
  /\ UNCHANGED <<holder, orphans>>
-----------------------------------------------------------------------------
(* Power is lost: the client learns nothing of the command under way.      *)
InDoubt ==
  IF req.cmd = "write" THEN {Empty, req.data}
  ELSE IF req.cmd = "delete" THEN {Null} ELSE {}

PowerLoss ==
  /\ holder # Null
  /\ holder' = Null
  /\ pc' = "idle"
  /\ req' = NoRequest
  /\ heap' = 0
  /\ orphans' = 0
  /\ known' = IF pc = "idle" THEN known
              ELSE [known EXCEPT ![req.id] = @ \cup InDoubt]
  /\ reply' = NoReply
  /\ UNCHANGED store

Handler ==
  \/ MallocBuffers
  \/ CreatePersistentObject
  \/ WriteObjectData
  \/ read_raw_object
  \/ delete_object

(* What clients ask: a write of a value, a read into a buffer as large as  *)
(* some value or as the empty one, a delete, which has no buffer.          *)
Asked ==
  {[cmd |-> "write", id |-> i, data |-> v, size |-> SizeOf[v]] :
     i \in Ids, v \in Values}
  \cup {[cmd |-> "read", id |-> i, data |-> Null, size |-> SizeOf[v]] :
     i \in Ids, v \in Values \cup {Empty}}
  \cup {[cmd |-> "delete", id |-> i, data |-> Null, size |-> 0] : i \in Ids}

Next ==
  \/ \E c \in Clients :
       \/ TA_OpenSessionEntryPoint(c)
       \/ TA_CloseSessionEntryPoint(c)
       \/ \E r \in Asked : TA_InvokeCommandEntryPoint(c, r)
  \/ Handler
  \/ PowerLoss

Spec == Init /\ [][Next]_vars
-----------------------------------------------------------------------------
(* Every variable keeps to its type, and the heap to its size.             *)
TypeOK ==
  /\ store \in [Ids -> Contents]
  /\ holder \in Clients \cup {Null}
  /\ pc \in {"idle", "malloc", "write", "fill", "read", "delete"}
  /\ req \in Requests \cup {NoRequest}
  /\ heap \in 0..HeapBlocks
  /\ orphans \in 0..heap
  /\ known \in [Ids -> SUBSET Contents]
  /\ reply.res \in Results

(* What the clients have been told is true of the storage, over failed     *)
(* writes, deletes and power losses: a read returns the value of the last  *)
(* write answered with success, or, when a later one was cut short, what   *)
(* that one may have left.                                                 *)
ReadsWhatWasWritten ==
  \A i \in Ids : pc = "idle" \/ req.id # i => store[i] \in known[i]

(* Between commands the heap holds nothing but the identifiers that        *)
(* requests refused for lack of memory have left behind.                   *)
HeapAccounted ==
  heap = orphans + (IF pc \in {"idle", "malloc"} THEN 0 ELSE Buffers)
=============================================================================
