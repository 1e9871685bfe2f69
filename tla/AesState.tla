------------------------------ MODULE AesState ------------------------------
(***************************************************************************)
(* The state of the AES trusted application, demo/cipher/ta/cipher_ta.c,   *)
(* and the values its commands carry.  AesTA has the steps.                *)
(*                                                                         *)
(* Key material is a record of an identity and a length in bytes; the      *)
(* algorithm only matters by being valid or not; chaining inside a stream  *)
(* is left out.  The TA heap is counted in blocks.                         *)
(***************************************************************************)
EXTENDS TeeCore

CONSTANTS
  KeyIds,     \* identities of the keys clients load
  Ivs,        \* initial vectors clients load
  HeapBlocks  \* blocks TEE_Malloc can hand out in one TA instance

ASSUME AesAssumption ==
  /\ HeapBlocks \in Nat \ {0}
  /\ Null \notin KeyIds
  /\ Null \notin Ivs

VARIABLES
  sess,   \* struct aes_cipher of each session, and where its handler stands
  slots,  \* the core's pool
  heap,   \* blocks in use on each TA instance's heap
  reply   \* the last answer any client got

vars == <<sess, slots, heap, reply>>
-----------------------------------------------------------------------------
Sizes == {16, 32}
Modes == {"encrypt", "decrypt"}

(* Key material as a client sends it: SET_KEY does not stop an empty       *)
(* buffer other than by comparing its size.                                *)
ClientKeys == [id : KeyIds, size : {0} \cup Sizes]
KeyValues == [id : KeyIds \cup {Null}, size : {0} \cup Sizes]

NoKey == [id |-> Null, size |-> 0]
DummyKey(size) == [id |-> Null, size |-> size]

Attrs == [mode : Modes \cup {"none"}, size : Sizes, key : KeyValues,
          iv : Ivs \cup {Null}]
OperationAttr(mode, size) ==
  [mode |-> mode, size |-> size, key |-> NoKey, iv |-> Null]
ObjectAttr(size) ==
  [mode |-> "none", size |-> size, key |-> NoKey, iv |-> Null]

(* What TA_AES_CMD_PREPARE may carry, the values it refuses included.  The *)
(* algorithm is looked at first, so what comes with a bad one is of no     *)
(* consequence.                                                            *)
PrepareArgs ==
  [algo : {TRUE}, size : Sizes \cup {1}, mode : Modes \cup {"none"}]
    \cup [algo : {FALSE}, size : {16}, mode : {"encrypt"}]

Closed == [phase |-> "closed", pc |-> "idle", key_size |-> 0, mode |-> "none",
           op |-> Null, key |-> Null]

Commands == {"open", "prepare", "set_key", "set_iv", "cipher", "unknown"}
Results ==
  {"OK", "BAD_PARAMETERS", "BAD_STATE", "NOT_SUPPORTED", "FAIL", "TARGET_DEAD"}
Streams == [mode : Modes \cup {"none"}, key : KeyValues, iv : Ivs \cup {Null}]
NoReply == [to |-> Null, cmd |-> "open", res |-> "FAIL", data |-> Null]

Attr(h) == slots[h].attr
Held(s) == {sess[s].op, sess[s].key} \ {Null}
Idle(s) == sess[s].phase = "open" /\ sess[s].pc = "idle"

Answer(s, cmd, res, data) ==
  reply' = [to |-> s, cmd |-> cmd, res |-> res, data |-> data]

(* A panic ends the TA instance: its heap and its pool slots are gone and  *)
(* the client is told that the target is dead.                             *)
Panic(s, cmd) ==
  /\ sess' = [sess EXCEPT ![s] = [Closed EXCEPT !.phase = "dead"]]
  /\ slots' = Reclaim(slots, s)
  /\ heap' = [heap EXCEPT ![s] = 0]
  /\ Answer(s, cmd, "TARGET_DEAD", Null)
=============================================================================
