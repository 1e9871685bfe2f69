-------------------------------- MODULE AesTA --------------------------------
(***************************************************************************)
(* The AES trusted application, demo/cipher/ta/cipher_ta.c.                *)
(*                                                                         *)
(* Every session is served by a TA instance of its own, with its own heap; *)
(* the instances run concurrently and share the core's pool (TeeCore).     *)
(* alloc_resources, which allocates from that pool, is one step per        *)
(* allocating call, so that another session can take the slot it has just  *)
(* freed.  The other commands touch only what the session holds and are    *)
(* one step each.                                                          *)
(***************************************************************************)
EXTENDS AesState
-----------------------------------------------------------------------------
(* Slips: steps as they would be with one line of cipher_ta.c wrong, each  *)
(* named for the property it would break.  Next takes none of them.        *)

(* TypeOK: ta2tee_key_size stores the size before it looks at it.          *)
StoresAnySize(s, a) ==
  /\ Idle(s)
  /\ ~ (a.algo /\ a.size \in Sizes /\ a.mode \in Modes)
  /\ sess' = [sess EXCEPT ![s].key_size = IF a.algo THEN a.size ELSE @]
  /\ Answer(s, "prepare", "BAD_PARAMETERS", Null)
  /\ UNCHANGED <<slots, heap>>

(* NoStaleHandle: the failed allocation leaves the freed operation in the  *)
(* session, for the err label to free again.                               *)
KeepsFreedOperation(s) ==
  /\ sess[s].pc = "alloc_op"
  /\ \/ \E h \in Spare(slots) :
          /\ sess' = [sess EXCEPT ![s].op = h, ![s].pc = "alloc_key"]
          /\ slots' = Release(Install(slots, h, "op", s,
                                OperationAttr(sess[s].mode, sess[s].key_size)),
                              {sess[s].key})
     \/ /\ Spare(slots) = {} \/ "alloc" \in Faults
        /\ sess' = [sess EXCEPT ![s].pc = "err"]
        /\ UNCHANGED slots
  /\ UNCHANGED <<heap, reply>>

(* Answered: the allocation is tried again until the pool has a slot.      *)
WaitsForSlot(s) ==
  /\ sess[s].pc = "alloc_key"
  /\ \E h \in Spare(slots) :
       /\ sess' = [sess EXCEPT ![s].key = h, ![s].pc = "malloc"]
       /\ slots' = Install(slots, h, "obj", s, ObjectAttr(sess[s].key_size))
  /\ UNCHANGED <<heap, reply>>

(* ResetAllowed: the dummy key is put in the object but not in the         *)
(* operation.                                                              *)
PopulatesOnly(s) ==
  /\ sess[s].pc = "load"
  /\ sess' = [sess EXCEPT ![s].pc = "idle"]
  /\ slots' = [slots EXCEPT ![sess[s].key].attr.key = DummyKey(sess[s].key_size)]
  /\ Answer(s, "prepare", "OK", Null)
  /\ UNCHANGED heap

(* SizesAgree: the dummy key is always as long as the longest key.         *)
LongDummyKey(s) ==
  LET dummy == DummyKey(32) IN
  /\ sess[s].pc = "load"
  /\ sess' = [sess EXCEPT ![s].pc = "idle"]
  /\ slots' = [slots EXCEPT ![sess[s].key].attr.key = dummy,
                            ![sess[s].op].attr.key = dummy]
  /\ Answer(s, "prepare", "OK", Null)
  /\ UNCHANGED heap

(* BothOrNeither: the err label frees the operation only.                  *)
ErrKeepsObject(s) ==
  /\ sess[s].pc = "err"
  /\ slots' = Release(slots, {sess[s].op})
  /\ sess' = [sess EXCEPT ![s].op = Null, ![s].pc = "idle"]
  /\ Answer(s, "prepare", "FAIL", Null)
  /\ UNCHANGED heap

(* NoLeak: closing the session frees the operation only.                   *)
CloseKeepsObject(s) ==
  /\ Idle(s)
  /\ slots' = Release(slots, {sess[s].op})
  /\ heap' = [heap EXCEPT ![s] = @ - 1]
  /\ sess' = [sess EXCEPT ![s] = [Closed EXCEPT !.phase = "destroying"]]
  /\ UNCHANGED reply

(* ImplementsService: set_aes_key does without TEE_ResetOperation, so the  *)
(* next cipher command runs the new key on the old vector.                 *)
KeepsVector(s, k) ==
  /\ Idle(s)
  /\ k.size = sess[s].key_size
  /\ sess[s].key # Null
  /\ k.size <= Attr(sess[s].key).size
  /\ slots' = [slots EXCEPT ![sess[s].key].attr.key = k,
                            ![sess[s].op].attr.key = k]
  /\ Answer(s, "set_key", "OK", k)
  /\ UNCHANGED <<sess, heap>>
-----------------------------------------------------------------------------
Init ==
  /\ sess = [s \in Sessions |-> Closed]
  /\ slots = [h \in Handles |-> Free]
  /\ heap = [s \in Sessions |-> 0]
  /\ reply = NoReply

TA_OpenSessionEntryPoint(s) ==
  /\ sess[s].phase = "closed"
  /\ \/ /\ sess' = [sess EXCEPT ![s].phase = "open"]
        /\ heap' = [heap EXCEPT ![s] = 1]
        /\ Answer(s, "open", "OK", Null)
     \/ /\ "malloc" \in Faults
        /\ Answer(s, "open", "FAIL", Null)
        /\ UNCHANGED <<sess, heap>>
  /\ UNCHANGED slots
-----------------------------------------------------------------------------
(* alloc_resources.  The three conversions write the session one after the *)
(* other, so a refused command may already have changed key_size.          *)

PrepareRefused(s, a) ==
  /\ Idle(s)
  /\ ~ (a.algo /\ a.size \in Sizes /\ a.mode \in Modes)
  /\ sess' = [sess EXCEPT ![s].key_size =
                 IF a.algo /\ a.size \in Sizes THEN a.size ELSE @]
  /\ Answer(s, "prepare", "BAD_PARAMETERS", Null)
  /\ UNCHANGED <<slots, heap>>

(* Parameters accepted, previous operation freed.                          *)
PrepareStart(s, a) ==
  /\ Idle(s)
  /\ a.algo /\ a.size \in Sizes /\ a.mode \in Modes
  /\ sess' = [sess EXCEPT ![s].key_size = a.size, ![s].mode = a.mode,
                          ![s].pc = "alloc_op"]
  /\ slots' = Release(slots, {sess[s].op})
  /\ UNCHANGED <<heap, reply>>

(* TEE_AllocateOperation, then the previous transient object freed.        *)
AllocateOperation(s) ==
  /\ sess[s].pc = "alloc_op"
  /\ \/ \E h \in Spare(slots) :
          /\ sess' = [sess EXCEPT ![s].op = h, ![s].pc = "alloc_key"]
          /\ slots' = Release(Install(slots, h, "op", s,
                                OperationAttr(sess[s].mode, sess[s].key_size)),
                              {sess[s].key})
     \/ /\ Spare(slots) = {} \/ "alloc" \in Faults
        /\ sess' = [sess EXCEPT ![s].op = Null, ![s].pc = "err"]
        /\ UNCHANGED slots
  /\ UNCHANGED <<heap, reply>>

AllocateTransientObject(s) ==
  /\ sess[s].pc = "alloc_key"
  /\ \/ \E h \in Spare(slots) :
          /\ sess' = [sess EXCEPT ![s].key = h, ![s].pc = "malloc"]
          /\ slots' = Install(slots, h, "obj", s, ObjectAttr(sess[s].key_size))
     \/ /\ Spare(slots) = {} \/ "alloc" \in Faults
        /\ sess' = [sess EXCEPT ![s].key = Null, ![s].pc = "err"]
        /\ UNCHANGED slots
  /\ UNCHANGED <<heap, reply>>

(* TEE_Malloc of the dummy key, which nothing ever frees.                  *)
MallocDummyKey(s) ==
  /\ sess[s].pc = "malloc"
  /\ \/ /\ heap[s] < HeapBlocks
        /\ heap' = [heap EXCEPT ![s] = @ + 1]
        /\ sess' = [sess EXCEPT ![s].pc = "load"]
     \/ /\ heap[s] = HeapBlocks \/ "malloc" \in Faults
        /\ sess' = [sess EXCEPT ![s].pc = "err"]
        /\ UNCHANGED heap
  /\ UNCHANGED <<slots, reply>>

(* TEE_PopulateTransientObject and TEE_SetOperationKey of the dummy key.   *)
LoadDummyKey(s) ==
  LET dummy == DummyKey(sess[s].key_size) IN
  /\ sess[s].pc = "load"
  /\ \/ /\ sess' = [sess EXCEPT ![s].pc = "idle"]
        /\ slots' = [slots EXCEPT ![sess[s].key].attr.key = dummy,
                                  ![sess[s].op].attr.key = dummy]
        /\ Answer(s, "prepare", "OK", Null)
     \/ /\ {"populate", "set_operation_key"} \cap Faults # {}
        /\ sess' = [sess EXCEPT ![s].pc = "err"]
        /\ UNCHANGED <<slots, reply>>
  /\ UNCHANGED heap

(* The err label: free what is held and forget it.                         *)
PrepareError(s) ==
  /\ sess[s].pc = "err"
  /\ slots' = Release(slots, Held(s))
  /\ sess' = [sess EXCEPT ![s].op = Null, ![s].key = Null, ![s].pc = "idle"]
  /\ Answer(s, "prepare", "FAIL", Null)
  /\ UNCHANGED heap
-----------------------------------------------------------------------------
(* set_aes_key.  The only check is the size against the session's field;   *)
(* populating the null object panics.                                      *)

SetKeyRefused(s, k) ==
  /\ Idle(s)
  /\ k.size # sess[s].key_size
  /\ Answer(s, "set_key", "BAD_PARAMETERS", k)
  /\ UNCHANGED <<sess, slots, heap>>

SetKeyPanics(s, k) ==
  /\ Idle(s)
  /\ k.size = sess[s].key_size
  /\ sess[s].key = Null
  /\ Panic(s, "set_key")

(* The object is reset before it is populated, so a key it has no room for *)
(* leaves it empty; the operation keeps the key and vector it had.         *)
SetKeyNotPopulated(s, k) ==
  LET obj == sess[s].key IN
  /\ Idle(s)
  /\ k.size = sess[s].key_size
  /\ obj # Null
  /\ k.size > Attr(obj).size \/ "populate" \in Faults
  /\ slots' = [slots EXCEPT ![obj].attr.key = NoKey]
  /\ Answer(s, "set_key", "FAIL", k)
  /\ UNCHANGED <<sess, heap>>

(* TEE_ResetOperation keeps the key of the operation and drops its vector; *)
(* TEE_SetOperationKey then replaces the key, or fails and leaves it.      *)
SetKeyLoaded(s, k) ==
  LET obj == sess[s].key
      op == sess[s].op
  IN
  /\ Idle(s)
  /\ k.size = sess[s].key_size
  /\ obj # Null
  /\ k.size <= Attr(obj).size
  /\ \/ /\ slots' = [slots EXCEPT ![obj].attr.key = k, ![op].attr.key = k,
                                  ![op].attr.iv = Null]
        /\ Answer(s, "set_key", "OK", k)
     \/ /\ "set_operation_key" \in Faults
        /\ slots' = [slots EXCEPT ![obj].attr.key = k, ![op].attr.iv = Null]
        /\ Answer(s, "set_key", "FAIL", k)
  /\ UNCHANGED <<sess, heap>>

set_aes_key(s, k) ==
  \/ SetKeyRefused(s, k)
  \/ SetKeyPanics(s, k)
  \/ SetKeyNotPopulated(s, k)
  \/ SetKeyLoaded(s, k)

(* reset_aes_iv: TEE_CipherInit of whatever the session holds and whatever *)
(* the client sends.  Null is a vector of the wrong length, which panics.  *)
reset_aes_iv(s, iv) ==
  LET op == sess[s].op IN
  /\ Idle(s)
  /\ \/ /\ op = Null \/ iv = Null
        /\ Panic(s, "set_iv")
     \/ /\ op # Null /\ iv # Null
        /\ slots' = [slots EXCEPT ![op].attr.iv = iv]
        /\ Answer(s, "set_iv", "OK", Null)
        /\ UNCHANGED <<sess, heap>>

(* Refused for the types of its parameters, whatever iv is; ...            *)
SetIvRefused(s) ==
  /\ Idle(s)
  /\ Answer(s, "set_iv", "BAD_PARAMETERS", Null)
  /\ UNCHANGED <<sess, slots, heap>>

(* ... and a command that the TA does not know.                            *)
NotSupported(s) ==
  /\ Idle(s)
  /\ Answer(s, "unknown", "NOT_SUPPORTED", Null)
  /\ UNCHANGED <<sess, slots, heap>>

(* cipher_buffer.  fits: the output buffer is as large as the input.       *)
CipherRefused(s, fits) ==
  /\ Idle(s)
  /\ ~fits \/ sess[s].op = Null
  /\ Answer(s, "cipher", IF ~fits THEN "BAD_PARAMETERS" ELSE "BAD_STATE", Null)
  /\ UNCHANGED <<sess, slots, heap>>

(* TEE_CipherUpdate panics on an operation that has no vector.             *)
CipherUpdate(s, fits) ==
  LET op == sess[s].op IN
  /\ Idle(s)
  /\ fits /\ op # Null
  /\ \/ Attr(op).iv = Null /\ Panic(s, "cipher")
     \/ /\ Attr(op).iv # Null
        /\ Answer(s, "cipher", "OK", [mode |-> Attr(op).mode,
                     key |-> Attr(op).key, iv |-> Attr(op).iv])
        /\ UNCHANGED <<sess, slots, heap>>

cipher_buffer(s, fits) == CipherRefused(s, fits) \/ CipherUpdate(s, fits)

(* TA_CloseSessionEntryPoint frees the handles and the session structure.  *)
TA_CloseSessionEntryPoint(s) ==
  /\ Idle(s)
  /\ slots' = Release(slots, Held(s))
  /\ heap' = [heap EXCEPT ![s] = @ - 1]
  /\ sess' = [sess EXCEPT ![s] = [Closed EXCEPT !.phase = "destroying"]]
  /\ UNCHANGED reply

(* The instance is destroyed with its session, and its heap with it; a     *)
(* dead instance is destroyed when the client closes.                      *)
DestroyInstance(s) ==
  /\ sess[s].phase \in {"destroying", "dead"}
  /\ slots' = Reclaim(slots, s)
  /\ heap' = [heap EXCEPT ![s] = 0]
  /\ sess' = [sess EXCEPT ![s] = Closed]
  /\ UNCHANGED reply
-----------------------------------------------------------------------------
(* The steps of a PREPARE under way.                                       *)
Handler(s) ==
  \/ AllocateOperation(s)
  \/ AllocateTransientObject(s)
  \/ MallocDummyKey(s)
  \/ LoadDummyKey(s)
  \/ PrepareError(s)

alloc_resources(s, a) == PrepareRefused(s, a) \/ PrepareStart(s, a)

TA_InvokeCommandEntryPoint(s) ==
  \/ \E a \in PrepareArgs : alloc_resources(s, a)
  \/ \E k \in ClientKeys : set_aes_key(s, k)
  \/ \E iv \in Ivs \cup {Null} : reset_aes_iv(s, iv)
  \/ SetIvRefused(s)
  \/ \E fits \in BOOLEAN : cipher_buffer(s, fits)
  \/ NotSupported(s)

Next ==
  \E s \in Sessions :
    \/ TA_OpenSessionEntryPoint(s)
    \/ TA_InvokeCommandEntryPoint(s)
    \/ Handler(s)
    \/ TA_CloseSessionEntryPoint(s)
    \/ DestroyInstance(s)

Spec == Init /\ [][Next]_vars
=============================================================================
