-------------------------------- MODULE KeyTA --------------------------------
(***************************************************************************)
(* The RSA, DSA and hash trusted applications: demo/acipher/ta,            *)
(* demo/dsa/ta and demo/hash/ta.                                           *)
(*                                                                         *)
(* Every session is served by a TA instance of its own; the instances run  *)
(* concurrently and share the core's pool.  PREPARE is one step per        *)
(* allocating call, so that another session can take the slot it has just  *)
(* freed; the other commands touch only what the session holds.            *)
(***************************************************************************)
EXTENDS KeyState
-----------------------------------------------------------------------------
(* Slips, named for the property each would break; Next takes none.        *)

(* TypeOK: the hash TA forgets to start over after a digest.               *)
AbsorbsForever(s, c) ==
  /\ Serves(s, "hash")
  /\ sess[s].op # Null
  /\ slots' = [slots EXCEPT ![sess[s].op].attr.fed = Append(@, c)]
  /\ Answer(s, "do_final", "OK", [digest |-> Append(Attr(sess[s].op).fed, c)])
  /\ UNCHANGED <<ta, sess>>

(* HandlesExact: the operation of an earlier PREPARE is not freed.         *)
KeepsOldOperation(s, a) ==
  /\ Idle(s)
  /\ ta[s] = "dsa" => a.mode # "none"
  /\ sess' = [sess EXCEPT ![s].arg = a, ![s].pc = "alloc_op"]
  /\ UNCHANGED <<ta, slots, reply>>

(* OpHasObject: the goto err after alloc_transient_object is missing.      *)
KeepsOperation(s) ==
  /\ sess[s].pc = "err"
  /\ sess' = [sess EXCEPT ![s].pc = "idle", ![s].arg = NoArg]
  /\ Answer(s, "prepare", "FAIL", Null)
  /\ UNCHANGED <<ta, slots>>

(* ImplementsKeyService: a digest leaves its chunks for the next one.      *)
FinalKeepsFed(s, c) ==
  /\ Serves(s, "hash")
  /\ sess[s].op # Null
  /\ Answer(s, "do_final", "OK", [digest |-> Append(Attr(sess[s].op).fed, c)])
  /\ UNCHANGED <<ta, sess, slots>>
-----------------------------------------------------------------------------
Init ==
  /\ ta \in [Sessions -> TAs]
  /\ sess = [s \in Sessions |-> Closed]
  /\ slots = [h \in Handles |-> Free]
  /\ reply = NoReply

TA_OpenSessionEntryPoint(s) ==
  /\ sess[s].phase = "closed"
  /\ \/ /\ sess' = [sess EXCEPT ![s].phase = "open"]
        /\ Answer(s, "open", "OK", Null)
     \/ /\ "malloc" \in Faults
        /\ Answer(s, "open", "FAIL", Null)
        /\ UNCHANGED sess
  /\ UNCHANGED <<ta, slots>>
-----------------------------------------------------------------------------
(* PREPARE.  The DSA TA looks at the algorithm and the mode first; the RSA *)
(* and hash TAs leave them to TEE_AllocateOperation, with the previous     *)
(* operation already freed.                                                *)

PrepareRefused(s, a) ==
  /\ Serves(s, "dsa")
  /\ a.mode = "none"
  /\ Answer(s, "prepare", "BAD_PARAMETERS", Null)
  /\ UNCHANGED <<ta, sess, slots>>

PrepareStart(s, a) ==
  /\ Idle(s)
  /\ ta[s] = "dsa" => a.mode # "none"
  /\ sess' = [sess EXCEPT ![s].arg = a, ![s].pc = "alloc_op"]
  /\ slots' = Release(slots, {sess[s].op})
  /\ UNCHANGED <<ta, reply>>

(* TEE_AllocateOperation.  That is all for a hash; else the key type is    *)
(* looked at and, if it exists, the previous object freed.                 *)
AllocateOperation(s) ==
  LET a == sess[s].arg IN
  /\ sess[s].pc = "alloc_op"
  /\ \/ \E h \in Spare(slots) :
          LET with == Install(slots, h, "op", s, OperationAttr(a)) IN
          /\ a.mode # "none"
          /\ \/ /\ ta[s] = "hash"
                /\ sess' = [sess EXCEPT ![s].op = h, ![s].pc = "idle",
                                        ![s].arg = NoArg]
                /\ slots' = with
                /\ Answer(s, "prepare", "OK", Null)
             \/ /\ ta[s] # "hash" /\ a.type \in Forms
                /\ sess' = [sess EXCEPT ![s].op = h, ![s].pc = "alloc_key"]
                /\ slots' = Release(with, {sess[s].key})
                /\ UNCHANGED reply
             \/ /\ ta[s] # "hash" /\ a.type \notin Forms
                /\ sess' = [sess EXCEPT ![s].op = h, ![s].pc = "err"]
                /\ slots' = with
                /\ UNCHANGED reply
     \/ /\ a.mode = "none" \/ Spare(slots) = {} \/ "alloc" \in Faults
        /\ sess' = [sess EXCEPT ![s].op = Null, ![s].pc = "err"]
        /\ UNCHANGED <<slots, reply>>
  /\ UNCHANGED ta

(* alloc_transient_object, from TEE_AllocateTransientObject on.            *)
AllocateTransientObject(s) ==
  /\ sess[s].pc = "alloc_key"
  /\ \/ \E h \in Spare(slots) :
          /\ sess' = [sess EXCEPT ![s].key = h, ![s].pc = "idle",
                                  ![s].arg = NoArg]
          /\ slots' = Install(slots, h, "obj", s, ObjectAttr(sess[s].arg))
          /\ Answer(s, "prepare", "OK", Null)
     \/ /\ Spare(slots) = {} \/ "alloc" \in Faults
        /\ sess' = [sess EXCEPT ![s].key = Null, ![s].pc = "err"]
        /\ UNCHANGED <<slots, reply>>
  /\ UNCHANGED ta

(* The err label frees the operation alone: a key object of an earlier     *)
(* PREPARE stays with the session.                                         *)
PrepareError(s) ==
  LET refused == sess[s].op # Null /\ sess[s].arg.type \notin Forms IN
  /\ sess[s].pc = "err"
  /\ slots' = Release(slots, {sess[s].op})
  /\ sess' = [sess EXCEPT ![s].op = Null, ![s].pc = "idle", ![s].arg = NoArg]
  /\ Answer(s, "prepare", IF refused THEN "BAD_PARAMETERS" ELSE "FAIL", Null)
  /\ UNCHANGED ta

Handler(s) ==
  \/ AllocateOperation(s)
  \/ AllocateTransientObject(s)
  \/ PrepareError(s)

alloc_resources(s, a) == PrepareRefused(s, a) \/ PrepareStart(s, a)
-----------------------------------------------------------------------------
(* SET_KEY of the RSA TA: TEE_ResetTransientObject, then populate it, then *)
(* TEE_SetOperationKey without a reset of the operation.                   *)

(* The object has room for k and is of the type of k.                      *)
Takes(obj, k) == Attr(obj).type = k.form /\ k.size <= Attr(obj).size

(* An attribute of the wrong kind or length is an error or a panic.        *)
RsaSetKeyRefused(s, k) ==
  LET obj == sess[s].key IN
  /\ Serves(s, "rsa")
  /\ obj # Null
  /\ ~Takes(obj, k) \/ "populate" \in Faults
  /\ slots' = [slots EXCEPT ![obj].attr.key = NoKey]
  /\ Answer(s, "set_key", "BAD_PARAMETERS", Null)
  /\ UNCHANGED <<ta, sess>>

(* The object takes the key, there is still an operation, and it has the   *)
(* private half if it needs one.                                           *)
Keyable(s, k) ==
  /\ sess[s].key # Null /\ Takes(sess[s].key, k)
  /\ sess[s].op # Null
  /\ Attr(sess[s].op).mode \in {"decrypt", "sign"} => k.form = "pair"

RsaSetKeyPanics(s, k) ==
  /\ Serves(s, "rsa")
  /\ ~Keyable(s, k)
  /\ Panic(s, "set_key")
  /\ UNCHANGED ta

(* The object has the key, and the operation too unless that fails.        *)
Loaded(s, k) ==
  LET obj == sess[s].key
      op == sess[s].op
  IN
  /\ \/ /\ slots' = [slots EXCEPT ![obj].attr.key = k, ![op].attr.key = k]
        /\ Answer(s, "set_key", "OK", Null)
     \/ /\ "set_operation_key" \in Faults
        /\ slots' = [slots EXCEPT ![obj].attr.key = k]
        /\ Answer(s, "set_key", "FAIL", Null)
  /\ UNCHANGED <<ta, sess>>

RsaSetKeyLoaded(s, k) == Serves(s, "rsa") /\ Keyable(s, k) /\ Loaded(s, k)

rsa_set_key(s, k) ==
  RsaSetKeyRefused(s, k) \/ RsaSetKeyPanics(s, k) \/ RsaSetKeyLoaded(s, k)
-----------------------------------------------------------------------------
(* SET_KEY of the DSA TA generates a pair of 2048 bits from the domain     *)
(* parameters p, q, g that the client sends.                               *)
Generated(id) == [id |-> id, form |-> "pair", size |-> 2]

DsaGenerateRefused(s, id) ==
  LET obj == sess[s].key IN
  /\ Serves(s, "dsa")
  /\ obj # Null /\ Takes(obj, Generated(id))
  /\ "populate" \in Faults
  /\ slots' = [slots EXCEPT ![obj].attr.key = NoKey]
  /\ Answer(s, "set_key", "BAD_PARAMETERS", Null)
  /\ UNCHANGED <<ta, sess>>

DsaGeneratePanics(s, id) ==
  /\ Serves(s, "dsa")
  /\ ~Keyable(s, Generated(id))
  /\ Panic(s, "set_key")
  /\ UNCHANGED ta

DsaGenerated(s, id) ==
  Serves(s, "dsa") /\ Keyable(s, Generated(id)) /\ Loaded(s, Generated(id))

(* With a single buffer the object is reset and res is compared without    *)
(* having been assigned: an error is returned, or the operation is given   *)
(* the empty object, which panics.                                         *)
DsaSingleBuffer(s) ==
  LET obj == sess[s].key IN
  /\ Serves(s, "dsa")
  /\ \/ /\ slots' = [h \in Handles |-> IF h = obj
                       THEN [slots[h] EXCEPT !.attr.key = NoKey] ELSE slots[h]]
        /\ Answer(s, "set_key", "FAIL", Null)
        /\ UNCHANGED sess
     \/ Panic(s, "set_key")
  /\ UNCHANGED ta

dsa_set_key(s, id) ==
  \/ DsaGenerateRefused(s, id)
  \/ DsaGeneratePanics(s, id)
  \/ DsaGenerated(s, id)
  \/ DsaSingleBuffer(s)
-----------------------------------------------------------------------------
(* An RSA or DSA command of the given mode.  fits: the input is one the    *)
(* operation takes and the output buffer is large enough.  The core panics *)
(* on an operation of another mode or without a key.                       *)
Refused(s, cmd) ==
  /\ sess[s].op = Null
  /\ Answer(s, cmd, "BAD_STATE", Null)
  /\ UNCHANGED <<sess, slots>>

Asymmetric(s, mode, fits) ==
  LET op == sess[s].op IN
  /\ op # Null
  /\ \/ /\ Attr(op).mode # mode \/ Attr(op).key = NoKey
        /\ Panic(s, mode)
     \/ /\ Attr(op).mode = mode /\ Attr(op).key # NoKey
        /\ IF fits THEN Answer(s, mode, "OK", Attr(op).key)
           ELSE \E res \in {"SHORT_BUFFER", "BAD_PARAMETERS"} :
                  Answer(s, mode, res, Null)
        /\ UNCHANGED <<sess, slots>>

rsa_asymmetric_encrypt(s, fits) ==
  /\ Serves(s, "rsa")
  /\ Refused(s, "encrypt") \/ Asymmetric(s, "encrypt", fits)
  /\ UNCHANGED ta

rsa_asymmetric_decrypt(s, fits) ==
  /\ Serves(s, "rsa")
  /\ Refused(s, "decrypt") \/ Asymmetric(s, "decrypt", fits)
  /\ UNCHANGED ta

dsa_asymmetric_sign_digest(s, fits) ==
  /\ Serves(s, "dsa")
  /\ Refused(s, "sign") \/ Asymmetric(s, "sign", fits)
  /\ UNCHANGED ta

hash_update(s, c) ==
  LET op == sess[s].op IN
  /\ Serves(s, "hash")
  /\ \/ Refused(s, "update")
     \/ /\ op # Null
        /\ Len(Attr(op).fed) < MaxChunks
        /\ slots' = [slots EXCEPT ![op].attr.fed = Append(@, c)]
        /\ Answer(s, "update", "OK", Null)
        /\ UNCHANGED sess
  /\ UNCHANGED ta

(* TEE_DigestDoFinal starts the operation over, unless its output buffer   *)
(* has no room for the digest.                                             *)
HashFinal(s, c) ==
  LET op == sess[s].op IN
  /\ Serves(s, "hash")
  /\ op # Null
  /\ slots' = [slots EXCEPT ![op].attr.fed = <<>>]
  /\ Answer(s, "do_final", "OK", [digest |-> Append(Attr(op).fed, c)])
  /\ UNCHANGED <<ta, sess>>

HashFinalRefused(s, room) ==
  /\ Serves(s, "hash")
  /\ \/ Refused(s, "do_final")
     \/ /\ sess[s].op # Null /\ ~room
        /\ Answer(s, "do_final", "SHORT_BUFFER", Null)
        /\ UNCHANGED <<sess, slots>>
  /\ UNCHANGED ta

hash_do_final(s, c, room) ==
  (room /\ HashFinal(s, c)) \/ HashFinalRefused(s, room)

(* Parameters of other types than a command expects, or a command the TA   *)
(* does not know.                                                          *)
Malformed(s) ==
  /\ Idle(s)
  /\ \E res \in {"BAD_PARAMETERS", "NOT_SUPPORTED"} :
       Answer(s, "unknown", res, Null)
  /\ UNCHANGED <<ta, sess, slots>>
-----------------------------------------------------------------------------
(* TA_CloseSessionEntryPoint frees the handles and the session structure.  *)
TA_CloseSessionEntryPoint(s) ==
  /\ Idle(s)
  /\ slots' = Release(slots, Held(s))
  /\ sess' = [sess EXCEPT ![s] = [Closed EXCEPT !.phase = "destroying"]]
  /\ UNCHANGED <<ta, reply>>

DestroyInstance(s) ==
  /\ sess[s].phase \in {"destroying", "dead"}
  /\ slots' = Reclaim(slots, s)
  /\ sess' = [sess EXCEPT ![s] = Closed]
  /\ UNCHANGED <<ta, reply>>

rsa_invoke(s) ==
  \/ \E k \in Keys : rsa_set_key(s, k)
  \/ \E fits \in BOOLEAN :
       rsa_asymmetric_encrypt(s, fits) \/ rsa_asymmetric_decrypt(s, fits)

dsa_invoke(s) ==
  \/ \E id \in KeyIds : dsa_set_key(s, id)
  \/ \E fits \in BOOLEAN : dsa_asymmetric_sign_digest(s, fits)

hash_invoke(s) ==
  \E c \in Chunks :
    \/ hash_update(s, c)
    \/ \E room \in BOOLEAN : hash_do_final(s, c, room)

TA_InvokeCommandEntryPoint(s) ==
  \/ \E a \in PrepareArgs(ta[s]) : alloc_resources(s, a)
  \/ rsa_invoke(s)
  \/ dsa_invoke(s)
  \/ hash_invoke(s)
  \/ Malformed(s)

Next ==
  \E s \in Sessions :
    \/ TA_OpenSessionEntryPoint(s)
    \/ TA_InvokeCommandEntryPoint(s)
    \/ Handler(s)
    \/ TA_CloseSessionEntryPoint(s)
    \/ DestroyInstance(s)

Spec == Init /\ [][Next]_vars
=============================================================================
