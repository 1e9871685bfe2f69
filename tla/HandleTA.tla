------------------------------ MODULE HandleTA ------------------------------
(***************************************************************************)
(* The ECDSA, ECDH and Curve25519 trusted applications, demo/ecdsa/ta,     *)
(* demo/ecdh/ta and demo/curve25519/ta.  They keep no table: the handles   *)
(* of the core travel to the client as 32-bit values (HANDLE2VAL) and come *)
(* back with every command (VAL2HANDLE), so that a client may pass one     *)
(* that was freed, is of another kind or was never given to it.  Only      *)
(* Curve25519 also has a session structure, for the object of its GEN_KEY. *)
(*                                                                         *)
(* A command is one step, but for GEN_KEY, which frees the object it had   *)
(* before it allocates another.  Key material is who generated its public  *)
(* and its private half; short says that the core dropped a leading zero   *)
(* of an attribute of it.                                                  *)
(***************************************************************************)
EXTENDS TeeCore

CONSTANT
  Vectors  \* halves of keys that no session generated: test vectors

ASSUME HandleAssumption == Null \notin Vectors

VARIABLES
  ta,     \* the trusted application behind each session
  inst,   \* the instance of each session, and its struct session25519
  slots,  \* the core's pool
  reply   \* the last answer any client got

vars == <<ta, inst, slots, reply>>

TAs == {"ecdsa", "ecdh", "curve"}
Modes == {"sign", "verify", "derive"}
Types == {"pair", "public", "secret"}

NoKey == [pub |-> Null, priv |-> Null, short |-> FALSE]
Material(pub, priv) == [pub |-> pub, priv |-> priv, short |-> FALSE]
PublicHalf(k) == [k EXCEPT !.priv = Null]
Secret(peer, own) == [secret |-> {peer, own}]

(* The keys clients bring: any half of any key, with a private one or not. *)
Halves == Sessions \cup Vectors
Materials == [pub : Halves, priv : Halves \cup {Null}, short : BOOLEAN]

Closed == [phase |-> "closed", pc |-> "idle", key |-> Null]

Attr(h) == slots[h].attr
Serves(s, tas) == inst[s].phase = "open" /\ inst[s].pc = "idle" /\ ta[s] \in tas

Answer(s, res, data) == reply' = [to |-> s, res |-> res, data |-> data]

Fails(s, call) ==
  /\ call \in Faults
  /\ Answer(s, "FAIL", Null)
  /\ UNCHANGED <<inst, slots>>

(* The core panics on a handle it did not give to this instance.           *)
Panic(s) ==
  /\ inst' = [inst EXCEPT ![s] = [Closed EXCEPT !.phase = "dead"]]
  /\ slots' = Reclaim(slots, s)
  /\ Answer(s, "TARGET_DEAD", Null)
-----------------------------------------------------------------------------
(* A slip: freeing looks neither at the kind nor at the owner of a handle. *)
(* It breaks FailsForCause.                                                *)
FreesAnything(s, kind, h) ==
  /\ slots' = Release(slots, {h})
  /\ Answer(s, "OK", Null)
  /\ UNCHANGED inst
-----------------------------------------------------------------------------
Init ==
  /\ ta \in [Sessions -> TAs]
  /\ inst = [s \in Sessions |-> Closed]
  /\ slots = [h \in Handles |-> Free]
  /\ reply = [to |-> Null, res |-> "FAIL", data |-> Null]

(* The ECDH TA accepts no parameters; Curve25519 allocates its structure.  *)
TA_OpenSessionEntryPoint(s, parameters) ==
  /\ inst[s].phase = "closed"
  /\ \/ /\ ta[s] = "ecdh" => ~parameters
        /\ inst' = [inst EXCEPT ![s].phase = "open"]
        /\ Answer(s, "OK", Null)
     \/ /\ ta[s] = "ecdh" /\ parameters
        /\ Answer(s, "BAD_PARAMETERS", Null)
        /\ UNCHANGED inst
     \/ /\ ta[s] = "curve" /\ "malloc" \in Faults
        /\ Answer(s, "FAIL", Null)
        /\ UNCHANGED inst
  /\ UNCHANGED <<ta, slots>>

Allocate(s, kind, use) ==
  /\ \/ /\ Spare(slots) = {} \/ "alloc" \in Faults
        /\ Answer(s, "FAIL", Null)
        /\ UNCHANGED slots
     \/ \E h \in Spare(slots) :
          /\ slots' = Install(slots, h, kind, s, [use |-> use, key |-> NoKey])
          /\ Answer(s, "OK", h)
  /\ UNCHANGED <<ta, inst>>

ta_entry_allocate_operation(s, mode) ==
  Serves(s, TAs) /\ Allocate(s, "op", mode)

ta_entry_allocate_transient_object(s, type) ==
  Serves(s, TAs) /\ Allocate(s, "obj", type)

(* Whether the null handle is let pass depends on the library.             *)
FreeHandle(s, kind, h) ==
  \/ /\ Owns(slots, s, kind, h) \/ h = Null
     /\ slots' = Release(slots, {h})
     /\ Answer(s, "OK", Null)
     /\ UNCHANGED inst
  \/ ~Owns(slots, s, kind, h) /\ Panic(s)

ta_entry_free_operation(s, h) ==
  Serves(s, TAs) /\ FreeHandle(s, "op", h) /\ UNCHANGED ta

ta_entry_free_transient_object(s, h) ==
  Serves(s, TAs) /\ FreeHandle(s, "obj", h) /\ UNCHANGED ta

(* An object of the session's own that still waits for its key.            *)
Blank(s, h, type) ==
  /\ Owns(slots, s, "obj", h)
  /\ Attr(h).use = type
  /\ Attr(h).key = NoKey

Keyed(s, h) == Owns(slots, s, "obj", h) /\ Attr(h).key # NoKey

Fill(s, h, k) ==
  /\ slots' = [slots EXCEPT ![h].attr.key = k]
  /\ Answer(s, "OK", Null)
  /\ UNCHANGED inst

(* A key whose attributes were put together wrongly may be refused.        *)
ta_entry_populate_transient_object(s, h, k) ==
  LET type == IF k.priv = Null THEN "public" ELSE "pair" IN
  /\ Serves(s, TAs)
  /\ \/ Fails(s, "malloc")
     \/ Blank(s, h, type) /\ Fails(s, "populate")
     \/ Blank(s, h, type) /\ Fill(s, h, k)
     \/ ~Blank(s, h, type) /\ Panic(s)
  /\ UNCHANGED ta

ta_entry_generate_key(s, h) ==
  /\ Serves(s, {"ecdsa"})
  /\ \/ Fails(s, "malloc")
     \/ Blank(s, h, "pair") /\ Fails(s, "populate")
     \/ /\ Blank(s, h, "pair")
        /\ \E short \in BOOLEAN :
             Fill(s, h, [Material(s, s) EXCEPT !.short = short])
     \/ ~Blank(s, h, "pair") /\ Panic(s)
  /\ UNCHANGED ta

ta_entry_get_object_buffer_attribute(s, h) ==
  /\ Serves(s, TAs)
  /\ \/ /\ Keyed(s, h)
        /\ Answer(s, "OK", Attr(h).key)
        /\ UNCHANGED <<inst, slots>>
     \/ ~Keyed(s, h) /\ Panic(s)
  /\ UNCHANGED ta

(* A key pair serves every mode, a public key only to verify with.         *)
Suits(s, op, h) ==
  /\ Owns(slots, s, "op", op)
  /\ Keyed(s, h)
  /\ \/ Attr(h).use = "pair"
     \/ Attr(h).use = "public" /\ Attr(op).use = "verify"

(* The null handle, but not another's, takes the operation its key again.  *)
ta_entry_set_operation_key(s, op, h) ==
  /\ Serves(s, TAs)
  /\ \/ Suits(s, op, h) /\ Fails(s, "set_operation_key")
     \/ Suits(s, op, h) /\ Fill(s, op, Attr(h).key)
     \/ h = Null /\ Owns(slots, s, "op", op) /\ Fill(s, op, NoKey)
     \/ ~Suits(s, op, h) /\ Panic(s)
  /\ UNCHANGED ta

Ready(s, op, mode) ==
  /\ Owns(slots, s, "op", op)
  /\ Attr(op).use = mode
  /\ Attr(op).key # NoKey

ta_entry_asymmetric_sign_digest(s, op) ==
  /\ Serves(s, {"ecdsa"})
  /\ \/ /\ Ready(s, op, "sign")
        /\ Answer(s, "OK", Attr(op).key)
        /\ UNCHANGED <<inst, slots>>
     \/ /\ Ready(s, op, "sign") /\ Attr(op).key.short
        /\ Answer(s, "FAIL", Null)
        /\ UNCHANGED <<inst, slots>>
     \/ ~Ready(s, op, "sign") /\ Panic(s)
  /\ UNCHANGED ta

Verifies(k, signer) == k.pub = signer.priv /\ ~k.short /\ ~signer.short

ta_entry_asymmetric_verify_digest(s, op, signer) ==
  /\ Serves(s, {"ecdsa"})
  /\ \/ /\ Ready(s, op, "verify")
        /\ Answer(s, IF Verifies(Attr(op).key, signer) THEN "OK" ELSE "INVALID", Null)
        /\ UNCHANGED <<inst, slots>>
     \/ ~Ready(s, op, "verify") /\ Panic(s)
  /\ UNCHANGED ta

(* TEE_DeriveKey has no result: it succeeds or panics.                     *)
test_derive_key(s, op, h, peer) ==
  LET sound == Ready(s, op, "derive") /\ Blank(s, h, "secret") IN
  /\ Serves(s, {"ecdh", "curve"})
  /\ \/ Fails(s, "malloc")
     \/ sound /\ Fill(s, h, Secret(peer, Attr(op).key.priv))
     \/ ~sound /\ Panic(s)
  /\ UNCHANGED ta
-----------------------------------------------------------------------------
(* GEN_KEY of Curve25519: free the object there was ...                    *)
alloc_transient_object(s) ==
  LET old == inst[s].key IN
  /\ Serves(s, {"curve"})
  /\ \/ /\ old = Null \/ Owns(slots, s, "obj", old)
        /\ slots' = Release(slots, {old})
        /\ inst' = [inst EXCEPT ![s].pc = "gen_key"]
        /\ UNCHANGED reply
     \/ /\ old # Null /\ ~Owns(slots, s, "obj", old)
        /\ Panic(s)
  /\ UNCHANGED ta

(* ... then allocate one and generate into it.  When that fails the object *)
(* stays in the session without a key.                                     *)
gen_key(s) ==
  /\ inst[s].pc = "gen_key"
  /\ \/ /\ Spare(slots) = {} \/ "alloc" \in Faults
        /\ inst' = [inst EXCEPT ![s] = [Closed EXCEPT !.phase = "open"]]
        /\ Answer(s, "FAIL", Null)
        /\ UNCHANGED slots
     \/ \E h \in Spare(slots), res \in {"OK", "FAIL"} :
          LET k == IF res = "OK" THEN Material(s, s) ELSE NoKey IN
          /\ res = "FAIL" => "populate" \in Faults
          /\ inst' = [inst EXCEPT ![s] = [@ EXCEPT !.pc = "idle", !.key = h]]
          /\ slots' = Install(slots, h, "obj", s, [use |-> "pair", key |-> k])
          /\ Answer(s, res, Null)
  /\ UNCHANGED ta

get_key(s) ==
  LET h == inst[s].key IN
  /\ Serves(s, {"curve"})
  /\ \/ /\ h = Null
        /\ Answer(s, "BAD_STATE", Null)
        /\ UNCHANGED <<inst, slots>>
     \/ /\ Keyed(s, h)
        /\ Answer(s, "OK", Attr(h).key)
        /\ UNCHANGED <<inst, slots>>
     \/ h # Null /\ ~Keyed(s, h) /\ Panic(s)
  /\ UNCHANGED ta

(* TA_MEM_TEST, parameters of other types, commands the TA does not know.  *)
Harmless(s) ==
  /\ Serves(s, TAs)
  /\ \E res \in {"OK", "FAIL", "BAD_PARAMETERS"} : Answer(s, res, Null)
  /\ UNCHANGED <<ta, inst, slots>>
-----------------------------------------------------------------------------
(* TA_CloseSessionEntryPoint frees nothing: the core takes the slots back  *)
(* when it destroys the instance.                                          *)
TA_CloseSessionEntryPoint(s) ==
  /\ Serves(s, TAs)
  /\ inst' = [inst EXCEPT ![s].phase = "destroying"]
  /\ UNCHANGED <<ta, slots, reply>>

DestroyInstance(s) ==
  /\ inst[s].phase \in {"destroying", "dead"}
  /\ inst' = [inst EXCEPT ![s] = Closed]
  /\ slots' = Reclaim(slots, s)
  /\ UNCHANGED <<ta, reply>>

(* A command with whatever handles and any of some keys.  All handles that *)
(* are not of the session fail alike, so that the null handle stands for   *)
(* them, the null one among them, but where one is freed.                  *)
Passed(s) == {h \in Handles : slots[h].owner = s} \cup {Null}

TA_InvokeCommandEntryPoint(s, keys) ==
  \/ \E mode \in Modes : ta_entry_allocate_operation(s, mode)
  \/ \E type \in Types : ta_entry_allocate_transient_object(s, type)
  \/ \E h \in Handles \cup {Null} :
       ta_entry_free_operation(s, h) \/ ta_entry_free_transient_object(s, h)
  \/ \E h \in Passed(s) :
       \/ ta_entry_generate_key(s, h)
       \/ ta_entry_get_object_buffer_attribute(s, h)
       \/ ta_entry_asymmetric_sign_digest(s, h)
       \/ \E o \in Passed(s) : ta_entry_set_operation_key(s, h, o)
       \/ \E o \in Passed(s), peer \in {k.pub : k \in keys} :
            test_derive_key(s, h, o, peer)
       \/ \E k \in keys :
            \/ ta_entry_populate_transient_object(s, h, k)
            \/ k.priv # Null /\ ta_entry_asymmetric_verify_digest(s, h, k)
  \/ alloc_transient_object(s) \/ gen_key(s) \/ get_key(s)
  \/ Harmless(s)

Next ==
  \E s \in Sessions :
    \/ \E parameters \in BOOLEAN : TA_OpenSessionEntryPoint(s, parameters)
    \/ TA_InvokeCommandEntryPoint(s, Materials)
    \/ TA_CloseSessionEntryPoint(s)
    \/ DestroyInstance(s)

Spec == Init /\ [][Next]_vars
=============================================================================
