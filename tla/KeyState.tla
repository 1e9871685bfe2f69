------------------------------ MODULE KeyState ------------------------------
(***************************************************************************)
(* The state of the RSA, DSA and hash trusted applications,                *)
(* demo/acipher/ta, demo/dsa/ta and demo/hash/ta.  They share a design: a  *)
(* session structure with an operation and, but for the hash, a transient  *)
(* object for its key; KeyTA has the steps.                                *)
(*                                                                         *)
(* Key sizes count in units of 1024 bits.  Messages are left out: what an  *)
(* RSA or DSA command yields is given by the mode and the key it ran with, *)
(* and a digest by the chunks it was fed.  The structure on the TA heap is *)
(* allocated once and never grows, so the heap is left out as well.        *)
(***************************************************************************)
EXTENDS TeeCore, Sequences

CONSTANTS
  KeyIds,    \* identities of the keys and domain parameters clients bring
  KeySizes,  \* lengths of the keys clients bring
  Chunks,    \* buffers clients digest
  MaxChunks  \* bound: chunks an operation absorbs before its digest

ASSUME KeyAssumption ==
  /\ MaxChunks \in Nat
  /\ KeySizes \subseteq {1, 2} /\ 2 \in KeySizes
  /\ Null \notin KeyIds

VARIABLES
  ta,     \* the trusted application behind each session
  sess,   \* rsa_cipher, dsa_cipher or hash_cipher, and its handler's place
  slots,  \* the core's pool
  reply   \* the last answer any client got

vars == <<ta, sess, slots, reply>>
-----------------------------------------------------------------------------
TAs == {"rsa", "dsa", "hash"}
Sizes == {1, 2}
Forms == {"public", "pair"}
Modes == {"encrypt", "decrypt", "sign", "digest"}

(* The modes for which TEE_AllocateOperation knows the TA's algorithm.     *)
(* The RSA TA hands on any algorithm and mode: "sign" stands for those it  *)
(* has no command for.                                                     *)
ModesOf(t) ==
  CASE t = "rsa" -> {"encrypt", "decrypt", "sign"}
    [] t = "dsa" -> {"sign"}
    [] t = "hash" -> {"digest"}

(* Two attributes sent with SET_KEY make a public key, three a pair.       *)
Keys == [id : KeyIds, form : Forms, size : KeySizes]
NoKey == [id |-> Null, form |-> "none", size |-> 0]

(* What PREPARE may carry.  NoArg stands for an algorithm or a mode that   *)
(* the core does not support, type "none" for a key type that does not     *)
(* exist.  The hash TA takes only an algorithm.                            *)
NoArg == [mode |-> "none", size |-> 0, type |-> "none"]
PrepareArgs(t) ==
  {NoArg} \cup IF t = "hash"
               THEN [mode : {"digest"}, size : {0}, type : {"none"}]
               ELSE [mode : ModesOf(t), size : Sizes, type : Forms]
                      \cup [mode : ModesOf(t), size : {2}, type : {"none"}]

Fed == UNION {[1..n -> Chunks] : n \in 0..MaxChunks}

OperationAttr(a) ==
  [mode |-> a.mode, type |-> "none", size |-> a.size, key |-> NoKey, fed |-> <<>>]
ObjectAttr(a) ==
  [mode |-> "none", type |-> a.type, size |-> a.size, key |-> NoKey, fed |-> <<>>]

Closed ==
  [phase |-> "closed", pc |-> "idle", arg |-> NoArg, op |-> Null, key |-> Null]

Commands == {"open", "prepare", "set_key", "encrypt", "decrypt", "sign",
             "update", "do_final", "unknown"}
NoReply == [to |-> Null, cmd |-> "open", res |-> "FAIL", data |-> Null]

Attr(h) == slots[h].attr
Held(s) == {sess[s].op, sess[s].key} \ {Null}
Idle(s) == sess[s].phase = "open" /\ sess[s].pc = "idle"
Serves(s, t) == Idle(s) /\ ta[s] = t

Answer(s, cmd, res, data) ==
  reply' = [to |-> s, cmd |-> cmd, res |-> res, data |-> data]

(* A panic ends the TA instance and gives its slots back.                  *)
Panic(s, cmd) ==
  /\ sess' = [sess EXCEPT ![s] = [Closed EXCEPT !.phase = "dead"]]
  /\ slots' = Reclaim(slots, s)
  /\ Answer(s, cmd, "TARGET_DEAD", Null)
=============================================================================
