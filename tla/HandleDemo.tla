----------------------------- MODULE HandleDemo -----------------------------
(***************************************************************************)
(* The client applications of the ECDSA, ECDH and Curve25519 TAs run       *)
(* against HandleTA: demo/ecdsa/host, demo/ecdh/host and                   *)
(* demo/curve25519/host.  A process runs the main of its TA once, over up  *)
(* to four sessions it opens one after the other and never closes, or is a *)
(* stranger that issues any command with any handle.  An answer other than *)
(* success ends a main, and the driver then closes its sessions.           *)
(***************************************************************************)
EXTENDS HandleTA, Sequences, FiniteSets

CONSTANTS
  Procs,      \* processes; a session is a process and a number
  Peer, Own,  \* the keys of the ECDH test vector
  Strangers,  \* processes that may be no main but issue any command
  MaxGrasp    \* bound: slots of the pool a stranger holds

ASSUME DemoAssumption ==
  /\ Sessions = Procs \X (1..4)
  /\ MaxGrasp \in Nat
  /\ {Peer, Own} \subseteq Vectors

VARIABLES
  at,    \* position of each process in its main, or how it ended
  held,  \* the handles in the variables of each client
  got    \* per session, the key, signature or secret the client obtained

demoVars == <<ta, inst, slots, reply, at, held, got>>

NoHandles == [name \in {"op", "key", "pub", "sv"} |-> Null]
TypeOf(name) == CASE name = "key" -> "pair"
                  [] name = "pub" -> "public"
                  [] name = "sv" -> "secret"

(* A call: the session it is made in, the command, and the variable or the *)
(* mode it is about.  A loop over the attributes of a key is one call.     *)
Call(i, cmd, about) == [i |-> i, cmd |-> cmd, about |-> about]

(* create_key with an object to keep and the attributes it reads back.     *)
CreateKey(i, name) ==
  <<Call(i, "object", name), Call(i, "populate", name), Call(i, "get", name)>>

(* ta_crypt_cmd_derive_key_ecdh and ta_crypt_cmd_derive_key_25519.         *)
Derive(i) ==
  <<Call(i, "open", "key"), Call(i, "operation", "derive"),
    Call(i, "object", "key"), Call(i, "populate", "key"),
    Call(i, "set_key", "key"), Call(i, "free", "key"),
    Call(i, "object", "sv"), Call(i, "derive", "sv"), Call(i, "fetch", "sv"),
    Call(i, "free_op", "op"), Call(i, "free", "sv")>>

EcdsaMain ==
  <<Call(1, "open", "key"), Call(1, "object", "key"), Call(1, "generate", "key"),
    Call(1, "fetch", "key"), Call(2, "open", "key")>>
  \o CreateKey(2, "pub") \o CreateKey(2, "key")
  \o <<Call(2, "operation", "sign"), Call(2, "set_key", "key"),
       Call(2, "free", "key"), Call(2, "sign", "op"), Call(2, "free_op", "op"),
       Call(2, "operation", "verify"), Call(2, "set_key", "pub"),
       Call(2, "free", "pub"), Call(2, "verify", "op")>>

EcdhMain == Derive(1)

GenKey(i) ==
  <<Call(i, "open", "key"), Call(i, "gen_key", "key"), Call(i, "get_key", "key")>>

CurveMain == GenKey(1) \o GenKey(2) \o Derive(3) \o Derive(4)

Script(p) ==
  CASE ta[<<p, 1>>] = "ecdsa" -> EcdsaMain
    [] ta[<<p, 1>>] = "ecdh" -> EcdhMain
    [] ta[<<p, 1>>] = "curve" -> CurveMain

(* Where a process is that is not in its main.                             *)
Failed == 0
Passing == 50
Stranger == 51
Gone == 52

Running(p) == at[p] \in DOMAIN Script(p)
Now(p) == Script(p)[at[p]]

(* The session the call is made in, and the handles it passes.             *)
In(p) == <<p, Now(p).i>>
Op(p) == held[p].op
Obj(p) == held[p][Now(p).about]

(* The key material a call brings: what GEN_KEY gave, the test vector, or  *)
(* the public key of one pair beside the private key of the other.         *)
Brings(p) ==
  CASE ta[<<p, 1>>] = "ecdsa" ->
         IF Now(p).about = "pub" THEN PublicHalf(got[<<p, 1>>]) ELSE got[<<p, 1>>]
    [] ta[<<p, 1>>] = "ecdh" -> Material(Peer, Own)
    [] ta[<<p, 1>>] = "curve" ->
         LET peer == IF Now(p).i = 3 THEN 1 ELSE 2 IN
         Material(got[<<p, peer>>].pub, got[<<p, 3 - peer>>].priv)

Returns(p) ==
  at' = [at EXCEPT ![p] =
           IF reply'.res # "OK" THEN Failed
           ELSE IF @ = Len(Script(p)) THEN Passing ELSE @ + 1]

(* The client keeps a handle it was given, or what it asked for.           *)
KeepsHandle(p, name) ==
  /\ held' = [held EXCEPT ![p][name] = IF reply'.res = "OK" THEN reply'.data
                                           ELSE @]
  /\ UNCHANGED got

KeepsData(p) ==
  /\ got' = [got EXCEPT ![In(p)] = IF reply'.res = "OK" THEN reply'.data ELSE @]
  /\ UNCHANGED held

KeepsNothing == UNCHANGED <<held, got>>

(* The slots of the pool that the sessions of a process hold.              *)
SlotsOf(p) == {h \in Handles : \E i \in 1..4 : slots[h].owner = <<p, i>>}
-----------------------------------------------------------------------------
(* Steps with one line wrong; DemoNext takes none of them.                 *)

(* SecretsAgree: a derivation is given the client's own public key.        *)
OwnForPeer(p) ==
  /\ Now(p).cmd = "derive"
  /\ test_derive_key(In(p), Op(p), Obj(p),
                     IF ta[In(p)] = "ecdh" THEN Own
                     ELSE got[<<p, IF Now(p).i = 3 THEN 2 ELSE 1>>].pub)
  /\ Returns(p) /\ KeepsNothing

(* SignatureVerifies: the result of the verification is not looked at.     *)
VerifiesBlindly(p) ==
  /\ Now(p).cmd = "verify"
  /\ ta_entry_asymmetric_verify_digest(In(p), Op(p), got[In(p)])
  /\ at' = [at EXCEPT ![p] = Passing]
  /\ KeepsNothing

(* Footprint: TA_FREE_OPERATION is sent, but with no handle in it.         *)
FreesNull(p) ==
  /\ Now(p).cmd = "free_op"
  /\ ta_entry_free_operation(In(p), Null)
  /\ at' = [at EXCEPT ![p] = @ + 1]
  /\ KeepsNothing
-----------------------------------------------------------------------------
DemoInit ==
  /\ Init
  /\ \A p \in Procs, i \in 1..4 : ta[<<p, i>>] = ta[<<p, 1>>]
  /\ at \in [Procs -> {1, Stranger}]
  /\ \A p \in Procs : at[p] = Stranger => p \in Strangers
  /\ held = [p \in Procs |-> NoHandles]
  /\ got = [s \in Sessions |-> NoKey]

(* A session is opened by a function whose variables hold no handle yet.   *)
open_session(p) ==
  /\ Now(p).cmd = "open"
  /\ TA_OpenSessionEntryPoint(In(p), FALSE)
  /\ held' = [held EXCEPT ![p] = NoHandles]
  /\ Returns(p)
  /\ UNCHANGED got

ta_crypt_cmd_allocate_operation(p) ==
  /\ Now(p).cmd = "operation"
  /\ ta_entry_allocate_operation(In(p), Now(p).about)
  /\ Returns(p) /\ KeepsHandle(p, "op")

ta_crypt_cmd_allocate_transient_object(p) ==
  /\ Now(p).cmd = "object"
  /\ ta_entry_allocate_transient_object(In(p), TypeOf(Now(p).about))
  /\ Returns(p) /\ KeepsHandle(p, Now(p).about)

ta_crypt_cmd_populate_transient_object(p) ==
  /\ Now(p).cmd = "populate"
  /\ ta_entry_populate_transient_object(In(p), Obj(p), Brings(p))
  /\ Returns(p) /\ KeepsNothing

ta_crypt_cmd_generate_key(p) ==
  /\ Now(p).cmd = "generate"
  /\ ta_entry_generate_key(In(p), Obj(p))
  /\ Returns(p) /\ KeepsNothing

ta_crypt_cmd_get_object_buffer_attribute(p) ==
  \/ /\ Now(p).cmd = "get"
     /\ ta_entry_get_object_buffer_attribute(In(p), Obj(p))
     /\ Returns(p) /\ KeepsNothing
  \/ /\ Now(p).cmd = "fetch"
     /\ ta_entry_get_object_buffer_attribute(In(p), Obj(p))
     /\ Returns(p) /\ KeepsData(p)

ta_crypt_cmd_set_operation_key(p) ==
  /\ Now(p).cmd = "set_key"
  /\ ta_entry_set_operation_key(In(p), Op(p), Obj(p))
  /\ Returns(p) /\ KeepsNothing

(* The variables of the client keep the handles that were freed.           *)
ta_crypt_cmd_free_operation(p) ==
  /\ Now(p).cmd = "free_op"
  /\ ta_entry_free_operation(In(p), Op(p))
  /\ Returns(p) /\ KeepsNothing

ta_crypt_cmd_free_transient_object(p) ==
  /\ Now(p).cmd = "free"
  /\ ta_entry_free_transient_object(In(p), Obj(p))
  /\ Returns(p) /\ KeepsNothing

ta_crypt_cmd_asymmetric_sign(p) ==
  /\ Now(p).cmd = "sign"
  /\ ta_entry_asymmetric_sign_digest(In(p), Op(p))
  /\ Returns(p) /\ KeepsData(p)

ta_crypt_cmd_asymmetric_verify(p) ==
  /\ Now(p).cmd = "verify"
  /\ ta_entry_asymmetric_verify_digest(In(p), Op(p), got[In(p)])
  /\ Returns(p) /\ KeepsNothing

derive_key(p) ==
  /\ Now(p).cmd = "derive"
  /\ test_derive_key(In(p), Op(p), Obj(p),
                     IF ta[In(p)] = "ecdh" THEN Peer
                     ELSE got[<<p, IF Now(p).i = 3 THEN 1 ELSE 2>>].pub)
  /\ Returns(p) /\ KeepsNothing

(* The client waits for both steps of GEN_KEY.                             *)
gen_key_25519(p) ==
  /\ Now(p).cmd = "gen_key"
  /\ \/ alloc_transient_object(In(p)) /\ UNCHANGED at
     \/ gen_key(In(p)) /\ Returns(p)
  /\ KeepsNothing

get_key_25519(p) ==
  /\ Now(p).cmd = "get_key"
  /\ get_key(In(p))
  /\ Returns(p) /\ KeepsData(p)

(* The process is gone, and the driver closes its sessions one by one.     *)
Exit(p) ==
  LET left == {i \in 1..4 : inst[<<p, i>>] # Closed} IN
  /\ at[p] \in {Failed, Passing, Gone}
  /\ \E i \in left :
       /\ \A j \in left : i <= j
       /\ TA_CloseSessionEntryPoint(<<p, i>>) \/ DestroyInstance(<<p, i>>)
  /\ at' = [at EXCEPT ![p] = Gone]
  /\ held' = [held EXCEPT ![p] = NoHandles]
  /\ got' = [s \in Sessions |-> IF s[1] = p THEN NoKey ELSE got[s]]

Main(p) ==
  /\ Running(p)
  /\ \/ open_session(p)
     \/ ta_crypt_cmd_allocate_operation(p)
     \/ ta_crypt_cmd_allocate_transient_object(p)
     \/ ta_crypt_cmd_populate_transient_object(p)
     \/ ta_crypt_cmd_generate_key(p)
     \/ ta_crypt_cmd_get_object_buffer_attribute(p)
     \/ ta_crypt_cmd_set_operation_key(p)
     \/ ta_crypt_cmd_free_operation(p)
     \/ ta_crypt_cmd_free_transient_object(p)
     \/ ta_crypt_cmd_asymmetric_sign(p)
     \/ ta_crypt_cmd_asymmetric_verify(p)
     \/ derive_key(p)
     \/ gen_key_25519(p)
     \/ get_key_25519(p)

(* A stranger has the key pair of its session, or the public half of it.   *)
AnyCommand(p) ==
  /\ at[p] = Stranger
  /\ LET s == <<p, 1>> IN
     \/ \E parameters \in BOOLEAN : TA_OpenSessionEntryPoint(s, parameters)
     \/ TA_InvokeCommandEntryPoint(s, {Material(s, s), Material(s, Null)})
     \/ TA_CloseSessionEntryPoint(s)
     \/ DestroyInstance(s)
  /\ Cardinality(SlotsOf(p)') <= MaxGrasp
  /\ UNCHANGED at /\ KeepsNothing

DemoNext == \E p \in Procs : Main(p) \/ Exit(p) \/ AnyCommand(p)

DemoSpec == DemoInit /\ [][DemoNext]_demoVars
-----------------------------------------------------------------------------
(* Both sides of the key agreement come to the same secret, of both pairs, *)
(* and the ECDH main to that of the test vector, though each call gives    *)
(* the handles anew and another process frees what it likes (the memcmps   *)
(* that end the mains).                                                    *)
SecretsAgree ==
  \A p \in Procs :
    at[p] = Passing =>
      /\ ta[<<p, 1>>] = "ecdh" => got[<<p, 1>>] = Secret(Peer, Own)
      /\ ta[<<p, 1>>] = "curve" =>
           /\ got[<<p, 3>>] = got[<<p, 4>>]
           /\ got[<<p, 3>>] = Secret(<<p, 1>>, <<p, 2>>)

(* An ECDSA main that reports success has verified its signature with the  *)
(* key it generated, none of whose attributes lost a leading zero: the     *)
(* client copies what it is given to the left of 32 bytes, so that such a  *)
(* key is another key (keygen_attributes_get).                             *)
SignatureVerifies ==
  \A p \in Procs :
    at[p] = Passing /\ ta[<<p, 1>>] = "ecdsa" =>
      got[<<p, 2>>] = Material(<<p, 1>>, <<p, 1>>)

(* What fails a main is a lack of resources, or a key that lost a leading  *)
(* zero; never a handle the core does not know, an object or an operation  *)
(* in the wrong state, whatever handles another process passes.            *)
FailsForCause ==
  \A p \in Procs :
    at[p] = Failed /\ reply.to \in {<<p, i>> : i \in 1..4} =>
      \/ reply.res = "FAIL"
      \/ reply.res = "INVALID" /\ got[<<p, 1>>].short

(* A main never holds more than four slots, ECDH never more than two, and  *)
(* although no session is closed before the process ends, a derivation     *)
(* that is through keeps nothing of the pool for itself.                   *)
Footprint ==
  \A p \in Procs :
    LET mine == SlotsOf(p) IN
    at[p] # Stranger =>
      /\ Cardinality(mine) <= IF ta[<<p, 1>>] = "ecdh" THEN 2 ELSE 4
      /\ at[p] = Passing =>
           CASE ta[<<p, 1>>] = "ecdsa" -> Cardinality(mine) <= 2
             [] ta[<<p, 1>>] = "ecdh" -> mine = {}
             [] ta[<<p, 1>>] = "curve" -> Cardinality(mine) <= 2
=============================================================================
