------------------------------- MODULE KeyDemo -------------------------------
(***************************************************************************)
(* The client applications of the RSA, DSA and hash TAs run against KeyTA: *)
(* demo/acipher/host, demo/dsa/host and demo/hash/host.  Each session is   *)
(* one process running the main of its TA once, or a stranger, a client    *)
(* that issues any command at any time.  An answer other than success is   *)
(* errx, on which the driver closes the session.                           *)
(***************************************************************************)
EXTENDS KeyProps

CONSTANTS
  DemoKey,        \* the key, or the domain parameters, in the sources
  First, Second   \* the halves of the text that is digested

ASSUME DemoAssumption ==
  /\ DemoKey \in KeyIds
  /\ First \in Chunks /\ Second \in Chunks
  /\ MaxChunks >= 1

VARIABLES
  at,  \* position of each client in its script, or how it ended
  out  \* what its last command gave it

demoVars == <<ta, sess, slots, reply, at, out>>

Script(t) ==
  CASE t = "rsa" -> <<"open", "encode", "set_key", "encrypt",
                      "decode", "set_key", "decrypt">>
    [] t = "dsa" -> <<"open", "signing", "set_key", "sign">>
    [] t = "hash" -> <<"open", "digest", "update", "do_final">>

(* Where a client is that is not in its script.                            *)
Failed == 0
Passing == 8
Stranger == 9

(* A buffer: nothing yet, the clear text, or what a command made of it.    *)
Empty == [text |-> "empty"]
Clear == [text |-> "clear"]
Garbage == [text |-> "garbage"]
Encrypted(k) == [text |-> "encrypted", id |-> k.id, size |-> k.size]
Signed(k) == [text |-> "signed", id |-> k.id, form |-> k.form]

Running(s) == at[s] \in DOMAIN Script(ta[s])
Command(s) == Script(ta[s])[at[s]]

(* main goes on after a success and leaves through errx otherwise.         *)
Returns(s) ==
  at' = [at EXCEPT ![s] =
           IF reply'.res # "OK" THEN Failed
           ELSE IF @ = Len(Script(ta[s])) THEN Passing ELSE @ + 1]

(* The decryption undoes an encryption under the same modulus.             *)
Yields(cmd, data, in) ==
  CASE cmd = "encrypt" -> Encrypted(data)
    [] cmd = "decrypt" -> IF in = Encrypted(data) THEN Clear ELSE Garbage
    [] cmd = "sign" -> Signed(data)
    [] cmd = "do_final" -> [text |-> "digest", of |-> data.digest]

Gives(s, cmd) ==
  out' = [out EXCEPT ![s] = IF reply'.res = "OK" THEN Yields(cmd, reply'.data, @)
                            ELSE @]
-----------------------------------------------------------------------------
(* Steps of the mains with one line wrong; DemoNext takes none of them.    *)

(* NeverOutOfOrder: the RSA main sends the public key for both directions. *)
PublicBothWays(s) ==
  /\ Command(s) = "set_key"
  /\ rsa_set_key(s, [id |-> DemoKey, form |-> "public", size |-> 2])
  /\ Returns(s)
  /\ UNCHANGED out

(* ResultsRight: the hash main sends the first half twice.                 *)
FirstHalfTwice(s) ==
  /\ Command(s) = "do_final"
  /\ hash_do_final(s, First, TRUE)
  /\ Returns(s) /\ Gives(s, "do_final")
-----------------------------------------------------------------------------
DemoInit ==
  /\ Init
  /\ at \in [Sessions -> {1, Stranger}]
  /\ out = [s \in Sessions |-> Empty]

prepare_tee_session(s) ==
  /\ Command(s) = "open"
  /\ TA_OpenSessionEntryPoint(s)
  /\ Returns(s)
  /\ UNCHANGED out

(* A public key to encrypt with, a pair for everything else; 2048 bits.    *)
prepare(s, mode) ==
  /\ PrepareStart(s, [mode |-> mode, size |-> 2,
                      type |-> IF mode = "encrypt" THEN "public" ELSE "pair"])
  /\ UNCHANGED <<at, out>>

prepare_rsa(s) ==
  \/ Command(s) = "encode" /\ prepare(s, "encrypt")
  \/ Command(s) = "decode" /\ prepare(s, "decrypt")

prepare_dsa(s) == Command(s) = "signing" /\ prepare(s, "sign")

prepare_hash(s) ==
  /\ Command(s) = "digest"
  /\ PrepareStart(s, [mode |-> "digest", size |-> 0, type |-> "none"])
  /\ UNCHANGED <<at, out>>

(* The TA works on a PREPARE; the last step of it answers the client.      *)
Serve(s) ==
  /\ Handler(s)
  /\ IF Running(s) /\ sess'[s].pc = "idle" THEN Returns(s) ELSE UNCHANGED at
  /\ UNCHANGED out

(* Two attributes to encrypt with, three to decrypt with.                  *)
set_rsa_key(s) ==
  /\ ta[s] = "rsa" /\ Command(s) = "set_key"
  /\ rsa_set_key(s, [id |-> DemoKey, size |-> 2,
                     form |-> IF at[s] = 3 THEN "public" ELSE "pair"])
  /\ Returns(s)
  /\ UNCHANGED out

set_dsa_key(s) ==
  /\ ta[s] = "dsa" /\ Command(s) = "set_key"
  /\ DsaGenerateRefused(s, DemoKey) \/ DsaGeneratePanics(s, DemoKey)
       \/ DsaGenerated(s, DemoKey)
  /\ Returns(s)
  /\ UNCHANGED out

asymmetric_operate(s) ==
  /\ \/ Command(s) = "encrypt" /\ rsa_asymmetric_encrypt(s, TRUE)
     \/ Command(s) = "decrypt" /\ rsa_asymmetric_decrypt(s, TRUE)
     \/ Command(s) = "sign" /\ dsa_asymmetric_sign_digest(s, TRUE)
  /\ Returns(s) /\ Gives(s, Command(s))

update(s) ==
  /\ Command(s) = "update"
  /\ hash_update(s, First)
  /\ Returns(s)
  /\ UNCHANGED out

final(s) ==
  /\ Command(s) = "do_final"
  /\ hash_do_final(s, Second, TRUE)
  /\ Returns(s) /\ Gives(s, "do_final")

(* main has returned, or exited with the session open: either way the      *)
(* session is closed and the TA instance destroyed.                        *)
terminate_tee_session(s) ==
  /\ at[s] \in {Failed, Passing}
  /\ TA_CloseSessionEntryPoint(s) \/ DestroyInstance(s)
  /\ UNCHANGED <<at, out>>

Main(s) ==
  /\ Running(s)
  /\ \/ prepare_tee_session(s)
     \/ prepare_rsa(s) \/ prepare_dsa(s) \/ prepare_hash(s)
     \/ set_rsa_key(s) \/ set_dsa_key(s)
     \/ asymmetric_operate(s)
     \/ update(s) \/ final(s)

AnyCommand(s) ==
  /\ at[s] = Stranger
  /\ \/ TA_OpenSessionEntryPoint(s)
     \/ TA_InvokeCommandEntryPoint(s)
     \/ TA_CloseSessionEntryPoint(s)
     \/ DestroyInstance(s)
  /\ UNCHANGED <<at, out>>

DemoNext ==
  \E s \in Sessions :
    Main(s) \/ Serve(s) \/ terminate_tee_session(s) \/ AnyCommand(s)

DemoSpec == DemoInit /\ [][DemoNext]_demoVars
-----------------------------------------------------------------------------
(* A main that gets to its end has the clear text back, a signature by a   *)
(* private key, or the digest of both halves in order, whatever the other  *)
(* client did meanwhile (the memcmps of the mains).                        *)
ResultsRight ==
  \A s \in Sessions :
    at[s] = Passing =>
      CASE ta[s] = "rsa" -> out[s] = Clear
        [] ta[s] = "dsa" -> out[s] = Signed(Generated(DemoKey))
        [] ta[s] = "hash" -> out[s] = [text |-> "digest", of |-> <<First, Second>>]

(* The mains issue their commands in an order the TAs serve: what fails    *)
(* one is a lack of resources or key material the core rejects, never a    *)
(* panic or a command that came too early.                                 *)
NeverOutOfOrder ==
  \A s \in Sessions :
    at[s] = Failed /\ reply.to = s => reply.res \in {"FAIL", "BAD_PARAMETERS"}
=============================================================================
