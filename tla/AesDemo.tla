------------------------------- MODULE AesDemo -------------------------------
(***************************************************************************)
(* The client application demo/cipher/host/main.c run against AesTA: each  *)
(* session is one process running main once, or a stranger, a client that  *)
(* sends any command at any time.                                          *)
(* TEEC_InvokeCommand blocks, so a client is at the command its TA         *)
(* instance is serving; an answer other than success is errx, on which the *)
(* driver closes the session.                                              *)
(***************************************************************************)
EXTENDS AesProps, Sequences

CONSTANTS
  Strangers, \* sessions of clients other than main
  KeyOf,     \* identity of the key each client loads
  IvOf       \* vector each client provides

ASSUME DemoAssumption ==
  /\ Strangers \subseteq Sessions
  /\ KeyOf \in [Sessions -> KeyIds]
  /\ IvOf \in [Sessions -> Ivs]

VARIABLES
  at,    \* position of each client in Script, or how it ended
  ciph,  \* what the encode produced
  temp   \* what the decode produced

demoVars == <<sess, slots, heap, reply, at, ciph, temp>>

Script == <<"open", "encode", "set_key", "set_iv", "cipher",
                    "decode", "set_key", "set_iv", "cipher">>

(* Where a client is that is not in Script: it left through errx, it got   *)
(* to the end, or it never was in main.                                    *)
Failed == 0
Passing == Len(Script) + 1
Stranger == Len(Script) + 2

(* A buffer is clear text, or clear text under a key and a vector; a       *)
(* stream applied to anything else gives garbage.                          *)
Clear == [text |-> "clear"]
Garbage == [text |-> "garbage"]
Ciphered(stream) == [text |-> "ciphered", key |-> stream.key, iv |-> stream.iv]

Apply(stream, in) ==
  IF stream.mode = "encrypt" /\ in = Clear THEN Ciphered(stream)
  ELSE IF stream.mode = "decrypt" /\ in = Ciphered(stream) THEN Clear
  ELSE Garbage

DemoInit ==
  /\ Init
  /\ at = [s \in Sessions |-> IF s \in Strangers THEN Stranger ELSE 1]
  /\ ciph = [s \in Sessions |-> Garbage]
  /\ temp = [s \in Sessions |-> Garbage]

Running(s) == at[s] \in DOMAIN Script

(* main goes on after a success and leaves through errx otherwise.         *)
Returns(s) ==
  at' = [at EXCEPT ![s] = IF reply'.res = "OK" THEN @ + 1 ELSE Failed]

-----------------------------------------------------------------------------
(* Steps of main with one line wrong; DemoNext takes none of them.         *)

(* DecodedIsClear: the decode is prepared as a second encode.              *)
EncodesTwice(s) ==
  /\ Script[at[s]] \in {"encode", "decode"}
  /\ PrepareStart(s, [algo |-> TRUE, size |-> 16, mode |-> "encrypt"])
  /\ UNCHANGED <<at, ciph, temp>>

(* OnlyFailsForResources: main prepares for a longer key than it sets.     *)
PreparesLongKey(s) ==
  /\ Script[at[s]] \in {"encode", "decode"}
  /\ PrepareStart(s, [algo |-> TRUE, size |-> 32,
       mode |-> IF Script[at[s]] = "encode" THEN "encrypt" ELSE "decrypt"])
  /\ UNCHANGED <<at, ciph, temp>>

(* EndsClean: errx leaves the session open behind it.                      *)
LeavesSessionOpen(s) ==
  /\ at[s] = Passing
  /\ TA_CloseSessionEntryPoint(s) \/ DestroyInstance(s)
  /\ UNCHANGED <<at, ciph, temp>>
-----------------------------------------------------------------------------
prepare_tee_session(s) ==
  /\ Script[at[s]] = "open"
  /\ TA_OpenSessionEntryPoint(s)
  /\ Returns(s)
  /\ UNCHANGED <<ciph, temp>>

prepare_aes(s) ==
  /\ Script[at[s]] \in {"encode", "decode"}
  /\ PrepareStart(s, [algo |-> TRUE, size |-> 16,
       mode |-> IF Script[at[s]] = "encode" THEN "encrypt" ELSE "decrypt"])
  /\ UNCHANGED <<at, ciph, temp>>

(* The TA works on a PREPARE; the last step of it answers the client.      *)
Serve(s) ==
  /\ Handler(s)
  /\ IF Running(s) /\ sess'[s].pc = "idle" THEN Returns(s) ELSE UNCHANGED at
  /\ UNCHANGED <<ciph, temp>>

set_key(s) ==
  /\ Script[at[s]] = "set_key"
  /\ set_aes_key(s, [id |-> KeyOf[s], size |-> 16])
  /\ Returns(s)
  /\ UNCHANGED <<ciph, temp>>

set_iv(s) ==
  /\ Script[at[s]] = "set_iv"
  /\ reset_aes_iv(s, IvOf[s])
  /\ Returns(s)
  /\ UNCHANGED <<ciph, temp>>

(* The first cipher command encodes the clear text into ciph, the second   *)
(* decodes ciph into temp.                                                 *)
cipher(s) ==
  /\ Script[at[s]] = "cipher"
  /\ cipher_buffer(s, TRUE)
  /\ Returns(s)
  /\ IF reply'.res # "OK" THEN UNCHANGED <<ciph, temp>>
     ELSE IF at[s] < Len(Script)
          THEN /\ ciph' = [ciph EXCEPT ![s] = Apply(reply'.data, Clear)]
               /\ UNCHANGED temp
          ELSE /\ temp' = [temp EXCEPT ![s] = Apply(reply'.data, ciph[s])]
               /\ UNCHANGED ciph

(* main has returned, or exited with the session open: either way the      *)
(* session is closed and the TA instance destroyed.                        *)
terminate_tee_session(s) ==
  /\ at[s] \in {Failed, Passing}
  /\ TA_CloseSessionEntryPoint(s) \/ DestroyInstance(s)
  /\ UNCHANGED <<at, ciph, temp>>

Client(s) ==
  \/ Running(s) /\ prepare_tee_session(s)
  \/ Running(s) /\ prepare_aes(s)
  \/ Running(s) /\ set_key(s)
  \/ Running(s) /\ set_iv(s)
  \/ Running(s) /\ cipher(s)
  \/ Serve(s)
  \/ terminate_tee_session(s)

(* A stranger has a key and a vector of its own, and no script.            *)
Interfere(s) ==
  /\ at[s] = Stranger
  /\ \/ TA_OpenSessionEntryPoint(s)
     \/ \E a \in PrepareArgs : alloc_resources(s, a)
     \/ \E k \in ClientKeys : k.id = KeyOf[s] /\ set_aes_key(s, k)
     \/ \E iv \in {IvOf[s], Null} : reset_aes_iv(s, iv)
     \/ SetIvRefused(s)
     \/ \E fits \in BOOLEAN : cipher_buffer(s, fits)
     \/ NotSupported(s)
     \/ TA_CloseSessionEntryPoint(s)
     \/ DestroyInstance(s)
  /\ UNCHANGED <<at, ciph, temp>>

DemoNext == \E s \in Sessions : Client(s) \/ Interfere(s)

(* The processes are scheduled until they end, and a TA instance that has  *)
(* been entered until it has answered; a stranger may fall silent.         *)
DemoSpec ==
  /\ DemoInit
  /\ [][DemoNext]_demoVars
  /\ \A s \in Sessions : WF_demoVars(Client(s))
-----------------------------------------------------------------------------
Ended(s) == at[s] \in {Failed, Passing} /\ sess[s] = Closed

(* A client that gets to the end finds its decoded text to be the clear    *)
(* text, whatever another client did to the pool meanwhile (the memcmp of  *)
(* main).                                                                  *)
DecodedIsClear == \A s \in Sessions : at[s] = Passing => temp[s] = Clear

(* The order of commands in main is one the TA serves: only a lack of      *)
(* resources can fail it, never a panic, a bad state or bad parameters.    *)
OnlyFailsForResources ==
  \A s \in Sessions : at[s] = Failed /\ reply.to = s => reply.res = "FAIL"

(* The processes end, a stranger at the pool or not, and then nothing of   *)
(* theirs is left in it.                                                   *)
EndsClean ==
  <>[]\A s \in Sessions :
       at[s] # Stranger => Ended(s) /\ \A h \in Live(slots) : slots[h].owner # s
=============================================================================
