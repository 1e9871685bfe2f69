----------------------------- MODULE AesService -----------------------------
(***************************************************************************)
(* What the AES trusted application promises its clients, without handles, *)
(* pool or heap: a session is configured, keyed, given a vector, and what  *)
(* it ciphers goes under exactly the mode, key and vector last accepted.   *)
(* A session that is fully set up is lost only to a vector of the wrong    *)
(* length.                                                                 *)
(***************************************************************************)
EXTENDS Naturals

CONSTANTS Sessions, KeyIds, Ivs, Null

VARIABLES
  svc,   \* the configuration each session stands in
  reply  \* the last answer any client got

vars == <<svc, reply>>

Sizes == {16, 32}
Modes == {"encrypt", "decrypt"}
ClientKeys == [id : KeyIds, size : {0} \cup Sizes]

Closed == [st |-> "closed"]
Unprepared == [st |-> "unprepared"]
Dead == [st |-> "dead"]
Ready(mode, size, key, iv) ==
  [st |-> "ready", mode |-> mode, size |-> size, key |-> key, iv |-> iv]

IsReady(s) == svc[s].st = "ready"
SetUp(s) == IsReady(s) /\ svc[s].iv # Null

Becomes(s, v) == svc' = [svc EXCEPT ![s] = v]
Answer(s, cmd, res, data) ==
  reply' = [to |-> s, cmd |-> cmd, res |-> res, data |-> data]
-----------------------------------------------------------------------------
Init ==
  /\ svc = [s \in Sessions |-> Closed]
  /\ reply = [to |-> Null, cmd |-> "open", res |-> "FAIL", data |-> Null]

Open(s) ==
  /\ svc[s] = Closed
  /\ \/ Becomes(s, Unprepared) /\ Answer(s, "open", "OK", Null)
     \/ UNCHANGED svc /\ Answer(s, "open", "FAIL", Null)

Close(s) ==
  /\ svc[s] # Closed
  /\ Becomes(s, Closed)
  /\ UNCHANGED reply

(* An accepted PREPARE first gives up the configuration there was.         *)
GiveUp(s) ==
  /\ IsReady(s)
  /\ Becomes(s, Unprepared)
  /\ UNCHANGED reply

Prepare(s) ==
  /\ svc[s] = Unprepared
  /\ \/ \E mode \in Modes, size \in Sizes :
          /\ Becomes(s, Ready(mode, size, [id |-> Null, size |-> size], Null))
          /\ Answer(s, "prepare", "OK", Null)
     \/ UNCHANGED svc /\ Answer(s, "prepare", "FAIL", Null)

(* A command refused for its parameters changes nothing.                   *)
Refuse(s) ==
  /\ svc[s] = Unprepared \/ IsReady(s)
  /\ \/ Answer(s, "prepare", "BAD_PARAMETERS", Null)
     \/ \E k \in ClientKeys : Answer(s, "set_key", "BAD_PARAMETERS", k)
     \/ Answer(s, "set_iv", "BAD_PARAMETERS", Null)
     \/ Answer(s, "cipher", "BAD_PARAMETERS", Null)
     \/ Answer(s, "unknown", "NOT_SUPPORTED", Null)
     \/ ~IsReady(s) /\ Answer(s, "cipher", "BAD_STATE", Null)
  /\ UNCHANGED svc

(* A key accepted replaces the key and drops the vector; one that fails to *)
(* load leaves the key and may drop the vector.                            *)
SetKey(s, k) ==
  /\ IsReady(s)
  /\ \/ /\ k.size <= svc[s].size
        /\ Becomes(s, [svc[s] EXCEPT !.key = k, !.iv = Null])
        /\ Answer(s, "set_key", "OK", k)
     \/ /\ \/ UNCHANGED svc
           \/ Becomes(s, [svc[s] EXCEPT !.iv = Null])
        /\ Answer(s, "set_key", "FAIL", k)

SetIv(s, iv) ==
  /\ IsReady(s)
  /\ Becomes(s, [svc[s] EXCEPT !.iv = iv])
  /\ Answer(s, "set_iv", "OK", Null)

Cipher(s) ==
  /\ SetUp(s)
  /\ Answer(s, "cipher", "OK", [mode |-> svc[s].mode, key |-> svc[s].key,
                                iv |-> svc[s].iv])
  /\ UNCHANGED svc

(* The instance dies under a command issued before the session is set up,  *)
(* or when it is given a vector of the wrong length.                       *)
Die(s) ==
  /\ svc[s] = Unprepared \/ IsReady(s)
  /\ Becomes(s, Dead)
  /\ \E cmd \in {"set_key", "set_iv", "cipher"} :
       /\ SetUp(s) => cmd = "set_iv"
       /\ svc[s] = Unprepared => cmd # "cipher"
       /\ IsReady(s) => cmd # "set_key"
       /\ Answer(s, cmd, "TARGET_DEAD", Null)

Next ==
  \E s \in Sessions :
    \/ Open(s)
    \/ Close(s)
    \/ GiveUp(s)
    \/ Prepare(s)
    \/ Refuse(s)
    \/ \E k \in ClientKeys : SetKey(s, k)
    \/ \E iv \in Ivs : SetIv(s, iv)
    \/ Cipher(s)
    \/ Die(s)

Spec == Init /\ [][Next]_vars
=============================================================================
