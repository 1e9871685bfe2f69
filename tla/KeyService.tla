----------------------------- MODULE KeyService -----------------------------
(***************************************************************************)
(* What the RSA, DSA and hash trusted applications promise their clients,  *)
(* without handles or pool: a session is prepared for a mode and a size,   *)
(* given a key, and runs commands of that mode under that key; a digest is *)
(* over what was sent since the last one.  A session is lost only to a     *)
(* SET_KEY, or to a command of another mode or before any key.             *)
(***************************************************************************)
EXTENDS Naturals, Sequences

CONSTANTS Sessions, KeyIds, KeySizes, Chunks, MaxChunks, Null

VARIABLES
  ta,    \* the trusted application behind each session
  svc,   \* the configuration each session stands in
  reply  \* the last answer any client got

vars == <<ta, svc, reply>>

Sizes == {0, 1, 2}
ModesOf(t) ==
  CASE t = "rsa" -> {"encrypt", "decrypt", "sign"}
    [] t = "dsa" -> {"sign"}
    [] t = "hash" -> {"digest"}

Keys == [id : KeyIds, form : {"public", "pair"}, size : KeySizes]
NoKey == [id |-> Null, form |-> "none", size |-> 0]

Closed == [st |-> "closed"]
Unprepared == [st |-> "unprepared"]
Dead == [st |-> "dead"]
Ready(mode, size) ==
  [st |-> "ready", mode |-> mode, size |-> size, key |-> NoKey, fed |-> <<>>]

IsReady(s) == svc[s].st = "ready"
IsOpen(s) == svc[s] = Unprepared \/ IsReady(s)

Becomes(s, v) == svc' = [svc EXCEPT ![s] = v]
Answer(s, cmd, res, data) ==
  reply' = [to |-> s, cmd |-> cmd, res |-> res, data |-> data]
-----------------------------------------------------------------------------
Init ==
  /\ ta \in [Sessions -> {"rsa", "dsa", "hash"}]
  /\ svc = [s \in Sessions |-> Closed]
  /\ reply = [to |-> Null, cmd |-> "open", res |-> "FAIL", data |-> Null]

Open(s) ==
  /\ \/ Answer(s, "open", "OK", Null) /\ Becomes(s, Unprepared)
     \/ Answer(s, "open", "FAIL", Null) /\ UNCHANGED svc
  /\ svc[s] = Closed

Close(s) ==
  /\ UNCHANGED reply
  /\ svc[s] # Closed
  /\ Becomes(s, Closed)

(* An accepted PREPARE first gives up the configuration there was.         *)
GiveUp(s) ==
  /\ UNCHANGED reply
  /\ IsReady(s)
  /\ Becomes(s, Unprepared)

Prepare(s) ==
  /\ \/ /\ Answer(s, "prepare", "OK", Null)
        /\ \E mode \in ModesOf(ta[s]), size \in Sizes :
             Becomes(s, Ready(mode, size))
     \/ Answer(s, "prepare", "FAIL", Null) /\ UNCHANGED svc
  /\ svc[s] = Unprepared

(* A command that is refused changes nothing the client can see.           *)
Refuse(s) ==
  /\ \/ \E cmd \in {"prepare", "set_key", "unknown"} :
          Answer(s, cmd, "BAD_PARAMETERS", Null)
     \/ Answer(s, "unknown", "NOT_SUPPORTED", Null)
     \/ Answer(s, "set_key", "FAIL", Null) /\ ta[s] # "hash"
     \/ /\ \E cmd \in {"encrypt", "decrypt", "sign", "update", "do_final"} :
             Answer(s, cmd, "BAD_STATE", Null)
        /\ ~IsReady(s)
     \/ /\ \E cmd \in {"encrypt", "decrypt", "sign", "do_final"},
              res \in {"SHORT_BUFFER", "BAD_PARAMETERS"} :
             Answer(s, cmd, res, Null)
        /\ IsReady(s)
  /\ IsOpen(s)
  /\ UNCHANGED svc

(* Only a key no longer than prepared for, and a pair where the mode needs *)
(* one, is ever in use.                                                    *)
SetKey(s, k) ==
  /\ Answer(s, "set_key", "OK", Null)
  /\ IsReady(s) /\ ta[s] # "hash"
  /\ k.size <= svc[s].size
  /\ svc[s].mode \in {"decrypt", "sign"} => k.form = "pair"
  /\ Becomes(s, [svc[s] EXCEPT !.key = k])

Run(s, mode) ==
  /\ IsReady(s) /\ svc[s].mode = mode /\ svc[s].key # NoKey
  /\ Answer(s, mode, "OK", svc[s].key)
  /\ UNCHANGED svc

Update(s, c) ==
  /\ Answer(s, "update", "OK", Null)
  /\ IsReady(s) /\ ta[s] = "hash"
  /\ Len(svc[s].fed) < MaxChunks
  /\ Becomes(s, [svc[s] EXCEPT !.fed = Append(@, c)])

Final(s, c) ==
  /\ ta[s] = "hash" /\ IsReady(s)
  /\ Answer(s, "do_final", "OK", [digest |-> Append(svc[s].fed, c)])
  /\ Becomes(s, [svc[s] EXCEPT !.fed = <<>>])

Die(s) ==
  /\ \E cmd \in {"set_key", "encrypt", "decrypt", "sign"} :
       /\ Answer(s, cmd, "TARGET_DEAD", Null)
       /\ cmd # "set_key" => IsReady(s) /\ (svc[s].mode # cmd \/ svc[s].key = NoKey)
  /\ IsOpen(s) /\ ta[s] # "hash"
  /\ Becomes(s, Dead)

Next ==
  /\ \E s \in Sessions :
       \/ Open(s)
       \/ Close(s)
       \/ GiveUp(s)
       \/ Prepare(s)
       \/ Refuse(s)
       \/ \E k \in Keys : SetKey(s, k)
       \/ \E mode \in {"encrypt", "decrypt", "sign"} : Run(s, mode)
       \/ \E c \in Chunks : Update(s, c) \/ Final(s, c)
       \/ Die(s)
  /\ UNCHANGED ta

Spec == Init /\ [][Next]_vars
=============================================================================
