------------------------------ MODULE KeyProps ------------------------------
(***************************************************************************)
(* The properties of KeyTA, and the refinement of KeyService.              *)
(***************************************************************************)
EXTENDS KeyTA

KeyValues == Keys \cup {NoKey}

Sess == [phase : {"closed", "open", "destroying", "dead"},
         pc : {"idle", "alloc_op", "alloc_key", "err"},
         arg : UNION {PrepareArgs(t) : t \in TAs},
         op : Handles \cup {Null},
         key : Handles \cup {Null}]

Attrs == [mode : Modes \cup {"none"}, type : Forms \cup {"none"},
          size : {0} \cup Sizes, key : KeyValues, fed : Fed]
Slots == [kind : {"op", "obj"}, owner : Sessions, attr : Attrs] \cup {Free}

Digests == [digest : UNION {[1..n -> Chunks] : n \in 1..(MaxChunks + 1)}]
Results == {"OK", "BAD_PARAMETERS", "BAD_STATE", "SHORT_BUFFER",
            "NOT_SUPPORTED", "FAIL", "TARGET_DEAD"}
Replies == [to : Sessions \cup {Null}, cmd : Commands, res : Results,
            data : {Null} \cup KeyValues \cup Digests]

(* Every variable keeps to its type; an operation never holds more than it *)
(* was fed since its last digest.                                          *)
TypeOK ==
  /\ ta \in [Sessions -> TAs]
  /\ sess \in [Sessions -> Sess]
  /\ slots \in [Handles -> Slots]
  /\ reply \in Replies

(* The handles a session relies on: a field whose handle has been freed    *)
(* and not yet replaced is not one of them.                                *)
OpClaim(s) == IF sess[s].pc = "alloc_op" THEN {} ELSE {sess[s].op} \ {Null}
KeyClaim(s) == IF sess[s].pc = "alloc_key" THEN {} ELSE {sess[s].key} \ {Null}

(* The slots the core keeps for a session are exactly the handles in its   *)
(* structure, each of its kind, whatever failed on the way and whoever     *)
(* took the slots freed: nothing stale is used or freed twice, and nothing *)
(* is left behind.                                                         *)
HandlesExact ==
  \A s \in Sessions, h \in Handles :
    /\ Owns(slots, s, "op", h) <=> h \in OpClaim(s)
    /\ Owns(slots, s, "obj", h) <=> h \in KeyClaim(s)

(* Between commands an operation has its object beside it, of its size,    *)
(* although the err label of PREPARE frees but one of the two: what is     *)
(* left of a failed PREPARE is an object without an operation, never the   *)
(* reverse.  An operation that needs the private half runs on a pair.      *)
OpHasObject ==
  \A s \in Sessions :
    Idle(s) /\ sess[s].op # Null /\ ta[s] # "hash" =>
      LET op == Attr(sess[s].op) IN
      /\ sess[s].key # Null
      /\ Attr(sess[s].key).size = op.size
      /\ op.key # NoKey =>
           /\ op.key.size <= op.size
           /\ op.mode \in {"decrypt", "sign"} => op.key.form = "pair"
-----------------------------------------------------------------------------
(* What the client sees of a session, read through the operation alone.    *)
Service(s) ==
  IF sess[s].phase = "dead" THEN [st |-> "dead"]
  ELSE IF sess[s].phase # "open" THEN [st |-> "closed"]
  ELSE IF sess[s].pc # "idle" \/ sess[s].op = Null THEN [st |-> "unprepared"]
  ELSE LET a == Attr(sess[s].op) IN
       [st |-> "ready", mode |-> a.mode, size |-> a.size, key |-> a.key,
        fed |-> a.fed]

Abstract == INSTANCE KeyService WITH svc <- [s \in Sessions |-> Service(s)]

(* The TAs implement the service: a refused key, a failed PREPARE or the   *)
(* sessions beside it never change the key or the data a command works on, *)
(* and a keyed session is lost only to SET_KEY or a command of another     *)
(* mode, though the operation is not reset between keys.                   *)
ImplementsKeyService == Abstract!Spec
=============================================================================
