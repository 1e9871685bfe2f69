------------------------------ MODULE AesProps ------------------------------
(***************************************************************************)
(* The properties of AesTA, and the refinement of AesService.              *)
(***************************************************************************)
EXTENDS AesTA

Sess == [phase : {"closed", "open", "destroying", "dead"},
         pc : {"idle", "alloc_op", "alloc_key", "malloc", "load", "err"},
         key_size : {0} \cup Sizes,
         mode : Modes \cup {"none"},
         op : Handles \cup {Null},
         key : Handles \cup {Null}]

Slots == [kind : {"op", "obj"}, owner : Sessions, attr : Attrs] \cup {Free}

Replies == [to : Sessions \cup {Null}, cmd : Commands, res : Results,
            data : {Null} \cup ClientKeys \cup Streams]

(* Every variable keeps to its type, and a heap to its size.               *)
TypeOK ==
  /\ sess \in [Sessions -> Sess]
  /\ slots \in [Handles -> Slots]
  /\ heap \in [Sessions -> 0..HeapBlocks]
  /\ reply \in Replies

(* The handles a session relies on: while alloc_resources stands between a *)
(* free and the assignment that replaces the freed handle, that field is   *)
(* not one of them.                                                        *)
OpClaim(s) == IF sess[s].pc = "alloc_op" THEN {} ELSE {sess[s].op} \ {Null}
KeyClaim(s) == IF sess[s].pc = "alloc_key" THEN {} ELSE {sess[s].key} \ {Null}

(* No session uses or frees a handle that is not its own: whatever failed  *)
(* on the way, the handles in struct aes_cipher are live, of the right     *)
(* kind, and belong to this session, though other sessions reuse the slots *)
(* it frees.                                                               *)
NoStaleHandle ==
  \A s \in Sessions :
    /\ \A h \in OpClaim(s) : Owns(slots, s, "op", h)
    /\ \A h \in KeyClaim(s) : Owns(slots, s, "obj", h)

(* Nothing is left behind in the core's pool on any path, the goto err     *)
(* ones included: every live slot is still reachable from a session.       *)
NoLeak ==
  \A h \in Live(slots) : \E s \in Sessions : h \in OpClaim(s) \cup KeyClaim(s)

(* Between commands a session has both handles or neither: this is what    *)
(* makes the one check of op_handle in cipher_buffer, and none in          *)
(* set_aes_key, cover the other handle.                                    *)
BothOrNeither ==
  \A s \in Sessions : Idle(s) => (sess[s].op = Null <=> sess[s].key = Null)

(* The dummy key works as the comment in alloc_resources intends: an       *)
(* operation a command can reach has a key, so the TEE_ResetOperation of   *)
(* set_aes_key is never one of an operation without.                       *)
ResetAllowed ==
  \A s \in Sessions :
    Idle(s) /\ sess[s].op # Null => Attr(sess[s].op).key # NoKey

(* The operation and the object of a session are of one size and no key    *)
(* outgrows it, though key_size in the session may by then be another.     *)
SizesAgree ==
  \A s \in Sessions :
    Idle(s) /\ sess[s].op # Null =>
      /\ Attr(sess[s].op).size = Attr(sess[s].key).size
      /\ Attr(sess[s].op).key.size <= Attr(sess[s].op).size

(* alloc_resources reaches each of its calls with what the call needs: no  *)
(* failure path falls through to a later call, and the session that was    *)
(* closed or lost holds nothing.                                           *)
Stage(s) ==
  /\ sess[s].phase # "open" =>
       sess[s].pc = "idle" /\ sess[s].op = Null /\ sess[s].key = Null
  /\ sess[s].phase = "open" => heap[s] >= 1
  /\ sess[s].pc \notin {"idle", "err"} => sess[s].key_size \in Sizes
  /\ sess[s].pc \in {"alloc_key", "malloc", "load"} =>
       sess[s].op # Null /\ Attr(sess[s].op).size = sess[s].key_size
  /\ sess[s].pc \in {"malloc", "load"} =>
       sess[s].key # Null /\ Attr(sess[s].key).size = sess[s].key_size

Stages == \A s \in Sessions : Stage(s)

(* cipher_ta.h: the size of the key data "shall equal key length", the one *)
(* the operation was prepared for.  A refused PREPARE that has already     *)
(* stored its key size lets another length in.                             *)
KeyLengthAsPrepared ==
  \A s \in Sessions :
    Idle(s) /\ sess[s].op # Null =>
      Attr(sess[s].op).key.size = Attr(sess[s].op).size

(* Every PREPARE that is accepted is answered.                             *)
Answered == \A s \in Sessions : sess[s].pc # "idle" ~> sess[s].pc = "idle"
-----------------------------------------------------------------------------
(* What the client sees of a session, read through the handles.            *)
Service(s) ==
  IF sess[s].phase = "dead" THEN [st |-> "dead"]
  ELSE IF sess[s].phase # "open" THEN [st |-> "closed"]
  ELSE IF sess[s].pc # "idle" \/ sess[s].op = Null THEN [st |-> "unprepared"]
  ELSE LET a == Attr(sess[s].op) IN
       [st |-> "ready", mode |-> a.mode, size |-> a.size, key |-> a.key,
        iv |-> a.iv]

Abstract == INSTANCE AesService WITH svc <- [s \in Sessions |-> Service(s)]

(* The TA implements the service: nothing another session does, no failed  *)
(* allocation and no refused command changes under which key and vector a  *)
(* client's data is ciphered, and a session that is set up panics for a    *)
(* vector of the wrong length alone.                                       *)
ImplementsService == Abstract!Spec
=============================================================================
