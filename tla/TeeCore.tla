------------------------------- MODULE TeeCore -------------------------------
(***************************************************************************)
(* The pool of crypto operations and transient objects that the TEE core   *)
(* keeps for its trusted applications, as the TAs of demo/ use it through  *)
(* TEE_AllocateOperation, TEE_AllocateTransientObject, TEE_FreeOperation   *)
(* and TEE_FreeTransientObject.  The core itself is a prebuilt binary: this *)
(* module is external, modelled from how src/ calls it.                    *)
(*                                                                         *)
(* The pool is one memory shared by every instance, so one session can     *)
(* exhaust it under another.  A handle names a slot of the pool; a freed   *)
(* slot may be handed to somebody else at once, which is what makes a      *)
(* stale handle dangerous.                                                 *)
(***************************************************************************)
EXTENDS Naturals

CONSTANTS
  Sessions,  \* sessions of the trusted application, one TA instance each
  Handles,   \* slots of the pool
  Null,      \* TEE_HANDLE_NULL, and the absence of a value
  Faults     \* the calls that may fail for no reason the model knows

Calls == {"alloc", "malloc", "populate", "set_operation_key"}

ASSUME TeeCoreAssumption ==
  /\ Null \notin Handles
  /\ Null \notin Sessions
  /\ Faults \subseteq Calls

Free == [kind |-> "free", owner |-> Null, attr |-> Null]

Spare(slots) == {h \in Handles : slots[h].kind = "free"}

Live(slots) == {h \in Handles : slots[h].kind # "free"}

(* h is a handle of the given kind that the core gave to session s.        *)
Owns(slots, s, kind, h) ==
  h \in Handles /\ slots[h].kind = kind /\ slots[h].owner = s

Install(slots, h, kind, s, attr) ==
  [slots EXCEPT ![h] = [kind |-> kind, owner |-> s, attr |-> attr]]

(* TEE_FreeOperation and TEE_FreeTransientObject of the handles in hs.     *)
Release(slots, hs) == [h \in Handles |-> IF h \in hs THEN Free ELSE slots[h]]

(* The core takes back what a TA instance still holds when it destroys it. *)
Reclaim(slots, s) ==
  [h \in Handles |-> IF slots[h].owner = s THEN Free ELSE slots[h]]
=============================================================================
