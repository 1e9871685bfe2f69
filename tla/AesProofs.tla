------------------------------ MODULE AesProofs ------------------------------
(***************************************************************************)
(* AesTA and its clients, for every number of sessions, size of the pool   *)
(* and of a heap, set of keys and vectors, and every set of calls that may *)
(* fail.                                                                   *)
(*                                                                         *)
(* A step is taken for one session s.  It changes s's own fields and only  *)
(* slots that are free or s's (Local); so the invariant of every other     *)
(* session is kept by lemma Frame, and each action is left with the        *)
(* invariant of s alone.                                                   *)
(*                                                                         *)
(* The second part shows that AesTA implements AesService.  Service(t)     *)
(* reads what session t holds, which a step of another session does not    *)
(* touch.  So a step of s changes the mapped svc at s alone, and each      *)
(* action is matched with the step of the service it is to the client, or  *)
(* with none.  What a PREPARE under way has asked for (Asked) is kept      *)
(* beside the invariant IInv: it is what the session ends up configured    *)
(* with.                                                                   *)
(*                                                                         *)
(* On the refinement rests what the client can count on (AesDemo), in the  *)
(* third part: DemoInv says, for every position in main, which             *)
(* configuration of the service the session stands in.                     *)
(***************************************************************************)
EXTENDS AesDemo, TLAPS

(* What the invariants say of one session.                                 *)
SessInv(s) ==
  /\ \A h \in OpClaim(s) : Owns(slots, s, "op", h)
  /\ \A h \in KeyClaim(s) : Owns(slots, s, "obj", h)
  /\ Stage(s)
  /\ Idle(s) => (sess[s].op = Null <=> sess[s].key = Null)
  /\ Idle(s) /\ sess[s].op # Null =>
       /\ Attr(sess[s].op).key # NoKey
       /\ Attr(sess[s].op).size = Attr(sess[s].key).size
       /\ Attr(sess[s].op).key.size <= Attr(sess[s].op).size

(* Every live slot is claimed by the session that owns it.                 *)
Claimed(h) ==
  slots[h].kind # "free" =>
    h \in OpClaim(slots[h].owner) \cup KeyClaim(slots[h].owner)

IInv ==
  /\ TypeOK
  /\ \A s \in Sessions : SessInv(s)
  /\ \A h \in Handles : Claimed(h)

(* A step of s: other sessions and their slots are as they were, and what  *)
(* s has afterwards it claims.                                             *)
Local(s) ==
  /\ \A t \in Sessions \ {s} : sess'[t] = sess[t] /\ heap'[t] = heap[t]
  /\ \A h \in Handles :
       \/ slots'[h] = slots[h]
       \/ /\ slots[h].kind = "free" \/ slots[h].owner = s
          /\ slots'[h].kind = "free" \/ slots'[h].owner = s
  /\ \A h \in Handles :
       slots'[h].kind # "free" /\ slots'[h].owner = s =>
         h \in OpClaim(s)' \cup KeyClaim(s)'

(* A step local to s keeps the invariant of everybody else.                *)
LEMMA Frame ==
  ASSUME IInv, TypeOK', NEW s \in Sessions, Local(s), SessInv(s)'
  PROVE  IInv'
<1>1. ASSUME NEW t \in Sessions, t # s PROVE SessInv(t)'
  <2>1. /\ SessInv(t)
        /\ sess'[t] = sess[t]
        /\ heap'[t] = heap[t]
    BY <1>1 DEF IInv, Local
  <2>2. ASSUME NEW h \in Handles, slots[h].kind # "free", slots[h].owner = t
        PROVE  slots'[h] = slots[h]
    BY <1>1, <2>2 DEF Local
  <2>3. \A h \in OpClaim(t) : Owns(slots, t, "op", h) /\ slots'[h] = slots[h]
    BY <2>1, <2>2 DEF SessInv, Owns
  <2>4. \A h \in KeyClaim(t) : Owns(slots, t, "obj", h) /\ slots'[h] = slots[h]
    BY <2>1, <2>2 DEF SessInv, Owns
  <2>5. OpClaim(t)' = OpClaim(t) /\ KeyClaim(t)' = KeyClaim(t)
    BY <2>1 DEF OpClaim, KeyClaim
  <2>6. /\ \A h \in OpClaim(t)' : Owns(slots, t, "op", h)'
        /\ \A h \in KeyClaim(t)' : Owns(slots, t, "obj", h)'
    BY <2>3, <2>4, <2>5 DEF Owns
  <2>7. Stage(t)'
    BY <2>1, <2>3, <2>4 DEF SessInv, Stage, OpClaim, KeyClaim, Attr
  <2>8. Idle(t)' => (sess'[t].op = Null <=> sess'[t].key = Null)
    BY <2>1 DEF SessInv, Idle
  <2>9. Idle(t)' /\ sess'[t].op # Null =>
          /\ Attr(sess[t].op)'.key # NoKey
          /\ Attr(sess[t].op)'.size = Attr(sess[t].key)'.size
          /\ Attr(sess[t].op)'.key.size <= Attr(sess[t].op)'.size
    BY <2>1, <2>3, <2>4 DEF SessInv, Idle, OpClaim, KeyClaim, Attr
  <2>10. QED
    BY <2>6, <2>7, <2>8, <2>9 DEF SessInv
<1>2. ASSUME NEW h \in Handles PROVE Claimed(h)'
  <2>1. CASE slots'[h].kind = "free"
    BY <2>1 DEF Claimed
  <2>2. CASE slots'[h].kind # "free" /\ slots'[h].owner = s
    BY <2>2 DEF Local, Claimed
  <2>3. CASE slots'[h].kind # "free" /\ slots'[h].owner # s
    <3>1. slots'[h] = slots[h] /\ slots[h].owner \in Sessions
      BY <2>3 DEF Local, IInv, TypeOK, Slots, Free
    <3>2. h \in OpClaim(slots[h].owner) \cup KeyClaim(slots[h].owner)
      BY <2>3, <3>1 DEF IInv, Claimed
    <3>3. sess'[slots[h].owner] = sess[slots[h].owner]
      BY <2>3, <3>1 DEF Local
    <3>4. QED
      BY <3>1, <3>2, <3>3 DEF Claimed, OpClaim, KeyClaim
  <2>4. QED
    BY <2>1, <2>2, <2>3
<1>3. QED
  BY <1>1, <1>2 DEF IInv
-----------------------------------------------------------------------------
(* What one action has to establish.                                       *)
Keeps(s) == TypeOK' /\ Local(s) /\ SessInv(s)'

(* Types of the parts of a state that satisfies the invariant.             *)
LEMMA Typing ==
  ASSUME IInv, NEW s \in Sessions
  PROVE  /\ sess \in [Sessions -> Sess]
         /\ sess[s] \in Sess
         /\ slots \in [Handles -> Slots]
         /\ heap \in [Sessions -> 0..HeapBlocks]
         /\ heap[s] \in 0..HeapBlocks
         /\ HeapBlocks \in Nat
         /\ reply \in Replies
         /\ SessInv(s)
         /\ \A h \in Handles : Claimed(h)
BY AesAssumption DEF IInv, TypeOK

(* A session's slots are operations and objects of its own, and two fields *)
(* never name one slot.                                                    *)
LEMMA OwnSlots ==
  ASSUME IInv, NEW s \in Sessions
  PROVE  /\ \A h \in OpClaim(s) :
              /\ h \in Handles /\ h # Null
              /\ slots[h].kind = "op" /\ slots[h].owner = s
              /\ slots[h].attr \in Attrs
         /\ \A h \in KeyClaim(s) :
              /\ h \in Handles /\ h # Null
              /\ slots[h].kind = "obj" /\ slots[h].owner = s
              /\ slots[h].attr \in Attrs
BY TeeCoreAssumption DEF IInv, TypeOK, SessInv, Owns, Slots, Free, OpClaim, KeyClaim

LEMMA OpenKeeps ==
  ASSUME IInv, NEW s \in Sessions, TA_OpenSessionEntryPoint(s)
  PROVE  Keeps(s)
<1> USE Typing
<1>1. sess[s].op = Null /\ sess[s].key = Null /\ sess[s].pc = "idle"
  BY DEF TA_OpenSessionEntryPoint, SessInv, Stage
<1>2. TypeOK'
  <2>1. reply' \in Replies
    BY DEF TA_OpenSessionEntryPoint, Answer, Replies, Commands, Results
  <2>2. QED
    BY <2>1, AesAssumption DEF TA_OpenSessionEntryPoint, TypeOK, Sess
<1>3. Local(s)
  BY <1>1 DEF TA_OpenSessionEntryPoint, Local, Claimed, OpClaim, KeyClaim, Sess
<1>4. SessInv(s)'
  BY <1>1 DEF TA_OpenSessionEntryPoint, SessInv, Stage, OpClaim, KeyClaim, Idle, Sess
<1>5. QED
  BY <1>2, <1>3, <1>4 DEF Keeps

(* A command that only answers.                                            *)
LEMMA AnswerKeeps ==
  ASSUME IInv, NEW s \in Sessions, UNCHANGED <<sess, slots, heap>>,
         reply' \in Replies
  PROVE  Keeps(s)
<1> USE Typing
<1>1. TypeOK'
  BY DEF TypeOK
<1>2. Local(s)
  BY DEF Local, Claimed, OpClaim, KeyClaim
<1>3. SessInv(s)'
  BY DEF SessInv, Stage, OpClaim, KeyClaim, Idle, Owns, Attr
<1>4. QED
  BY <1>1, <1>2, <1>3 DEF Keeps

LEMMA PrepareRefusedKeeps ==
  ASSUME IInv, NEW s \in Sessions, NEW a \in PrepareArgs, PrepareRefused(s, a)
  PROVE  Keeps(s)
<1> USE Typing
<1> DEFINE n == IF a.algo /\ a.size \in Sizes THEN a.size ELSE sess[s].key_size
<1>1. sess'[s] \in Sess /\ sess' = [sess EXCEPT ![s] = sess'[s]]
  <2>1. n \in {0} \cup Sizes
    BY DEF Sess
  <2>2. sess' = [sess EXCEPT ![s] = [sess[s] EXCEPT !.key_size = n]]
    BY DEF PrepareRefused
  <2>3. QED
    BY <2>1, <2>2, ZenonT(60) DEF Sess
<1>2. /\ sess'[s].phase = "open" /\ sess[s].phase = "open"
      /\ sess'[s].pc = "idle" /\ sess[s].pc = "idle"
      /\ sess'[s].op = sess[s].op /\ sess'[s].key = sess[s].key
  BY DEF PrepareRefused, Idle, Sess
<1>3. TypeOK'
  BY <1>1 DEF PrepareRefused, Answer, TypeOK, Replies, Commands, Results
<1>4. Local(s)
  BY <1>1, <1>2 DEF PrepareRefused, Local, Claimed, OpClaim, KeyClaim
<1>5. SessInv(s)'
  BY <1>1, <1>2 DEF PrepareRefused, SessInv, Stage, OpClaim, KeyClaim, Idle,
     Owns, Attr
<1>6. QED
  BY <1>3, <1>4, <1>5 DEF Keeps

LEMMA PrepareStartKeeps ==
  ASSUME IInv, NEW s \in Sessions, NEW a \in PrepareArgs, PrepareStart(s, a)
  PROVE  Keeps(s)
<1> USE Typing
<1>1. /\ sess' = [sess EXCEPT ![s] = sess'[s]]
      /\ sess'[s] \in Sess
      /\ sess'[s].phase = "open" /\ sess[s].phase = "open"
      /\ sess'[s].pc = "alloc_op" /\ sess[s].pc = "idle"
      /\ sess'[s].op = sess[s].op /\ sess'[s].key = sess[s].key
      /\ sess'[s].key_size \in Sizes
  BY DEF PrepareStart, Idle, Sess
<1>2. \A h \in Handles : slots'[h] = IF h = sess[s].op THEN Free ELSE slots[h]
  BY DEF PrepareStart, Release
<1>3. sess[s].op # Null => sess[s].op \in Handles /\ slots[sess[s].op].owner = s
                         /\ slots[sess[s].op].kind = "op"
  BY <1>1 DEF SessInv, OpClaim, Owns
<1>4. TypeOK'
  BY <1>1, <1>2 DEF PrepareStart, TypeOK, Slots, Release
<1>5. Local(s)
  <2>1. \A t \in Sessions \ {s} : sess'[t] = sess[t] /\ heap'[t] = heap[t]
    BY <1>1 DEF PrepareStart
  <2>2. \A h \in Handles : slots'[h] = slots[h] \/ h = sess[s].op
    BY <1>2
  <2>3. \A h \in Handles : slots'[h].kind # "free" /\ slots'[h].owner = s =>
          h \in OpClaim(s)' \cup KeyClaim(s)'
    BY <1>1, <1>2 DEF Free, Claimed, OpClaim, KeyClaim
  <2>4. QED
    BY <1>2, <1>3, <2>1, <2>2, <2>3, TeeCoreAssumption DEF Local, Free
<1>6. SessInv(s)'
  <2>1. \A h \in KeyClaim(s)' : Owns(slots, s, "obj", h)'
    BY <1>1, <1>2, <1>3 DEF SessInv, KeyClaim, Owns, Free
  <2>2. OpClaim(s)' = {} /\ ~Idle(s)'
    BY <1>1 DEF OpClaim, Idle
  <2>3. Stage(s)'
    BY <1>1 DEF PrepareStart, Stage, SessInv
  <2>4. QED
    BY <2>1, <2>2, <2>3 DEF SessInv
<1>7. QED
  BY <1>4, <1>5, <1>6 DEF Keeps
LEMMA AllocateOperationKeeps ==
  ASSUME IInv, NEW s \in Sessions, AllocateOperation(s)
  PROVE  Keeps(s)
<1> USE Typing
<1>1. sess[s].phase = "open" /\ sess[s].pc = "alloc_op" /\ sess[s].key_size \in Sizes
  BY DEF AllocateOperation, SessInv, Stage
<1>2. sess[s].key # Null => sess[s].key \in KeyClaim(s)
  BY <1>1 DEF KeyClaim
<1>3. \A h \in KeyClaim(s) : h \in Handles /\ slots[h].owner = s /\ slots[h].kind = "obj"
  BY OwnSlots
<1>4. CASE \E h \in Spare(slots) :
             /\ sess' = [sess EXCEPT ![s].op = h, ![s].pc = "alloc_key"]
             /\ slots' = Release(Install(slots, h, "op", s,
                                OperationAttr(sess[s].mode, sess[s].key_size)),
                              {sess[s].key})
  <2>1. PICK h \in Spare(slots) :
             /\ sess' = [sess EXCEPT ![s].op = h, ![s].pc = "alloc_key"]
             /\ slots' = Release(Install(slots, h, "op", s,
                                OperationAttr(sess[s].mode, sess[s].key_size)),
                              {sess[s].key})
    BY <1>4
  <2> DEFINE op == [kind |-> "op", owner |-> s,
                    attr |-> OperationAttr(sess[s].mode, sess[s].key_size)]
  <2>2. h \in Handles /\ h # Null /\ slots[h].kind = "free" /\ h # sess[s].key
    BY <1>2, <1>3, TeeCoreAssumption DEF Spare
  <2>3. /\ sess' = [sess EXCEPT ![s] = sess'[s]]
        /\ sess'[s] \in Sess
        /\ sess'[s].phase = "open" /\ sess'[s].pc = "alloc_key"
        /\ sess'[s].op = h /\ sess'[s].key_size = sess[s].key_size
    BY <1>1, <2>1, <2>2 DEF Sess
  <2>4. /\ slots' \in [Handles -> Slots]
        /\ slots'[h] = op
        /\ \A g \in Handles \ {h} :
             slots'[g] = IF g = sess[s].key THEN Free ELSE slots[g]
    <3>1. op \in Slots
      BY <1>1 DEF Slots, Attrs, OperationAttr, KeyValues, NoKey, Sess
    <3>2. \A g \in Handles :
             slots'[g] = IF g = sess[s].key THEN Free
                         ELSE IF g = h THEN op ELSE slots[g]
      BY <2>1, <2>2 DEF Release, Install
    <3>3. slots' = [g \in Handles |-> slots'[g]]
      BY <2>1 DEF Release
    <3>4. QED
      BY <2>2, <3>1, <3>2, <3>3 DEF Slots
  <2>5. TypeOK'
    BY <2>3, <2>4 DEF AllocateOperation, TypeOK
  <2>6. Local(s)
    <3>1. \A t \in Sessions \ {s} : sess'[t] = sess[t] /\ heap'[t] = heap[t]
      BY <2>3 DEF AllocateOperation
    <3>2. \A g \in Handles : slots'[g].kind # "free" /\ slots'[g].owner = s =>
            g \in OpClaim(s)' \cup KeyClaim(s)'
      BY <1>1, <2>2, <2>3, <2>4 DEF Free, Claimed, OpClaim, KeyClaim
    <3>3. \A g \in Handles :
            \/ slots'[g] = slots[g]
            \/ /\ slots[g].kind = "free" \/ slots[g].owner = s
               /\ slots'[g].kind = "free" \/ slots'[g].owner = s
      BY <1>2, <1>3, <2>2, <2>4, TeeCoreAssumption DEF Free
    <3>4. QED
      BY <3>1, <3>2, <3>3 DEF Local
  <2>7. SessInv(s)'
    <3>1. OpClaim(s)' = {h} /\ KeyClaim(s)' = {} /\ ~Idle(s)'
      BY <2>2, <2>3 DEF OpClaim, KeyClaim, Idle
    <3>2. Owns(slots, s, "op", h)'
      BY <2>2, <2>4 DEF Owns
    <3>3. Stage(s)'
      BY <1>1, <2>2, <2>3, <2>4 DEF AllocateOperation, Stage, SessInv, Attr,
         OperationAttr
    <3>4. QED
      BY <3>1, <3>2, <3>3 DEF SessInv
  <2>8. QED
    BY <2>5, <2>6, <2>7 DEF Keeps
<1>5. CASE /\ sess' = [sess EXCEPT ![s].op = Null, ![s].pc = "err"]
           /\ UNCHANGED slots
  <2>1. /\ sess' = [sess EXCEPT ![s] = sess'[s]]
        /\ sess'[s] \in Sess
        /\ sess'[s].phase = "open" /\ sess'[s].pc = "err"
        /\ sess'[s].op = Null /\ sess'[s].key = sess[s].key
    BY <1>1, <1>5 DEF Sess
  <2>2. OpClaim(s) = {} /\ OpClaim(s)' = {} /\ KeyClaim(s)' = KeyClaim(s) /\ ~Idle(s)'
    BY <1>1, <2>1 DEF OpClaim, KeyClaim, Idle
  <2>3. TypeOK'
    BY <1>5, <2>1 DEF AllocateOperation, TypeOK
  <2>4. Local(s)
    BY <1>5, <2>1, <2>2 DEF AllocateOperation, Local, Claimed
  <2>5. SessInv(s)'
    BY <1>5, <2>1, <2>2, <1>1 DEF AllocateOperation, SessInv, Stage, Owns
  <2>6. QED
    BY <2>3, <2>4, <2>5 DEF Keeps
<1>6. QED
  BY <1>4, <1>5 DEF AllocateOperation

LEMMA AllocateTransientObjectKeeps ==
  ASSUME IInv, NEW s \in Sessions, AllocateTransientObject(s)
  PROVE  Keeps(s)
<1> USE Typing
<1>1. /\ sess[s].phase = "open" /\ sess[s].pc = "alloc_key"
      /\ sess[s].key_size \in Sizes
      /\ sess[s].op # Null /\ Attr(sess[s].op).size = sess[s].key_size
  BY DEF AllocateTransientObject, SessInv, Stage
<1>2. /\ OpClaim(s) = {sess[s].op} /\ KeyClaim(s) = {}
      /\ sess[s].op \in Handles /\ slots[sess[s].op].kind = "op"
      /\ slots[sess[s].op].owner = s
  BY <1>1, OwnSlots DEF OpClaim, KeyClaim
<1>3. CASE \E h \in Spare(slots) :
             /\ sess' = [sess EXCEPT ![s].key = h, ![s].pc = "malloc"]
             /\ slots' = Install(slots, h, "obj", s, ObjectAttr(sess[s].key_size))
  <2>1. PICK h \in Spare(slots) :
             /\ sess' = [sess EXCEPT ![s].key = h, ![s].pc = "malloc"]
             /\ slots' = Install(slots, h, "obj", s, ObjectAttr(sess[s].key_size))
    BY <1>3
  <2> DEFINE obj == [kind |-> "obj", owner |-> s, attr |-> ObjectAttr(sess[s].key_size)]
  <2>2. h \in Handles /\ h # Null /\ slots[h].kind = "free" /\ h # sess[s].op
    BY <1>2, TeeCoreAssumption DEF Spare
  <2>3. /\ sess' = [sess EXCEPT ![s] = sess'[s]]
        /\ sess'[s] \in Sess
        /\ sess'[s].phase = "open" /\ sess'[s].pc = "malloc"
        /\ sess'[s].key = h /\ sess'[s].op = sess[s].op
        /\ sess'[s].key_size = sess[s].key_size
    BY <1>1, <2>1, <2>2 DEF Sess
  <2>4. /\ slots' \in [Handles -> Slots]
        /\ slots'[h] = obj
        /\ \A g \in Handles \ {h} : slots'[g] = slots[g]
    <3>1. obj \in Slots
      BY <1>1 DEF Slots, Attrs, ObjectAttr, KeyValues, NoKey
    <3>2. QED
      BY <2>1, <2>2, <3>1 DEF Install
  <2>5. TypeOK'
    BY <2>3, <2>4 DEF AllocateTransientObject, TypeOK
  <2>6. Local(s)
    <3>1. \A t \in Sessions \ {s} : sess'[t] = sess[t] /\ heap'[t] = heap[t]
      BY <2>3 DEF AllocateTransientObject
    <3>2. \A g \in Handles : slots'[g].kind # "free" /\ slots'[g].owner = s =>
            g \in OpClaim(s)' \cup KeyClaim(s)'
      BY <1>1, <1>2, <2>2, <2>3, <2>4 DEF Claimed, OpClaim, KeyClaim
    <3>3. QED
      BY <2>2, <2>4, <3>1, <3>2 DEF Local
  <2>7. SessInv(s)'
    <3>1. OpClaim(s)' = {sess[s].op} /\ KeyClaim(s)' = {h} /\ ~Idle(s)'
      BY <1>1, <2>2, <2>3 DEF OpClaim, KeyClaim, Idle
    <3>2. Owns(slots, s, "op", sess[s].op)' /\ Owns(slots, s, "obj", h)'
      BY <1>2, <2>2, <2>3, <2>4 DEF Owns
    <3>3. Stage(s)'
      BY <1>1, <1>2, <2>2, <2>3, <2>4 DEF AllocateTransientObject, Stage,
         SessInv, Attr, ObjectAttr
    <3>4. QED
      BY <2>3, <3>1, <3>2, <3>3 DEF SessInv, Owns
  <2>8. QED
    BY <2>5, <2>6, <2>7 DEF Keeps
<1>4. CASE /\ sess' = [sess EXCEPT ![s].key = Null, ![s].pc = "err"]
           /\ UNCHANGED slots
  <2>1. /\ sess' = [sess EXCEPT ![s] = sess'[s]]
        /\ sess'[s] \in Sess
        /\ sess'[s].phase = "open" /\ sess'[s].pc = "err"
        /\ sess'[s].key = Null /\ sess'[s].op = sess[s].op
    BY <1>1, <1>4 DEF Sess
  <2>2. OpClaim(s)' = OpClaim(s) /\ KeyClaim(s)' = {} /\ ~Idle(s)'
    BY <1>1, <2>1 DEF OpClaim, KeyClaim, Idle
  <2>3. TypeOK'
    BY <1>4, <2>1 DEF AllocateTransientObject, TypeOK
  <2>4. Local(s)
    BY <1>2, <1>4, <2>1, <2>2 DEF AllocateTransientObject, Local, Claimed
  <2>5. SessInv(s)'
    BY <1>1, <1>2, <1>4, <2>1, <2>2 DEF AllocateTransientObject, SessInv, Stage, Owns
  <2>6. QED
    BY <2>3, <2>4, <2>5 DEF Keeps
<1>5. QED
  BY <1>3, <1>4 DEF AllocateTransientObject

LEMMA MallocDummyKeyKeeps ==
  ASSUME IInv, NEW s \in Sessions, MallocDummyKey(s)
  PROVE  Keeps(s)
<1> USE Typing
<1>1. /\ sess[s].phase = "open" /\ sess[s].pc = "malloc"
      /\ sess[s].key_size \in Sizes
      /\ sess[s].op # Null /\ Attr(sess[s].op).size = sess[s].key_size
      /\ sess[s].key # Null /\ Attr(sess[s].key).size = sess[s].key_size
      /\ heap[s] >= 1
  BY DEF MallocDummyKey, SessInv, Stage
<1>2. /\ sess' = [sess EXCEPT ![s] = sess'[s]]
      /\ sess'[s] \in Sess
      /\ sess'[s].phase = "open" /\ sess'[s].pc \in {"load", "err"}
      /\ sess'[s].op = sess[s].op /\ sess'[s].key = sess[s].key
      /\ sess'[s].key_size = sess[s].key_size
  BY <1>1 DEF MallocDummyKey, Sess
<1>3. /\ heap' \in [Sessions -> 0..HeapBlocks]
      /\ heap'[s] >= 1
      /\ \A t \in Sessions \ {s} : heap'[t] = heap[t]
  BY <1>1 DEF MallocDummyKey
<1>4. /\ OpClaim(s)' = OpClaim(s) /\ KeyClaim(s)' = KeyClaim(s)
      /\ ~Idle(s)' /\ slots' = slots
  BY <1>1, <1>2 DEF MallocDummyKey, OpClaim, KeyClaim, Idle
<1>5. TypeOK'
  BY <1>2, <1>3 DEF MallocDummyKey, TypeOK
<1>6. Local(s)
  BY <1>2, <1>3, <1>4 DEF Local, Claimed
<1>7. SessInv(s)'
  BY <1>1, <1>2, <1>3, <1>4 DEF SessInv, Stage, Owns, Attr
<1>8. QED
  BY <1>5, <1>6, <1>7 DEF Keeps

(* A step that rewrites the contents of the two slots a session holds.     *)
Rewrites(s, opAttr, objAttr) ==
  /\ sess[s].phase = "open" /\ sess[s].pc \in {"idle", "load"}
  /\ sess[s].op # Null /\ sess[s].key # Null
  /\ opAttr \in Attrs /\ objAttr \in Attrs
  /\ opAttr.size = slots[sess[s].op].attr.size
  /\ objAttr.size = slots[sess[s].key].attr.size
  /\ opAttr.key # NoKey /\ opAttr.key.size <= opAttr.size
  /\ slots'[sess[s].op] = [kind |-> "op", owner |-> s, attr |-> opAttr]
  /\ slots'[sess[s].key] = [kind |-> "obj", owner |-> s, attr |-> objAttr]
  /\ \A h \in Handles \ {sess[s].op, sess[s].key} : slots'[h] = slots[h]
  /\ slots' = [h \in Handles |-> slots'[h]]
  /\ sess' = sess \/ sess' = [sess EXCEPT ![s].pc = "idle"]
  /\ UNCHANGED heap
  /\ reply' \in Replies

LEMMA ContentsKeep ==
  ASSUME IInv, NEW s \in Sessions, NEW opAttr, NEW objAttr,
         Rewrites(s, opAttr, objAttr)
  PROVE  Keeps(s)
<1> USE Typing DEF Rewrites
<1> DEFINE o == sess[s].op
           k == sess[s].key
<1>1. OpClaim(s) = {o} /\ KeyClaim(s) = {k}
  BY DEF OpClaim, KeyClaim
<1>2. /\ o \in Handles /\ slots[o].kind = "op" /\ slots[o].owner = s
      /\ k \in Handles /\ slots[k].kind = "obj" /\ slots[k].owner = s
      /\ o # k
  BY <1>1, OwnSlots
<1>3. slots[o].attr.size = slots[k].attr.size
  BY DEF SessInv, Stage, Idle, Attr
<1>4. slots' \in [Handles -> Slots]
  <2>1. slots'[o] \in Slots /\ slots'[k] \in Slots
    BY DEF Slots
  <2>2. QED
    BY <2>1
<1>5. /\ sess' = [sess EXCEPT ![s] = sess'[s]]
      /\ sess'[s] \in Sess
      /\ sess'[s].phase = "open" /\ sess'[s].pc \in {"idle", "load"}
      /\ sess'[s].op = o /\ sess'[s].key = k
      /\ sess'[s].key_size = sess[s].key_size
      /\ sess'[s].pc = "load" => sess[s].pc = "load"
  BY SMTT(30) DEF Sess
<1>6. TypeOK'
  BY <1>4, <1>5 DEF TypeOK
<1>7. OpClaim(s)' = {o} /\ KeyClaim(s)' = {k}
  BY <1>5 DEF OpClaim, KeyClaim
<1>8. Local(s)
  <2>1. \A h \in Handles : slots'[h].kind # "free" /\ slots'[h].owner = s =>
          h \in OpClaim(s)' \cup KeyClaim(s)'
    BY <1>1, <1>7 DEF Claimed
  <2>2. \A t \in Sessions \ {s} : sess'[t] = sess[t] /\ heap'[t] = heap[t]
    BY <1>5
  <2>3. QED
    BY <1>2, <2>1, <2>2 DEF Local
<1>9. SessInv(s)'
  <2>1. /\ \A h \in OpClaim(s)' : Owns(slots, s, "op", h)'
        /\ \A h \in KeyClaim(s)' : Owns(slots, s, "obj", h)'
    BY <1>2, <1>7 DEF Owns
  <2>2. heap'[s] >= 1
    BY DEF SessInv, Stage
  <2>3. sess[s].pc = "load" =>
          sess[s].key_size \in Sizes /\ slots[o].attr.size = sess[s].key_size
    BY DEF SessInv, Stage, Attr
  <2>4. Stage(s)'
    BY <1>3, <1>5, <2>2, <2>3 DEF Stage, Attr
  <2>5. Idle(s)' => (sess'[s].op = Null <=> sess'[s].key = Null)
    BY <1>5
  <2>6. /\ slots'[sess'[s].op].attr = opAttr
        /\ slots'[sess'[s].key].attr = objAttr
        /\ opAttr.size = objAttr.size
    BY <1>3, <1>5
  <2>7. QED
    BY <2>1, <2>4, <2>5, <2>6 DEF SessInv, Attr
<1>10. QED
  BY <1>6, <1>8, <1>9 DEF Keeps

LEMMA LoadDummyKeyKeeps ==
  ASSUME IInv, NEW s \in Sessions, LoadDummyKey(s)
  PROVE  Keeps(s)
<1> USE Typing
<1> DEFINE o == sess[s].op
           k == sess[s].key
           dummy == DummyKey(sess[s].key_size)
<1>1. /\ sess[s].phase = "open" /\ sess[s].pc = "load"
      /\ sess[s].key_size \in Sizes
      /\ o # Null /\ Attr(o).size = sess[s].key_size
      /\ k # Null /\ Attr(k).size = sess[s].key_size
      /\ heap[s] >= 1
  BY DEF LoadDummyKey, SessInv, Stage
<1>2. /\ OpClaim(s) = {o} /\ KeyClaim(s) = {k}
      /\ o \in Handles /\ slots[o].attr \in Attrs /\ slots[o].kind = "op"
      /\ k \in Handles /\ slots[k].attr \in Attrs /\ slots[k].kind = "obj"
      /\ slots[o].owner = s /\ slots[k].owner = s
      /\ slots[o] \in Slots /\ slots[k] \in Slots
  BY <1>1, OwnSlots DEF OpClaim, KeyClaim
<1>3. CASE /\ sess' = [sess EXCEPT ![s].pc = "idle"]
           /\ slots' = [slots EXCEPT ![k].attr.key = dummy, ![o].attr.key = dummy]
           /\ Answer(s, "prepare", "OK", Null)
  <2> DEFINE opAttr == [slots[o].attr EXCEPT !.key = dummy]
             objAttr == [slots[k].attr EXCEPT !.key = dummy]
  <2>1. dummy \in KeyValues /\ dummy # NoKey /\ dummy.size = sess[s].key_size
    BY <1>1 DEF DummyKey, KeyValues, NoKey, Sizes
  <2>2. reply' \in Replies
    BY <1>3 DEF Answer, Replies, Commands, Results
  <2>3. /\ opAttr \in Attrs /\ objAttr \in Attrs
        /\ opAttr.size = slots[o].attr.size /\ objAttr.size = slots[k].attr.size
        /\ opAttr.key = dummy
    BY <1>2, <2>1 DEF Attrs
  <2>4. /\ slots'[o] = [slots[o] EXCEPT !.attr = opAttr]
        /\ slots'[k] = [slots[k] EXCEPT !.attr = objAttr]
        /\ \A h \in Handles \ {o, k} : slots'[h] = slots[h]
        /\ slots' = [h \in Handles |-> slots'[h]]
    <3> HIDE DEF o, k, dummy
    <3>1. QED
      BY <1>2, <1>3
  <2>5. /\ slots'[o] = [kind |-> "op", owner |-> s, attr |-> opAttr]
        /\ slots'[k] = [kind |-> "obj", owner |-> s, attr |-> objAttr]
    BY <1>2, <2>4 DEF Slots, Free
  <2>6. opAttr.key.size <= opAttr.size
    BY <1>1, <2>1, <2>3 DEF Attr, Sizes
  <2>7. UNCHANGED heap
    BY DEF LoadDummyKey
  <2> HIDE DEF opAttr, objAttr, dummy
  <2>8. Rewrites(s, opAttr, objAttr)
    BY <1>1, <1>3, <2>1, <2>2, <2>3, <2>4, <2>5, <2>6, <2>7 DEF Rewrites
  <2>9. QED
    BY <2>8, ContentsKeep
<1>4. CASE /\ sess' = [sess EXCEPT ![s].pc = "err"]
           /\ UNCHANGED <<slots, reply>>
  <2>1. /\ sess' = [sess EXCEPT ![s] = sess'[s]]
        /\ sess'[s] \in Sess
        /\ sess'[s].phase = "open" /\ sess'[s].pc = "err"
        /\ sess'[s].key = k /\ sess'[s].op = o
    BY <1>1, <1>4 DEF Sess
  <2>2. /\ OpClaim(s)' = OpClaim(s) /\ KeyClaim(s)' = KeyClaim(s)
        /\ ~Idle(s)' /\ heap' = heap
    BY <1>1, <2>1 DEF LoadDummyKey, OpClaim, KeyClaim, Idle
  <2>3. TypeOK'
    BY <1>4, <2>1, <2>2 DEF TypeOK
  <2>4. Local(s)
    BY <1>4, <2>1, <2>2 DEF Local, Claimed
  <2>5. SessInv(s)'
    BY <1>1, <1>4, <2>1, <2>2 DEF SessInv, Stage, Owns
  <2>6. QED
    BY <2>3, <2>4, <2>5 DEF Keeps
<1>5. QED
  BY <1>3, <1>4 DEF LoadDummyKey

(* A step that leaves s without handles and the pool without slots of s.   *)
Empties(s, x, n) ==
  /\ x \in Sess /\ x.pc = "idle" /\ x.op = Null /\ x.key = Null
  /\ n \in 0..HeapBlocks
  /\ x.phase = "open" => n >= 1
  /\ sess' = [sess EXCEPT ![s] = x]
  /\ heap' = [heap EXCEPT ![s] = n]
  /\ slots' = Reclaim(slots, s)
  /\ reply' \in Replies

LEMMA EmptiesKeeps ==
  ASSUME IInv, NEW s \in Sessions, NEW x, NEW n, Empties(s, x, n)
  PROVE  Keeps(s)
<1> USE Typing DEF Empties
<1>1. /\ slots' \in [Handles -> Slots]
      /\ \A h \in Handles : slots'[h] = IF slots[h].owner = s THEN Free ELSE slots[h]
  BY DEF Reclaim, Slots
<1>2. TypeOK'
  BY <1>1 DEF TypeOK
<1>3. Local(s)
  <2>1. \A h \in Handles : slots'[h].owner # s \/ slots'[h].kind = "free"
    BY <1>1 DEF Free
  <2>2. \A t \in Sessions \ {s} : sess'[t] = sess[t] /\ heap'[t] = heap[t]
    OBVIOUS
  <2>3. \A h \in Handles : \/ slots'[h] = slots[h]
                           \/ slots[h].owner = s /\ slots'[h].kind = "free"
    BY <1>1 DEF Free
  <2>4. QED
    BY <2>1, <2>2, <2>3 DEF Local
<1>4. SessInv(s)'
  BY DEF SessInv, Stage, OpClaim, KeyClaim, Idle
<1>5. QED
  BY <1>2, <1>3, <1>4 DEF Keeps

(* When no handle of s is stale, freeing what it holds is freeing all that *)
(* it owns.                                                                *)
LEMMA ReleaseHeld ==
  ASSUME IInv, NEW s \in Sessions, sess[s].pc \in {"idle", "err"}
  PROVE  Release(slots, Held(s)) = Reclaim(slots, s)
<1>1. OpClaim(s) \cup KeyClaim(s) = Held(s)
  BY DEF OpClaim, KeyClaim, Held
<1>2. \A h \in Held(s) : h \in Handles /\ slots[h].owner = s
  BY <1>1, OwnSlots
<1>3. \A h \in Handles : slots[h].owner = s => h \in Held(s)
  <2>1. SUFFICES ASSUME NEW h \in Handles, slots[h].owner = s PROVE h \in Held(s)
    OBVIOUS
  <2>2. slots[h].kind # "free"
    BY <2>1, TeeCoreAssumption, Typing DEF Slots, Free
  <2>3. QED
    BY <1>1, <2>1, <2>2, Typing DEF Claimed
<1>4. QED
  BY <1>2, <1>3 DEF Release, Reclaim

LEMMA PanicKeeps ==
  ASSUME IInv, NEW s \in Sessions, NEW cmd \in Commands, Panic(s, cmd)
  PROVE  Keeps(s)
<1> DEFINE x == [Closed EXCEPT !.phase = "dead"]
<1>1. /\ x \in Sess /\ x.pc = "idle" /\ x.op = Null /\ x.key = Null
      /\ x.phase = "dead"
  BY DEF Closed, Sess
<1>2. reply' \in Replies
  BY DEF Panic, Answer, Replies, Results
<1>3. Empties(s, x, 0)
  BY <1>1, <1>2, Typing DEF Panic, Empties
<1>4. QED
  BY <1>3, EmptiesKeeps

LEMMA PrepareErrorKeeps ==
  ASSUME IInv, NEW s \in Sessions, PrepareError(s)
  PROVE  Keeps(s)
<1> USE Typing
<1> DEFINE x == [sess[s] EXCEPT !.op = Null, !.key = Null, !.pc = "idle"]
<1>1. /\ x \in Sess /\ x.pc = "idle" /\ x.op = Null /\ x.key = Null
      /\ x.phase = sess[s].phase /\ sess' = [sess EXCEPT ![s] = x]
  BY DEF PrepareError, Sess
<1>2. reply' \in Replies
  BY DEF PrepareError, Answer, Replies, Commands, Results
<1>3. heap' = [heap EXCEPT ![s] = heap[s]] /\ (x.phase = "open" => heap[s] >= 1)
  BY <1>1 DEF PrepareError, SessInv, Stage
<1>4. slots' = Reclaim(slots, s)
  BY ReleaseHeld DEF PrepareError
<1>5. Empties(s, x, heap[s])
  BY <1>1, <1>2, <1>3, <1>4 DEF Empties
<1>6. QED
  BY <1>5, EmptiesKeeps

LEMMA CloseKeeps ==
  ASSUME IInv, NEW s \in Sessions, TA_CloseSessionEntryPoint(s)
  PROVE  Keeps(s)
<1> USE Typing
<1> DEFINE x == [Closed EXCEPT !.phase = "destroying"]
<1>1. /\ x \in Sess /\ x.pc = "idle" /\ x.op = Null /\ x.key = Null
      /\ x.phase = "destroying"
  BY DEF Closed, Sess
<1>2. heap' = [heap EXCEPT ![s] = heap[s] - 1] /\ heap[s] - 1 \in 0..HeapBlocks
  BY DEF TA_CloseSessionEntryPoint, SessInv, Stage, Idle
<1>3. slots' = Reclaim(slots, s)
  BY ReleaseHeld DEF TA_CloseSessionEntryPoint, Idle
<1>4. Empties(s, x, heap[s] - 1)
  BY <1>1, <1>2, <1>3 DEF Empties, TA_CloseSessionEntryPoint
<1>5. QED
  BY <1>4, EmptiesKeeps

LEMMA DestroyKeeps ==
  ASSUME IInv, NEW s \in Sessions, DestroyInstance(s)
  PROVE  Keeps(s)
<1> USE Typing
<1>1. /\ Closed \in Sess /\ Closed.pc = "idle" /\ Closed.op = Null
      /\ Closed.key = Null /\ Closed.phase = "closed"
  BY DEF Closed, Sess
<1>2. Empties(s, Closed, 0)
  BY <1>1 DEF Empties, DestroyInstance
<1>3. QED
  BY <1>2, EmptiesKeeps
-----------------------------------------------------------------------------
(* A session that is idle and holds one handle holds both, and its slots   *)
(* are what the invariant says.                                            *)
LEMMA IdleSession ==
  ASSUME IInv, NEW s \in Sessions, Idle(s),
         sess[s].op # Null \/ sess[s].key # Null
  PROVE  LET o == sess[s].op
             k == sess[s].key
         IN  /\ o # Null /\ o \in Handles /\ slots[o] \in Slots
             /\ slots[o].kind = "op" /\ slots[o].owner = s
             /\ slots[o].attr \in Attrs
             /\ k # Null /\ k \in Handles /\ slots[k] \in Slots
             /\ slots[k].kind = "obj" /\ slots[k].owner = s
             /\ slots[k].attr \in Attrs
             /\ slots[o].attr.key # NoKey
             /\ slots[o].attr.size = slots[k].attr.size
             /\ slots[o].attr.key.size <= slots[o].attr.size
<1> USE Typing
<1> DEFINE o == sess[s].op
           k == sess[s].key
<1>1. o # Null /\ k # Null
  BY DEF SessInv
<1>2. o \in OpClaim(s) /\ k \in KeyClaim(s)
  BY <1>1 DEF Idle, OpClaim, KeyClaim
<1>3. /\ o \in Handles /\ slots[o] \in Slots
      /\ slots[o].kind = "op" /\ slots[o].owner = s /\ slots[o].attr \in Attrs
      /\ k \in Handles /\ slots[k] \in Slots
      /\ slots[k].kind = "obj" /\ slots[k].owner = s /\ slots[k].attr \in Attrs
  BY <1>2, OwnSlots
<1>4. /\ slots[o].attr.key # NoKey
      /\ slots[o].attr.size = slots[k].attr.size
      /\ slots[o].attr.key.size <= slots[o].attr.size
  BY <1>1 DEF SessInv, Attr
<1>5. QED
  BY <1>1, <1>3, <1>4

(* The commands that rewrite the contents of the held slots: it is enough  *)
(* to say what the two records become.                                     *)
LEMMA IdleContentsKeep ==
  ASSUME IInv, NEW s \in Sessions, Idle(s),
         sess[s].op # Null \/ sess[s].key # Null,
         NEW opAttr \in Attrs, NEW objAttr \in Attrs,
         opAttr.size = slots[sess[s].op].attr.size,
         objAttr.size = slots[sess[s].key].attr.size,
         opAttr.key # NoKey, opAttr.key.size <= opAttr.size,
         slots' = [slots EXCEPT ![sess[s].op].attr = opAttr,
                                ![sess[s].key].attr = objAttr],
         UNCHANGED <<sess, heap>>, reply' \in Replies
  PROVE  Keeps(s)
<1> DEFINE o == sess[s].op
           k == sess[s].key
<1>1. /\ o # Null /\ o \in Handles /\ slots[o] \in Slots
      /\ slots[o].kind = "op" /\ slots[o].owner = s
      /\ k # Null /\ k \in Handles /\ slots[k] \in Slots
      /\ slots[k].kind = "obj" /\ slots[k].owner = s
  BY IdleSession
<1>2. slots \in [Handles -> Slots]
  BY Typing
<1>3. /\ slots'[o] = [slots[o] EXCEPT !.attr = opAttr]
      /\ slots'[k] = [slots[k] EXCEPT !.attr = objAttr]
      /\ \A h \in Handles \ {o, k} : slots'[h] = slots[h]
      /\ slots' = [h \in Handles |-> slots'[h]]
  <2> HIDE DEF o, k
  <2>1. slots' = [slots EXCEPT ![o].attr = opAttr, ![k].attr = objAttr]
    BY DEF o, k
  <2>2. o # k
    BY <1>1
  <2>3. QED
    BY <1>1, <1>2, <2>1, <2>2
<1>4. /\ slots'[o] = [kind |-> "op", owner |-> s, attr |-> opAttr]
      /\ slots'[k] = [kind |-> "obj", owner |-> s, attr |-> objAttr]
  BY <1>1, <1>3 DEF Slots, Free
<1>5. Rewrites(s, opAttr, objAttr)
  BY <1>1, <1>3, <1>4 DEF Rewrites, Idle
<1>6. QED
  BY <1>5, ContentsKeep

LEMMA SetKeyNotPopulatedKeeps ==
  ASSUME IInv, NEW s \in Sessions, NEW c \in ClientKeys, SetKeyNotPopulated(s, c)
  PROVE  Keeps(s)
<1> DEFINE o == sess[s].op
           k == sess[s].key
           objAttr == [slots[k].attr EXCEPT !.key = NoKey]
<1>1. Idle(s) /\ k # Null
  BY DEF SetKeyNotPopulated
<1>2. /\ o \in Handles /\ slots[o] \in Slots /\ slots[o].attr \in Attrs
      /\ slots[o].kind = "op"
      /\ k \in Handles /\ slots[k] \in Slots /\ slots[k].attr \in Attrs
      /\ slots[k].kind = "obj"
      /\ slots[o].attr.key # NoKey
      /\ slots[o].attr.key.size <= slots[o].attr.size
  BY <1>1, IdleSession
<1>3. /\ objAttr \in Attrs /\ objAttr.size = slots[k].attr.size
  BY <1>2 DEF Attrs, KeyValues, NoKey
<1>4. slots' = [slots EXCEPT ![o].attr = slots[o].attr, ![k].attr = objAttr]
  <2>1. slots' = [slots EXCEPT ![k].attr.key = NoKey]
    BY DEF SetKeyNotPopulated
  <2>2. slots[o] = [slots[o] EXCEPT !.attr = slots[o].attr] /\ o # k
    BY <1>2 DEF Slots, Free
  <2> HIDE DEF o, k
  <2>3. slots' = [slots EXCEPT ![k] = [slots[k] EXCEPT !.attr =
                                         [slots[k].attr EXCEPT !.key = NoKey]]]
    BY <2>1
  <2>4. QED
    BY <1>2, <2>2, <2>3, Typing DEF objAttr
<1>5. UNCHANGED <<sess, heap>> /\ reply' \in Replies
  BY DEF SetKeyNotPopulated, Answer, Replies, Commands, Results
<1> HIDE DEF objAttr
<1>6. QED
  BY <1>1, <1>2, <1>3, <1>4, <1>5, IdleContentsKeep

LEMMA SetKeyLoadedKeeps ==
  ASSUME IInv, NEW s \in Sessions, NEW c \in ClientKeys, SetKeyLoaded(s, c)
  PROVE  Keeps(s)
<1> DEFINE o == sess[s].op
           k == sess[s].key
           objAttr == [slots[k].attr EXCEPT !.key = c]
           opNew == [slots[o].attr EXCEPT !.key = c, !.iv = Null]
           opOld == [slots[o].attr EXCEPT !.iv = Null]
<1>1. Idle(s) /\ k # Null /\ c.size <= slots[k].attr.size
  BY DEF SetKeyLoaded, Attr
<1>2. /\ o \in Handles /\ slots[o] \in Slots /\ slots[o].attr \in Attrs
      /\ slots[o].kind = "op"
      /\ k \in Handles /\ slots[k] \in Slots /\ slots[k].attr \in Attrs
      /\ slots[k].kind = "obj"
      /\ slots[o].attr.key # NoKey
      /\ slots[o].attr.size = slots[k].attr.size
      /\ slots[o].attr.key.size <= slots[o].attr.size
  BY <1>1, IdleSession
<1>3. c \in KeyValues /\ c # NoKey
  BY AesAssumption DEF ClientKeys, KeyValues, NoKey
<1>4. /\ objAttr \in Attrs /\ objAttr.size = slots[k].attr.size
      /\ opNew \in Attrs /\ opNew.size = slots[o].attr.size /\ opNew.key = c
      /\ opOld \in Attrs /\ opOld.size = slots[o].attr.size
      /\ opOld.key = slots[o].attr.key
  BY <1>2, <1>3 DEF Attrs
<1>5. UNCHANGED <<sess, heap>> /\ reply' \in Replies
  <2>1. Answer(s, "set_key", "OK", c) \/ Answer(s, "set_key", "FAIL", c)
    BY Zenon DEF SetKeyLoaded
  <2>2. reply' \in Replies
    BY <2>1 DEF Answer, Replies, Commands, Results
  <2>3. QED
    BY <2>2 DEF SetKeyLoaded
<1>6. CASE slots' = [slots EXCEPT ![k].attr.key = c, ![o].attr.key = c,
                                  ![o].attr.iv = Null]
  <2>1. slots' = [slots EXCEPT ![o].attr = opNew, ![k].attr = objAttr]
    <3>1. o # k
      BY <1>2
    <3> HIDE DEF o, k
    <3>2. slots' = [slots EXCEPT ![k] = [slots[k] EXCEPT !.attr = objAttr],
                                 ![o] = [slots[o] EXCEPT !.attr =
                       [[slots[o].attr EXCEPT !.key = c] EXCEPT !.iv = Null]]]
      BY <1>2, <1>6, <3>1, Typing
    <3>3. [[slots[o].attr EXCEPT !.key = c] EXCEPT !.iv = Null] = opNew
      BY <1>2 DEF Attrs
    <3> HIDE DEF opNew, objAttr
    <3>4. QED
      BY <1>2, <3>1, <3>2, <3>3, Typing
  <2> HIDE DEF opNew, objAttr
  <2>2. opNew.key # NoKey /\ opNew.key.size <= opNew.size
    BY <1>1, <1>2, <1>3, <1>4
  <2>3. QED
    BY <1>1, <1>4, <1>5, <2>1, <2>2, IdleContentsKeep
<1>7. CASE slots' = [slots EXCEPT ![k].attr.key = c, ![o].attr.iv = Null]
  <2>1. slots' = [slots EXCEPT ![o].attr = opOld, ![k].attr = objAttr]
    <3>1. o # k
      BY <1>2
    <3> HIDE DEF o, k
    <3>2. QED
      BY <1>2, <1>7, <3>1, Typing
  <2> HIDE DEF opOld, objAttr
  <2>2. opOld.key # NoKey /\ opOld.key.size <= opOld.size
    BY <1>2, <1>4
  <2>3. QED
    BY <1>1, <1>4, <1>5, <2>1, <2>2, IdleContentsKeep
<1>8. QED
  BY <1>6, <1>7 DEF SetKeyLoaded

LEMMA ResetIvKeeps ==
  ASSUME IInv, NEW s \in Sessions, NEW iv \in Ivs \cup {Null},
         reset_aes_iv(s, iv)
  PROVE  Keeps(s)
<1> DEFINE o == sess[s].op
           k == sess[s].key
           opAttr == [slots[o].attr EXCEPT !.iv = iv]
<1>1. CASE Panic(s, "set_iv")
  BY <1>1, PanicKeeps DEF Commands
<1>2. CASE /\ o # Null /\ iv # Null
           /\ slots' = [slots EXCEPT ![o].attr.iv = iv]
           /\ Answer(s, "set_iv", "OK", Null)
           /\ UNCHANGED <<sess, heap>>
  <2>1. Idle(s)
    BY DEF reset_aes_iv
  <2>2. /\ o \in Handles /\ slots[o] \in Slots /\ slots[o].attr \in Attrs
        /\ slots[o].kind = "op"
        /\ k \in Handles /\ slots[k] \in Slots /\ slots[k].attr \in Attrs
        /\ slots[k].kind = "obj"
        /\ slots[o].attr.key # NoKey
        /\ slots[o].attr.key.size <= slots[o].attr.size
    BY <1>2, <2>1, IdleSession
  <2>3. /\ opAttr \in Attrs /\ opAttr.size = slots[o].attr.size
        /\ opAttr.key = slots[o].attr.key
    BY <2>2 DEF Attrs
  <2>4. slots' = [slots EXCEPT ![o].attr = opAttr, ![k].attr = slots[k].attr]
    <3>1. o # k /\ slots[k] = [slots[k] EXCEPT !.attr = slots[k].attr]
      BY <2>2 DEF Slots, Free
    <3> HIDE DEF o, k
    <3>2. slots' = [slots EXCEPT ![o] = [slots[o] EXCEPT !.attr =
                                           [slots[o].attr EXCEPT !.iv = iv]]]
      BY <1>2
    <3>3. QED
      BY <2>2, <3>1, <3>2, Typing
  <2>5. reply' \in Replies
    BY <1>2 DEF Answer, Replies, Commands, Results
  <2> HIDE DEF opAttr
  <2>6. QED
    BY <1>2, <2>1, <2>2, <2>3, <2>4, <2>5, IdleContentsKeep
<1>3. QED
  BY <1>1, <1>2 DEF reset_aes_iv

LEMMA SetKeyKeeps ==
  ASSUME IInv, NEW s \in Sessions, NEW c \in ClientKeys, set_aes_key(s, c)
  PROVE  Keeps(s)
<1>1. CASE SetKeyRefused(s, c)
  BY <1>1, AnswerKeeps DEF SetKeyRefused, Answer, Replies, Commands, Results
<1>2. CASE SetKeyPanics(s, c)
  BY <1>2, PanicKeeps DEF SetKeyPanics, Commands
<1>3. CASE SetKeyNotPopulated(s, c)
  BY <1>3, SetKeyNotPopulatedKeeps
<1>4. CASE SetKeyLoaded(s, c)
  BY <1>4, SetKeyLoadedKeeps
<1>5. QED
  BY <1>1, <1>2, <1>3, <1>4 DEF set_aes_key

LEMMA UnservedKeeps ==
  ASSUME IInv, NEW s \in Sessions, SetIvRefused(s) \/ NotSupported(s)
  PROVE  Keeps(s)
BY AnswerKeeps
   DEF SetIvRefused, NotSupported, Answer, Replies, Commands, Results

LEMMA CipherKeeps ==
  ASSUME IInv, NEW s \in Sessions, NEW fits \in BOOLEAN, cipher_buffer(s, fits)
  PROVE  Keeps(s)
<1>1. CASE CipherRefused(s, fits)
  BY <1>1, AnswerKeeps DEF CipherRefused, Answer, Replies, Commands, Results
<1>2. CASE CipherUpdate(s, fits)
  <2> DEFINE stream == [mode |-> Attr(sess[s].op).mode,
                        key |-> Attr(sess[s].op).key, iv |-> Attr(sess[s].op).iv]
  <2>1. CASE Panic(s, "cipher")
    BY <2>1, PanicKeeps DEF Commands
  <2>2. CASE Answer(s, "cipher", "OK", stream) /\ UNCHANGED <<sess, slots, heap>>
    <3>1. slots[sess[s].op].attr \in Attrs
      BY <1>2, IdleSession DEF CipherUpdate
    <3>2. stream \in Streams
      BY <3>1 DEF Streams, Attrs, Attr
    <3>3. reply' \in Replies
      BY <2>2, <3>2 DEF Answer, Replies, Commands, Results
    <3>4. QED
      BY <2>2, <3>3, AnswerKeeps
  <2>3. QED
    BY <1>2, <2>1, <2>2 DEF CipherUpdate
<1>3. QED
  BY <1>1, <1>2 DEF cipher_buffer
-----------------------------------------------------------------------------
(* IInv is inductive.                                                      *)

LEMMA InitIInv == Init => IInv
<1> SUFFICES ASSUME Init PROVE IInv
  OBVIOUS
<1> USE DEF Init, Closed, Free
<1>1. TypeOK
  <2>1. sess \in [Sessions -> Sess]
    BY DEF Sess
  <2>2. slots \in [Handles -> Slots] /\ heap \in [Sessions -> 0..HeapBlocks]
    BY AesAssumption DEF Slots
  <2>3. reply \in Replies
    BY DEF Replies, NoReply, Commands, Results
  <2>4. QED
    BY <2>1, <2>2, <2>3 DEF TypeOK
<1>2. ASSUME NEW s \in Sessions PROVE SessInv(s)
  BY DEF SessInv, OpClaim, KeyClaim, Stage, Idle
<1>3. ASSUME NEW h \in Handles PROVE Claimed(h)
  BY DEF Claimed
<1>4. QED
  BY <1>1, <1>2, <1>3 DEF IInv

LEMMA StepIInv == IInv /\ [Next]_vars => IInv'
<1> SUFFICES ASSUME IInv, [Next]_vars PROVE IInv'
  OBVIOUS
<1>1. ASSUME NEW s \in Sessions, Keeps(s) PROVE IInv'
  BY <1>1, Frame DEF Keeps
<1>2. CASE UNCHANGED vars
  BY <1>2 DEF vars, IInv, TypeOK, SessInv, Claimed, OpClaim, KeyClaim, Owns,
     Stage, Idle, Attr
<1>3. ASSUME NEW s \in Sessions, TA_OpenSessionEntryPoint(s) PROVE Keeps(s)
  BY <1>3, OpenKeeps
<1>4. ASSUME NEW s \in Sessions, TA_InvokeCommandEntryPoint(s) PROVE Keeps(s)
  BY <1>4, PrepareRefusedKeeps, PrepareStartKeeps, SetKeyKeeps, ResetIvKeeps,
     UnservedKeeps, CipherKeeps DEF TA_InvokeCommandEntryPoint, alloc_resources
<1>5. ASSUME NEW s \in Sessions, Handler(s) PROVE Keeps(s)
  BY <1>5, AllocateOperationKeeps, AllocateTransientObjectKeeps,
     MallocDummyKeyKeeps, LoadDummyKeyKeeps, PrepareErrorKeeps DEF Handler
<1>6. ASSUME NEW s \in Sessions, TA_CloseSessionEntryPoint(s) PROVE Keeps(s)
  BY <1>6, CloseKeeps
<1>7. ASSUME NEW s \in Sessions, DestroyInstance(s) PROVE Keeps(s)
  BY <1>7, DestroyKeeps
<1>8. QED
  BY <1>1, <1>2, <1>3, <1>4, <1>5, <1>6, <1>7 DEF Next

(* What the runs check follows from it.                                    *)
LEMMA IInvImplies ==
  IInv => /\ TypeOK /\ NoStaleHandle /\ NoLeak /\ BothOrNeither
          /\ ResetAllowed /\ SizesAgree /\ Stages
<1> SUFFICES ASSUME IInv
    PROVE /\ TypeOK /\ NoStaleHandle /\ NoLeak /\ BothOrNeither
          /\ ResetAllowed /\ SizesAgree /\ Stages
  OBVIOUS
<1>1. TypeOK /\ NoStaleHandle /\ BothOrNeither /\ ResetAllowed /\ SizesAgree
             /\ Stages
  BY DEF IInv, SessInv, NoStaleHandle, BothOrNeither, ResetAllowed,
     SizesAgree, Stages
<1>2. NoLeak
  <2>1. SUFFICES ASSUME NEW h \in Handles, slots[h].kind # "free"
        PROVE \E s \in Sessions : h \in OpClaim(s) \cup KeyClaim(s)
    BY DEF NoLeak, Live
  <2>2. slots[h].owner \in Sessions
    BY <2>1 DEF IInv, TypeOK, Slots, Free
  <2>3. QED
    BY <2>1, <2>2 DEF IInv, Claimed
<1>3. QED
  BY <1>1, <1>2

LEMMA Inductive == Spec => []IInv
BY InitIInv, StepIInv, PTL DEF Spec
-----------------------------------------------------------------------------
(* Every variable of the AES TA keeps to its type, whatever calls fail.    *)
THEOREM TypeCorrect == Spec => []TypeOK
BY Inductive, IInvImplies, PTL

(* The handles in struct aes_cipher are live, of the right kind and the    *)
(* session's own, however PREPAREs of other sessions interleave with the   *)
(* free-then-allocate sequence of alloc_resources.                         *)
THEOREM HandlesNeverStale == Spec => []NoStaleHandle
BY Inductive, IInvImplies, PTL

(* No path of the TA, panics and the err label included, leaves a slot of  *)
(* the pool that no session can reach.                                     *)
THEOREM PoolNeverLeaks == Spec => []NoLeak
BY Inductive, IInvImplies, PTL

(* Between commands a session has an operation exactly when it has a key   *)
(* object, which is why cipher_buffer need only check the operation.       *)
THEOREM HandlesPaired == Spec => []BothOrNeither
BY Inductive, IInvImplies, PTL

(* TEE_ResetOperation in set_aes_key never meets an operation that was     *)
(* given no key, the case alloc_resources loads a dummy key against.       *)
THEOREM ResetNeverPanics == Spec => []ResetAllowed
BY Inductive, IInvImplies, PTL

(* The operation and object of a session agree in size, and no key loaded  *)
(* by SET_KEY outgrows them, although the session's key_size may differ.   *)
THEOREM NoKeyOutgrows == Spec => []SizesAgree
BY Inductive, IInvImplies, PTL

(* No failure path of alloc_resources falls through to a later call.       *)
THEOREM StagesHold == Spec => []Stages
BY Inductive, IInvImplies, PTL
-----------------------------------------------------------------------------
(* AesTA implements AesService.                                            *)

Svc == [s \in Sessions |-> Service(s)]

(* A PREPARE under way asks for a mode and a size the service knows, and   *)
(* the operation it has got so far is for these.                           *)
Asked(s) ==
  /\ sess[s].pc \notin {"idle", "err"} => sess[s].mode \in Modes
  /\ sess[s].pc \in {"alloc_key", "malloc", "load"} =>
       Attr(sess[s].op) = OperationAttr(sess[s].mode, sess[s].key_size)

JInv == IInv /\ \A s \in Sessions : Asked(s)

(* The slots of another session stay as they are.                          *)
LEMMA OthersKept ==
  ASSUME IInv, NEW s \in Sessions, Keeps(s), NEW t \in Sessions \ {s}
  PROVE  /\ sess'[t] = sess[t]
         /\ sess[t].pc # "alloc_op" /\ sess[t].op # Null =>
              Attr(sess[t].op)' = Attr(sess[t].op)
<1>1. sess'[t] = sess[t]
  BY DEF Keeps, Local
<1>2. ASSUME sess[t].pc # "alloc_op", sess[t].op # Null
      PROVE  slots'[sess[t].op] = slots[sess[t].op]
  <2>1. sess[t].op \in OpClaim(t)
    BY <1>2 DEF OpClaim
  <2>2. /\ sess[t].op \in Handles
        /\ slots[sess[t].op].kind = "op" /\ slots[sess[t].op].owner = t
    BY <2>1, OwnSlots
  <2>3. QED
    BY <2>2 DEF Keeps, Local
<1>3. QED
  BY <1>1, <1>2 DEF Attr

LEMMA Others ==
  ASSUME IInv, NEW s \in Sessions, Keeps(s), NEW t \in Sessions \ {s}
  PROVE  Service(t)' = Service(t)
BY OthersKept DEF Service

(* What a step of s is to the service.                                     *)
LEMMA Mapped ==
  ASSUME IInv, NEW s \in Sessions, Keeps(s), NEW v, Service(s)' = v
  PROVE  /\ Abstract!Becomes(s, v)
         /\ v = Service(s) => UNCHANGED Svc
<1>1. Svc' = [Svc EXCEPT ![s] = v]
  BY Others DEF Svc
<1>2. v = Service(s) => Svc' = Svc
  BY <1>1 DEF Svc
<1>3. QED
  BY <1>1, <1>2 DEF Abstract!Becomes, Svc

(* The service of s as its phase and its operation give it.                *)
LEMMA Read ==
  ASSUME NEW s \in Sessions
  PROVE  /\ Svc[s] = Service(s)
         /\ sess[s].phase \in {"closed", "destroying"} =>
              Service(s) = [st |-> "closed"]
         /\ sess[s].phase = "dead" => Service(s) = [st |-> "dead"]
         /\ sess[s].phase = "open" /\ (sess[s].pc # "idle" \/ sess[s].op = Null) =>
              Service(s) = [st |-> "unprepared"]
         /\ Idle(s) /\ sess[s].op # Null =>
              LET a == Attr(sess[s].op) IN
              Service(s) = [st |-> "ready", mode |-> a.mode, size |-> a.size,
                            key |-> a.key, iv |-> a.iv]
BY DEF Svc, Service, Idle

(* An idle session is unprepared or ready to the service.                  *)
LEMMA IdleIsOpen ==
  ASSUME NEW s \in Sessions, Idle(s)
  PROVE  /\ sess[s].op = Null =>
              Svc[s] = Abstract!Unprepared /\ ~Abstract!IsReady(s)
         /\ sess[s].op # Null =>
              Abstract!IsReady(s) /\ Svc[s] # Abstract!Unprepared
<1>1. sess[s].op = Null => Svc[s] = [st |-> "unprepared"]
  BY Read DEF Idle
<1>2. sess[s].op # Null => Svc[s].st = "ready"
  BY Read
<1>3. QED
  BY <1>1, <1>2 DEF Abstract!IsReady, Abstract!Unprepared, Svc
-----------------------------------------------------------------------------
(* What PREPARE asks for is kept.                                          *)

LEMMA Between ==
  ASSUME NEW s \in Sessions, sess'[s].pc \in {"idle", "err"}
  PROVE  Asked(s)'
BY DEF Asked

LEMMA HandlerAsked ==
  ASSUME JInv, NEW s \in Sessions, Handler(s)
  PROVE  Asked(s)'
<1>1. IInv /\ Asked(s)
  BY DEF JInv
<1>2. CASE AllocateOperation(s)
  <2>1. CASE sess' = [sess EXCEPT ![s].op = Null, ![s].pc = "err"]
    BY <1>1, <2>1, Typing, Between DEF Sess
  <2>2. ASSUME NEW h \in Spare(slots),
               sess' = [sess EXCEPT ![s].op = h, ![s].pc = "alloc_key"],
               slots' = Release(Install(slots, h, "op", s,
                                  OperationAttr(sess[s].mode, sess[s].key_size)),
                                {sess[s].key})
        PROVE  Asked(s)'
    <3>1. h # sess[s].key
      <4>1. sess[s].key # Null => sess[s].key \in KeyClaim(s)
        BY <1>2 DEF KeyClaim, AllocateOperation
      <4>2. sess[s].key # Null => slots[sess[s].key].kind = "obj"
        BY <1>1, <4>1, OwnSlots
      <4>3. h \in Handles /\ slots[h].kind = "free" /\ h # Null
        BY TeeCoreAssumption DEF Spare
      <4>4. QED
        BY <4>2, <4>3
    <3>2. /\ sess'[s].op = h /\ sess'[s].mode = sess[s].mode
          /\ sess'[s].key_size = sess[s].key_size /\ sess'[s].pc = "alloc_key"
      BY <1>1, <2>2, Typing DEF Sess
    <3>3. slots'[h].attr = OperationAttr(sess[s].mode, sess[s].key_size)
      BY <1>1, <2>2, <3>1, Typing DEF Release, Install, Spare
    <3>4. sess[s].mode \in Modes
      BY <1>1, <1>2 DEF Asked, AllocateOperation
    <3>5. QED
      BY <3>2, <3>3, <3>4 DEF Asked, Attr
  <2>3. QED
    BY <1>2, <2>1, <2>2 DEF AllocateOperation
<1>3. CASE AllocateTransientObject(s)
  <2>1. CASE sess' = [sess EXCEPT ![s].key = Null, ![s].pc = "err"]
    BY <1>1, <2>1, Typing, Between DEF Sess
  <2>2. ASSUME NEW h \in Spare(slots),
               sess' = [sess EXCEPT ![s].key = h, ![s].pc = "malloc"],
               slots' = Install(slots, h, "obj", s, ObjectAttr(sess[s].key_size))
        PROVE  Asked(s)'
    <3>1. sess[s].op \in Handles /\ slots[sess[s].op].kind = "op"
      <4>1. sess[s].op \in OpClaim(s)
        BY <1>1, <1>3, Typing DEF AllocateTransientObject, SessInv, Stage, OpClaim
      <4>2. QED
        BY <1>1, <4>1, OwnSlots
    <3>2. slots'[sess[s].op] = slots[sess[s].op]
      BY <1>1, <2>2, <3>1, Typing DEF Install, Spare
    <3>3. /\ sess'[s].op = sess[s].op /\ sess'[s].mode = sess[s].mode
          /\ sess'[s].key_size = sess[s].key_size /\ sess'[s].pc = "malloc"
      BY <1>1, <2>2, Typing DEF Sess
    <3>4. QED
      BY <1>1, <1>3, <3>2, <3>3 DEF Asked, Attr, AllocateTransientObject
  <2>3. QED
    BY <1>3, <2>1, <2>2 DEF AllocateTransientObject
<1>4. CASE MallocDummyKey(s)
  <2>1. CASE sess' = [sess EXCEPT ![s].pc = "err"]
    BY <1>1, <2>1, Typing, Between DEF Sess
  <2>2. CASE sess' = [sess EXCEPT ![s].pc = "load"]
    <3>1. /\ sess'[s].op = sess[s].op /\ sess'[s].mode = sess[s].mode
          /\ sess'[s].key_size = sess[s].key_size /\ sess'[s].pc = "load"
      BY <1>1, <2>2, Typing DEF Sess
    <3>2. QED
      BY <1>1, <1>4, <3>1 DEF Asked, Attr, MallocDummyKey
  <2>3. QED
    BY <1>4, <2>1, <2>2 DEF MallocDummyKey
<1>5. CASE LoadDummyKey(s)
  BY <1>1, <1>5, Typing, Between DEF LoadDummyKey, Sess
<1>6. CASE PrepareError(s)
  BY <1>1, <1>6, Typing, Between DEF PrepareError, Sess
<1>7. QED
  BY <1>2, <1>3, <1>4, <1>5, <1>6 DEF Handler

LEMMA InvokeAsked ==
  ASSUME JInv, NEW s \in Sessions, TA_InvokeCommandEntryPoint(s)
  PROVE  Asked(s)'
<1>1. IInv
  BY DEF JInv
<1>2. ASSUME NEW a \in PrepareArgs, PrepareStart(s, a) PROVE Asked(s)'
  <2>1. sess'[s].pc = "alloc_op" /\ sess'[s].mode \in Modes
    BY <1>1, <1>2, Typing DEF PrepareStart, Sess
  <2>2. QED
    BY <2>1 DEF Asked
<1>3. ASSUME NEW a \in PrepareArgs, PrepareRefused(s, a) PROVE Asked(s)'
  <2>1. sess'[s].pc = "idle"
    BY <1>1, <1>3, Typing DEF PrepareRefused, Idle, Sess
  <2>2. QED
    BY <2>1, Between
<1>4. ASSUME Idle(s), UNCHANGED sess PROVE Asked(s)'
  BY <1>4, Between DEF Idle
<1>5. ASSUME NEW cmd, Panic(s, cmd) PROVE Asked(s)'
  <2>1. sess'[s].pc = "idle"
    BY <1>1, <1>5, Typing DEF Panic, Closed
  <2>2. QED
    BY <2>1, Between
<1>6. ASSUME NEW k \in ClientKeys, set_aes_key(s, k) PROVE Asked(s)'
  BY <1>4, <1>5, <1>6 DEF set_aes_key, SetKeyRefused, SetKeyPanics,
                          SetKeyNotPopulated, SetKeyLoaded
<1>7. ASSUME NEW iv \in Ivs \cup {Null}, reset_aes_iv(s, iv) PROVE Asked(s)'
  BY <1>4, <1>5, <1>7 DEF reset_aes_iv
<1>8. ASSUME NEW fits \in BOOLEAN, cipher_buffer(s, fits) PROVE Asked(s)'
  BY <1>4, <1>5, <1>8 DEF cipher_buffer, CipherRefused, CipherUpdate
<1>9. ASSUME SetIvRefused(s) \/ NotSupported(s) PROVE Asked(s)'
  BY <1>4, <1>9 DEF SetIvRefused, NotSupported
<1>10. QED
  BY <1>2, <1>3, <1>6, <1>7, <1>8, <1>9
     DEF TA_InvokeCommandEntryPoint, alloc_resources

(* Each step of the TA keeps what IInv has to say of its session.          *)
LEMMA InvokeKeeps ==
  ASSUME IInv, NEW s \in Sessions, TA_InvokeCommandEntryPoint(s)
  PROVE  Keeps(s)
BY PrepareRefusedKeeps, PrepareStartKeeps, SetKeyKeeps, ResetIvKeeps,
   UnservedKeeps, CipherKeeps DEF TA_InvokeCommandEntryPoint, alloc_resources

LEMMA HandlerKeeps ==
  ASSUME IInv, NEW s \in Sessions, Handler(s)
  PROVE  Keeps(s)
BY AllocateOperationKeeps, AllocateTransientObjectKeeps, MallocDummyKeyKeeps,
   LoadDummyKeyKeeps, PrepareErrorKeeps DEF Handler

LEMMA StepJInv == JInv /\ [Next]_vars => JInv'
<1> SUFFICES ASSUME JInv, [Next]_vars PROVE JInv'
  OBVIOUS
<1>1. IInv /\ IInv'
  BY StepIInv DEF JInv
<1>2. ASSUME NEW s \in Sessions, Keeps(s), Asked(s)'
      PROVE  \A t \in Sessions : Asked(t)'
  <2>1. ASSUME NEW t \in Sessions, t # s PROVE Asked(t)'
    <3>1. Asked(t)
      BY DEF JInv
    <3>2. sess[t].pc \in {"alloc_key", "malloc", "load"} => sess[t].op # Null
      BY <1>1, Typing DEF SessInv, Stage
    <3>3. QED
      BY <1>1, <1>2, <2>1, <3>1, <3>2, OthersKept DEF Asked, Attr
  <2>2. QED
    BY <1>2, <2>1
<1>3. ASSUME NEW s \in Sessions, TA_OpenSessionEntryPoint(s)
      PROVE  \A t \in Sessions : Asked(t)'
  <2>1. sess'[s].pc = "idle"
    BY <1>1, <1>3, Typing DEF TA_OpenSessionEntryPoint, SessInv, Stage, Sess
  <2>2. QED
    BY <1>1, <1>2, <1>3, <2>1, OpenKeeps, Between
<1>4. ASSUME NEW s \in Sessions,
             TA_CloseSessionEntryPoint(s) \/ DestroyInstance(s)
      PROVE  \A t \in Sessions : Asked(t)'
  <2>1. sess'[s].pc = "idle"
    BY <1>1, <1>4, Typing DEF TA_CloseSessionEntryPoint, DestroyInstance, Closed
  <2>2. QED
    BY <1>1, <1>2, <1>4, <2>1, CloseKeeps, DestroyKeeps, Between
<1>5. ASSUME NEW s \in Sessions,
             TA_InvokeCommandEntryPoint(s) \/ Handler(s)
      PROVE  \A t \in Sessions : Asked(t)'
  <2>1. Keeps(s)
    BY <1>1, <1>5, InvokeKeeps, HandlerKeeps
  <2>2. Asked(s)'
    BY <1>5, InvokeAsked, HandlerAsked
  <2>3. QED
    BY <1>2, <2>1, <2>2
<1>6. CASE UNCHANGED vars
  BY <1>1, <1>6 DEF vars, JInv, Asked, Attr
<1>7. \A t \in Sessions : Asked(t)'
  <2>1. CASE Next
    BY <1>3, <1>4, <1>5, <2>1 DEF Next
  <2>2. CASE UNCHANGED vars
    <3>1. \A t \in Sessions : Asked(t)
      BY DEF JInv
    <3>2. QED
      BY <2>2, <3>1 DEF vars, Asked, Attr
  <2>3. QED
    BY <2>1, <2>2
<1>8. QED
  BY <1>1, <1>7 DEF JInv
-----------------------------------------------------------------------------
(* The ends of a session.                                                  *)

LEMMA OpenRefines ==
  ASSUME IInv, NEW s \in Sessions, TA_OpenSessionEntryPoint(s)
  PROVE  Abstract!Open(s)
<1>1. Keeps(s)
  BY OpenKeeps
<1>2. Svc[s] = [st |-> "closed"]
  BY Read DEF TA_OpenSessionEntryPoint
<1>3. sess[s] \in Sess /\ sess[s].op = Null
  BY Typing DEF TA_OpenSessionEntryPoint, SessInv, Stage
<1>4. CASE /\ sess' = [sess EXCEPT ![s].phase = "open"]
           /\ Answer(s, "open", "OK", Null)
  <2>1. sess'[s].phase = "open" /\ sess'[s].op = Null
    BY <1>3, <1>4, Typing DEF Sess
  <2>2. Service(s)' = [st |-> "unprepared"]
    BY <2>1 DEF Service
  <2>3. Abstract!Becomes(s, Abstract!Unprepared)
    BY <1>1, <2>2, Mapped DEF Abstract!Unprepared
  <2>4. QED
    BY <1>2, <1>4, <2>3
       DEF Abstract!Open, Abstract!Closed, Abstract!Answer, Answer, Svc
<1>5. CASE Answer(s, "open", "FAIL", Null) /\ UNCHANGED sess
  <2>1. Service(s)' = Service(s)
    BY <1>5 DEF TA_OpenSessionEntryPoint, Service, Attr
  <2>2. UNCHANGED Svc
    BY <1>1, <2>1, Mapped
  <2>3. QED
    BY <1>2, <1>5, <2>2
       DEF Abstract!Open, Abstract!Closed, Abstract!Answer, Answer, Svc
<1>6. QED
  BY <1>4, <1>5 DEF TA_OpenSessionEntryPoint

LEMMA CloseRefines ==
  ASSUME IInv, NEW s \in Sessions, TA_CloseSessionEntryPoint(s)
  PROVE  Abstract!Close(s)
<1>1. Keeps(s)
  BY CloseKeeps
<1>2. Service(s)' = [st |-> "closed"]
  <2>1. sess'[s].phase = "destroying"
    BY Typing DEF TA_CloseSessionEntryPoint, Closed
  <2>2. QED
    BY <2>1 DEF Service
<1>3. Abstract!Becomes(s, Abstract!Closed)
  BY <1>1, <1>2, Mapped DEF Abstract!Closed
<1>4. Svc[s] # Abstract!Closed
  BY Read DEF TA_CloseSessionEntryPoint, Idle, Abstract!Closed
<1>5. QED
  BY <1>3, <1>4 DEF Abstract!Close, TA_CloseSessionEntryPoint, Svc

(* To the client a dead session closes here, any other has closed already. *)
LEMMA DestroyRefines ==
  ASSUME IInv, NEW s \in Sessions, DestroyInstance(s)
  PROVE  Abstract!Close(s) \/ UNCHANGED <<Svc, reply>>
<1>1. Keeps(s)
  BY DestroyKeeps
<1>2. Service(s)' = [st |-> "closed"]
  <2>1. sess'[s].phase = "closed"
    BY Typing DEF DestroyInstance, Closed
  <2>2. QED
    BY <2>1 DEF Service
<1>3. Abstract!Becomes(s, Abstract!Closed)
  BY <1>1, <1>2, Mapped DEF Abstract!Closed
<1>4. CASE sess[s].phase = "destroying"
  BY <1>1, <1>2, <1>4, Mapped, Read DEF DestroyInstance
<1>5. CASE sess[s].phase = "dead"
  <2>1. Svc[s] # Abstract!Closed
    BY <1>5, Read DEF Abstract!Closed
  <2>2. QED
    BY <1>3, <2>1 DEF Abstract!Close, DestroyInstance, Svc
<1>6. QED
  BY <1>4, <1>5 DEF DestroyInstance

(* What kills an instance is what the service says may.                    *)
LEMMA PanicRefines ==
  ASSUME IInv, NEW s \in Sessions, NEW cmd, Panic(s, cmd), Keeps(s), Idle(s),
         \/ cmd = "set_key" /\ sess[s].op = Null
         \/ cmd = "set_iv"
         \/ cmd = "cipher" /\ sess[s].op # Null /\ Attr(sess[s].op).iv = Null
  PROVE  Abstract!Die(s)
<1>1. Service(s)' = [st |-> "dead"]
  <2>1. sess'[s].phase = "dead"
    BY Typing DEF Panic, Closed
  <2>2. QED
    BY <2>1 DEF Service
<1>2. Abstract!Becomes(s, Abstract!Dead)
  BY <1>1, Mapped DEF Abstract!Dead
<1>3. cmd = "cipher" => Svc[s].iv = Null
  BY Read
<1>4. /\ Abstract!SetUp(s) => cmd = "set_iv"
      /\ Svc[s] = Abstract!Unprepared => cmd # "cipher"
      /\ Abstract!IsReady(s) => cmd # "set_key"
      /\ Svc[s] = Abstract!Unprepared \/ Abstract!IsReady(s)
  BY <1>3, IdleIsOpen DEF Abstract!SetUp, Svc
<1>5. Abstract!Answer(s, cmd, "TARGET_DEAD", Null)
  BY DEF Panic, Answer, Abstract!Answer
<1>6. QED
  BY <1>2, <1>4, <1>5 DEF Abstract!Die, Svc
-----------------------------------------------------------------------------
(* Answers that change nothing the client can see.                         *)

LEMMA RefusalRefines ==
  ASSUME IInv, NEW s \in Sessions, Keeps(s), Idle(s),
         Service(s)' = Service(s),
         \/ Answer(s, "prepare", "BAD_PARAMETERS", Null)
         \/ \E k \in ClientKeys : Answer(s, "set_key", "BAD_PARAMETERS", k)
         \/ Answer(s, "set_iv", "BAD_PARAMETERS", Null)
         \/ Answer(s, "cipher", "BAD_PARAMETERS", Null)
         \/ Answer(s, "unknown", "NOT_SUPPORTED", Null)
         \/ sess[s].op = Null /\ Answer(s, "cipher", "BAD_STATE", Null)
  PROVE  Abstract!Refuse(s)
<1>1. UNCHANGED Svc
  BY Mapped
<1>2. Svc[s] = Abstract!Unprepared \/ Abstract!IsReady(s)
  BY IdleIsOpen
<1>3. sess[s].op = Null => ~Abstract!IsReady(s)
  BY IdleIsOpen
<1>4. Abstract!ClientKeys = ClientKeys
  BY DEF Abstract!ClientKeys, ClientKeys, Abstract!Sizes, Sizes
<1>5. QED
  BY <1>1, <1>2, <1>3, <1>4 DEF Abstract!Refuse, Abstract!Answer, Answer, Svc
-----------------------------------------------------------------------------
(* PREPARE.                                                                *)

LEMMA PrepareRefusedRefines ==
  ASSUME IInv, NEW s \in Sessions, NEW a \in PrepareArgs, PrepareRefused(s, a)
  PROVE  Abstract!Refuse(s)
<1>1. Keeps(s)
  BY PrepareRefusedKeeps
<1>2. /\ sess'[s].phase = sess[s].phase /\ sess'[s].pc = sess[s].pc
      /\ sess'[s].op = sess[s].op
  BY Typing DEF PrepareRefused, Sess
<1>3. Service(s)' = Service(s)
  BY <1>2 DEF PrepareRefused, Service, Attr
<1>4. QED
  BY <1>1, <1>3, RefusalRefines DEF PrepareRefused

LEMMA PrepareStartRefines ==
  ASSUME IInv, NEW s \in Sessions, NEW a \in PrepareArgs, PrepareStart(s, a)
  PROVE  Abstract!GiveUp(s) \/ UNCHANGED <<Svc, reply>>
<1>1. Keeps(s) /\ Idle(s) /\ UNCHANGED reply
  BY PrepareStartKeeps DEF PrepareStart
<1>2. Service(s)' = [st |-> "unprepared"]
  <2>1. sess'[s].phase = "open" /\ sess'[s].pc = "alloc_op"
    BY Typing DEF PrepareStart, Idle, Sess
  <2>2. QED
    BY <2>1 DEF Service
<1>3. Abstract!Becomes(s, Abstract!Unprepared)
  BY <1>1, <1>2, Mapped DEF Abstract!Unprepared
<1>4. CASE sess[s].op = Null
  <2>1. Service(s) = [st |-> "unprepared"]
    BY <1>1, <1>4, Read DEF Idle
  <2>2. QED
    BY <1>1, <1>2, <2>1, Mapped
<1>5. CASE sess[s].op # Null
  <2>1. Abstract!IsReady(s)
    BY <1>1, <1>5, IdleIsOpen
  <2>2. QED
    BY <1>1, <1>3, <2>1 DEF Abstract!GiveUp
<1>6. QED
  BY <1>4, <1>5

(* PREPARE goes on: the client has seen nothing of it yet.                 *)
LEMMA PreparingRefines ==
  ASSUME IInv, NEW s \in Sessions, Keeps(s), UNCHANGED reply,
         sess[s].phase = "open", sess'[s].phase = "open",
         sess[s].pc # "idle", sess'[s].pc # "idle"
  PROVE  UNCHANGED <<Svc, reply>>
<1>1. Service(s) = [st |-> "unprepared"] /\ Service(s)' = [st |-> "unprepared"]
  BY DEF Service
<1>2. QED
  BY <1>1, Mapped

LEMMA AllocatingRefines ==
  ASSUME IInv, NEW s \in Sessions,
         AllocateOperation(s) \/ AllocateTransientObject(s) \/ MallocDummyKey(s)
  PROVE  UNCHANGED <<Svc, reply>>
<1>1. Keeps(s)
  BY AllocateOperationKeeps, AllocateTransientObjectKeeps, MallocDummyKeyKeeps
<1>2. sess[s].phase = "open" /\ sess[s].pc # "idle" /\ UNCHANGED reply
  BY Typing DEF AllocateOperation, AllocateTransientObject, MallocDummyKey,
                SessInv, Stage
<1>3. \/ \E h \in Handles : sess' = [sess EXCEPT ![s].op = h, ![s].pc = "alloc_key"]
      \/ sess' = [sess EXCEPT ![s].op = Null, ![s].pc = "err"]
      \/ \E h \in Handles : sess' = [sess EXCEPT ![s].key = h, ![s].pc = "malloc"]
      \/ sess' = [sess EXCEPT ![s].key = Null, ![s].pc = "err"]
      \/ sess' = [sess EXCEPT ![s].pc = "load"]
      \/ sess' = [sess EXCEPT ![s].pc = "err"]
  BY DEF AllocateOperation, AllocateTransientObject, MallocDummyKey, Spare
<1>4. sess'[s].phase = "open" /\ sess'[s].pc # "idle"
  <2>1. ASSUME NEW h \in Handles \cup {Null}, NEW pc \in {"alloc_key", "err"},
               sess' = [sess EXCEPT ![s].op = h, ![s].pc = pc]
        PROVE  sess'[s].phase = "open" /\ sess'[s].pc # "idle"
    BY <1>2, <2>1, Typing DEF Sess
  <2>2. ASSUME NEW h \in Handles \cup {Null}, NEW pc \in {"malloc", "err"},
               sess' = [sess EXCEPT ![s].key = h, ![s].pc = pc]
        PROVE  sess'[s].phase = "open" /\ sess'[s].pc # "idle"
    BY <1>2, <2>2, Typing DEF Sess
  <2>3. ASSUME NEW pc \in {"load", "err"}, sess' = [sess EXCEPT ![s].pc = pc]
        PROVE  sess'[s].phase = "open" /\ sess'[s].pc # "idle"
    BY <1>2, <2>3, Typing DEF Sess
  <2>4. QED
    BY <1>3, <2>1, <2>2, <2>3
<1>5. QED
  BY <1>1, <1>2, <1>4, PreparingRefines

(* PREPARE ends well: the session has the operation it asked for, with the *)
(* dummy key and no vector.                                                *)
LoadsDummyKey(s) ==
  LET dummy == DummyKey(sess[s].key_size) IN
  /\ sess[s].pc = "load"
  /\ sess' = [sess EXCEPT ![s].pc = "idle"]
  /\ slots' = [slots EXCEPT ![sess[s].key].attr.key = dummy,
                            ![sess[s].op].attr.key = dummy]

LEMMA DummyKeyLoaded ==
  ASSUME JInv, NEW s \in Sessions, LoadsDummyKey(s)
  PROVE  /\ sess[s].mode \in Modes /\ sess[s].key_size \in Sizes
         /\ sess'[s] = [sess[s] EXCEPT !.pc = "idle"]
         /\ Service(s)' = Abstract!Ready(sess[s].mode, sess[s].key_size,
                                         DummyKey(sess[s].key_size), Null)
<1> DEFINE op == sess[s].op
           obj == sess[s].key
           size == sess[s].key_size
           mode == sess[s].mode
<1>1. IInv /\ Asked(s) /\ sess[s].pc = "load"
  BY DEF JInv, LoadsDummyKey
<1>2. /\ sess[s].phase = "open" /\ op # Null /\ obj # Null /\ size \in Sizes
      /\ mode \in Modes /\ slots[op].attr = OperationAttr(mode, size)
      /\ sess[s] \in Sess
  BY <1>1, Typing DEF SessInv, Stage, Asked, Attr
<1>3. op \in Handles /\ slots[op].kind = "op" /\ slots[op].owner = s
  <2>1. op \in OpClaim(s)
    BY <1>1, <1>2 DEF OpClaim
  <2> HIDE DEF op
  <2>2. QED
    BY <1>1, <2>1, OwnSlots
<1>4. op # obj
  <2>1. obj \in KeyClaim(s)
    BY <1>1, <1>2 DEF KeyClaim
  <2> HIDE DEF obj
  <2>2. slots[obj].kind = "obj"
    BY <1>1, <2>1, OwnSlots
  <2>3. QED
    BY <1>3, <2>2
<1>5. slots'[op] = [slots[op] EXCEPT !.attr.key = DummyKey(size)]
  <2>1. slots' = [slots EXCEPT ![obj].attr.key = DummyKey(size),
                               ![op].attr.key = DummyKey(size)]
    BY DEF LoadsDummyKey
  <2> HIDE DEF op, obj, size
  <2>2. QED
    BY <1>1, <1>3, <1>4, <2>1, Typing
<1>6. slots[op] = [kind |-> "op", owner |-> s, attr |-> OperationAttr(mode, size)]
  BY <1>1, <1>2, <1>3, Typing DEF Slots, Free
<1>7. slots'[op].attr = [mode |-> mode, size |-> size, key |-> DummyKey(size),
                         iv |-> Null]
  <2> HIDE DEF op, obj, size, mode
  <2>1. QED
    BY <1>5, <1>6 DEF OperationAttr
<1>8. /\ sess'[s] = [sess[s] EXCEPT !.pc = "idle"]
      /\ sess'[s].op = op /\ sess'[s].phase = "open" /\ sess'[s].pc = "idle"
  BY <1>1, <1>2, Typing DEF LoadsDummyKey, Sess
<1>9. QED
  <2>1. Service(s)' = Abstract!Ready(mode, size, DummyKey(size), Null)
    <3> HIDE DEF op, obj, size, mode
    <3>1. QED
      BY <1>2, <1>7, <1>8 DEF Service, Attr, Abstract!Ready
  <2>2. QED
    BY <1>2, <1>8, <2>1

LEMMA LoadDummyKeyRefines ==
  ASSUME JInv, NEW s \in Sessions, LoadDummyKey(s)
  PROVE  Abstract!Prepare(s) \/ UNCHANGED <<Svc, reply>>
<1> DEFINE size == sess[s].key_size
           mode == sess[s].mode
<1>1. IInv /\ sess[s].pc = "load" /\ sess[s].phase = "open" /\ sess[s] \in Sess
  BY Typing DEF JInv, LoadDummyKey, SessInv, Stage
<1>2. Keeps(s)
  BY <1>1, LoadDummyKeyKeeps
<1>3. CASE LoadsDummyKey(s) /\ Answer(s, "prepare", "OK", Null)
  <2>1. /\ Service(s)' = Abstract!Ready(mode, size, DummyKey(size), Null)
        /\ mode \in Abstract!Modes /\ size \in Abstract!Sizes
    BY <1>3, DummyKeyLoaded DEF Abstract!Modes, Modes, Abstract!Sizes, Sizes
  <2>2. Abstract!Becomes(s, Abstract!Ready(mode, size,
                                           [id |-> Null, size |-> size], Null))
    BY <1>1, <1>2, <2>1, Mapped DEF DummyKey
  <2>3. Svc[s] = Abstract!Unprepared
    BY <1>1, Read DEF Abstract!Unprepared
  <2>4. QED
    BY <1>3, <2>1, <2>2, <2>3 DEF Abstract!Prepare, Abstract!Answer, Answer, Svc
<1>4. CASE sess' = [sess EXCEPT ![s].pc = "err"] /\ UNCHANGED reply
  <2>1. sess'[s].phase = "open" /\ sess'[s].pc = "err"
    BY <1>1, <1>4, Typing DEF Sess
  <2>2. QED
    BY <1>1, <1>2, <1>4, <2>1, PreparingRefines
<1>5. QED
  BY <1>3, <1>4 DEF LoadDummyKey, LoadsDummyKey

LEMMA PrepareErrorRefines ==
  ASSUME IInv, NEW s \in Sessions, PrepareError(s)
  PROVE  Abstract!Prepare(s)
<1>1. Keeps(s)
  BY PrepareErrorKeeps
<1>2. sess[s].phase = "open" /\ sess[s].pc = "err" /\ sess[s] \in Sess
  BY Typing DEF PrepareError, SessInv, Stage
<1>3. sess'[s].phase = "open" /\ sess'[s].op = Null
  BY <1>2, Typing DEF PrepareError, Sess
<1>4. Service(s) = [st |-> "unprepared"] /\ Service(s)' = [st |-> "unprepared"]
  BY <1>2, <1>3 DEF Service
<1>5. UNCHANGED Svc /\ Svc[s] = Abstract!Unprepared
  BY <1>1, <1>4, Mapped, Read DEF Abstract!Unprepared
<1>6. QED
  BY <1>5 DEF PrepareError, Abstract!Prepare, Abstract!Answer, Answer, Svc
-----------------------------------------------------------------------------
(* Commands between PREPAREs.                                              *)

(* What is written into the object does not show.                          *)
LEMMA ObjectHidden ==
  ASSUME IInv, NEW s \in Sessions, Idle(s), UNCHANGED sess,
         \A h \in Handles \ {sess[s].key} : slots'[h] = slots[h]
  PROVE  Service(s)' = Service(s)
<1>1. sess[s].op # Null => sess[s].op \in Handles \ {sess[s].key}
  BY IdleSession
<1>2. sess[s].op # Null => Attr(sess[s].op)' = Attr(sess[s].op)
  BY <1>1 DEF Attr
<1>3. QED
  BY <1>2 DEF Service

(* The key and the vector of the operation are those of the service.       *)
LEMMA Loads ==
  ASSUME IInv, NEW s \in Sessions, Idle(s), Keeps(s), UNCHANGED sess,
         sess[s].op # Null, NEW old, NEW key, NEW iv,
         old = slots[sess[s].op].attr,
         slots'[sess[s].op].attr =
           [mode |-> old.mode, size |-> old.size, key |-> key, iv |-> iv]
  PROVE  /\ Abstract!IsReady(s)
         /\ Svc[s].size = old.size
         /\ Abstract!Becomes(s, [Svc[s] EXCEPT !.key = key, !.iv = iv])
         /\ key = old.key => Abstract!Becomes(s, [Svc[s] EXCEPT !.iv = iv])
<1>1. Svc[s] = [st |-> "ready", mode |-> old.mode, size |-> old.size,
                key |-> old.key, iv |-> old.iv]
  BY Read DEF Attr
<1>2. Service(s)' = [st |-> "ready", mode |-> old.mode, size |-> old.size,
                     key |-> key, iv |-> iv]
  BY DEF Service, Attr, Idle
<1>3. ASSUME NEW r, r = [st |-> "ready", mode |-> old.mode, size |-> old.size,
                         key |-> old.key, iv |-> old.iv]
      PROVE  /\ [r EXCEPT !.key = key, !.iv = iv] =
                  [st |-> "ready", mode |-> old.mode, size |-> old.size,
                   key |-> key, iv |-> iv]
             /\ key = old.key =>
                  [r EXCEPT !.iv = iv] =
                  [st |-> "ready", mode |-> old.mode, size |-> old.size,
                   key |-> key, iv |-> iv]
  <2>1. [r EXCEPT !.iv = iv] =
          [st |-> "ready", mode |-> old.mode, size |-> old.size,
           key |-> old.key, iv |-> iv]
    BY <1>3
  <2>2. ASSUME NEW q, q = [r EXCEPT !.key = key]
        PROVE  [q EXCEPT !.iv = iv] =
                 [st |-> "ready", mode |-> old.mode, size |-> old.size,
                  key |-> key, iv |-> iv]
    <3>1. q = [st |-> "ready", mode |-> old.mode, size |-> old.size,
               key |-> key, iv |-> old.iv]
      BY <1>3, <2>2
    <3>2. QED
      BY <3>1
  <2>3. [r EXCEPT !.key = key, !.iv = iv] = [[r EXCEPT !.key = key] EXCEPT !.iv = iv]
    OBVIOUS
  <2>4. QED
    BY <2>1, <2>2, <2>3
<1>4. /\ Abstract!Becomes(s, [Svc[s] EXCEPT !.key = key, !.iv = iv])
      /\ key = old.key => Abstract!Becomes(s, [Svc[s] EXCEPT !.iv = iv])
  <2>1. \A v : Service(s)' = v => Abstract!Becomes(s, v)
    BY Mapped
  <2>2. QED
    BY <1>1, <1>2, <1>3, <2>1
<1>5. QED
  BY <1>1, <1>4, IdleIsOpen

LEMMA SetKeyRefines ==
  ASSUME IInv, NEW s \in Sessions, NEW k \in ClientKeys, set_aes_key(s, k)
  PROVE  Abstract!SetKey(s, k) \/ Abstract!Refuse(s) \/ Abstract!Die(s)
<1> DEFINE obj == sess[s].key
           op == sess[s].op
<1>1. Keeps(s) /\ Idle(s)
  BY SetKeyKeeps DEF set_aes_key, SetKeyRefused, SetKeyPanics,
                     SetKeyNotPopulated, SetKeyLoaded
<1>2. CASE SetKeyRefused(s, k)
  <2>1. Service(s)' = Service(s)
    BY <1>2 DEF SetKeyRefused, Service, Attr
  <2>2. QED
    BY <1>1, <1>2, <2>1, RefusalRefines DEF SetKeyRefused
<1>3. CASE SetKeyPanics(s, k)
  <2>1. op = Null
    BY <1>1, <1>3, Typing DEF SetKeyPanics, SessInv
  <2>2. QED
    BY <1>1, <1>3, <2>1, PanicRefines DEF SetKeyPanics
<1>4. CASE SetKeyNotPopulated(s, k)
  <2>1. \A h \in Handles \ {obj} : slots'[h] = slots[h]
    BY <1>4, Typing DEF SetKeyNotPopulated
  <2>2. UNCHANGED Svc
    BY <1>1, <1>4, <2>1, ObjectHidden, Mapped DEF SetKeyNotPopulated
  <2>3. Abstract!IsReady(s)
    BY <1>1, <1>4, IdleSession, IdleIsOpen DEF SetKeyNotPopulated
  <2>4. QED
    BY <1>4, <2>2, <2>3
       DEF SetKeyNotPopulated, Abstract!SetKey, Abstract!Answer, Answer, Svc
<1>5. CASE SetKeyLoaded(s, k)
  <2>1. /\ obj # Null /\ op # Null /\ op # obj /\ op \in Handles
        /\ slots[op].kind = "op" /\ slots[op].owner = s
        /\ slots[op].attr \in Attrs
        /\ obj \in Handles /\ slots[op].attr.size = slots[obj].attr.size
        /\ UNCHANGED sess
    BY <1>1, <1>5, IdleSession DEF SetKeyLoaded
  <2>2. slots[op] = [kind |-> "op", owner |-> s, attr |-> slots[op].attr]
    BY <2>1, Typing DEF Slots, Free
  <2>3. CASE /\ slots' = [slots EXCEPT ![obj].attr.key = k, ![op].attr.key = k,
                                       ![op].attr.iv = Null]
             /\ Answer(s, "set_key", "OK", k)
    <3>1. slots'[op].attr = [slots[op].attr EXCEPT !.key = k, !.iv = Null]
      <4> HIDE DEF op, obj
      <4>1. slots'[op] = [slots[op] EXCEPT
                            !.attr = [slots[op].attr EXCEPT !.key = k, !.iv = Null]]
        BY <2>1, <2>2, <2>3, Typing
      <4>2. QED
        BY <2>2, <4>1
    <3>2. slots'[op].attr = [mode |-> slots[op].attr.mode,
                             size |-> slots[op].attr.size, key |-> k, iv |-> Null]
      BY <2>1, <3>1 DEF Attrs
    <3>3. /\ Abstract!IsReady(s) /\ Svc[s].size = slots[op].attr.size
          /\ Abstract!Becomes(s, [Svc[s] EXCEPT !.key = k, !.iv = Null])
      <4>1. op # Null /\ UNCHANGED sess
        BY <2>1
      <4>2. ASSUME NEW iv, iv = Null
            PROVE  Abstract!Becomes(s, [Svc[s] EXCEPT !.key = k, !.iv = iv])
        BY <1>1, <3>2, <4>1, <4>2, Loads
      <4>3. Abstract!IsReady(s) /\ Svc[s].size = slots[op].attr.size
        BY <1>1, <4>1, IdleIsOpen, Read DEF Attr
      <4>4. QED
        BY <4>2, <4>3
    <3>4. k.size <= Svc[s].size
      BY <1>5, <2>1, <3>3 DEF SetKeyLoaded, Attr
    <3>5. QED
      BY <2>3, <3>3, <3>4 DEF Abstract!SetKey, Abstract!Answer, Answer, Svc
  <2>4. CASE /\ slots' = [slots EXCEPT ![obj].attr.key = k, ![op].attr.iv = Null]
             /\ Answer(s, "set_key", "FAIL", k)
    <3>1. slots'[op].attr = [slots[op].attr EXCEPT !.iv = Null]
      <4> HIDE DEF op, obj
      <4>1. slots'[op] = [slots[op] EXCEPT
                            !.attr = [slots[op].attr EXCEPT !.iv = Null]]
        BY <2>1, <2>2, <2>4, Typing
      <4>2. QED
        BY <2>2, <4>1
    <3>2. slots'[op].attr = [mode |-> slots[op].attr.mode,
                             size |-> slots[op].attr.size,
                             key |-> slots[op].attr.key, iv |-> Null]
      BY <2>1, <3>1 DEF Attrs
    <3>3. /\ Abstract!IsReady(s)
          /\ Abstract!Becomes(s, [Svc[s] EXCEPT !.iv = Null])
      <4>1. op # Null /\ UNCHANGED sess
        BY <2>1
      <4>2. QED
        BY <1>1, <3>2, <4>1, Loads
    <3>4. QED
      BY <2>4, <3>3 DEF Abstract!SetKey, Abstract!Answer, Answer, Svc
  <2>5. QED
    BY <1>5, <2>3, <2>4 DEF SetKeyLoaded
<1>6. QED
  BY <1>2, <1>3, <1>4, <1>5 DEF set_aes_key

LEMMA ResetIvRefines ==
  ASSUME IInv, NEW s \in Sessions, NEW iv \in Ivs \cup {Null}, reset_aes_iv(s, iv)
  PROVE  (iv \in Ivs /\ Abstract!SetIv(s, iv)) \/ Abstract!Die(s)
<1> DEFINE op == sess[s].op
<1>1. Keeps(s) /\ Idle(s)
  BY ResetIvKeeps DEF reset_aes_iv
<1>2. CASE Panic(s, "set_iv")
  BY <1>1, <1>2, PanicRefines
<1>3. CASE /\ op # Null /\ iv # Null
           /\ slots' = [slots EXCEPT ![op].attr.iv = iv]
           /\ Answer(s, "set_iv", "OK", Null)
           /\ UNCHANGED <<sess, heap>>
  <2>1. /\ op \in Handles /\ slots[op].attr \in Attrs
        /\ slots[op] = [kind |-> "op", owner |-> s, attr |-> slots[op].attr]
    BY <1>1, <1>3, IdleSession DEF Slots, Free
  <2>2. slots'[op].attr = [slots[op].attr EXCEPT !.iv = iv]
    <3> HIDE DEF op
    <3>1. slots'[op] = [slots[op] EXCEPT !.attr = [slots[op].attr EXCEPT !.iv = iv]]
      BY <1>3, <2>1, Typing
    <3>2. QED
      BY <2>1, <3>1
  <2>3. slots'[op].attr = [mode |-> slots[op].attr.mode,
                           size |-> slots[op].attr.size,
                           key |-> slots[op].attr.key, iv |-> iv]
    BY <2>1, <2>2 DEF Attrs
  <2>4. /\ Abstract!IsReady(s)
        /\ Abstract!Becomes(s, [Svc[s] EXCEPT !.iv = iv])
    BY <1>1, <1>3, <2>3, Loads
  <2>5. iv \in Ivs
    BY <1>3
  <2>6. QED
    BY <1>3, <2>4, <2>5 DEF Abstract!SetIv, Abstract!Answer, Answer, Svc
<1>4. QED
  BY <1>2, <1>3 DEF reset_aes_iv

LEMMA UnservedRefines ==
  ASSUME IInv, NEW s \in Sessions, SetIvRefused(s) \/ NotSupported(s)
  PROVE  Abstract!Refuse(s)
<1>1. Keeps(s) /\ Idle(s) /\ UNCHANGED <<sess, slots>>
  BY UnservedKeeps DEF SetIvRefused, NotSupported
<1>2. Service(s)' = Service(s)
  BY <1>1 DEF Service, Attr
<1>3. QED
  BY <1>1, <1>2, RefusalRefines DEF SetIvRefused, NotSupported

LEMMA CipherRefines ==
  ASSUME IInv, NEW s \in Sessions, NEW fits \in BOOLEAN, cipher_buffer(s, fits)
  PROVE  Abstract!Cipher(s) \/ Abstract!Refuse(s) \/ Abstract!Die(s)
<1> DEFINE op == sess[s].op
<1>1. Keeps(s) /\ Idle(s)
  BY CipherKeeps DEF cipher_buffer, CipherRefused, CipherUpdate
<1>2. CASE CipherRefused(s, fits)
  <2>1. Service(s)' = Service(s)
    BY <1>2 DEF CipherRefused, Service, Attr
  <2>2. QED
    BY <1>1, <1>2, <2>1, RefusalRefines DEF CipherRefused
<1>3. CASE op # Null /\ Attr(op).iv = Null /\ Panic(s, "cipher")
  BY <1>1, <1>3, PanicRefines
<1>4. CASE /\ op # Null /\ Attr(op).iv # Null
           /\ Answer(s, "cipher", "OK", [mode |-> Attr(op).mode,
                       key |-> Attr(op).key, iv |-> Attr(op).iv])
           /\ UNCHANGED <<sess, slots, heap>>
  <2>1. Service(s)' = Service(s)
    BY <1>4 DEF Service, Attr
  <2>2. UNCHANGED Svc
    BY <1>1, <2>1, Mapped
  <2>3. /\ Abstract!IsReady(s) /\ Svc[s].mode = Attr(op).mode
        /\ Svc[s].key = Attr(op).key /\ Svc[s].iv = Attr(op).iv
    BY <1>1, <1>4, Read, IdleIsOpen
  <2>4. QED
    BY <1>4, <2>2, <2>3
       DEF Abstract!Cipher, Abstract!SetUp, Abstract!Answer, Answer, Svc
<1>5. QED
  BY <1>2, <1>3, <1>4 DEF cipher_buffer, CipherUpdate
-----------------------------------------------------------------------------
LEMMA InitRefines == Init => JInv /\ Abstract!Init
<1> SUFFICES ASSUME Init PROVE JInv /\ Abstract!Init
  OBVIOUS
<1>1. JInv
  BY InitIInv DEF JInv, Asked, Init, Closed
<1>2. \A s \in Sessions : Service(s) = [st |-> "closed"]
  BY DEF Init, Service, Closed
<1>3. Abstract!Init
  BY <1>2 DEF Init, NoReply, Abstract!Init, Abstract!Closed
<1>4. QED
  BY <1>1, <1>3

(* The service's steps, one by one.                                        *)
LEMMA ServiceSteps ==
  ASSUME NEW s \in Sessions,
         \/ Abstract!Open(s) \/ Abstract!Close(s) \/ Abstract!GiveUp(s)
         \/ Abstract!Prepare(s) \/ Abstract!Refuse(s)
         \/ \E k \in ClientKeys : Abstract!SetKey(s, k)
         \/ \E iv \in Ivs : Abstract!SetIv(s, iv)
         \/ Abstract!Cipher(s) \/ Abstract!Die(s)
  PROVE  Abstract!Next
<1>1. Abstract!ClientKeys = ClientKeys
  BY DEF Abstract!ClientKeys, ClientKeys, Abstract!Sizes, Sizes
<1>2. QED
  BY <1>1 DEF Abstract!Next

LEMMA InvokeRefines ==
  ASSUME IInv, NEW s \in Sessions, TA_InvokeCommandEntryPoint(s)
  PROVE  Abstract!Next \/ UNCHANGED <<Svc, reply>>
<1>1. ASSUME NEW a \in PrepareArgs, alloc_resources(s, a)
      PROVE  Abstract!Next \/ UNCHANGED <<Svc, reply>>
  BY <1>1, PrepareRefusedRefines, PrepareStartRefines, ServiceSteps
     DEF alloc_resources
<1>2. ASSUME NEW k \in ClientKeys, set_aes_key(s, k) PROVE Abstract!Next
  BY <1>2, SetKeyRefines, ServiceSteps
<1>3. ASSUME NEW iv \in Ivs \cup {Null}, reset_aes_iv(s, iv) PROVE Abstract!Next
  BY <1>3, ResetIvRefines, ServiceSteps
<1>4. ASSUME NEW fits \in BOOLEAN, cipher_buffer(s, fits) PROVE Abstract!Next
  BY <1>4, CipherRefines, ServiceSteps
<1>5. ASSUME SetIvRefused(s) \/ NotSupported(s) PROVE Abstract!Next
  BY <1>5, UnservedRefines, ServiceSteps
<1>6. QED
  BY <1>1, <1>2, <1>3, <1>4, <1>5 DEF TA_InvokeCommandEntryPoint

LEMMA HandlerRefines ==
  ASSUME JInv, NEW s \in Sessions, Handler(s)
  PROVE  Abstract!Next \/ UNCHANGED <<Svc, reply>>
<1>1. IInv
  BY DEF JInv
<1>2. CASE AllocateOperation(s) \/ AllocateTransientObject(s) \/ MallocDummyKey(s)
  BY <1>1, <1>2, AllocatingRefines
<1>3. CASE LoadDummyKey(s) \/ PrepareError(s)
  BY <1>1, <1>3, LoadDummyKeyRefines, PrepareErrorRefines, ServiceSteps
<1>4. QED
  BY <1>2, <1>3 DEF Handler

LEMMA StepRefines == JInv /\ [Next]_vars => [Abstract!Next]_(Abstract!vars)
<1> SUFFICES ASSUME JInv, [Next]_vars
             PROVE  Abstract!Next \/ UNCHANGED <<Svc, reply>>
  BY DEF Abstract!vars, Svc
<1>1. IInv
  BY DEF JInv
<1>2. ASSUME NEW s \in Sessions, TA_OpenSessionEntryPoint(s)
      PROVE  Abstract!Next
  BY <1>1, <1>2, OpenRefines, ServiceSteps
<1>3. ASSUME NEW s \in Sessions, TA_CloseSessionEntryPoint(s)
      PROVE  Abstract!Next
  BY <1>1, <1>3, CloseRefines, ServiceSteps
<1>4. ASSUME NEW s \in Sessions, DestroyInstance(s)
      PROVE  Abstract!Next \/ UNCHANGED <<Svc, reply>>
  BY <1>1, <1>4, DestroyRefines, ServiceSteps
<1>5. CASE UNCHANGED vars
  BY <1>5 DEF vars, Svc, Service, Attr
<1>6. QED
  BY <1>1, <1>2, <1>3, <1>4, <1>5, InvokeRefines, HandlerRefines DEF Next

(* The AES TA implements the service that AesService states: whatever      *)
(* fails in cipher_ta.c and whoever runs beside it, what a session ciphers *)
(* goes under the mode, key and vector last accepted, and a session that   *)
(* is set up is lost to a vector of the wrong length alone.                *)
THEOREM AesTARefinesAesService == Spec => ImplementsService
<1>1. JInv /\ [Next]_vars => JInv'
  BY StepJInv
<1>2. Spec => []JInv
  BY InitRefines, <1>1, PTL DEF Spec
<1>3. QED
  BY <1>2, InitRefines, StepRefines, PTL
     DEF Spec, ImplementsService, Abstract!Spec
-----------------------------------------------------------------------------
(* The clients.                                                            *)

Positions == {Failed, Passing, Stranger} \cup DOMAIN Script

ModeOf(s) == IF at[s] <= 5 THEN "encrypt" ELSE "decrypt"
ScriptKey(s) == [id |-> KeyOf[s], size |-> 16]

(* What a main has configured its session for where it stands.             *)
Configured(s, key, iv) ==
  /\ Service(s) = Abstract!Ready(ModeOf(s), 16, key, iv)
  /\ sess[s].key_size = 16

Preparing(s) ==
  /\ sess[s].phase = "open"
  /\ sess[s].pc # "idle" => sess[s].mode = ModeOf(s) /\ sess[s].key_size = 16

Progress(s) ==
  /\ at[s] = 1 => sess[s].phase = "closed"
  /\ at[s] \in {2, 6} => Preparing(s)
  /\ at[s] \in {3, 7} => Configured(s, DummyKey(16), Null)
  /\ at[s] \in {4, 8} => Configured(s, ScriptKey(s), Null)
  /\ at[s] \in {5, 9} => Configured(s, ScriptKey(s), IvOf[s])
  /\ at[s] \in 6..9 =>
       ciph[s] = [text |-> "ciphered", key |-> ScriptKey(s), iv |-> IvOf[s]]
  /\ at[s] = Passing => temp[s] = Clear
  /\ at[s] \in {Failed, Passing} => sess[s].pc = "idle"
  /\ at[s] = Failed /\ reply.to = s => reply.res = "FAIL"

DemoInv ==
  /\ JInv
  /\ at \in [Sessions -> Positions]
  /\ DOMAIN ciph = Sessions /\ DOMAIN temp = Sessions
  /\ \A s \in Sessions : Progress(s)
-----------------------------------------------------------------------------
(* The script of main, by number.                                          *)
LEMMA Places ==
  /\ Positions = 0..11 /\ Failed = 0 /\ Passing = 10 /\ Stranger = 11
  /\ DOMAIN Script = 1..9 /\ Len(Script) = 9
  /\ Script[1] = "open" /\ Script[2] = "encode" /\ Script[3] = "set_key"
  /\ Script[4] = "set_iv" /\ Script[5] = "cipher" /\ Script[6] = "decode"
  /\ Script[7] = "set_key" /\ Script[8] = "set_iv" /\ Script[9] = "cipher"
<1>1. Len(Script) = 9 /\ DOMAIN Script = 1..9
  BY DEF Script
<1>2. Failed = 0 /\ Passing = 10 /\ Stranger = 11
  BY <1>1 DEF Failed, Passing, Stranger
<1>3. Positions = 0..11
  BY <1>1, <1>2 DEF Positions
<1>4. QED
  BY <1>1, <1>2, <1>3 DEF Script

Stands(s) ==
  /\ at[s] \in 0..11
  /\ Running(s) <=> at[s] \in 1..9
  /\ Running(s) /\ Script[at[s]] = "open" => at[s] = 1
  /\ Running(s) /\ Script[at[s]] = "encode" => at[s] = 2
  /\ Running(s) /\ Script[at[s]] = "decode" => at[s] = 6
  /\ Running(s) /\ Script[at[s]] = "set_key" => at[s] \in {3, 7}
  /\ Running(s) /\ Script[at[s]] = "set_iv" => at[s] \in {4, 8}
  /\ Running(s) /\ Script[at[s]] = "cipher" => at[s] \in {5, 9}
  /\ at[s] = 2 => Script[at[s]] = "encode"
  /\ at[s] = 6 => Script[at[s]] = "decode"

LEMMA AllStand ==
  ASSUME at \in [Sessions -> Positions], NEW s \in Sessions
  PROVE  Stands(s)
<1>1. at[s] \in 0..11 /\ (Running(s) <=> at[s] \in 1..9)
  BY Places DEF Running
<1>2. \A n \in 1..9 : \/ n = 1 \/ n = 2 \/ n = 3 \/ n = 4 \/ n = 5
                      \/ n = 6 \/ n = 7 \/ n = 8 \/ n = 9
  OBVIOUS
<1>3. QED
  BY <1>1, <1>2, Places DEF Stands

(* The requests of main are among those any client may make.               *)
LEMMA MainAsks ==
  ASSUME NEW s \in Sessions
  PROVE  /\ \A mode \in Modes : [algo |-> TRUE, size |-> 16, mode |-> mode] \in PrepareArgs
         /\ ScriptKey(s) \in ClientKeys
         /\ IvOf[s] \in Ivs /\ IvOf[s] # Null
         /\ TRUE \in BOOLEAN
BY DemoAssumption, AesAssumption
   DEF PrepareArgs, Modes, Sizes, ScriptKey, ClientKeys

(* What main asks for in its two preparations.                             *)
LEMMA PreparesMode ==
  ASSUME NEW s \in Sessions, Stands(s), Running(s), prepare_aes(s)
  PROVE  /\ at[s] \in {2, 6} /\ ModeOf(s) \in Modes
         /\ PrepareStart(s, [algo |-> TRUE, size |-> 16, mode |-> ModeOf(s)])
         /\ UNCHANGED <<at, ciph, temp>>
<1>1. at[s] \in {2, 6}
  BY DEF Stands, prepare_aes
<1>2. ModeOf(s) = IF Script[at[s]] = "encode" THEN "encrypt" ELSE "decrypt"
  BY <1>1 DEF ModeOf, Stands
<1>3. QED
  BY <1>1, <1>2 DEF prepare_aes, Modes

LEMMA DemoImplementsNext ==
  ASSUME at \in [Sessions -> Positions], [DemoNext]_demoVars
  PROVE  [Next]_vars
<1> SUFFICES ASSUME DemoNext PROVE [Next]_vars
  BY DEF demoVars, vars
<1>1. PICK s \in Sessions : Client(s) \/ Interfere(s)
  BY DEF DemoNext
<1>2. Stands(s)
  BY AllStand
<1>3. CASE Running(s) /\ prepare_tee_session(s)
  BY <1>3 DEF prepare_tee_session, Next
<1>4. CASE Running(s) /\ prepare_aes(s)
  BY <1>2, <1>4, PreparesMode, MainAsks
     DEF Next, TA_InvokeCommandEntryPoint, alloc_resources
<1>5. CASE Running(s) /\ set_key(s)
  BY <1>5, MainAsks DEF set_key, ScriptKey, Next, TA_InvokeCommandEntryPoint
<1>6. CASE Running(s) /\ set_iv(s)
  BY <1>6, MainAsks DEF set_iv, Next, TA_InvokeCommandEntryPoint
<1>7. CASE Running(s) /\ cipher(s)
  BY <1>7, MainAsks DEF cipher, Next, TA_InvokeCommandEntryPoint
<1>8. CASE Serve(s)
  BY <1>8 DEF Serve, Next
<1>9. CASE terminate_tee_session(s)
  BY <1>9 DEF terminate_tee_session, Next
<1>10. CASE Interfere(s)
  BY <1>10, MainAsks DEF Interfere, Next, TA_InvokeCommandEntryPoint
<1>11. QED
  BY <1>1, <1>3, <1>4, <1>5, <1>6, <1>7, <1>8, <1>9, <1>10 DEF Client

(* What a step of s has to show for: the others stay where they are.       *)
Moves(s) ==
  /\ Keeps(s)
  /\ at' \in [Sessions -> Positions]
  /\ DOMAIN ciph' = Sessions /\ DOMAIN temp' = Sessions
  /\ \A t \in Sessions \ {s} :
       at'[t] = at[t] /\ ciph'[t] = ciph[t] /\ temp'[t] = temp[t]
  /\ UNCHANGED reply \/ reply'.to = s

LEMMA MovesKeep ==
  ASSUME DemoInv, [DemoNext]_demoVars, NEW s \in Sessions, Moves(s), Progress(s)'
  PROVE  DemoInv'
<1>1. JInv'
  BY StepJInv, DemoImplementsNext DEF DemoInv
<1>2. ASSUME NEW t \in Sessions \ {s} PROVE Progress(t)'
  <2>1. Service(t)' = Service(t) /\ sess'[t] = sess[t]
    BY Others, OthersKept DEF DemoInv, JInv, Moves
  <2>2. reply'.to = t => UNCHANGED reply
    BY DEF Moves
  <2>3. at'[t] = at[t] /\ ciph'[t] = ciph[t] /\ temp'[t] = temp[t]
    BY DEF Moves
  <2>4. Progress(t)
    BY DEF DemoInv
  <2>5. (DummyKey(16) = DummyKey(16))' /\ ModeOf(t)' = ModeOf(t)
        /\ ScriptKey(t)' = ScriptKey(t)
    BY <2>3 DEF ModeOf, ScriptKey
  <2>6. QED
    BY <2>1, <2>2, <2>3, <2>4, <2>5 DEF Progress, Preparing, Configured, ScriptKey
<1>3. QED
  BY <1>1, <1>2 DEF DemoInv, Moves

(* Where main goes after an answer.                                        *)
LEMMA Turns ==
  ASSUME at \in [Sessions -> Positions], NEW s \in Sessions, at[s] \in 1..9,
         Returns(s)
  PROVE  /\ at' \in [Sessions -> Positions]
         /\ \A t \in Sessions \ {s} : at'[t] = at[t]
         /\ at'[s] = IF reply'.res = "OK" THEN at[s] + 1 ELSE 0
BY Places DEF Returns

(* What a session that is set up as far as s is has.                       *)
LEMMA ConfiguredIs ==
  ASSUME DemoInv, NEW s \in Sessions, NEW k, NEW iv, Configured(s, k, iv)
  PROVE  /\ Idle(s) /\ sess[s].op # Null /\ sess[s].key # Null
         /\ sess[s].key_size = 16
         /\ Attr(sess[s].op).iv = iv
         /\ Attr(sess[s].op).key = k /\ Attr(sess[s].op).mode = ModeOf(s)
         /\ Svc[s] = Abstract!Ready(ModeOf(s), 16, k, iv)
<1>1. Service(s) = [st |-> "ready", mode |-> ModeOf(s), size |-> 16,
                    key |-> k, iv |-> iv] /\ sess[s].key_size = 16
  BY DEF Configured, Abstract!Ready
<1>2. sess[s].phase = "open" /\ sess[s].pc = "idle" /\ sess[s].op # Null
  BY <1>1 DEF Service
<1>3. Service(s) = [st |-> "ready", mode |-> Attr(sess[s].op).mode,
                    size |-> Attr(sess[s].op).size,
                    key |-> Attr(sess[s].op).key, iv |-> Attr(sess[s].op).iv]
  BY <1>2 DEF Service
<1>4. sess[s].key # Null
  BY <1>2, IdleSession DEF DemoInv, JInv, Idle
<1>5. QED
  BY <1>1, <1>2, <1>3, <1>4 DEF Idle, Svc, Abstract!Ready
-----------------------------------------------------------------------------
(* The steps of main, one by one.                                          *)

LEMMA OpenMoves ==
  ASSUME DemoInv, NEW s \in Sessions, Running(s), prepare_tee_session(s)
  PROVE  Moves(s) /\ Progress(s)'
<1>1. IInv /\ at \in [Sessions -> Positions] /\ Stands(s)
  BY AllStand DEF DemoInv, JInv
<1>2. at[s] = 1 /\ Keeps(s)
  BY <1>1, OpenKeeps DEF Stands, prepare_tee_session
<1>3. /\ at' \in [Sessions -> Positions]
      /\ \A t \in Sessions \ {s} : at'[t] = at[t]
      /\ at'[s] = IF reply'.res = "OK" THEN 2 ELSE 0
  BY <1>1, <1>2, Turns DEF prepare_tee_session
<1>4. Moves(s)
  BY <1>2, <1>3
     DEF Moves, prepare_tee_session, TA_OpenSessionEntryPoint, Answer, DemoInv
<1>5. sess[s].phase = "closed" /\ sess[s].pc = "idle" /\ sess[s] \in Sess
  BY <1>1, Typing DEF prepare_tee_session, TA_OpenSessionEntryPoint, SessInv, Stage
<1>6. CASE sess' = [sess EXCEPT ![s].phase = "open"] /\ Answer(s, "open", "OK", Null)
  <2>1. sess'[s].phase = "open" /\ sess'[s].pc = "idle" /\ at'[s] = 2
    BY <1>1, <1>3, <1>5, <1>6, Typing DEF Sess, Answer
  <2>2. QED
    BY <1>4, <2>1, Places DEF Progress, Preparing
<1>7. CASE Answer(s, "open", "FAIL", Null) /\ UNCHANGED sess
  <2>1. at'[s] = 0 /\ reply'.res = "FAIL" /\ sess'[s].pc = "idle"
    BY <1>3, <1>5, <1>7 DEF Answer
  <2>2. QED
    BY <1>4, <2>1, Places DEF Progress
<1>8. QED
  BY <1>6, <1>7 DEF prepare_tee_session, TA_OpenSessionEntryPoint

LEMMA PrepareMoves ==
  ASSUME DemoInv, NEW s \in Sessions, Running(s), prepare_aes(s)
  PROVE  Moves(s) /\ Progress(s)'
<1>1. IInv /\ at \in [Sessions -> Positions] /\ Stands(s) /\ Progress(s)
  BY AllStand DEF DemoInv, JInv
<1> DEFINE a == [algo |-> TRUE, size |-> 16, mode |-> ModeOf(s)]
<1>2. at[s] \in {2, 6} /\ ModeOf(s) \in Modes /\ PrepareStart(s, a)
      /\ UNCHANGED <<at, ciph, temp>>
  BY <1>1, PreparesMode
<1>3. a \in PrepareArgs
  BY <1>2, MainAsks
<1>4. Keeps(s)
  BY <1>1, <1>2, <1>3, PrepareStartKeeps
<1>5. Moves(s)
  BY <1>1, <1>2, <1>4 DEF Moves, DemoInv, PrepareStart
<1>6. /\ sess'[s].phase = "open" /\ sess'[s].mode = ModeOf(s)
      /\ sess'[s].key_size = 16
  BY <1>1, <1>2, Typing DEF PrepareStart, Idle, Sess
<1>7. ModeOf(s)' = ModeOf(s)
  BY <1>2 DEF ModeOf
<1>8. QED
  BY <1>1, <1>2, <1>5, <1>6, <1>7, Places DEF Progress, Preparing, ScriptKey

(* A PREPARE under way goes on for what it was asked, fails, or leaves the  *)
(* session with the dummy key.                                             *)
LEMMA HandlerServes ==
  ASSUME IInv, NEW s \in Sessions, Handler(s)
  PROVE  /\ sess[s].pc # "idle" /\ sess[s].phase = "open"
         /\ \/ /\ sess'[s].pc # "idle" /\ sess'[s].phase = "open"
               /\ sess'[s].mode = sess[s].mode
               /\ sess'[s].key_size = sess[s].key_size
               /\ UNCHANGED reply
            \/ sess'[s].pc = "idle" /\ Answer(s, "prepare", "FAIL", Null)
            \/ /\ sess'[s].pc = "idle" /\ Answer(s, "prepare", "OK", Null)
               /\ LoadsDummyKey(s)
<1>1. sess[s].pc # "idle" /\ sess[s].phase = "open" /\ sess[s] \in Sess
  BY Typing DEF Handler, AllocateOperation, AllocateTransientObject,
     MallocDummyKey, LoadDummyKey, PrepareError, SessInv, Stage
<1> DEFINE GoesOn == /\ sess'[s].pc # "idle" /\ sess'[s].phase = "open"
                     /\ sess'[s].mode = sess[s].mode
                     /\ sess'[s].key_size = sess[s].key_size
<1>2. ASSUME NEW h, NEW pc \in {"alloc_key", "err"},
             sess' = [sess EXCEPT ![s].op = h, ![s].pc = pc]
      PROVE  GoesOn
  BY <1>1, <1>2, Typing DEF Sess
<1>3. ASSUME NEW h, NEW pc \in {"malloc", "err"},
             sess' = [sess EXCEPT ![s].key = h, ![s].pc = pc]
      PROVE  GoesOn
  BY <1>1, <1>3, Typing DEF Sess
<1>4. ASSUME NEW pc \in {"load", "err"}, sess' = [sess EXCEPT ![s].pc = pc]
      PROVE  GoesOn
  BY <1>1, <1>4, Typing DEF Sess
<1> HIDE DEF GoesOn
<1>5. CASE AllocateOperation(s)
  BY <1>1, <1>2, <1>5 DEF AllocateOperation, GoesOn
<1>6. CASE AllocateTransientObject(s)
  BY <1>1, <1>3, <1>6 DEF AllocateTransientObject, GoesOn
<1>7. CASE MallocDummyKey(s)
  BY <1>1, <1>4, <1>7 DEF MallocDummyKey, GoesOn
<1>8. CASE LoadDummyKey(s)
  <2>1. sess' = [sess EXCEPT ![s].pc = "idle"] => sess'[s].pc = "idle"
    BY <1>1, Typing DEF Sess
  <2>2. QED
    BY <1>1, <1>4, <1>8, <2>1 DEF LoadDummyKey, LoadsDummyKey, GoesOn
<1>9. CASE PrepareError(s)
  <2>1. sess'[s].pc = "idle"
    BY <1>1, <1>9, Typing DEF PrepareError, Sess
  <2>2. QED
    BY <1>1, <1>9, <2>1 DEF PrepareError
<1>10. QED
  BY <1>5, <1>6, <1>7, <1>8, <1>9 DEF Handler

LEMMA ServeMoves ==
  ASSUME DemoInv, NEW s \in Sessions, Serve(s)
  PROVE  Moves(s) /\ Progress(s)'
<1>1. /\ JInv /\ IInv /\ at \in [Sessions -> Positions] /\ Stands(s)
      /\ Progress(s) /\ Keeps(s) /\ UNCHANGED <<ciph, temp>>
  BY AllStand, HandlerKeeps DEF DemoInv, JInv, Serve
<1>2. sess[s].pc # "idle" /\ sess[s].phase = "open" /\ sess[s] \in Sess
  BY <1>1, HandlerServes, Typing DEF Serve
<1>3. at[s] \in {2, 6, 11}
  <2>1. \A k, iv : ~Configured(s, k, iv)
    BY <1>2, ConfiguredIs DEF Idle
  <2>2. at[s] # 1
    BY <1>1, <1>2 DEF Progress
  <2>3. QED
    BY <1>1, <1>2, <2>1, <2>2, Places DEF Progress, Stands
<1>4. \/ /\ sess'[s].pc # "idle" /\ sess'[s].phase = "open"
         /\ sess'[s].mode = sess[s].mode
         /\ sess'[s].key_size = sess[s].key_size
         /\ UNCHANGED reply
      \/ sess'[s].pc = "idle" /\ Answer(s, "prepare", "FAIL", Null)
      \/ /\ sess'[s].pc = "idle" /\ Answer(s, "prepare", "OK", Null)
         /\ sess'[s].key_size = sess[s].key_size
         /\ Service(s)' = Abstract!Ready(sess[s].mode, sess[s].key_size,
                                         DummyKey(sess[s].key_size), Null)
  BY <1>1, <1>2, HandlerServes, DummyKeyLoaded DEF Serve, Sess
<1>5. /\ at' \in [Sessions -> Positions]
      /\ \A t \in Sessions \ {s} : at'[t] = at[t]
      /\ at[s] = 11 => at'[s] = 11
      /\ at[s] # 11 /\ sess'[s].pc # "idle" => at'[s] = at[s]
      /\ at[s] # 11 /\ sess'[s].pc = "idle" =>
           at'[s] = IF reply'.res = "OK" THEN at[s] + 1 ELSE 0
  BY <1>1, <1>3, Turns DEF Serve, Stands
<1>6. UNCHANGED reply \/ reply'.to = s
  BY <1>4 DEF Answer
<1>7. Moves(s)
  BY <1>1, <1>5, <1>6 DEF Moves, DemoInv
<1>8. CASE at[s] = 11
  BY <1>5, <1>7, <1>8, Places DEF Progress
<1>9. CASE /\ at[s] # 11 /\ sess'[s].pc # "idle" /\ sess'[s].phase = "open"
           /\ sess'[s].mode = sess[s].mode
           /\ sess'[s].key_size = sess[s].key_size
  <2>1. at'[s] = at[s] /\ at[s] \in {2, 6} /\ ModeOf(s)' = ModeOf(s)
        /\ ScriptKey(s)' = ScriptKey(s)
    BY <1>3, <1>5, <1>9 DEF ModeOf, ScriptKey
  <2>2. QED
    BY <1>1, <1>2, <1>7, <1>9, <2>1, Places DEF Progress, Preparing
<1>10. CASE /\ at[s] # 11 /\ sess'[s].pc = "idle"
            /\ Answer(s, "prepare", "FAIL", Null)
  BY <1>5, <1>7, <1>10, Places DEF Progress, Answer
<1>11. CASE /\ at[s] # 11 /\ sess'[s].pc = "idle" /\ Answer(s, "prepare", "OK", Null)
            /\ sess'[s].key_size = sess[s].key_size
            /\ Service(s)' = Abstract!Ready(sess[s].mode, sess[s].key_size,
                                            DummyKey(sess[s].key_size), Null)
  <2>1. /\ sess[s].mode = ModeOf(s) /\ sess[s].key_size = 16
        /\ at[s] \in {2, 6} /\ at'[s] = at[s] + 1
    BY <1>1, <1>2, <1>3, <1>5, <1>11 DEF Progress, Preparing, Answer
  <2>2. ModeOf(s)' = ModeOf(s) /\ ScriptKey(s)' = ScriptKey(s)
    BY <2>1 DEF ModeOf, ScriptKey
  <2>3. Configured(s, DummyKey(16), Null)'
    BY <1>11, <2>1, <2>2 DEF Configured
  <2>4. QED
    BY <1>1, <1>7, <2>1, <2>2, <2>3, Places DEF Progress
<1>12. QED
  BY <1>4, <1>8, <1>9, <1>10, <1>11

LEMMA SetKeyMoves ==
  ASSUME DemoInv, NEW s \in Sessions, Running(s), set_key(s)
  PROVE  Moves(s) /\ Progress(s)'
<1> DEFINE k == ScriptKey(s)
<1>1. /\ IInv /\ at \in [Sessions -> Positions] /\ Stands(s) /\ Progress(s)
      /\ at[s] \in {3, 7} /\ set_aes_key(s, k) /\ k \in ClientKeys
      /\ UNCHANGED <<ciph, temp>>
  BY AllStand, MainAsks DEF DemoInv, JInv, set_key, ScriptKey, Stands
<1>2. Configured(s, DummyKey(16), Null)
  BY <1>1 DEF Progress
<1>3. /\ Idle(s) /\ sess[s].op # Null /\ sess[s].key # Null /\ k.size = sess[s].key_size
      /\ sess[s].key_size = 16
      /\ Svc[s] = Abstract!Ready(ModeOf(s), 16, DummyKey(16), Null)
  BY <1>2, ConfiguredIs DEF ScriptKey
<1>4. UNCHANGED sess /\ reply'.to = s /\ reply'.res \in {"OK", "FAIL"}
  <2>1. ~SetKeyRefused(s, k) /\ ~SetKeyPanics(s, k)
    BY <1>3 DEF SetKeyRefused, SetKeyPanics
  <2>2. CASE SetKeyNotPopulated(s, k)
    BY <2>2 DEF SetKeyNotPopulated, Answer
  <2>3. CASE SetKeyLoaded(s, k)
    <3>1. UNCHANGED sess
      BY <2>3 DEF SetKeyLoaded
    <3>2. Answer(s, "set_key", "OK", k) \/ Answer(s, "set_key", "FAIL", k)
      BY <2>3 DEF SetKeyLoaded
    <3>3. QED
      BY <3>1, <3>2 DEF Answer
  <2>4. QED
    BY <1>1, <2>1, <2>2, <2>3 DEF set_aes_key
<1>5. /\ at' \in [Sessions -> Positions]
      /\ \A t \in Sessions \ {s} : at'[t] = at[t]
      /\ at'[s] = IF reply'.res = "OK" THEN at[s] + 1 ELSE 0
  BY <1>1, Turns DEF set_key
<1>6. Moves(s)
  BY <1>1, <1>4, <1>5, SetKeyKeeps DEF Moves, DemoInv
<1>7. CASE reply'.res = "OK"
  <2>1. Abstract!SetKey(s, k)
    BY <1>1, <1>7, SetKeyRefines
       DEF Abstract!Refuse, Abstract!Die, Abstract!Answer
  <2>2. Abstract!Becomes(s, [Svc[s] EXCEPT !.key = k, !.iv = Null])
    BY <1>7, <2>1 DEF Abstract!SetKey, Abstract!Answer, Svc
  <2>3. Service(s)' = [Svc[s] EXCEPT !.key = k, !.iv = Null]
    BY <2>2 DEF Abstract!Becomes, Svc
  <2>4. Service(s)' = Abstract!Ready(ModeOf(s), 16, k, Null)
    <3>1. PICK v, mode : v = Svc[s] /\ mode = ModeOf(s)
      OBVIOUS
    <3>2. [v EXCEPT !.key = k] = Abstract!Ready(mode, 16, k, Null)
      BY <1>3, <3>1 DEF Abstract!Ready
    <3>3. ASSUME NEW q, q = Abstract!Ready(mode, 16, k, Null)
          PROVE  [q EXCEPT !.iv = Null] = q
      BY <3>3 DEF Abstract!Ready
    <3>4. [v EXCEPT !.key = k, !.iv = Null] = [[v EXCEPT !.key = k] EXCEPT !.iv = Null]
      OBVIOUS
    <3>5. QED
      BY <2>3, <3>1, <3>2, <3>3, <3>4
  <2>5. at'[s] = at[s] + 1 /\ ModeOf(s)' = ModeOf(s) /\ ScriptKey(s)' = ScriptKey(s)
    BY <1>1, <1>5, <1>7 DEF ModeOf, ScriptKey
  <2>6. Configured(s, k, Null)'
    BY <1>3, <1>4, <2>4, <2>5 DEF Configured
  <2>7. QED
    BY <1>1, <1>6, <2>5, <2>6, Places DEF Progress
<1>8. CASE reply'.res = "FAIL"
  BY <1>3, <1>4, <1>5, <1>6, <1>8, Places DEF Progress, Idle
<1>9. QED
  BY <1>4, <1>7, <1>8

LEMMA SetIvMoves ==
  ASSUME DemoInv, NEW s \in Sessions, Running(s), set_iv(s)
  PROVE  Moves(s) /\ Progress(s)'
<1> DEFINE iv == IvOf[s]
<1>1. /\ IInv /\ at \in [Sessions -> Positions] /\ Stands(s) /\ Progress(s)
      /\ at[s] \in {4, 8} /\ reset_aes_iv(s, iv)
      /\ iv \in Ivs \cup {Null} /\ iv # Null
      /\ UNCHANGED <<ciph, temp>>
  BY AllStand, MainAsks DEF DemoInv, JInv, set_iv, Stands
<1>2. Configured(s, ScriptKey(s), Null)
  BY <1>1 DEF Progress
<1>3. /\ Idle(s) /\ sess[s].op # Null /\ sess[s].key_size = 16
      /\ Svc[s] = Abstract!Ready(ModeOf(s), 16, ScriptKey(s), Null)
  BY <1>2, ConfiguredIs
<1>4. UNCHANGED sess /\ reply'.to = s /\ reply'.res = "OK"
  BY <1>1, <1>3 DEF reset_aes_iv, Answer
<1>5. /\ at' \in [Sessions -> Positions]
      /\ \A t \in Sessions \ {s} : at'[t] = at[t]
      /\ at'[s] = at[s] + 1
  BY <1>1, <1>4, Turns DEF set_iv
<1>6. Moves(s)
  BY <1>1, <1>4, <1>5, ResetIvKeeps DEF Moves, DemoInv
<1>7. Abstract!SetIv(s, iv)
  BY <1>1, <1>4, ResetIvRefines DEF Abstract!Die, Abstract!Answer
<1>8. Service(s)' = [Svc[s] EXCEPT !.iv = iv]
  BY <1>7 DEF Abstract!SetIv, Abstract!Becomes, Svc
<1>9. Service(s)' = Abstract!Ready(ModeOf(s), 16, ScriptKey(s), iv)
  BY <1>3, <1>8 DEF Abstract!Ready
<1>10. ModeOf(s)' = ModeOf(s) /\ ScriptKey(s)' = ScriptKey(s)
  BY <1>1, <1>5 DEF ModeOf, ScriptKey
<1>11. Configured(s, ScriptKey(s), iv)'
  BY <1>3, <1>4, <1>9, <1>10 DEF Configured
<1>12. QED
  BY <1>1, <1>5, <1>6, <1>10, <1>11, Places DEF Progress

LEMMA CipherMoves ==
  ASSUME DemoInv, NEW s \in Sessions, Running(s), cipher(s)
  PROVE  Moves(s) /\ Progress(s)'
<1> DEFINE stream == [mode |-> ModeOf(s), key |-> ScriptKey(s), iv |-> IvOf[s]]
<1>1. /\ IInv /\ at \in [Sessions -> Positions] /\ Stands(s) /\ Progress(s)
      /\ at[s] \in {5, 9} /\ cipher_buffer(s, TRUE) /\ IvOf[s] # Null
      /\ DOMAIN ciph = Sessions /\ DOMAIN temp = Sessions
  BY AllStand, MainAsks DEF DemoInv, JInv, cipher, Stands
<1>2. Configured(s, ScriptKey(s), IvOf[s])
  BY <1>1 DEF Progress
<1>3. /\ Idle(s) /\ sess[s].op # Null /\ Attr(sess[s].op).iv = IvOf[s]
      /\ Attr(sess[s].op).mode = ModeOf(s) /\ Attr(sess[s].op).key = ScriptKey(s)
  BY <1>2, ConfiguredIs
<1>4. UNCHANGED sess /\ reply'.to = s /\ reply'.res = "OK" /\ reply'.data = stream
  BY <1>1, <1>3 DEF cipher_buffer, CipherRefused, CipherUpdate, Answer
<1>5. /\ at' \in [Sessions -> Positions]
      /\ \A t \in Sessions \ {s} : at'[t] = at[t]
      /\ at'[s] = at[s] + 1
  BY <1>1, <1>4, Turns DEF cipher
<1>6. sess'[s].pc = "idle" /\ sess'[s].phase = "open"
  BY <1>3, <1>4 DEF Idle
<1>7. CASE at[s] = 5
  <2>1. ciph' = [ciph EXCEPT ![s] = Apply(stream, Clear)] /\ UNCHANGED temp
    BY <1>4, <1>7, Places DEF cipher
  <2>2. Moves(s)
    BY <1>1, <1>4, <1>5, <2>1, CipherKeeps DEF Moves
  <2>3. ModeOf(s) = "encrypt" /\ ScriptKey(s)' = ScriptKey(s)
    BY <1>7 DEF ModeOf, ScriptKey
  <2>4. Apply(stream, Clear) = [text |-> "ciphered", key |-> ScriptKey(s), iv |-> IvOf[s]]
    BY <2>3 DEF Apply, Ciphered
  <2>5. ciph'[s] = [text |-> "ciphered", key |-> ScriptKey(s), iv |-> IvOf[s]]
    BY <1>1, <2>1, <2>4
  <2>6. QED
    BY <1>5, <1>6, <1>7, <2>2, <2>3, <2>5, Places DEF Progress, Preparing
<1>8. CASE at[s] = 9
  <2>1. temp' = [temp EXCEPT ![s] = Apply(stream, ciph[s])] /\ UNCHANGED ciph
    BY <1>4, <1>8, Places DEF cipher
  <2>2. Moves(s)
    BY <1>1, <1>4, <1>5, <2>1, CipherKeeps DEF Moves
  <2>3. ciph[s] = [text |-> "ciphered", key |-> ScriptKey(s), iv |-> IvOf[s]]
    BY <1>1, <1>8 DEF Progress
  <2>4. ModeOf(s) = "decrypt"
    BY <1>8 DEF ModeOf
  <2>5. Apply(stream, ciph[s]) = Clear
    BY <2>3, <2>4 DEF Apply, Ciphered
  <2>6. temp'[s] = Clear
    BY <1>1, <2>1, <2>5
  <2>7. QED
    BY <1>5, <1>6, <1>8, <2>2, <2>6, Places DEF Progress
<1>9. QED
  BY <1>1, <1>7, <1>8

LEMMA EndMoves ==
  ASSUME DemoInv, NEW s \in Sessions, terminate_tee_session(s)
  PROVE  Moves(s) /\ Progress(s)'
<1>1. /\ IInv /\ at \in [Sessions -> Positions] /\ Progress(s)
      /\ at[s] \in {0, 10} /\ UNCHANGED <<at, ciph, temp, reply>>
  BY Places DEF DemoInv, JInv, terminate_tee_session, TA_CloseSessionEntryPoint,
     DestroyInstance
<1>2. Moves(s)
  BY <1>1, CloseKeeps, DestroyKeeps DEF Moves, DemoInv, terminate_tee_session
<1>3. sess'[s].pc = "idle"
  BY <1>1, Typing DEF terminate_tee_session, TA_CloseSessionEntryPoint,
     DestroyInstance, Closed
<1>4. QED
  BY <1>1, <1>2, <1>3, Places DEF Progress

(* A stranger answers to no script.                                        *)
LEMMA StrangerMoves ==
  ASSUME DemoInv, NEW s \in Sessions, Interfere(s)
  PROVE  Moves(s) /\ Progress(s)'
<1>1. /\ IInv /\ at \in [Sessions -> Positions]
      /\ at[s] = 11 /\ UNCHANGED <<at, ciph, temp>>
  BY Places DEF DemoInv, JInv, Interfere
<1>2. \/ TA_OpenSessionEntryPoint(s) \/ TA_InvokeCommandEntryPoint(s)
      \/ TA_CloseSessionEntryPoint(s) \/ DestroyInstance(s)
  BY MainAsks DEF Interfere, TA_InvokeCommandEntryPoint
<1>3. Keeps(s)
  BY <1>1, <1>2, OpenKeeps, InvokeKeeps, CloseKeeps, DestroyKeeps
<1>4. UNCHANGED reply \/ reply'.to = s
  <2>1. ASSUME NEW a, alloc_resources(s, a) PROVE UNCHANGED reply \/ reply'.to = s
    BY <2>1 DEF alloc_resources, PrepareRefused, PrepareStart, Answer
  <2>2. ASSUME NEW k, set_aes_key(s, k) PROVE reply'.to = s
    <3>1. \E res, data : Answer(s, "set_key", res, data)
      BY <2>2 DEF set_aes_key, SetKeyRefused, SetKeyPanics, SetKeyNotPopulated,
         SetKeyLoaded, Panic
    <3>2. QED
      BY <3>1 DEF Answer
  <2>3. ASSUME NEW iv, reset_aes_iv(s, iv) PROVE reply'.to = s
    BY <2>3 DEF reset_aes_iv, Panic, Answer
  <2>4. ASSUME NEW fits, cipher_buffer(s, fits) PROVE reply'.to = s
    <3>1. \E res, data : Answer(s, "cipher", res, data)
      BY <2>4 DEF cipher_buffer, CipherRefused, CipherUpdate, Panic
    <3>2. QED
      BY <3>1 DEF Answer
  <2>5. TA_OpenSessionEntryPoint(s) => reply'.to = s
    BY DEF TA_OpenSessionEntryPoint, Answer
  <2>6. TA_CloseSessionEntryPoint(s) \/ DestroyInstance(s) => UNCHANGED reply
    BY DEF TA_CloseSessionEntryPoint, DestroyInstance
  <2>7. SetIvRefused(s) \/ NotSupported(s) => reply'.to = s
    BY DEF SetIvRefused, NotSupported, Answer
  <2>8. QED
    BY <2>1, <2>2, <2>3, <2>4, <2>5, <2>6, <2>7 DEF Interfere
<1>5. Moves(s)
  BY <1>1, <1>3, <1>4 DEF Moves, DemoInv
<1>6. QED
  BY <1>1, <1>5, Places DEF Progress
-----------------------------------------------------------------------------
LEMMA InitDemoInv == DemoInit => DemoInv
<1> SUFFICES ASSUME DemoInit PROVE DemoInv
  OBVIOUS
<1>1. JInv
  BY InitRefines DEF DemoInit
<1>2. \A s \in Sessions : at[s] \in {1, 11} /\ sess[s].phase = "closed"
  BY Places DEF DemoInit, Init, Closed
<1>3. at \in [Sessions -> Positions]
  BY <1>2, Places DEF DemoInit
<1>4. QED
  BY <1>1, <1>2, <1>3, Places DEF DemoInit, DemoInv, Progress

LEMMA StepDemoInv == DemoInv /\ [DemoNext]_demoVars => DemoInv'
<1> SUFFICES ASSUME DemoInv, [DemoNext]_demoVars PROVE DemoInv'
  OBVIOUS
<1>1. CASE DemoNext
  <2>1. PICK s \in Sessions : Client(s) \/ Interfere(s)
    BY <1>1 DEF DemoNext
  <2>2. Moves(s) /\ Progress(s)'
    BY <2>1, OpenMoves, PrepareMoves, SetKeyMoves, SetIvMoves, CipherMoves,
       ServeMoves, EndMoves, StrangerMoves DEF Client
  <2>3. QED
    BY <2>2, MovesKeep
<1>2. CASE UNCHANGED demoVars
  <2>1. JInv'
    BY StepJInv, DemoImplementsNext DEF DemoInv
  <2>2. \A s \in Sessions : Progress(s)'
    BY <1>2 DEF demoVars, DemoInv, Progress, Preparing, Configured, ModeOf,
       ScriptKey, Service, Attr
  <2>3. QED
    BY <1>2, <2>1, <2>2 DEF demoVars, DemoInv
<1>3. QED
  BY <1>1, <1>2

LEMMA DemoInductive == DemoSpec => []DemoInv
BY InitDemoInv, StepDemoInv, PTL DEF DemoSpec

(* The clients are clients of the TA: what is proved of AesTA, and of the  *)
(* service it implements, holds of the processes of main and a stranger.   *)
THEOREM ClientsRunTheTA == DemoSpec => Spec /\ ImplementsService
<1>1. DemoInit => Init
  BY DEF DemoInit
<1>2. DemoInv /\ [DemoNext]_demoVars => [Next]_vars
  BY DemoImplementsNext DEF DemoInv
<1>3. DemoSpec => Spec
  BY <1>1, <1>2, DemoInductive, PTL DEF DemoSpec, Spec
<1>4. QED
  BY <1>3, AesTARefinesAesService, PTL

(* A main of demo/cipher/host/main.c that gets to its end has decoded what *)
(* it encoded, whoever else is at the pool: its memcmp finds no difference.*)
THEOREM DecodingInvertsEncoding == DemoSpec => []DecodedIsClear
<1>1. DemoInv => DecodedIsClear
  BY DEF DemoInv, Progress, DecodedIsClear
<1>2. QED
  BY <1>1, DemoInductive, PTL

(* main never asks the TA for what it refuses or dies of: a main that left *)
(* through errx did so for an allocation or a call of the core that failed.*)
THEOREM ScriptIsServed == DemoSpec => []OnlyFailsForResources
<1>1. DemoInv => OnlyFailsForResources
  BY DEF DemoInv, Progress, OnlyFailsForResources
<1>2. QED
  BY <1>1, DemoInductive, PTL
=============================================================================
