------------------------------ MODULE KeyProofs ------------------------------
(***************************************************************************)
(* KeyTA and its clients, for every number of sessions, size of the pool,  *)
(* set of keys and chunks, and every set of calls that may fail.           *)
(*                                                                         *)
(* A step is taken for one session s.  It changes s's own fields and slots *)
(* that are free or s's, which free or stay s's (Local): the handles of    *)
(* every other session are what they were (lemma Frame), and each action   *)
(* is left with the invariant of s alone.                                  *)
(*                                                                         *)
(* The second part shows that KeyTA implements KeyService.  Service(t)     *)
(* reads what session t holds, which a step of another session does not    *)
(* touch (lemma Others).  So a step of s changes the mapped svc at s       *)
(* alone, and each action is matched with the step of the service it is to *)
(* the client, or with none.                                               *)
(*                                                                         *)
(* The third part puts the mains of KeyDemo before the TAs.  Progress      *)
(* says, for the place a main stands at in its script, what its session is *)
(* set up for; no step of another process changes that (lemma MovesKeep),  *)
(* and each step of the main is served by the TA with the next.            *)
(***************************************************************************)
EXTENDS KeyDemo, SequenceTheorems, TLAPS

(* The slots of s are exactly what s claims.                               *)
Exact(s) ==
  \A h \in Handles :
    /\ Owns(slots, s, "op", h) <=> h \in OpClaim(s)
    /\ Owns(slots, s, "obj", h) <=> h \in KeyClaim(s)

(* An operation that has a key can work with it.                           *)
KeyFits(attr) ==
  attr.key # NoKey =>
    /\ attr.key.size <= attr.size
    /\ attr.mode \in {"decrypt", "sign"} => attr.key.form = "pair"

(* Where PREPARE stands, and what holds between commands.                  *)
Stage(s) ==
  /\ sess[s].arg \in PrepareArgs(ta[s])
  /\ sess[s].phase # "open" =>
       sess[s].pc = "idle" /\ sess[s].op = Null /\ sess[s].key = Null
  /\ sess[s].pc = "alloc_key" =>
       /\ sess[s].op # Null /\ sess[s].arg.type \in Forms
       /\ sess[s].arg.mode # "none" /\ ta[s] # "hash"
       /\ Attr(sess[s].op) = OperationAttr(sess[s].arg)
  /\ sess[s].pc = "idle" /\ sess[s].op # Null /\ ta[s] # "hash" =>
       /\ sess[s].key # Null
       /\ Attr(sess[s].key).size = Attr(sess[s].op).size
       /\ KeyFits(Attr(sess[s].op))

IInv ==
  /\ TypeOK
  /\ \A s \in Sessions : Exact(s) /\ Stage(s)

(* A step of s seen from the other sessions.                               *)
Local(s) ==
  /\ UNCHANGED ta
  /\ \A t \in Sessions \ {s} : sess'[t] = sess[t]
  /\ \A h \in Handles :
       \/ slots'[h] = slots[h]
       \/ slots[h].owner \in {Null, s} /\ slots'[h].owner \in {Null, s}

(* What one action has to establish.                                       *)
Keeps(s) == TypeOK' /\ Local(s) /\ Exact(s)' /\ Stage(s)'

LEMMA Frame ==
  ASSUME IInv, NEW s \in Sessions, Keeps(s)
  PROVE  IInv'
<1>1. ASSUME NEW t \in Sessions, t # s PROVE Exact(t)' /\ Stage(t)'
  <2>1. Exact(t) /\ Stage(t) /\ sess'[t] = sess[t] /\ ta'[t] = ta[t]
    BY <1>1 DEF IInv, Keeps, Local
  <2>2. OpClaim(t)' = OpClaim(t) /\ KeyClaim(t)' = KeyClaim(t)
    BY <2>1 DEF OpClaim, KeyClaim
  <2>3. ASSUME NEW h \in Handles, slots[h].owner = t \/ slots'[h].owner = t
        PROVE  slots'[h] = slots[h]
    BY <1>1, <2>3, TeeCoreAssumption DEF Keeps, Local
  <2>4. \A h \in Handles :
          /\ Owns(slots, t, "op", h)' <=> Owns(slots, t, "op", h)
          /\ Owns(slots, t, "obj", h)' <=> Owns(slots, t, "obj", h)
    BY <2>3 DEF Owns
  <2>5. Exact(t)'
    BY <2>1, <2>2, <2>4 DEF Exact
  <2>6. /\ sess[t].pc # "alloc_op" /\ sess[t].op # Null =>
             slots'[sess[t].op] = slots[sess[t].op]
        /\ sess[t].pc # "alloc_key" /\ sess[t].key # Null =>
             slots'[sess[t].key] = slots[sess[t].key]
    <3>1. sess[t].op \in Handles \cup {Null} /\ sess[t].key \in Handles \cup {Null}
      BY DEF IInv, TypeOK, Sess
    <3>2. QED
      BY <2>1, <2>3, <3>1 DEF Exact, Owns, OpClaim, KeyClaim
  <2>7. Stage(t)'
    BY <2>1, <2>6 DEF Stage, Attr
  <2>8. QED
    BY <2>5, <2>7
<1>2. QED
  BY <1>1 DEF IInv, Keeps

(* Types of the parts of a state that satisfies the invariant.             *)
LEMMA Typing ==
  ASSUME IInv, NEW s \in Sessions
  PROVE  /\ ta \in [Sessions -> TAs]
         /\ sess \in [Sessions -> Sess]
         /\ sess[s] \in Sess
         /\ slots \in [Handles -> Slots]
         /\ reply \in Replies
         /\ Exact(s) /\ Stage(s)
         /\ MaxChunks \in Nat /\ Null \notin Handles /\ Null \notin Sessions
BY KeyAssumption, TeeCoreAssumption DEF IInv, TypeOK

LEMMA NoArgFits == \A t : NoArg \in PrepareArgs(t)
BY DEF PrepareArgs

(* What a claim of s says of the slot.                                     *)
LEMMA OwnOperation ==
  ASSUME IInv, NEW s \in Sessions, NEW h \in OpClaim(s)
  PROVE  /\ h \in Handles /\ h # Null
         /\ slots[h].kind = "op" /\ slots[h].owner = s
         /\ slots[h].attr \in Attrs
         /\ slots[h] = [kind |-> "op", owner |-> s, attr |-> slots[h].attr]
<1>1. h \in Handles /\ h # Null
  BY Typing DEF OpClaim, Sess
<1>2. QED
  BY <1>1, Typing DEF Exact, Owns, Slots, Free

LEMMA OwnObject ==
  ASSUME IInv, NEW s \in Sessions, NEW h \in KeyClaim(s)
  PROVE  /\ h \in Handles /\ h # Null
         /\ slots[h].kind = "obj" /\ slots[h].owner = s
         /\ slots[h].attr \in Attrs
         /\ slots[h] = [kind |-> "obj", owner |-> s, attr |-> slots[h].attr]
<1>1. h \in Handles /\ h # Null
  BY Typing DEF KeyClaim, Sess
<1>2. QED
  BY <1>1, Typing DEF Exact, Owns, Slots, Free

(* The same read off the structure.                                        *)
LEMMA HeldObject ==
  ASSUME IInv, NEW s \in Sessions, sess[s].pc # "alloc_key", sess[s].key # Null
  PROVE  /\ sess[s].key \in Handles
         /\ slots[sess[s].key].kind = "obj" /\ slots[sess[s].key].owner = s
<1>1. sess[s].key \in KeyClaim(s)
  BY DEF KeyClaim
<1>2. QED
  BY <1>1, OwnObject, ZenonT(60)

(* A slot owned by s is one of the two kinds.                              *)
LEMMA OwnedIsClaimed ==
  ASSUME IInv, NEW s \in Sessions, NEW h \in Handles, slots[h].owner = s
  PROVE  h \in OpClaim(s) \cup KeyClaim(s)
BY Typing DEF Slots, Free, Exact, Owns
-----------------------------------------------------------------------------
(* Steps that leave the pool alone.                                        *)

LEMMA AnswerKeeps ==
  ASSUME IInv, NEW s \in Sessions, UNCHANGED <<ta, sess, slots>>,
         reply' \in Replies
  PROVE  Keeps(s)
<1> USE Typing
<1>1. TypeOK' /\ Local(s)
  BY DEF TypeOK, Local
<1>2. Exact(s)'
  BY DEF Exact, Owns, OpClaim, KeyClaim
<1>3. Stage(s)'
  BY DEF Stage, Attr
<1>4. QED
  BY <1>1, <1>2, <1>3 DEF Keeps

LEMMA OpenKeeps ==
  ASSUME IInv, NEW s \in Sessions, TA_OpenSessionEntryPoint(s)
  PROVE  Keeps(s)
<1> USE Typing
<1>1. reply' \in Replies
  BY DEF TA_OpenSessionEntryPoint, Answer, Replies, Commands, Results
<1>2. CASE UNCHANGED sess
  BY <1>1, <1>2, AnswerKeeps DEF TA_OpenSessionEntryPoint
<1>3. CASE sess' = [sess EXCEPT ![s].phase = "open"]
  <2>1. sess[s].op = Null /\ sess[s].key = Null /\ sess[s].pc = "idle"
    BY DEF TA_OpenSessionEntryPoint, Stage
  <2>2. /\ sess' \in [Sessions -> Sess]
        /\ sess'[s].op = Null /\ sess'[s].key = Null /\ sess'[s].pc = "idle"
        /\ sess'[s].phase = "open" /\ sess'[s].arg = sess[s].arg
        /\ \A t \in Sessions \ {s} : sess'[t] = sess[t]
    BY <1>3, <2>1 DEF Sess
  <2>3. TypeOK' /\ Local(s)
    BY <1>1, <2>2 DEF TA_OpenSessionEntryPoint, TypeOK, Local
  <2>4. OpClaim(s)' = OpClaim(s) /\ KeyClaim(s)' = KeyClaim(s)
    BY <2>1, <2>2 DEF OpClaim, KeyClaim
  <2>5. Exact(s)'
    BY <2>4 DEF TA_OpenSessionEntryPoint, Exact, Owns
  <2>6. Stage(s)'
    BY <2>2 DEF TA_OpenSessionEntryPoint, Stage
  <2>7. QED
    BY <2>3, <2>5, <2>6 DEF Keeps
<1>4. QED
  BY <1>2, <1>3 DEF TA_OpenSessionEntryPoint
-----------------------------------------------------------------------------
(* Steps that end a session.                                               *)

(* s has nothing left, and others have what they had.                      *)
LEMMA EndKeeps ==
  ASSUME IInv, NEW s \in Sessions, NEW phase \in {"closed", "destroying", "dead"},
         sess' = [sess EXCEPT ![s] = [Closed EXCEPT !.phase = phase]],
         slots' = [h \in Handles |-> IF slots[h].owner = s THEN Free ELSE slots[h]],
         UNCHANGED ta, reply' \in Replies
  PROVE  Keeps(s)
<1> USE Typing
<1> DEFINE ended == [Closed EXCEPT !.phase = phase]
<1>1. /\ ended \in Sess /\ ended.pc = "idle" /\ ended.op = Null
      /\ ended.key = Null /\ ended.arg = NoArg
  <2>1. NoArg \in PrepareArgs("rsa")
    BY DEF PrepareArgs
  <2>2. QED
    BY <2>1 DEF Closed, Sess, TAs
<1>2. /\ sess' \in [Sessions -> Sess] /\ sess'[s] = ended
      /\ \A t \in Sessions \ {s} : sess'[t] = sess[t]
  BY <1>1
<1>3. slots' \in [Handles -> Slots]
  BY DEF Slots
<1>4. \A h \in Handles : slots'[h].owner # s
  BY DEF Free
<1>5. TypeOK'
  BY <1>2, <1>3 DEF TypeOK
<1>6. Local(s)
  BY <1>2 DEF Local, Free
<1>7. OpClaim(s)' = {} /\ KeyClaim(s)' = {}
  BY <1>1, <1>2 DEF OpClaim, KeyClaim
<1>8. Exact(s)'
  BY <1>4, <1>7 DEF Exact, Owns
<1>9. Stage(s)'
  BY <1>1, <1>2, NoArgFits DEF Stage
<1>10. QED
  BY <1>5, <1>6, <1>8, <1>9 DEF Keeps

LEMMA PanicKeeps ==
  ASSUME IInv, NEW s \in Sessions, NEW cmd \in Commands, Panic(s, cmd),
         UNCHANGED ta
  PROVE  Keeps(s)
BY EndKeeps DEF Panic, Reclaim, Answer, Replies, Results

LEMMA DestroyKeeps ==
  ASSUME IInv, NEW s \in Sessions, DestroyInstance(s)
  PROVE  Keeps(s)
<1>1. Closed = [Closed EXCEPT !.phase = "closed"]
  BY DEF Closed
<1>2. QED
  BY <1>1, EndKeeps, Typing DEF DestroyInstance, Reclaim

(* Between commands the two handles are all that s owns.                   *)
LEMMA CloseKeeps ==
  ASSUME IInv, NEW s \in Sessions, TA_CloseSessionEntryPoint(s)
  PROVE  Keeps(s)
<1>1. \A h \in Handles : h \in Held(s) <=> slots[h].owner = s
  <2>1. Held(s) = OpClaim(s) \cup KeyClaim(s)
    BY DEF TA_CloseSessionEntryPoint, Idle, Held, OpClaim, KeyClaim
  <2>2. QED
    BY <2>1, OwnOperation, OwnObject, OwnedIsClaimed
<1>2. slots' = [h \in Handles |-> IF slots[h].owner = s THEN Free ELSE slots[h]]
  BY <1>1 DEF TA_CloseSessionEntryPoint, Release
<1>3. QED
  BY <1>2, EndKeeps, Typing DEF TA_CloseSessionEntryPoint
-----------------------------------------------------------------------------
(* PREPARE.                                                                *)

LEMMA PrepareRefusedKeeps ==
  ASSUME IInv, NEW s \in Sessions, NEW a, PrepareRefused(s, a)
  PROVE  Keeps(s)
BY AnswerKeeps DEF PrepareRefused, Answer, Replies, Commands, Results

(* The operation is given back and no longer relied on.                    *)
LEMMA PrepareStartKeeps ==
  ASSUME IInv, NEW s \in Sessions, NEW a \in PrepareArgs(ta[s]), PrepareStart(s, a)
  PROVE  Keeps(s)
<1> USE Typing
<1>1. /\ sess' \in [Sessions -> Sess]
      /\ \A t \in Sessions \ {s} : sess'[t] = sess[t]
      /\ sess[s].phase = "open" /\ sess'[s].phase = "open"
      /\ sess[s].pc = "idle" /\ sess'[s].pc = "alloc_op"
      /\ sess'[s].op = sess[s].op /\ sess'[s].key = sess[s].key
      /\ sess'[s].arg = a
  BY DEF PrepareStart, Idle, Sess
<1>2. slots' = [h \in Handles |-> IF h = sess[s].op THEN Free ELSE slots[h]]
  BY DEF PrepareStart, Release
<1>3. sess[s].op # Null => /\ sess[s].op \in Handles
                          /\ slots[sess[s].op].kind = "op"
                          /\ slots[sess[s].op].owner = s
  <2>1. sess[s].op # Null => sess[s].op \in OpClaim(s)
    BY <1>1 DEF OpClaim
  <2>2. QED
    BY <2>1, OwnOperation, ZenonT(60)
<1>4. TypeOK'
  BY <1>1, <1>2, ZenonT(60) DEF PrepareStart, TypeOK, Slots
<1>5. Local(s)
  <2>1. ASSUME NEW h \in Handles, slots'[h] # slots[h]
        PROVE  slots[h].owner = s /\ slots'[h].owner = Null
    BY <1>2, <1>3, <2>1 DEF Free
  <2>2. UNCHANGED ta
    BY DEF PrepareStart
  <2>3. QED
    BY <1>1, <2>1, <2>2 DEF Local
<1>6. OpClaim(s) = {sess[s].op} \ {Null} /\ OpClaim(s)' = {}
      /\ KeyClaim(s)' = KeyClaim(s)
  BY <1>1 DEF OpClaim, KeyClaim
<1>7. Exact(s)'
  BY <1>2, <1>3, <1>6 DEF Exact, Owns, Free
<1>8. Stage(s)'
  BY <1>1 DEF PrepareStart, Stage
<1>9. QED
  BY <1>4, <1>5, <1>7, <1>8 DEF Keeps

(* What PREPARE gives to the core makes a slot.                            *)
LEMMA NewSlots ==
  ASSUME NEW s \in Sessions, NEW t \in TAs, NEW a \in PrepareArgs(t),
         MaxChunks \in Nat
  PROVE  /\ [kind |-> "op", owner |-> s, attr |-> OperationAttr(a)] \in Slots
         /\ a.type \in Forms =>
              [kind |-> "obj", owner |-> s, attr |-> ObjectAttr(a)] \in Slots
<1>1. /\ a.mode \in Modes \cup {"none"}
      /\ a.type \in Forms \cup {"none"}
      /\ a.size \in {0} \cup Sizes
  BY DEF PrepareArgs, NoArg, ModesOf, Modes, TAs, Sizes
<1>2. <<>> \in Fed
  <2>1. <<>> \in [1..0 -> Chunks] /\ 0 \in 0..MaxChunks
    OBVIOUS
  <2>2. QED
    BY <2>1 DEF Fed
<1>3. NoKey \in KeyValues
  BY DEF KeyValues
<1>4. QED
  BY <1>1, <1>2, <1>3 DEF OperationAttr, ObjectAttr, Slots, Attrs

(* TEE_AllocateOperation succeeds: the new slot is the operation, and the  *)
(* old object is given back on the way to a new one.                       *)
LEMMA OperationInstalled ==
  ASSUME IInv, NEW s \in Sessions, NEW h \in Spare(slots),
         sess[s].pc = "alloc_op",
         sess' \in [Sessions -> Sess],
         sess'[s].op = h, sess'[s].key = sess[s].key, sess'[s].pc # "alloc_op",
         \A t \in Sessions \ {s} : sess'[t] = sess[t],
         slots' \in [Handles -> Slots],
         slots'[h].kind = "op", slots'[h].owner = s,
         \A g \in Handles \ {h} :
           slots'[g] = IF sess'[s].pc = "alloc_key" /\ g = sess[s].key
                       THEN Free ELSE slots[g],
         UNCHANGED ta, reply' \in Replies
  PROVE  TypeOK' /\ Local(s) /\ Exact(s)'
<1> USE Typing
<1>1. h \in Handles /\ h # Null /\ slots[h].kind = "free" /\ slots[h].owner = Null
  BY DEF Spare, Slots, Free
<1>2. OpClaim(s) = {} /\ KeyClaim(s) = {sess[s].key} \ {Null}
  BY DEF OpClaim, KeyClaim
<1>3. sess[s].key # Null => /\ sess[s].key \in Handles
                           /\ slots[sess[s].key].kind = "obj"
                           /\ slots[sess[s].key].owner = s
                           /\ sess[s].key # h
  <2>1. sess[s].pc # "alloc_key"
    OBVIOUS
  <2> HIDE Typing
  <2>2. QED
    BY <1>1, <2>1, HeldObject
<1>4. TypeOK'
  BY DEF TypeOK
<1>5. Local(s)
  <2>1. ASSUME NEW g \in Handles, slots'[g] # slots[g]
        PROVE  slots[g].owner \in {Null, s} /\ slots'[g].owner \in {Null, s}
    BY <1>1, <1>3, <2>1 DEF Free
  <2>2. QED
    BY <2>1 DEF Local
<1>6. /\ OpClaim(s)' = {h}
      /\ KeyClaim(s)' = (IF sess'[s].pc = "alloc_key" THEN {} ELSE {sess[s].key})
                          \ {Null}
  BY <1>1 DEF OpClaim, KeyClaim
<1>7. Exact(s)'
  <2>1. ASSUME NEW g \in Handles PROVE Owns(slots, s, "op", g)' <=> g = h
    BY <1>1, <1>2 DEF Owns, Exact, Free
  <2>2. ASSUME NEW g \in Handles
        PROVE  Owns(slots, s, "obj", g)' <=> g = sess[s].key /\ sess'[s].pc # "alloc_key"
    BY <1>1, <1>2, <1>3 DEF Owns, Exact, Free
  <2>3. QED
    BY <1>6, <2>1, <2>2 DEF Exact
<1>8. QED
  BY <1>4, <1>5, <1>7

LEMMA AllocateOperationKeeps ==
  ASSUME IInv, NEW s \in Sessions, AllocateOperation(s)
  PROVE  Keeps(s)
<1> USE Typing
<1> DEFINE a == sess[s].arg
           op == [kind |-> "op", owner |-> s, attr |-> OperationAttr(a)]
           obj == sess[s].key
<1>1. sess[s].phase = "open" /\ sess[s].pc = "alloc_op" /\ UNCHANGED ta
  BY DEF AllocateOperation, Stage
<1>2. op \in Slots
  <2>1. PICK t \in TAs : a \in PrepareArgs(t)
    BY DEF Sess
  <2>2. QED
    BY <2>1, NewSlots
<1>3. OpClaim(s) = {} /\ KeyClaim(s) = {obj} \ {Null}
  BY <1>1 DEF OpClaim, KeyClaim
<1>4. ASSUME NEW h \in Spare(slots),
             \/ /\ ta[s] = "hash"
                /\ sess' = [sess EXCEPT ![s].op = h, ![s].pc = "idle",
                                        ![s].arg = NoArg]
                /\ slots' = Install(slots, h, "op", s, OperationAttr(a))
                /\ Answer(s, "prepare", "OK", Null)
             \/ /\ a.type \notin Forms
                /\ sess' = [sess EXCEPT ![s].op = h, ![s].pc = "err"]
                /\ slots' = Install(slots, h, "op", s, OperationAttr(a))
                /\ UNCHANGED reply
      PROVE  Keeps(s)
  <2>1. /\ sess' \in [Sessions -> Sess]
        /\ sess'[s].op = h /\ sess'[s].key = obj
        /\ sess'[s].phase = "open"
        /\ \/ sess'[s].pc = "idle" /\ ta[s] = "hash"
           \/ sess'[s].pc = "err"
        /\ sess'[s].arg \in {a, NoArg}
        /\ \A t \in Sessions \ {s} : sess'[t] = sess[t]
    <3>1. NoArg \in UNION {PrepareArgs(t) : t \in TAs} /\ h \in Handles
      BY DEF PrepareArgs, TAs, Spare
    <3>2. QED
      BY <1>1, <1>4, <3>1 DEF Sess
  <2>2. /\ slots' \in [Handles -> Slots] /\ slots'[h] = op
        /\ \A g \in Handles \ {h} : slots'[g] = slots[g]
    <3> HIDE DEF op
    <3>1. slots' = [slots EXCEPT ![h] = op] /\ h \in Handles
      BY <1>4 DEF Install, op, Spare
    <3>2. QED
      BY <1>2, <3>1
  <2>3. reply' \in Replies
    BY <1>4 DEF Answer, Replies, Commands, Results
  <2> HIDE DEF op
  <2>4. op.kind = "op" /\ op.owner = s
    BY DEF op
  <2>5. TypeOK' /\ Local(s) /\ Exact(s)'
    BY <1>1, <2>1, <2>2, <2>3, <2>4, OperationInstalled
  <2>6. Stage(s)'
    BY <1>1, <2>1, NoArgFits DEF Stage
  <2>7. QED
    BY <2>5, <2>6 DEF Keeps
<1>5. ASSUME NEW h \in Spare(slots),
             a.type \in Forms, a.mode # "none", ta[s] # "hash",
             sess' = [sess EXCEPT ![s].op = h, ![s].pc = "alloc_key"],
             slots' = Release(Install(slots, h, "op", s, OperationAttr(a)), {obj}),
             UNCHANGED reply
      PROVE  Keeps(s)
  <2>1. /\ sess' \in [Sessions -> Sess]
        /\ sess'[s].op = h /\ sess'[s].key = obj /\ sess'[s].arg = a
        /\ sess'[s].phase = "open" /\ sess'[s].pc = "alloc_key"
        /\ \A t \in Sessions \ {s} : sess'[t] = sess[t]
    BY <1>1, <1>5 DEF Sess, Spare
  <2>2. /\ slots' \in [Handles -> Slots] /\ slots'[h] = op
        /\ \A g \in Handles \ {h} :
             slots'[g] = IF g = obj THEN Free ELSE slots[g]
    <3> HIDE DEF op
    <3>1. /\ slots' = Release([slots EXCEPT ![h] = op], {obj})
          /\ h \in Handles /\ slots[h].kind = "free"
      BY <1>5 DEF Install, op, Spare
    <3>2. h # obj
      <4>1. obj # Null => obj \in KeyClaim(s)
        BY <1>3
      <4>2. obj # Null => slots[obj].kind = "obj"
        BY <4>1, OwnObject, ZenonT(60)
      <4>3. h # Null
        BY <3>1
      <4>4. QED
        BY <3>1, <4>2, <4>3
    <3>3. Free \in Slots
      BY DEF Slots
    <3>4. QED
      BY <1>2, <3>1, <3>2, <3>3 DEF Release
  <2> HIDE DEF op
  <2>3. op.kind = "op" /\ op.owner = s /\ op.attr = OperationAttr(a)
    BY DEF op
  <2>4. TypeOK' /\ Local(s) /\ Exact(s)'
    BY <1>1, <1>5, <2>1, <2>2, <2>3, OperationInstalled, ZenonT(60)
  <2>5. h # Null
    BY DEF Spare
  <2>6. Stage(s)'
    BY <1>1, <1>5, <2>1, <2>2, <2>3, <2>5 DEF Stage, Attr
  <2>7. QED
    BY <2>4, <2>6 DEF Keeps
<1>6. ASSUME sess' = [sess EXCEPT ![s].op = Null, ![s].pc = "err"],
             UNCHANGED <<slots, reply>>
      PROVE  Keeps(s)
  <2>1. /\ sess' \in [Sessions -> Sess]
        /\ sess'[s].op = Null /\ sess'[s].key = obj /\ sess'[s].arg = a
        /\ sess'[s].phase = "open" /\ sess'[s].pc = "err"
        /\ \A t \in Sessions \ {s} : sess'[t] = sess[t]
    BY <1>1, <1>6 DEF Sess
  <2>2. OpClaim(s)' = OpClaim(s) /\ KeyClaim(s)' = KeyClaim(s)
    BY <1>3, <2>1 DEF OpClaim, KeyClaim
  <2>3. TypeOK' /\ Local(s)
    BY <1>1, <1>6, <2>1 DEF TypeOK, Local
  <2>4. Exact(s)'
    BY <1>6, <2>2 DEF Exact, Owns
  <2>5. Stage(s)'
    BY <1>1, <2>1 DEF Stage
  <2>6. QED
    BY <2>3, <2>4, <2>5 DEF Keeps
<1>7. QED
  BY <1>4, <1>5, <1>6 DEF AllocateOperation

LEMMA AllocateTransientObjectKeeps ==
  ASSUME IInv, NEW s \in Sessions, AllocateTransientObject(s)
  PROVE  Keeps(s)
<1> USE Typing
<1> DEFINE a == sess[s].arg
           op == sess[s].op
           obj == [kind |-> "obj", owner |-> s, attr |-> ObjectAttr(a)]
<1>1. /\ sess[s].phase = "open" /\ sess[s].pc = "alloc_key" /\ UNCHANGED ta
      /\ op # Null /\ a.type \in Forms
      /\ slots[op].attr.size = a.size /\ slots[op].attr.key = NoKey
  <2>1. /\ sess[s].pc = "alloc_key" /\ sess[s].pc # "idle" /\ UNCHANGED ta
    BY DEF AllocateTransientObject
  <2>2. /\ sess[s].phase = "open" /\ op # Null /\ a.type \in Forms
        /\ slots[op].attr = OperationAttr(a)
    BY <2>1 DEF Stage, Attr
  <2>3. OperationAttr(a).size = a.size /\ OperationAttr(a).key = NoKey
    BY DEF OperationAttr
  <2>4. QED
    BY <2>1, <2>2, <2>3
<1>2. /\ OpClaim(s) = {op} /\ KeyClaim(s) = {}
      /\ op \in Handles /\ slots[op].kind = "op" /\ slots[op].owner = s
  <2>1. OpClaim(s) = {op} /\ KeyClaim(s) = {}
    BY <1>1 DEF OpClaim, KeyClaim
  <2>2. op \in OpClaim(s)
    BY <2>1
  <2>3. QED
    BY <2>1, <2>2, OwnOperation
<1>3. ASSUME NEW h \in Spare(slots),
             sess' = [sess EXCEPT ![s].key = h, ![s].pc = "idle", ![s].arg = NoArg],
             slots' = Install(slots, h, "obj", s, ObjectAttr(a)),
             Answer(s, "prepare", "OK", Null)
      PROVE  Keeps(s)
  <2>1. h \in Handles /\ h # Null /\ h # op
        /\ slots[h].kind = "free" /\ slots[h].owner = Null
    BY <1>2 DEF Spare, Slots, Free
  <2>2. /\ sess' \in [Sessions -> Sess]
        /\ sess'[s].op = op /\ sess'[s].key = h /\ sess'[s].arg = NoArg
        /\ sess'[s].phase = "open" /\ sess'[s].pc = "idle"
        /\ \A t \in Sessions \ {s} : sess'[t] = sess[t]
    <3>1. NoArg \in UNION {PrepareArgs(t) : t \in TAs}
      BY DEF PrepareArgs, TAs
    <3>2. QED
      BY <1>1, <1>3, <2>1, <3>1 DEF Sess
  <2>3. obj \in Slots
    <3>1. PICK t \in TAs : a \in PrepareArgs(t)
      BY DEF Sess
    <3>2. QED
      BY <1>1, <3>1, NewSlots
  <2>4. /\ slots' \in [Handles -> Slots] /\ slots'[h] = obj
        /\ \A g \in Handles \ {h} : slots'[g] = slots[g]
    BY <1>3, <2>1, <2>3 DEF Install
  <2>5. TypeOK'
    BY <1>1, <1>3, <2>2, <2>4 DEF TypeOK, Answer, Replies, Commands, Results
  <2>6. Local(s)
    BY <1>1, <2>1, <2>2, <2>4 DEF Local
  <2>7. OpClaim(s)' = {op} /\ KeyClaim(s)' = {h}
    BY <1>1, <2>1, <2>2 DEF OpClaim, KeyClaim
  <2>8. Exact(s)'
    BY <1>2, <2>1, <2>4, <2>7 DEF Exact, Owns
  <2>9. Stage(s)'
    BY <1>1, <1>2, <2>1, <2>2, <2>4, NoArgFits
       DEF Stage, Attr, ObjectAttr, KeyFits
  <2>10. QED
    BY <2>5, <2>6, <2>8, <2>9 DEF Keeps
<1>4. ASSUME sess' = [sess EXCEPT ![s].key = Null, ![s].pc = "err"],
             UNCHANGED <<slots, reply>>
      PROVE  Keeps(s)
  <2>1. /\ sess' \in [Sessions -> Sess]
        /\ sess'[s].op = op /\ sess'[s].key = Null /\ sess'[s].arg = a
        /\ sess'[s].phase = "open" /\ sess'[s].pc = "err"
        /\ \A t \in Sessions \ {s} : sess'[t] = sess[t]
    BY <1>1, <1>4 DEF Sess
  <2>2. OpClaim(s)' = OpClaim(s) /\ KeyClaim(s)' = KeyClaim(s)
    BY <1>1, <1>2, <2>1 DEF OpClaim, KeyClaim
  <2>3. TypeOK' /\ Local(s)
    BY <1>1, <1>4, <2>1 DEF TypeOK, Local
  <2>4. Exact(s)'
    BY <1>4, <2>2 DEF Exact, Owns
  <2>5. Stage(s)'
    BY <1>1, <2>1 DEF Stage
  <2>6. QED
    BY <2>3, <2>4, <2>5 DEF Keeps
<1>5. QED
  BY <1>3, <1>4 DEF AllocateTransientObject

(* The err label: the operation, if there is one, is given back.           *)
LEMMA PrepareErrorKeeps ==
  ASSUME IInv, NEW s \in Sessions, PrepareError(s)
  PROVE  Keeps(s)
<1> USE Typing
<1>1. /\ sess[s].phase = "open" /\ sess[s].pc = "err" /\ UNCHANGED ta
  BY DEF PrepareError, Stage
<1>2. /\ sess' \in [Sessions -> Sess]
      /\ sess'[s].op = Null /\ sess'[s].key = sess[s].key
      /\ sess'[s].arg = NoArg
      /\ sess'[s].phase = "open" /\ sess'[s].pc = "idle"
      /\ \A t \in Sessions \ {s} : sess'[t] = sess[t]
  <2>1. NoArg \in UNION {PrepareArgs(t) : t \in TAs}
    BY DEF PrepareArgs, TAs
  <2>2. QED
    BY <1>1, <2>1 DEF PrepareError, Sess
<1>3. slots' = [h \in Handles |-> IF h = sess[s].op THEN Free ELSE slots[h]]
  BY DEF PrepareError, Release
<1>4. OpClaim(s) = {sess[s].op} \ {Null} /\ OpClaim(s)' = {}
      /\ KeyClaim(s)' = KeyClaim(s)
  BY <1>1, <1>2 DEF OpClaim, KeyClaim
<1>5. sess[s].op # Null => /\ slots[sess[s].op].kind = "op"
                          /\ slots[sess[s].op].owner = s
  <2>1. sess[s].op # Null => sess[s].op \in OpClaim(s)
    BY <1>4
  <2>2. QED
    BY <2>1, OwnOperation, ZenonT(60)
<1>6. reply' \in Replies
  BY DEF PrepareError, Answer, Replies, Commands, Results
<1>7. TypeOK'
  BY <1>1, <1>2, <1>3, <1>6 DEF TypeOK, Slots
<1>8. Local(s)
  BY <1>1, <1>2, <1>3, <1>5 DEF Local, Free
<1>9. Exact(s)'
  BY <1>3, <1>4, <1>5 DEF Exact, Owns, Free
<1>10. Stage(s)'
  BY <1>2, NoArgFits DEF Stage
<1>11. QED
  BY <1>7, <1>8, <1>9, <1>10 DEF Keeps
-----------------------------------------------------------------------------
(* Commands, which write into what the session holds.                      *)

(* A slot of s with another key, and with other chunks.                    *)
LEMMA Rekeyed ==
  ASSUME IInv, NEW s \in Sessions, NEW h \in OpClaim(s) \cup KeyClaim(s),
         NEW k \in KeyValues
  PROVE  LET slot == [slots[h] EXCEPT !.attr.key = k] IN
         /\ slot \in Slots
         /\ slot.kind = slots[h].kind /\ slot.owner = slots[h].owner
         /\ slot.attr.key = k
         /\ slot.attr.size = slots[h].attr.size
         /\ slot.attr.mode = slots[h].attr.mode
<1> DEFINE attr == [slots[h].attr EXCEPT !.key = k]
           slot == [slots[h] EXCEPT !.attr = attr]
<1>1. /\ slots[h].attr \in Attrs
      /\ slots[h].kind \in {"op", "obj"} /\ slots[h].owner = s
      /\ slots[h] = [kind |-> slots[h].kind, owner |-> s, attr |-> slots[h].attr]
  <2>1. CASE h \in OpClaim(s)
    BY <2>1, OwnOperation, ZenonT(60)
  <2>2. CASE h \in KeyClaim(s)
    BY <2>2, OwnObject, ZenonT(60)
  <2>3. QED
    BY <2>1, <2>2
<1>2. /\ attr \in Attrs /\ attr.key = k
      /\ attr.size = slots[h].attr.size /\ attr.mode = slots[h].attr.mode
  BY <1>1 DEF Attrs
<1> HIDE DEF attr
<1>3. slot = [kind |-> slots[h].kind, owner |-> s, attr |-> attr]
  BY <1>1
<1>4. slot \in Slots
  BY <1>1, <1>2, <1>3 DEF Slots
<1>5. slot = [slots[h] EXCEPT !.attr.key = k]
  BY DEF attr
<1>6. QED
  BY <1>1, <1>2, <1>3, <1>4, <1>5

LEMMA Refed ==
  ASSUME IInv, NEW s \in Sessions, NEW h \in OpClaim(s), NEW fed \in Fed
  PROVE  LET slot == [slots[h] EXCEPT !.attr.fed = fed] IN
         slot \in Slots /\ slot.kind = "op" /\ slot.owner = s
<1> DEFINE attr == [slots[h].attr EXCEPT !.fed = fed]
           slot == [slots[h] EXCEPT !.attr = attr]
<1>1. /\ slots[h].attr \in Attrs
      /\ slots[h] = [kind |-> "op", owner |-> s, attr |-> slots[h].attr]
  BY OwnOperation
<1>2. attr \in Attrs
  BY <1>1 DEF Attrs
<1> HIDE DEF attr
<1>3. slot = [kind |-> "op", owner |-> s, attr |-> attr]
  BY <1>1
<1>4. slot \in Slots
  BY <1>2, <1>3 DEF Slots
<1>5. slot = [slots[h] EXCEPT !.attr.fed = fed]
  BY DEF attr
<1>6. QED
  BY <1>3, <1>4, <1>5

(* Nothing changes hands; the operation stays of its object's size and     *)
(* able to work with its key.                                              *)
LEMMA RewriteKeeps ==
  ASSUME IInv, NEW s \in Sessions, Idle(s), UNCHANGED <<ta, sess>>,
         slots' \in [Handles -> Slots],
         \A h \in Handles :
           /\ slots'[h].kind = slots[h].kind /\ slots'[h].owner = slots[h].owner
           /\ slots'[h] # slots[h] => slots[h].owner = s,
         sess[s].op # Null /\ ta[s] # "hash" =>
           /\ slots'[sess[s].op].attr.size = slots[sess[s].op].attr.size
           /\ slots'[sess[s].key].attr.size = slots[sess[s].key].attr.size
           /\ KeyFits(slots'[sess[s].op].attr),
         reply' \in Replies
  PROVE  Keeps(s)
<1> USE Typing
<1>1. TypeOK'
  BY DEF TypeOK
<1>2. Local(s)
  BY DEF Local
<1>3. Exact(s)'
  <2>1. OpClaim(s)' = OpClaim(s) /\ KeyClaim(s)' = KeyClaim(s)
    BY DEF OpClaim, KeyClaim
  <2>2. QED
    BY <2>1 DEF Exact, Owns
<1>4. Stage(s)'
  BY DEF Stage, Attr, Idle
<1>5. QED
  BY <1>1, <1>2, <1>3, <1>4 DEF Keeps

(* Between commands the session relies on both its handles.                *)
LEMMA IdleClaims ==
  ASSUME IInv, NEW s \in Sessions, Idle(s)
  PROVE  /\ sess[s].op # Null => sess[s].op \in OpClaim(s)
         /\ sess[s].key # Null => sess[s].key \in KeyClaim(s)
BY DEF Idle, OpClaim, KeyClaim

(* The object gets another key, or none.                                   *)
LEMMA ObjectRekeyedKeeps ==
  ASSUME IInv, NEW s \in Sessions, Idle(s), UNCHANGED <<ta, sess>>,
         sess[s].key # Null, NEW k \in KeyValues,
         slots' = [slots EXCEPT ![sess[s].key].attr.key = k], reply' \in Replies
  PROVE  Keeps(s)
<1> DEFINE obj == sess[s].key
           op == sess[s].op
           slot == [slots[obj] EXCEPT !.attr.key = k]
<1>1. /\ obj \in KeyClaim(s) /\ obj \in Handles
      /\ slots[obj].kind = "obj" /\ slots[obj].owner = s
  BY IdleClaims, OwnObject, ZenonT(60)
<1>2. op # Null => /\ op \in Handles /\ slots[op].kind = "op"
  BY IdleClaims, OwnOperation, ZenonT(60)
<1>3. /\ slot \in Slots /\ slot.kind = "obj" /\ slot.owner = s
      /\ slot.attr.size = slots[obj].attr.size
  BY <1>1, Rekeyed
<1>4. slots' = [slots EXCEPT ![obj] = slot]
  OBVIOUS
<1> HIDE DEF slot
<1>5. /\ slots' \in [Handles -> Slots] /\ slots'[obj] = slot
      /\ \A h \in Handles \ {obj} : slots'[h] = slots[h]
  BY <1>1, <1>3, <1>4, Typing
<1>6. op # Null /\ ta[s] # "hash" => slots'[op] = slots[op] /\ KeyFits(slots[op].attr)
  BY <1>1, <1>2, <1>5, Typing DEF Stage, Attr, Idle
<1>7. \A h \in Handles :
        /\ slots'[h].kind = slots[h].kind /\ slots'[h].owner = slots[h].owner
        /\ slots'[h] # slots[h] => slots[h].owner = s
  BY <1>1, <1>3, <1>5
<1>8. op # Null /\ ta[s] # "hash" =>
        /\ slots'[op].attr.size = slots[op].attr.size
        /\ slots'[obj].attr.size = slots[obj].attr.size
        /\ KeyFits(slots'[op].attr)
  BY <1>3, <1>5, <1>6
<1>9. QED
  BY <1>5, <1>7, <1>8, RewriteKeeps

(* The operation gets the key its object took.                             *)
LEMMA BothRekeyedKeeps ==
  ASSUME IInv, NEW s \in Sessions, Idle(s), UNCHANGED <<ta, sess>>,
         ta[s] # "hash", NEW k \in Keys, Keyable(s, k),
         slots' = [slots EXCEPT ![sess[s].key].attr.key = k,
                                ![sess[s].op].attr.key = k],
         reply' \in Replies
  PROVE  Keeps(s)
<1> DEFINE obj == sess[s].key
           op == sess[s].op
           object == [slots[obj] EXCEPT !.attr.key = k]
           operation == [slots[op] EXCEPT !.attr.key = k]
<1>1. /\ obj \in KeyClaim(s) /\ obj \in Handles
      /\ slots[obj].kind = "obj" /\ slots[obj].owner = s
  <2>1. obj \in KeyClaim(s)
    BY IdleClaims DEF Keyable
  <2> HIDE DEF obj
  <2>2. QED
    BY <2>1, OwnObject
<1>2. /\ op \in OpClaim(s) /\ op \in Handles
      /\ slots[op].kind = "op" /\ slots[op].owner = s
  <2>1. op \in OpClaim(s)
    BY IdleClaims DEF Keyable
  <2> HIDE DEF op
  <2>2. QED
    BY <2>1, OwnOperation
<1>3. k \in KeyValues
  BY DEF KeyValues
<1>4. /\ object \in Slots /\ object.kind = "obj" /\ object.owner = s
      /\ object.attr.size = slots[obj].attr.size
  <2>1. obj \in OpClaim(s) \cup KeyClaim(s)
    BY <1>1
  <2> HIDE DEF obj
  <2>2. QED
    BY <1>1, <1>3, <2>1, Rekeyed
<1>5. /\ operation \in Slots /\ operation.kind = "op" /\ operation.owner = s
      /\ operation.attr.size = slots[op].attr.size
      /\ operation.attr.mode = slots[op].attr.mode
      /\ operation.attr.key = k
  <2>1. op \in OpClaim(s) \cup KeyClaim(s)
    BY <1>2
  <2> HIDE DEF op
  <2>2. QED
    BY <1>2, <1>3, <2>1, Rekeyed
<1>6. op # obj
  BY <1>1, <1>2
<1>7. slots' = [slots EXCEPT ![obj] = object, ![op] = operation]
  BY <1>6
<1>8. slots[obj].attr.size = slots[op].attr.size
  BY Typing DEF Stage, Attr, Idle, Keyable
<1>9. KeyFits(operation.attr)
  BY <1>5, <1>8 DEF KeyFits, Keyable, Takes, Attr
<1> HIDE DEF object, operation
<1>10. /\ slots' \in [Handles -> Slots]
       /\ slots'[obj] = object /\ slots'[op] = operation
       /\ \A h \in Handles \ {obj, op} : slots'[h] = slots[h]
  <2> HIDE DEF obj, op
  <2>1. slots \in [Handles -> Slots]
    BY Typing
  <2> DEFINE half == [slots EXCEPT ![obj] = object]
  <2>2. /\ half \in [Handles -> Slots] /\ half[obj] = object
        /\ \A h \in Handles \ {obj} : half[h] = slots[h]
    BY <1>1, <1>4, <2>1
  <2>3. slots' = [half EXCEPT ![op] = operation]
    BY <1>7
  <2> HIDE DEF half
  <2>4. QED
    BY <1>1, <1>2, <1>5, <1>6, <2>2, <2>3, ZenonT(60)
<1>11. \A h \in Handles :
         /\ slots'[h].kind = slots[h].kind /\ slots'[h].owner = slots[h].owner
         /\ slots'[h] # slots[h] => slots[h].owner = s
  <2>1. ASSUME NEW h \in Handles \ {obj, op} PROVE slots'[h] = slots[h]
    BY <1>10
  <2>2. slots'[obj].kind = slots[obj].kind /\ slots'[obj].owner = slots[obj].owner
    BY <1>1, <1>4, <1>10
  <2>3. slots'[op].kind = slots[op].kind /\ slots'[op].owner = slots[op].owner
    BY <1>2, <1>5, <1>10
  <2>4. slots[obj].owner = s /\ slots[op].owner = s
    BY <1>1, <1>2
  <2> HIDE DEF obj, op
  <2>5. QED
    BY <2>1, <2>2, <2>3, <2>4
<1>12. op # Null /\ ta[s] # "hash" =>
         /\ slots'[op].attr.size = slots[op].attr.size
         /\ slots'[obj].attr.size = slots[obj].attr.size
         /\ KeyFits(slots'[op].attr)
  BY <1>4, <1>5, <1>9, <1>10
<1>13. QED
  BY <1>10, <1>11, <1>12, RewriteKeeps

(* The operation of a hash is fed, or starts over.                         *)
LEMMA OperationFedKeeps ==
  ASSUME IInv, NEW s \in Sessions, Idle(s), UNCHANGED <<ta, sess>>,
         ta[s] = "hash", sess[s].op # Null, NEW fed \in Fed,
         slots' = [slots EXCEPT ![sess[s].op].attr.fed = fed], reply' \in Replies
  PROVE  Keeps(s)
<1> DEFINE op == sess[s].op
           slot == [slots[op] EXCEPT !.attr.fed = fed]
<1>1. /\ op \in OpClaim(s) /\ op \in Handles
      /\ slots[op].kind = "op" /\ slots[op].owner = s
  BY IdleClaims, OwnOperation, ZenonT(60)
<1>2. slot \in Slots /\ slot.kind = "op" /\ slot.owner = s
  BY <1>1, Refed
<1>3. slots' = [slots EXCEPT ![op] = slot]
  OBVIOUS
<1> HIDE DEF slot
<1>4. /\ slots' \in [Handles -> Slots] /\ slots'[op] = slot
      /\ \A h \in Handles \ {op} : slots'[h] = slots[h]
  BY <1>1, <1>2, <1>3, Typing
<1>5. \A h \in Handles :
        /\ slots'[h].kind = slots[h].kind /\ slots'[h].owner = slots[h].owner
        /\ slots'[h] # slots[h] => slots[h].owner = s
  BY <1>1, <1>2, <1>4
<1>6. QED
  BY <1>4, <1>5, RewriteKeeps
-----------------------------------------------------------------------------
LEMMA LoadedKeeps ==
  ASSUME IInv, NEW s \in Sessions, Idle(s), ta[s] # "hash", NEW k \in Keys,
         Keyable(s, k), Loaded(s, k)
  PROVE  Keeps(s)
<1>1. k \in KeyValues /\ sess[s].key # Null /\ UNCHANGED <<ta, sess>>
  BY DEF KeyValues, Keyable, Loaded
<1>2. reply' \in Replies
  BY DEF Loaded, Answer, Replies, Commands, Results
<1>3. CASE slots' = [slots EXCEPT ![sess[s].key].attr.key = k,
                                  ![sess[s].op].attr.key = k]
  BY <1>1, <1>2, <1>3, BothRekeyedKeeps
<1>4. CASE slots' = [slots EXCEPT ![sess[s].key].attr.key = k]
  BY <1>1, <1>2, <1>4, ObjectRekeyedKeeps
<1>5. QED
  BY <1>3, <1>4 DEF Loaded

LEMMA RsaSetKeyKeeps ==
  ASSUME IInv, NEW s \in Sessions, NEW k \in Keys, rsa_set_key(s, k)
  PROVE  Keeps(s)
<1>1. CASE RsaSetKeyRefused(s, k)
  <2>1. /\ Idle(s) /\ sess[s].key # Null /\ UNCHANGED <<ta, sess>>
        /\ slots' = [slots EXCEPT ![sess[s].key].attr.key = NoKey]
    BY <1>1 DEF RsaSetKeyRefused, Serves
  <2>2. reply' \in Replies /\ NoKey \in KeyValues
    BY <1>1 DEF RsaSetKeyRefused, Answer, Replies, Commands, Results, KeyValues
  <2>3. QED
    BY <2>1, <2>2, ObjectRekeyedKeeps
<1>2. CASE RsaSetKeyPanics(s, k)
  BY <1>2, PanicKeeps DEF RsaSetKeyPanics, Commands
<1>3. CASE RsaSetKeyLoaded(s, k)
  BY <1>3, LoadedKeeps DEF RsaSetKeyLoaded, Serves
<1>4. QED
  BY <1>1, <1>2, <1>3 DEF rsa_set_key

LEMMA DsaSetKeyKeeps ==
  ASSUME IInv, NEW s \in Sessions, NEW id \in KeyIds, dsa_set_key(s, id)
  PROVE  Keeps(s)
<1>1. NoKey \in KeyValues
  BY DEF KeyValues
<1>2. CASE DsaGenerateRefused(s, id)
  <2>1. /\ Idle(s) /\ sess[s].key # Null /\ UNCHANGED <<ta, sess>>
        /\ slots' = [slots EXCEPT ![sess[s].key].attr.key = NoKey]
    BY <1>2 DEF DsaGenerateRefused, Serves
  <2>2. reply' \in Replies
    BY <1>2 DEF DsaGenerateRefused, Answer, Replies, Commands, Results
  <2>3. QED
    BY <1>1, <2>1, <2>2, ObjectRekeyedKeeps
<1>3. CASE DsaGeneratePanics(s, id)
  BY <1>3, PanicKeeps DEF DsaGeneratePanics, Commands
<1>4. CASE DsaGenerated(s, id)
  <2>1. Generated(id) \in Keys
    BY KeyAssumption DEF Generated, Keys, Forms
  <2>2. QED
    BY <1>4, <2>1, LoadedKeeps DEF DsaGenerated, Serves
<1>5. CASE DsaSingleBuffer(s)
  <2>1. Idle(s) /\ UNCHANGED ta
    BY <1>5 DEF DsaSingleBuffer, Serves
  <2>2. CASE Panic(s, "set_key")
    BY <2>1, <2>2, PanicKeeps DEF Commands
  <2>3. CASE /\ slots' = [h \in Handles |->
                            IF h = sess[s].key
                            THEN [slots[h] EXCEPT !.attr.key = NoKey]
                            ELSE slots[h]]
             /\ Answer(s, "set_key", "FAIL", Null)
             /\ UNCHANGED sess
    <3>1. reply' \in Replies
      BY <2>3 DEF Answer, Replies, Commands, Results
    <3>2. CASE sess[s].key = Null
      <4>1. UNCHANGED slots
        BY <2>3, <3>2, Typing
      <4>2. QED
        BY <2>1, <2>3, <3>1, <4>1, AnswerKeeps
    <3>3. CASE sess[s].key # Null
      <4>1. slots' = [slots EXCEPT ![sess[s].key].attr.key = NoKey]
        BY <2>3, Typing
      <4>2. QED
        BY <1>1, <2>1, <2>3, <3>1, <3>3, <4>1, ObjectRekeyedKeeps
    <3>4. QED
      BY <3>2, <3>3
  <2>4. QED
    BY <1>5, <2>2, <2>3 DEF DsaSingleBuffer
<1>6. QED
  BY <1>2, <1>3, <1>4, <1>5 DEF dsa_set_key

(* Only a panic changes what the session holds.                            *)
LEMMA AsymmetricKeeps ==
  ASSUME IInv, NEW s \in Sessions, Idle(s), UNCHANGED ta,
         NEW mode \in {"encrypt", "decrypt", "sign"}, NEW room,
         Refused(s, mode) \/ Asymmetric(s, mode, room)
  PROVE  Keeps(s)
<1>1. mode \in Commands
  BY DEF Commands
<1>2. CASE Refused(s, mode)
  BY <1>1, <1>2, AnswerKeeps DEF Refused, Answer, Replies, Results
<1>3. CASE Panic(s, mode)
  BY <1>1, <1>3, PanicKeeps
<1>4. CASE /\ sess[s].op # Null /\ UNCHANGED <<sess, slots>>
           /\ \/ Answer(s, mode, "OK", Attr(sess[s].op).key)
              \/ \E res \in {"SHORT_BUFFER", "BAD_PARAMETERS"} :
                   Answer(s, mode, res, Null)
  <2>1. slots[sess[s].op].attr \in Attrs
    BY <1>4, IdleClaims, OwnOperation
  <2>2. Attr(sess[s].op).key \in KeyValues
    BY <2>1 DEF Attrs, Attr
  <2>3. reply' \in Replies
    BY <1>1, <1>4, <2>2 DEF Answer, Replies, Results
  <2>4. QED
    BY <1>4, <2>3, AnswerKeeps
<1>5. QED
  BY <1>2, <1>3, <1>4 DEF Asymmetric

LEMMA InvokeRsaKeeps ==
  ASSUME IInv, NEW s \in Sessions, rsa_invoke(s)
  PROVE  Keeps(s)
<1>1. ASSUME NEW k \in Keys, rsa_set_key(s, k) PROVE Keeps(s)
  BY <1>1, RsaSetKeyKeeps
<1>2. ASSUME NEW room \in BOOLEAN,
             rsa_asymmetric_encrypt(s, room) \/ rsa_asymmetric_decrypt(s, room)
      PROVE  Keeps(s)
  BY <1>2, AsymmetricKeeps
     DEF rsa_asymmetric_encrypt, rsa_asymmetric_decrypt, Serves
<1>3. QED
  BY <1>1, <1>2 DEF rsa_invoke

LEMMA InvokeDsaKeeps ==
  ASSUME IInv, NEW s \in Sessions, dsa_invoke(s)
  PROVE  Keeps(s)
<1>1. ASSUME NEW id \in KeyIds, dsa_set_key(s, id) PROVE Keeps(s)
  BY <1>1, DsaSetKeyKeeps
<1>2. ASSUME NEW room \in BOOLEAN, dsa_asymmetric_sign_digest(s, room)
      PROVE  Keeps(s)
  BY <1>2, AsymmetricKeeps DEF dsa_asymmetric_sign_digest, Serves
<1>3. QED
  BY <1>1, <1>2 DEF dsa_invoke
-----------------------------------------------------------------------------
(* A hash absorbs no more than MaxChunks before its digest.                *)
LEMMA FedSequences ==
  ASSUME NEW fed \in Fed, NEW c \in Chunks, MaxChunks \in Nat
  PROVE  /\ <<>> \in Fed
         /\ Len(fed) < MaxChunks => Append(fed, c) \in Fed
         /\ [digest |-> Append(fed, c)] \in Digests
<1>1. PICK n \in 0..MaxChunks : fed \in [1..n -> Chunks]
  BY DEF Fed
<1>2. fed \in Seq(Chunks) /\ Len(fed) = n
  BY <1>1
<1>3. Append(fed, c) \in [1..(n + 1) -> Chunks]
  <2>1. Append(fed, c) \in Seq(Chunks) /\ Len(Append(fed, c)) = n + 1
    BY <1>2, AppendProperties
  <2>2. QED
    BY <2>1, LenProperties
<1>4. Len(fed) < MaxChunks => Append(fed, c) \in Fed
  BY <1>2, <1>3 DEF Fed
<1>5. [digest |-> Append(fed, c)] \in Digests
  BY <1>3 DEF Digests
<1>6. <<>> \in Fed
  <2>1. <<>> \in [1..0 -> Chunks] /\ 0 \in 0..MaxChunks
    OBVIOUS
  <2>2. QED
    BY <2>1 DEF Fed
<1>7. QED
  BY <1>4, <1>5, <1>6

LEMMA InvokeHashKeeps ==
  ASSUME IInv, NEW s \in Sessions, hash_invoke(s)
  PROVE  Keeps(s)
<1> DEFINE op == sess[s].op
<1>1. ASSUME NEW cmd \in Commands, Refused(s, cmd), UNCHANGED ta
      PROVE  Keeps(s)
  BY <1>1, AnswerKeeps DEF Refused, Answer, Replies, Results
<1>2. ASSUME Idle(s), op # Null PROVE slots[op].attr.fed \in Fed
  <2>1. slots[op].attr \in Attrs
    BY <1>2, IdleClaims, OwnOperation
  <2>2. QED
    BY <2>1 DEF Attrs
<1>3. ASSUME NEW c \in Chunks, hash_update(s, c) PROVE Keeps(s)
  <2>1. Idle(s) /\ ta[s] = "hash" /\ UNCHANGED ta /\ "update" \in Commands
    BY <1>3 DEF hash_update, Serves, Commands
  <2>2. CASE Refused(s, "update")
    BY <1>1, <2>1, <2>2
  <2>3. CASE /\ op # Null /\ Len(Attr(op).fed) < MaxChunks
             /\ slots' = [slots EXCEPT ![op].attr.fed = Append(@, c)]
             /\ Answer(s, "update", "OK", Null)
             /\ UNCHANGED sess
    <3>1. Append(slots[op].attr.fed, c) \in Fed
      BY <1>2, <2>1, <2>3, FedSequences, Typing DEF Attr
    <3>2. slots' = [slots EXCEPT ![op].attr.fed = Append(slots[op].attr.fed, c)]
      <4>1. op \in Handles
        BY <2>1, <2>3, IdleClaims, OwnOperation
      <4>2. QED
        BY <2>3, <4>1, Typing
    <3>3. reply' \in Replies
      BY <2>1, <2>3 DEF Answer, Replies, Results
    <3>4. QED
      BY <2>1, <2>3, <3>1, <3>2, <3>3, OperationFedKeeps
  <2>4. QED
    BY <1>3, <2>2, <2>3 DEF hash_update
<1>4. ASSUME NEW c \in Chunks, HashFinal(s, c) PROVE Keeps(s)
  <2>1. /\ Idle(s) /\ ta[s] = "hash" /\ op # Null /\ UNCHANGED <<ta, sess>>
        /\ slots' = [slots EXCEPT ![op].attr.fed = <<>>]
    BY <1>4 DEF HashFinal, Serves
  <2>2. <<>> \in Fed /\ [digest |-> Append(Attr(op).fed, c)] \in Digests
    BY <1>2, <2>1, FedSequences, Typing DEF Attr
  <2>3. reply' \in Replies
    BY <1>4, <2>2 DEF HashFinal, Answer, Replies, Results, Commands
  <2>4. QED
    BY <2>1, <2>2, <2>3, OperationFedKeeps
<1>5. ASSUME NEW room \in BOOLEAN, HashFinalRefused(s, room) PROVE Keeps(s)
  <2>1. UNCHANGED ta /\ "do_final" \in Commands
    BY <1>5 DEF HashFinalRefused, Commands
  <2>2. CASE Refused(s, "do_final")
    BY <1>1, <2>1, <2>2
  <2>3. CASE Answer(s, "do_final", "SHORT_BUFFER", Null) /\ UNCHANGED <<sess, slots>>
    BY <2>1, <2>3, AnswerKeeps DEF Answer, Replies, Results
  <2>4. QED
    BY <1>5, <2>2, <2>3 DEF HashFinalRefused
<1>6. QED
  BY <1>3, <1>4, <1>5 DEF hash_invoke, hash_do_final
-----------------------------------------------------------------------------
(* The invariant is inductive.                                             *)

LEMMA InitIInv == Init => IInv
<1> SUFFICES ASSUME Init PROVE IInv
  OBVIOUS
<1>1. NoArg \in UNION {PrepareArgs(t) : t \in TAs}
  <2>1. NoArg \in PrepareArgs("rsa") /\ "rsa" \in TAs
    BY DEF PrepareArgs, TAs
  <2>2. QED
    BY <2>1
<1>2. Closed \in Sess
  BY <1>1 DEF Closed, Sess
<1>3. Free \in Slots
  BY DEF Slots
<1>4. NoReply \in Replies
  BY DEF NoReply, Replies, Commands, Results
<1>5. TypeOK
  BY <1>2, <1>3, <1>4 DEF Init, TypeOK
<1>6. ASSUME NEW s \in Sessions PROVE Exact(s) /\ Stage(s)
  <2>1. sess[s].pc = "idle" /\ sess[s].op = Null /\ sess[s].key = Null
    BY DEF Init, Closed
  <2>2. \A h \in Handles : slots[h].kind = "free"
    BY DEF Init, Free
  <2>3. sess[s].arg = NoArg
    BY DEF Init, Closed
  <2>4. QED
    BY <2>1, <2>2, <2>3, NoArgFits DEF Exact, Owns, OpClaim, KeyClaim, Stage
<1>7. QED
  BY <1>5, <1>6 DEF IInv

LEMMA InvokeKeeps ==
  ASSUME IInv, NEW s \in Sessions, TA_InvokeCommandEntryPoint(s)
  PROVE  Keeps(s)
<1>1. ASSUME NEW a \in PrepareArgs(ta[s]), alloc_resources(s, a) PROVE Keeps(s)
  BY <1>1, PrepareRefusedKeeps, PrepareStartKeeps DEF alloc_resources
<1>2. CASE Malformed(s)
  <2>1. reply' \in Replies
    BY <1>2 DEF Malformed, Answer, Replies, Commands, Results
  <2>2. QED
    BY <1>2, <2>1, AnswerKeeps DEF Malformed
<1>3. QED
  BY <1>1, <1>2, InvokeRsaKeeps, InvokeDsaKeeps, InvokeHashKeeps
     DEF TA_InvokeCommandEntryPoint

LEMMA StepIInv == IInv /\ [Next]_vars => IInv'
<1> SUFFICES ASSUME IInv, [Next]_vars PROVE IInv'
  OBVIOUS
<1>1. ASSUME NEW s \in Sessions,
             \/ TA_OpenSessionEntryPoint(s)
             \/ TA_InvokeCommandEntryPoint(s)
             \/ Handler(s)
             \/ TA_CloseSessionEntryPoint(s)
             \/ DestroyInstance(s)
      PROVE  IInv'
  <2>1. CASE TA_OpenSessionEntryPoint(s)
    BY <2>1, OpenKeeps, Frame
  <2>2. CASE TA_InvokeCommandEntryPoint(s)
    BY <2>2, InvokeKeeps, Frame
  <2>3. CASE Handler(s)
    BY <2>3, AllocateOperationKeeps, AllocateTransientObjectKeeps,
       PrepareErrorKeeps, Frame DEF Handler
  <2>4. CASE TA_CloseSessionEntryPoint(s)
    BY <2>4, CloseKeeps, Frame
  <2>5. CASE DestroyInstance(s)
    BY <2>5, DestroyKeeps, Frame
  <2>6. QED
    BY <1>1, <2>1, <2>2, <2>3, <2>4, <2>5
<1>2. CASE UNCHANGED vars
  BY <1>2 DEF vars, IInv, TypeOK, Exact, Stage, Attr, Owns, OpClaim, KeyClaim
<1>3. QED
  BY <1>1, <1>2 DEF Next

(* The three TAs keep every variable of theirs to its type, whatever fails *)
(* and however their sessions interleave.                                  *)
THEOREM TypeCorrect == Spec => []TypeOK
<1>1. IInv => TypeOK
  BY DEF IInv
<1>2. QED
  BY <1>1, InitIInv, StepIInv, PTL DEF Spec

(* The RSA, DSA and hash TAs keep exactly the handles the core keeps for   *)
(* them: none dangles, none leaks, on any path of PREPARE.                 *)
THEOREM HandlesAreExact == Spec => []HandlesExact
<1>1. IInv => HandlesExact
  BY DEF IInv, Exact, HandlesExact
<1>2. QED
  BY <1>1, InitIInv, StepIInv, PTL DEF Spec

(* An RSA or DSA operation between commands has an object of its size      *)
(* beside it and works with a key that fits it.                            *)
THEOREM OperationHasObject == Spec => []OpHasObject
<1>1. IInv => OpHasObject
  BY DEF IInv, Stage, OpHasObject, KeyFits, Attr, Idle
<1>2. QED
  BY <1>1, InitIInv, StepIInv, PTL DEF Spec
-----------------------------------------------------------------------------
Svc == [s \in Sessions |-> Service(s)]

LEMMA Others ==
  ASSUME IInv, NEW s \in Sessions, Keeps(s), NEW t \in Sessions \ {s}
  PROVE  Service(t)' = Service(t)
<1>1. sess'[t] = sess[t]
  BY DEF Keeps, Local
<1>2. CASE sess[t].pc # "idle" \/ sess[t].op = Null
  BY <1>1, <1>2 DEF Service
<1>3. CASE sess[t].pc = "idle" /\ sess[t].op # Null
  <2>1. sess[t].op \in OpClaim(t)
    BY <1>3 DEF OpClaim
  <2>2. sess[t].op \in Handles /\ slots[sess[t].op].owner = t
    BY <2>1, OwnOperation
  <2>3. slots'[sess[t].op] = slots[sess[t].op]
    BY <2>2, TeeCoreAssumption DEF Keeps, Local
  <2>4. QED
    BY <1>1, <2>3 DEF Service, Attr
<1>4. QED
  BY <1>2, <1>3

(* What a step of s is to the service.                                     *)
LEMMA Mapped ==
  ASSUME IInv, NEW s \in Sessions, Keeps(s), NEW v, Service(s)' = v
  PROVE  /\ Abstract!Becomes(s, v)
         /\ v = Service(s) => UNCHANGED Svc
         /\ ta' = ta
<1>1. Svc' = [Svc EXCEPT ![s] = v]
  BY Others DEF Svc
<1>2. v = Service(s) => Svc' = Svc
  BY <1>1 DEF Svc
<1>3. ta' = ta
  BY DEF Keeps, Local
<1>4. QED
  BY <1>1, <1>2, <1>3 DEF Abstract!Becomes, Svc

(* The service of s as its phase and its operation give it.                *)
LEMMA Read ==
  ASSUME NEW s \in Sessions
  PROVE  /\ Svc[s] = Service(s)
         /\ sess[s].phase \in {"closed", "destroying"} =>
              Service(s) = [st |-> "closed"]
         /\ sess[s].phase = "dead" => Service(s) = [st |-> "dead"]
         /\ sess[s].phase = "open" /\ (sess[s].pc # "idle" \/ sess[s].op = Null) =>
              Service(s) = [st |-> "unprepared"]
         /\ Idle(s) /\ sess[s].op # Null =>
              LET a == Attr(sess[s].op) IN
              Service(s) = [st |-> "ready", mode |-> a.mode, size |-> a.size,
                            key |-> a.key, fed |-> a.fed]
BY DEF Svc, Service, Idle

LEMMA OpenRefines ==
  ASSUME IInv, NEW s \in Sessions, TA_OpenSessionEntryPoint(s)
  PROVE  Abstract!Open(s)
<1>1. Keeps(s)
  BY OpenKeeps
<1>2. Svc[s] = [st |-> "closed"]
  BY Read DEF TA_OpenSessionEntryPoint
<1>3. sess[s] \in Sess /\ sess[s].op = Null
  BY Typing DEF TA_OpenSessionEntryPoint, Stage
<1>4. CASE /\ sess' = [sess EXCEPT ![s].phase = "open"]
           /\ Answer(s, "open", "OK", Null)
  <2>1. sess'[s].phase = "open" /\ sess'[s].op = Null
    BY <1>3, <1>4, Typing DEF Sess
  <2>2. Service(s)' = [st |-> "unprepared"]
    BY <2>1 DEF Service
  <2>3. Abstract!Becomes(s, Abstract!Unprepared)
    BY <1>1, <2>2, Mapped DEF Abstract!Unprepared
  <2>4. QED
    BY <1>2, <1>4, <2>3
       DEF Abstract!Open, Abstract!Closed, Abstract!Answer, Answer, Svc
<1>5. CASE Answer(s, "open", "FAIL", Null) /\ UNCHANGED sess
  <2>1. Service(s)' = Service(s)
    BY <1>5 DEF TA_OpenSessionEntryPoint, Service, Attr
  <2>2. UNCHANGED Svc
    BY <1>1, <2>1, Mapped
  <2>3. QED
    BY <1>2, <1>5, <2>2
       DEF Abstract!Open, Abstract!Closed, Abstract!Answer, Answer, Svc
<1>6. QED
  BY <1>4, <1>5 DEF TA_OpenSessionEntryPoint
-----------------------------------------------------------------------------
(* Answers that change nothing the client can see.                         *)

(* An open session is one to the service as well.                          *)
LEMMA OpenIsOpen ==
  ASSUME NEW s \in Sessions, sess[s].phase = "open"
  PROVE  /\ Abstract!IsOpen(s)
         /\ sess[s].op = Null => ~Abstract!IsReady(s)
         /\ Idle(s) /\ sess[s].op # Null => Abstract!IsReady(s)
<1>1. Svc[s].st = "ready" <=> Idle(s) /\ sess[s].op # Null
  BY Read DEF Idle
<1>2. (Idle(s) /\ sess[s].op # Null) \/ Svc[s] = [st |-> "unprepared"]
  BY Read DEF Idle
<1>3. QED
  BY <1>1, <1>2 DEF Abstract!IsOpen, Abstract!IsReady, Abstract!Unprepared, Svc

LEMMA RefusalRefines ==
  ASSUME IInv, NEW s \in Sessions, Keeps(s), sess[s].phase = "open",
         Service(s)' = Service(s),
         \/ \E cmd \in {"prepare", "set_key", "unknown"} :
              Answer(s, cmd, "BAD_PARAMETERS", Null)
         \/ Answer(s, "unknown", "NOT_SUPPORTED", Null)
         \/ ta[s] # "hash" /\ Answer(s, "set_key", "FAIL", Null)
         \/ /\ sess[s].op = Null
            /\ \E cmd \in {"encrypt", "decrypt", "sign", "update", "do_final"} :
                 Answer(s, cmd, "BAD_STATE", Null)
         \/ /\ Idle(s) /\ sess[s].op # Null
            /\ \E cmd \in {"encrypt", "decrypt", "sign", "do_final"},
                  res \in {"SHORT_BUFFER", "BAD_PARAMETERS"} :
                 Answer(s, cmd, res, Null)
  PROVE  Abstract!Refuse(s)
<1>1. UNCHANGED Svc
  BY Mapped
<1>2. QED
  BY <1>1, OpenIsOpen DEF Abstract!Refuse, Abstract!Answer, Answer, Svc

(* Nothing at all changes but the answer.                                  *)
LEMMA AnswerRefines ==
  ASSUME IInv, NEW s \in Sessions, UNCHANGED <<ta, sess, slots>>
  PROVE  Service(s)' = Service(s)
BY DEF Service, Attr
-----------------------------------------------------------------------------
(* The end of a session.                                                   *)

LEMMA PanicRefines ==
  ASSUME IInv, NEW s \in Sessions, NEW cmd, Panic(s, cmd), Keeps(s),
         Idle(s), ta[s] # "hash",
         \/ cmd = "set_key"
         \/ /\ cmd \in {"encrypt", "decrypt", "sign"} /\ sess[s].op # Null
            /\ Attr(sess[s].op).mode # cmd \/ Attr(sess[s].op).key = NoKey
  PROVE  Abstract!Die(s)
<1>1. Service(s)' = [st |-> "dead"]
  <2>1. sess'[s].phase = "dead"
    BY Typing DEF Panic, Closed
  <2>2. QED
    BY <2>1 DEF Service
<1>2. Abstract!Becomes(s, Abstract!Dead)
  BY <1>1, Mapped DEF Abstract!Dead
<1>3. cmd # "set_key" =>
        /\ Abstract!IsReady(s)
        /\ Svc[s].mode # cmd \/ Svc[s].key = Abstract!NoKey
  BY OpenIsOpen, Read DEF Idle, Abstract!NoKey, NoKey
<1>4. Abstract!IsOpen(s)
  BY OpenIsOpen DEF Idle
<1>5. QED
  BY <1>2, <1>3, <1>4 DEF Abstract!Die, Panic, Answer, Abstract!Answer, Svc

LEMMA CloseRefines ==
  ASSUME IInv, NEW s \in Sessions, TA_CloseSessionEntryPoint(s)
  PROVE  Abstract!Close(s)
<1>1. Keeps(s)
  BY CloseKeeps
<1>2. Service(s)' = [st |-> "closed"]
  <2>1. sess'[s].phase = "destroying"
    BY Typing DEF TA_CloseSessionEntryPoint, Closed
  <2>2. QED
    BY <2>1 DEF Service
<1>3. Abstract!Becomes(s, Abstract!Closed)
  BY <1>1, <1>2, Mapped DEF Abstract!Closed
<1>4. Svc[s] # Abstract!Closed
  BY Read DEF TA_CloseSessionEntryPoint, Idle, Abstract!Closed
<1>5. QED
  BY <1>3, <1>4 DEF Abstract!Close, TA_CloseSessionEntryPoint, Svc

(* To the client a dead session closes here, any other has closed already. *)
LEMMA DestroyRefines ==
  ASSUME IInv, NEW s \in Sessions, DestroyInstance(s)
  PROVE  Abstract!Close(s) \/ UNCHANGED <<ta, Svc, reply>>
<1>1. Keeps(s)
  BY DestroyKeeps
<1>2. Service(s)' = [st |-> "closed"]
  <2>1. sess'[s].phase = "closed"
    BY Typing DEF DestroyInstance, Closed
  <2>2. QED
    BY <2>1 DEF Service
<1>3. Abstract!Becomes(s, Abstract!Closed)
  BY <1>1, <1>2, Mapped DEF Abstract!Closed
<1>4. CASE sess[s].phase = "destroying"
  BY <1>1, <1>2, <1>4, Mapped, Read DEF DestroyInstance
<1>5. CASE sess[s].phase = "dead"
  <2>1. Svc[s] # Abstract!Closed
    BY <1>5, Read DEF Abstract!Closed
  <2>2. QED
    BY <1>3, <2>1 DEF Abstract!Close, DestroyInstance, Svc
<1>6. QED
  BY <1>4, <1>5 DEF DestroyInstance
-----------------------------------------------------------------------------
(* PREPARE.                                                                *)

LEMMA PrepareStartRefines ==
  ASSUME IInv, NEW s \in Sessions, NEW a \in PrepareArgs(ta[s]), PrepareStart(s, a)
  PROVE  Abstract!GiveUp(s) \/ UNCHANGED <<ta, Svc, reply>>
<1>1. Keeps(s)
  BY PrepareStartKeeps
<1>2. Service(s)' = [st |-> "unprepared"]
  <2>1. sess'[s].phase = "open" /\ sess'[s].pc = "alloc_op"
    BY Typing DEF PrepareStart, Idle, Sess
  <2>2. QED
    BY <2>1 DEF Service
<1>3. Abstract!Becomes(s, Abstract!Unprepared)
  BY <1>1, <1>2, Mapped DEF Abstract!Unprepared
<1>4. CASE sess[s].op = Null
  <2>1. Service(s) = [st |-> "unprepared"]
    BY <1>4, Read DEF PrepareStart, Idle
  <2>2. QED
    BY <1>1, <1>2, <2>1, Mapped DEF PrepareStart
<1>5. CASE sess[s].op # Null
  <2>1. Abstract!IsReady(s)
    BY <1>5, OpenIsOpen DEF PrepareStart, Idle
  <2>2. QED
    BY <1>3, <2>1 DEF Abstract!GiveUp, PrepareStart
<1>6. QED
  BY <1>4, <1>5

(* What PREPARE carries is of the mode and size the service may take.      *)
LEMMA Prepared ==
  ASSUME NEW t \in TAs, NEW a \in PrepareArgs(t), a.mode # "none"
  PROVE  a.mode \in Abstract!ModesOf(t) /\ a.size \in Abstract!Sizes
BY DEF PrepareArgs, NoArg, TAs, ModesOf, Sizes, Abstract!ModesOf, Abstract!Sizes

(* PREPARE ends well: the session has the operation it asked for.          *)
LEMMA PreparedRefines ==
  ASSUME IInv, NEW s \in Sessions, Keeps(s), Idle(s)', sess'[s].op # Null,
         sess[s].phase = "open", sess[s].pc # "idle",
         slots'[sess'[s].op].attr = OperationAttr(sess[s].arg),
         sess[s].arg.mode # "none",
         Answer(s, "prepare", "OK", Null)
  PROVE  Abstract!Prepare(s)
<1> DEFINE a == sess[s].arg
<1>1. a.mode \in Abstract!ModesOf(ta[s]) /\ a.size \in Abstract!Sizes
  BY Typing, Prepared DEF Stage
<1>2. Service(s)' = Abstract!Ready(a.mode, a.size)
  BY DEF Service, Idle, Attr, OperationAttr, Abstract!Ready, NoKey, Abstract!NoKey
<1>3. Abstract!Becomes(s, Abstract!Ready(a.mode, a.size))
  BY <1>2, Mapped
<1>4. Svc[s] = Abstract!Unprepared
  BY Read DEF Abstract!Unprepared
<1>5. QED
  BY <1>1, <1>3, <1>4 DEF Abstract!Prepare, Abstract!Answer, Answer, Svc

(* PREPARE goes on: the client has seen nothing of it yet.                 *)
LEMMA PreparingRefines ==
  ASSUME IInv, NEW s \in Sessions, Keeps(s), UNCHANGED reply,
         sess[s].phase = "open", sess'[s].phase = "open",
         sess[s].pc # "idle", sess'[s].pc # "idle"
  PROVE  UNCHANGED <<ta, Svc, reply>>
<1>1. Service(s) = [st |-> "unprepared"] /\ Service(s)' = [st |-> "unprepared"]
  BY DEF Service
<1>2. QED
  BY <1>1, Mapped

LEMMA AllocateOperationRefines ==
  ASSUME IInv, NEW s \in Sessions, AllocateOperation(s)
  PROVE  Abstract!Prepare(s) \/ UNCHANGED <<ta, Svc, reply>>
<1> DEFINE a == sess[s].arg
<1>1. Keeps(s)
  BY AllocateOperationKeeps
<1>2. sess[s].phase = "open" /\ sess[s].pc = "alloc_op" /\ sess[s] \in Sess
  BY Typing DEF AllocateOperation, Stage
<1>3. ASSUME NEW h \in Spare(slots), a.mode # "none",
             sess' = [sess EXCEPT ![s].op = h, ![s].pc = "idle", ![s].arg = NoArg],
             slots' = Install(slots, h, "op", s, OperationAttr(a)),
             Answer(s, "prepare", "OK", Null)
      PROVE  Abstract!Prepare(s)
  <2>1. h \in Handles /\ h # Null
    BY TeeCoreAssumption DEF Spare
  <2>2. sess'[s].op = h /\ Idle(s)'
    BY <1>2, <1>3, Typing DEF Sess, Idle
  <2>3. slots'[h].attr = OperationAttr(a)
    BY <1>3, <2>1, Typing DEF Install
  <2>4. QED
    BY <1>1, <1>2, <1>3, <2>1, <2>2, <2>3, PreparedRefines
<1>4. ASSUME UNCHANGED reply,
             \E h \in Handles \cup {Null}, pc \in {"alloc_key", "err"} :
               sess' = [sess EXCEPT ![s].op = h, ![s].pc = pc]
      PROVE  UNCHANGED <<ta, Svc, reply>>
  <2>1. sess'[s].phase = "open" /\ sess'[s].pc # "idle"
    BY <1>2, <1>4, Typing DEF Sess
  <2>2. QED
    BY <1>1, <1>2, <1>4, <2>1, PreparingRefines
<1>5. QED
  BY <1>3, <1>4 DEF AllocateOperation, Spare

LEMMA AllocateTransientObjectRefines ==
  ASSUME IInv, NEW s \in Sessions, AllocateTransientObject(s)
  PROVE  Abstract!Prepare(s) \/ UNCHANGED <<ta, Svc, reply>>
<1> DEFINE a == sess[s].arg
           op == sess[s].op
<1>1. Keeps(s)
  BY AllocateTransientObjectKeeps
<1>2. /\ sess[s].phase = "open" /\ sess[s].pc = "alloc_key" /\ sess[s] \in Sess
      /\ op # Null /\ a.mode # "none" /\ Attr(op) = OperationAttr(a)
  BY Typing DEF AllocateTransientObject, Stage
<1>3. ASSUME NEW h \in Spare(slots),
             sess' = [sess EXCEPT ![s].key = h, ![s].pc = "idle", ![s].arg = NoArg],
             slots' = Install(slots, h, "obj", s, ObjectAttr(a)),
             Answer(s, "prepare", "OK", Null)
      PROVE  Abstract!Prepare(s)
  <2>1. op \in Handles /\ slots[op].kind = "op"
    <3>1. op \in OpClaim(s)
      BY <1>2 DEF OpClaim
    <3>2. QED
      BY <3>1, OwnOperation
  <2>2. sess'[s].op = op /\ Idle(s)'
    BY <1>2, <1>3, Typing DEF Sess, Idle
  <2>3. slots'[op].attr = OperationAttr(a)
    <3>1. op # h
      BY <2>1 DEF Spare
    <3>2. QED
      BY <1>2, <1>3, <2>1, <3>1, Typing DEF Install, Attr
  <2>4. QED
    BY <1>1, <1>2, <1>3, <2>2, <2>3, PreparedRefines
<1>4. ASSUME UNCHANGED reply, sess' = [sess EXCEPT ![s].key = Null, ![s].pc = "err"]
      PROVE  UNCHANGED <<ta, Svc, reply>>
  <2>1. sess'[s].phase = "open" /\ sess'[s].pc # "idle"
    BY <1>2, <1>4, Typing DEF Sess
  <2>2. QED
    BY <1>1, <1>2, <1>4, <2>1, PreparingRefines
<1>5. QED
  BY <1>3, <1>4 DEF AllocateTransientObject

LEMMA PrepareErrorRefines ==
  ASSUME IInv, NEW s \in Sessions, PrepareError(s)
  PROVE  Abstract!Prepare(s) \/ Abstract!Refuse(s)
<1>1. Keeps(s)
  BY PrepareErrorKeeps
<1>2. sess[s].phase = "open" /\ sess[s].pc = "err" /\ sess[s] \in Sess
  BY Typing DEF PrepareError, Stage
<1>3. sess'[s].phase = "open" /\ sess'[s].op = Null
  BY <1>2, Typing DEF PrepareError, Sess
<1>4. Service(s) = [st |-> "unprepared"] /\ Service(s)' = [st |-> "unprepared"]
  BY <1>2, <1>3 DEF Service
<1>5. CASE Answer(s, "prepare", "BAD_PARAMETERS", Null)
  BY <1>1, <1>2, <1>4, <1>5, RefusalRefines
<1>6. CASE Answer(s, "prepare", "FAIL", Null)
  <2>1. UNCHANGED Svc /\ Svc[s] = Abstract!Unprepared
    BY <1>1, <1>4, Mapped, Read DEF Abstract!Unprepared
  <2>2. QED
    BY <1>6, <2>1 DEF Abstract!Prepare, Abstract!Answer, Answer, Svc
<1>7. QED
  BY <1>5, <1>6 DEF PrepareError
-----------------------------------------------------------------------------
(* Commands between PREPAREs.                                              *)

(* What is written into the object does not show.                          *)
LEMMA ObjectHidden ==
  ASSUME IInv, NEW s \in Sessions, Idle(s), UNCHANGED sess,
         \A h \in Handles \ {sess[s].key} : slots'[h] = slots[h]
  PROVE  Service(s)' = Service(s)
<1>1. sess[s].op # Null => sess[s].op \in Handles \ {sess[s].key}
  <2>1. sess[s].op # Null => sess[s].op \in Handles /\ slots[sess[s].op].kind = "op"
    BY IdleClaims, OwnOperation, ZenonT(60)
  <2>2. sess[s].key # Null => slots[sess[s].key].kind = "obj"
    BY IdleClaims, OwnObject
  <2>3. QED
    BY <2>1, <2>2
<1>2. sess[s].op # Null => Attr(sess[s].op)' = Attr(sess[s].op)
  BY <1>1 DEF Attr
<1>3. QED
  BY <1>2 DEF Service

(* The operation is all that shows.                                        *)
LEMMA Shows ==
  ASSUME IInv, NEW s \in Sessions, Idle(s), UNCHANGED sess, sess[s].op # Null
  PROVE  LET a == slots'[sess[s].op].attr IN
         Service(s)' = [st |-> "ready", mode |-> a.mode, size |-> a.size,
                        key |-> a.key, fed |-> a.fed]
BY DEF Service, Attr, Idle

LEMMA LoadedRefines ==
  ASSUME IInv, NEW s \in Sessions, Idle(s), ta[s] # "hash", NEW k \in Keys,
         Keyable(s, k), Loaded(s, k)
  PROVE  Abstract!SetKey(s, k) \/ Abstract!Refuse(s)
<1> DEFINE obj == sess[s].key
           op == sess[s].op
<1>1. Keeps(s) /\ op # Null /\ obj # Null /\ UNCHANGED sess
  BY LoadedKeeps DEF Keyable, Loaded
<1>2. sess[s].phase = "open"
  BY DEF Idle
<1>3. op \in Handles /\ slots[op].attr \in Attrs /\ op # obj
  <2>1. op \in Handles /\ slots[op].attr \in Attrs /\ slots[op].kind = "op"
    <3>1. op \in OpClaim(s)
      BY <1>1, IdleClaims
    <3> HIDE DEF op
    <3>2. QED
      BY <3>1, OwnOperation
  <2>2. slots[obj].kind = "obj"
    <3>1. obj \in KeyClaim(s)
      BY <1>1, IdleClaims
    <3> HIDE DEF obj
    <3>2. QED
      BY <3>1, OwnObject
  <2>3. QED
    BY <2>1, <2>2
<1>4. CASE /\ slots' = [slots EXCEPT ![obj].attr.key = k, ![op].attr.key = k]
           /\ Answer(s, "set_key", "OK", Null)
  <2> DEFINE a == slots[op].attr
  <2>1. slots'[op].attr = [a EXCEPT !.key = k]
    <3>1. slots'[op] = [slots[op] EXCEPT !.attr.key = k]
      BY <1>3, <1>4, Typing
    <3>2. slots[op] = [kind |-> "op", owner |-> s, attr |-> a]
      <4>1. op \in OpClaim(s)
        BY <1>1, IdleClaims
      <4> HIDE DEF op
      <4>2. QED
        BY <4>1, OwnOperation
    <3>3. QED
      BY <3>1, <3>2
  <2>2. /\ Svc[s] = [st |-> "ready", mode |-> a.mode, size |-> a.size,
                      key |-> a.key, fed |-> a.fed]
        /\ Abstract!IsReady(s)
    BY <1>1, <1>2, Read, OpenIsOpen DEF Attr
  <2>3. Service(s)' = [st |-> "ready", mode |-> a.mode, size |-> a.size,
                       key |-> k, fed |-> a.fed]
    BY <1>1, <1>3, <2>1, Shows DEF Attrs
  <2>4. Abstract!Becomes(s, [Svc[s] EXCEPT !.key = k])
    BY <1>1, <2>2, <2>3, Mapped
  <2>5. /\ k.size <= a.size
        /\ a.mode \in {"decrypt", "sign"} => k.form = "pair"
    <3>1. slots[obj].attr.size = a.size
      BY <1>1, Typing DEF Attr, Stage, Idle
    <3>2. QED
      BY <3>1 DEF Keyable, Takes, Attr
  <2>6. Abstract!Answer(s, "set_key", "OK", Null)
    BY <1>4 DEF Abstract!Answer, Answer
  <2>7. /\ k.size <= Svc[s].size
        /\ Svc[s].mode \in {"decrypt", "sign"} => k.form = "pair"
    <3> HIDE DEF a
    <3>1. Svc[s].size = a.size /\ Svc[s].mode = a.mode
      BY <2>2
    <3>2. QED
      BY <2>5, <3>1
  <2>8. Abstract!SetKey(s, k)
    <3> HIDE DEF a, op, obj
    <3>1. QED
      BY <2>2, <2>4, <2>6, <2>7 DEF Abstract!SetKey, Svc
  <2>9. QED
    BY <2>8
<1>5. CASE /\ slots' = [slots EXCEPT ![obj].attr.key = k]
           /\ Answer(s, "set_key", "FAIL", Null)
  <2>1. \A h \in Handles \ {obj} : slots'[h] = slots[h]
    BY <1>5, Typing
  <2>2. QED
    BY <1>1, <1>2, <1>5, <2>1, ObjectHidden, RefusalRefines
<1>6. QED
  BY <1>4, <1>5 DEF Loaded

(* Key of the service and key of the TA are the same.                      *)
LEMMA SameKeys == Abstract!Keys = Keys /\ Abstract!NoKey = NoKey
BY DEF Abstract!Keys, Keys, Forms, Abstract!NoKey, NoKey

LEMMA RsaSetKeyRefines ==
  ASSUME IInv, NEW s \in Sessions, NEW k \in Keys, rsa_set_key(s, k)
  PROVE  Abstract!SetKey(s, k) \/ Abstract!Refuse(s) \/ Abstract!Die(s)
<1>1. Keeps(s)
  BY RsaSetKeyKeeps
<1>2. Idle(s) /\ sess[s].phase = "open" /\ ta[s] # "hash"
  BY DEF rsa_set_key, RsaSetKeyRefused, RsaSetKeyPanics, RsaSetKeyLoaded,
         Serves, Idle
<1>3. CASE RsaSetKeyRefused(s, k)
  <2>1. \A h \in Handles \ {sess[s].key} : slots'[h] = slots[h]
    BY <1>3, Typing DEF RsaSetKeyRefused
  <2>2. Answer(s, "set_key", "BAD_PARAMETERS", Null) /\ UNCHANGED sess
    BY <1>3 DEF RsaSetKeyRefused
  <2>3. QED
    BY <1>1, <1>2, <2>1, <2>2, ObjectHidden, RefusalRefines
<1>4. CASE RsaSetKeyPanics(s, k)
  BY <1>1, <1>2, <1>4, PanicRefines DEF RsaSetKeyPanics
<1>5. CASE RsaSetKeyLoaded(s, k)
  BY <1>2, <1>5, LoadedRefines DEF RsaSetKeyLoaded
<1>6. QED
  BY <1>3, <1>4, <1>5 DEF rsa_set_key

LEMMA DsaSetKeyRefines ==
  ASSUME IInv, NEW s \in Sessions, NEW id \in KeyIds, dsa_set_key(s, id)
  PROVE  \/ Generated(id) \in Keys /\ Abstract!SetKey(s, Generated(id))
         \/ Abstract!Refuse(s) \/ Abstract!Die(s)
<1>1. Keeps(s) /\ Generated(id) \in Keys
  BY KeyAssumption, DsaSetKeyKeeps DEF Generated, Keys, Forms
<1>2. Idle(s) /\ sess[s].phase = "open" /\ ta[s] # "hash"
  BY DEF dsa_set_key, DsaGenerateRefused, DsaGeneratePanics, DsaGenerated,
         DsaSingleBuffer, Serves, Idle
<1>3. CASE DsaGenerateRefused(s, id)
  <2>1. \A h \in Handles \ {sess[s].key} : slots'[h] = slots[h]
    BY <1>3, Typing DEF DsaGenerateRefused
  <2>2. Answer(s, "set_key", "BAD_PARAMETERS", Null) /\ UNCHANGED sess
    BY <1>3 DEF DsaGenerateRefused
  <2>3. QED
    BY <1>1, <1>2, <2>1, <2>2, ObjectHidden, RefusalRefines
<1>4. CASE DsaGeneratePanics(s, id)
  BY <1>1, <1>2, <1>4, PanicRefines DEF DsaGeneratePanics
<1>5. CASE DsaGenerated(s, id)
  BY <1>1, <1>2, <1>5, LoadedRefines DEF DsaGenerated
<1>6. CASE DsaSingleBuffer(s)
  <2>1. CASE Panic(s, "set_key")
    BY <1>1, <1>2, <2>1, PanicRefines
  <2>2. CASE /\ slots' = [h \in Handles |->
                            IF h = sess[s].key
                            THEN [slots[h] EXCEPT !.attr.key = NoKey]
                            ELSE slots[h]]
             /\ Answer(s, "set_key", "FAIL", Null)
             /\ UNCHANGED sess
    <3>1. \A h \in Handles \ {sess[s].key} : slots'[h] = slots[h]
      BY <2>2
    <3>2. QED
      BY <1>1, <1>2, <2>2, <3>1, ObjectHidden, RefusalRefines
  <2>3. QED
    BY <1>6, <2>1, <2>2 DEF DsaSingleBuffer
<1>7. QED
  BY <1>3, <1>4, <1>5, <1>6 DEF dsa_set_key

LEMMA AsymmetricRefines ==
  ASSUME IInv, NEW s \in Sessions, Idle(s), UNCHANGED ta, ta[s] # "hash",
         NEW mode \in {"encrypt", "decrypt", "sign"}, NEW room,
         Refused(s, mode) \/ Asymmetric(s, mode, room)
  PROVE  Abstract!Run(s, mode) \/ Abstract!Refuse(s) \/ Abstract!Die(s)
<1> DEFINE op == sess[s].op
<1>1. Keeps(s)
  BY AsymmetricKeeps
<1>2. sess[s].phase = "open"
  BY DEF Idle
<1>3. CASE Refused(s, mode)
  <2>1. Service(s)' = Service(s)
    BY <1>3, AnswerRefines DEF Refused
  <2>2. QED
    BY <1>1, <1>2, <1>3, <2>1, RefusalRefines DEF Refused
<1>4. CASE /\ op # Null
           /\ Attr(op).mode # mode \/ Attr(op).key = NoKey
           /\ Panic(s, mode)
  BY <1>1, <1>4, PanicRefines
<1>5. CASE /\ op # Null
           /\ Attr(op).mode = mode /\ Attr(op).key # NoKey
           /\ \/ Answer(s, mode, "OK", Attr(op).key)
              \/ \E res \in {"SHORT_BUFFER", "BAD_PARAMETERS"} :
                   Answer(s, mode, res, Null)
           /\ UNCHANGED <<sess, slots>>
  <2>1. Service(s)' = Service(s)
    BY <1>5, AnswerRefines
  <2>2. CASE Answer(s, mode, "OK", Attr(op).key)
    <3>1. UNCHANGED Svc
      BY <1>1, <2>1, Mapped
    <3>2. /\ Abstract!IsReady(s) /\ Svc[s].mode = mode
          /\ Svc[s].key = Attr(op).key /\ Svc[s].key # Abstract!NoKey
      BY <1>2, <1>5, Read, OpenIsOpen, SameKeys
    <3>3. QED
      BY <2>2, <3>1, <3>2 DEF Abstract!Run, Abstract!Answer, Answer, Svc
  <2>3. CASE \E res \in {"SHORT_BUFFER", "BAD_PARAMETERS"} :
               Answer(s, mode, res, Null)
    BY <1>1, <1>2, <1>5, <2>1, <2>3, RefusalRefines
  <2>4. QED
    BY <1>5, <2>2, <2>3
<1>6. QED
  BY <1>3, <1>4, <1>5 DEF Asymmetric

(* The chunks of the operation are those of the service.                   *)
LEMMA FedRefines ==
  ASSUME IInv, NEW s \in Sessions, Idle(s), UNCHANGED sess, Keeps(s),
         sess[s].op # Null, NEW fed,
         slots' = [slots EXCEPT ![sess[s].op].attr.fed = fed]
  PROVE  /\ Abstract!IsReady(s)
         /\ Svc[s].fed = Attr(sess[s].op).fed
         /\ Abstract!Becomes(s, [Svc[s] EXCEPT !.fed = fed])
<1> DEFINE op == sess[s].op
           a == slots[op].attr
<1>1. op \in Handles /\ slots[op] = [kind |-> "op", owner |-> s, attr |-> a]
      /\ a \in Attrs
  <2>1. op \in OpClaim(s)
    BY IdleClaims
  <2> HIDE DEF op
  <2>2. QED
    BY <2>1, OwnOperation
<1>2. slots'[op].attr = [a EXCEPT !.fed = fed]
  <2>1. slots'[op] = [slots[op] EXCEPT !.attr.fed = fed]
    BY <1>1, Typing
  <2>2. QED
    BY <1>1, <2>1
<1>3. Svc[s] = [st |-> "ready", mode |-> a.mode, size |-> a.size,
                key |-> a.key, fed |-> a.fed]
  BY Read DEF Attr
<1>4. Service(s)' = [st |-> "ready", mode |-> a.mode, size |-> a.size,
                     key |-> a.key, fed |-> fed]
  BY <1>1, <1>2, Shows DEF Attrs
<1>5. Service(s)' = [Svc[s] EXCEPT !.fed = fed]
  BY <1>3, <1>4
<1>6. Abstract!Becomes(s, [Svc[s] EXCEPT !.fed = fed])
  BY <1>5, Mapped
<1>7. QED
  BY <1>3, <1>6, OpenIsOpen DEF Idle, Attr

LEMMA HashRefines ==
  ASSUME IInv, NEW s \in Sessions, NEW c \in Chunks, NEW room \in BOOLEAN,
         hash_update(s, c) \/ hash_do_final(s, c, room), Keeps(s)
  PROVE  Abstract!Update(s, c) \/ Abstract!Final(s, c) \/ Abstract!Refuse(s)
<1> DEFINE op == sess[s].op
<1>1. Idle(s) /\ sess[s].phase = "open" /\ ta[s] = "hash"
  BY DEF hash_update, hash_do_final, HashFinal, HashFinalRefused, Serves, Idle
<1>2. ASSUME NEW cmd \in {"update", "do_final"}, Refused(s, cmd)
      PROVE  Abstract!Refuse(s)
  <2>1. Service(s)' = Service(s)
    <3>1. op = Null /\ UNCHANGED sess
      BY <1>2 DEF Refused
    <3>2. QED
      BY <3>1 DEF Service
  <2>2. QED
    BY <1>1, <1>2, <2>1, RefusalRefines DEF Refused
<1>3. CASE /\ op # Null /\ Len(Attr(op).fed) < MaxChunks
           /\ slots' = [slots EXCEPT ![op].attr.fed = Append(@, c)]
           /\ Answer(s, "update", "OK", Null)
           /\ UNCHANGED sess
  <2>1. op \in Handles
    BY <1>1, <1>3, IdleClaims, OwnOperation
  <2>2. slots' = [slots EXCEPT ![op].attr.fed = Append(Attr(op).fed, c)]
    BY <1>3, <2>1, Typing DEF Attr
  <2>3. /\ Abstract!IsReady(s) /\ Svc[s].fed = Attr(op).fed
        /\ Abstract!Becomes(s, [Svc[s] EXCEPT !.fed = Append(Attr(op).fed, c)])
    BY <1>1, <1>3, <2>2, FedRefines
  <2>4. Abstract!Becomes(s, [Svc[s] EXCEPT !.fed = Append(@, c)])
    BY <2>3
  <2>5. QED
    BY <1>1, <1>3, <2>3, <2>4
       DEF Abstract!Update, Abstract!Answer, Answer, Svc
<1>4. CASE HashFinal(s, c)
  <2>1. /\ op # Null /\ UNCHANGED sess
        /\ slots' = [slots EXCEPT ![op].attr.fed = <<>>]
        /\ Answer(s, "do_final", "OK", [digest |-> Append(Attr(op).fed, c)])
    BY <1>4 DEF HashFinal
  <2>2. /\ Abstract!IsReady(s) /\ Svc[s].fed = Attr(op).fed
        /\ Abstract!Becomes(s, [Svc[s] EXCEPT !.fed = <<>>])
    BY <1>1, <2>1, FedRefines
  <2>3. QED
    BY <1>1, <2>1, <2>2 DEF Abstract!Final, Abstract!Answer, Answer, Svc
<1>5. CASE /\ op # Null
           /\ Answer(s, "do_final", "SHORT_BUFFER", Null)
           /\ UNCHANGED <<ta, sess, slots>>
  <2>1. Service(s)' = Service(s)
    BY <1>5, AnswerRefines
  <2>2. QED
    BY <1>1, <1>5, <2>1, RefusalRefines
<1>6. QED
  BY <1>2, <1>3, <1>4, <1>5
     DEF hash_update, hash_do_final, HashFinalRefused
-----------------------------------------------------------------------------
LEMMA InitRefines == Init => Abstract!Init
<1> SUFFICES ASSUME Init PROVE Abstract!Init
  OBVIOUS
<1>1. \A s \in Sessions : Service(s) = [st |-> "closed"]
  BY DEF Init, Service, Closed
<1>2. QED
  BY <1>1 DEF Init, NoReply, TAs, Abstract!Init, Abstract!Closed

(* The service's steps, one by one.                                        *)
LEMMA ServiceSteps ==
  ASSUME NEW s \in Sessions, ta' = ta,
         \/ Abstract!Open(s) \/ Abstract!Close(s) \/ Abstract!GiveUp(s)
         \/ Abstract!Prepare(s) \/ Abstract!Refuse(s)
         \/ \E k \in Keys : Abstract!SetKey(s, k)
         \/ \E mode \in {"encrypt", "decrypt", "sign"} : Abstract!Run(s, mode)
         \/ \E c \in Chunks : Abstract!Update(s, c) \/ Abstract!Final(s, c)
         \/ Abstract!Die(s)
  PROVE  Abstract!Next
BY SameKeys DEF Abstract!Next

LEMMA InvokeRefines ==
  ASSUME IInv, NEW s \in Sessions, TA_InvokeCommandEntryPoint(s)
  PROVE  Abstract!Next \/ UNCHANGED <<ta, Svc, reply>>
<1>1. Keeps(s) /\ ta' = ta
  BY InvokeKeeps DEF Keeps, Local
<1>2. ASSUME NEW a \in PrepareArgs(ta[s]), alloc_resources(s, a)
      PROVE  Abstract!Next \/ UNCHANGED <<ta, Svc, reply>>
  <2>1. CASE PrepareRefused(s, a)
    <3>1. Service(s)' = Service(s)
      BY <2>1, AnswerRefines DEF PrepareRefused
    <3>2. Abstract!Refuse(s)
      BY <1>1, <2>1, <3>1, RefusalRefines DEF PrepareRefused, Serves, Idle
    <3>3. QED
      BY <1>1, <3>2, ServiceSteps
  <2>2. CASE PrepareStart(s, a)
    BY <1>1, <2>2, PrepareStartRefines, ServiceSteps
  <2>3. QED
    BY <1>2, <2>1, <2>2 DEF alloc_resources
<1>3. CASE rsa_invoke(s)
  <2>1. ASSUME NEW k \in Keys, rsa_set_key(s, k) PROVE Abstract!Next
    BY <1>1, <2>1, RsaSetKeyRefines, ServiceSteps
  <2>2. ASSUME NEW room \in BOOLEAN,
               rsa_asymmetric_encrypt(s, room) \/ rsa_asymmetric_decrypt(s, room)
        PROVE  Abstract!Next
    BY <1>1, <2>2, AsymmetricRefines, ServiceSteps
       DEF rsa_asymmetric_encrypt, rsa_asymmetric_decrypt, Serves
  <2>3. QED
    BY <1>3, <2>1, <2>2 DEF rsa_invoke
<1>4. CASE dsa_invoke(s)
  <2>1. ASSUME NEW id \in KeyIds, dsa_set_key(s, id) PROVE Abstract!Next
    BY <1>1, <2>1, DsaSetKeyRefines, ServiceSteps
  <2>2. ASSUME NEW room \in BOOLEAN, dsa_asymmetric_sign_digest(s, room)
        PROVE  Abstract!Next
    BY <1>1, <2>2, AsymmetricRefines, ServiceSteps
       DEF dsa_asymmetric_sign_digest, Serves
  <2>3. QED
    BY <1>4, <2>1, <2>2 DEF dsa_invoke
<1>5. CASE hash_invoke(s)
  <2>1. ASSUME NEW c \in Chunks, NEW room \in BOOLEAN,
               hash_update(s, c) \/ hash_do_final(s, c, room)
        PROVE  Abstract!Next
    BY <1>1, <2>1, HashRefines, ServiceSteps
  <2>2. QED
    BY <1>5, <2>1 DEF hash_invoke
<1>6. CASE Malformed(s)
  <2>1. Service(s)' = Service(s)
    BY <1>6, AnswerRefines DEF Malformed
  <2>2. Abstract!Refuse(s)
    BY <1>1, <1>6, <2>1, RefusalRefines DEF Malformed, Idle
  <2>3. QED
    BY <1>1, <2>2, ServiceSteps
<1>7. QED
  BY <1>2, <1>3, <1>4, <1>5, <1>6 DEF TA_InvokeCommandEntryPoint

LEMMA StepRefines == IInv /\ [Next]_vars => [Abstract!Next]_(Abstract!vars)
<1> SUFFICES ASSUME IInv, [Next]_vars
             PROVE  Abstract!Next \/ UNCHANGED <<ta, Svc, reply>>
  BY DEF Abstract!vars, Svc
<1>1. ASSUME NEW s \in Sessions,
             \/ TA_OpenSessionEntryPoint(s)
             \/ TA_InvokeCommandEntryPoint(s)
             \/ Handler(s)
             \/ TA_CloseSessionEntryPoint(s)
             \/ DestroyInstance(s)
      PROVE  Abstract!Next \/ UNCHANGED <<ta, Svc, reply>>
  <2>1. CASE TA_OpenSessionEntryPoint(s)
    BY <2>1, OpenRefines, ServiceSteps DEF TA_OpenSessionEntryPoint
  <2>2. CASE TA_InvokeCommandEntryPoint(s)
    BY <2>2, InvokeRefines
  <2>3. CASE Handler(s)
    <3>1. ta' = ta
      BY <2>3 DEF Handler, AllocateOperation, AllocateTransientObject, PrepareError
    <3>2. QED
      BY <2>3, <3>1, AllocateOperationRefines, AllocateTransientObjectRefines,
         PrepareErrorRefines, ServiceSteps DEF Handler
  <2>4. CASE TA_CloseSessionEntryPoint(s)
    BY <2>4, CloseRefines, ServiceSteps DEF TA_CloseSessionEntryPoint
  <2>5. CASE DestroyInstance(s)
    BY <2>5, DestroyRefines, ServiceSteps DEF DestroyInstance
  <2>6. QED
    BY <1>1, <2>1, <2>2, <2>3, <2>4, <2>5
<1>2. CASE UNCHANGED vars
  BY <1>2 DEF vars, Svc, Service, Attr
<1>3. QED
  BY <1>1, <1>2 DEF Next

(* The RSA, DSA and hash TAs implement the service that KeyService states: *)
(* whatever fails and whoever runs beside it, a session yields what was    *)
(* last accepted, and is lost only where the service says it may be.       *)
THEOREM KeyTARefinesKeyService == Spec => ImplementsKeyService
<1>1. Spec => []IInv
  BY InitIInv, StepIInv, PTL DEF Spec
<1>2. QED
  BY <1>1, InitRefines, StepRefines, PTL
     DEF Spec, ImplementsKeyService, Abstract!Spec
-----------------------------------------------------------------------------
(* The mains of KeyDemo.                                                   *)

Positions(t) == {Failed, Passing, Stranger} \cup DOMAIN Script(t)

(* What a main prepares its session for where it stands, and the key it    *)
(* brings.                                                                 *)
ModeOf(s) ==
  CASE ta[s] = "rsa" -> IF at[s] <= 4 THEN "encrypt" ELSE "decrypt"
    [] ta[s] = "dsa" -> "sign"
    [] ta[s] = "hash" -> "digest"
FormOf(s) == IF ModeOf(s) = "encrypt" THEN "public" ELSE "pair"
ArgOf(s) ==
  IF ta[s] = "hash" THEN [mode |-> "digest", size |-> 0, type |-> "none"]
  ELSE [mode |-> ModeOf(s), size |-> 2, type |-> FormOf(s)]
KeyOf(s) == [id |-> DemoKey, form |-> FormOf(s), size |-> 2]

Prepares(s) ==
  IF ta[s] = "rsa" THEN at[s] \in {2, 5} ELSE at[s] = 2
SetsKey(s) ==
  \/ ta[s] = "rsa" /\ at[s] \in {3, 6}
  \/ ta[s] = "dsa" /\ at[s] = 3
Operates(s) ==
  \/ ta[s] = "rsa" /\ at[s] \in {4, 7}
  \/ ta[s] = "dsa" /\ at[s] = 4

Configured(s, key, fed) ==
  Service(s) = [st |-> "ready", mode |-> ModeOf(s), size |-> ArgOf(s).size,
                key |-> key, fed |-> fed]

Progress(s) ==
  /\ at[s] \in Positions(ta[s])
  /\ at[s] = 1 => sess[s].phase = "closed"
  /\ Prepares(s) =>
       sess[s].phase = "open" /\ (sess[s].pc # "idle" => sess[s].arg = ArgOf(s))
  /\ SetsKey(s) =>
       Configured(s, NoKey, <<>>) /\ Attr(sess[s].key).type = FormOf(s)
  /\ Operates(s) => Configured(s, KeyOf(s), <<>>)
  /\ ta[s] = "hash" /\ at[s] = 3 => Configured(s, NoKey, <<>>)
  /\ ta[s] = "hash" /\ at[s] = 4 => Configured(s, NoKey, <<First>>)
  /\ ta[s] = "rsa" /\ at[s] \in 5..7 =>
       out[s] = [text |-> "encrypted", id |-> DemoKey, size |-> 2]
  /\ at[s] = Passing =>
       CASE ta[s] = "rsa" -> out[s] = Clear
         [] ta[s] = "dsa" -> out[s] = Signed(Generated(DemoKey))
         [] ta[s] = "hash" -> out[s] = [text |-> "digest", of |-> <<First, Second>>]
  /\ at[s] \in {Failed, Passing} => sess[s].pc = "idle"
  /\ at[s] = Failed /\ reply.to = s => reply.res \in {"FAIL", "BAD_PARAMETERS"}

DemoInv ==
  /\ IInv
  /\ DOMAIN at = Sessions /\ DOMAIN out = Sessions
  /\ \A s \in Sessions : Progress(s)
-----------------------------------------------------------------------------
(* The scripts of the mains, by number.                                    *)
LEMMA Scripts ==
  /\ Failed = 0 /\ Passing = 8 /\ Stranger = 9
  /\ DOMAIN Script("rsa") = 1..7 /\ Len(Script("rsa")) = 7
  /\ DOMAIN Script("dsa") = 1..4 /\ Len(Script("dsa")) = 4
  /\ DOMAIN Script("hash") = 1..4 /\ Len(Script("hash")) = 4
  /\ Script("rsa")[1] = "open" /\ Script("rsa")[2] = "encode"
  /\ Script("rsa")[3] = "set_key" /\ Script("rsa")[4] = "encrypt"
  /\ Script("rsa")[5] = "decode" /\ Script("rsa")[6] = "set_key"
  /\ Script("rsa")[7] = "decrypt"
  /\ Script("dsa")[1] = "open" /\ Script("dsa")[2] = "signing"
  /\ Script("dsa")[3] = "set_key" /\ Script("dsa")[4] = "sign"
  /\ Script("hash")[1] = "open" /\ Script("hash")[2] = "digest"
  /\ Script("hash")[3] = "update" /\ Script("hash")[4] = "do_final"
<1>1. /\ Script("rsa") = <<"open", "encode", "set_key", "encrypt",
                           "decode", "set_key", "decrypt">>
      /\ Script("dsa") = <<"open", "signing", "set_key", "sign">>
      /\ Script("hash") = <<"open", "digest", "update", "do_final">>
  BY DEF Script
<1>2. Failed = 0 /\ Passing = 8 /\ Stranger = 9
  BY DEF Failed, Passing, Stranger
<1>3. /\ DOMAIN Script("rsa") = 1..7 /\ Len(Script("rsa")) = 7
      /\ Script("rsa")[1] = "open" /\ Script("rsa")[2] = "encode"
      /\ Script("rsa")[3] = "set_key" /\ Script("rsa")[4] = "encrypt"
      /\ Script("rsa")[5] = "decode" /\ Script("rsa")[6] = "set_key"
      /\ Script("rsa")[7] = "decrypt"
  BY <1>1
<1>4. /\ DOMAIN Script("dsa") = 1..4 /\ Len(Script("dsa")) = 4
      /\ Script("dsa")[1] = "open" /\ Script("dsa")[2] = "signing"
      /\ Script("dsa")[3] = "set_key" /\ Script("dsa")[4] = "sign"
  BY <1>1
<1>5. /\ DOMAIN Script("hash") = 1..4 /\ Len(Script("hash")) = 4
      /\ Script("hash")[1] = "open" /\ Script("hash")[2] = "digest"
      /\ Script("hash")[3] = "update" /\ Script("hash")[4] = "do_final"
  BY <1>1
<1>6. QED
  BY <1>2, <1>3, <1>4, <1>5

(* Which command belongs to which main, and when.                          *)
Stands(s) ==
  /\ Failed = 0 /\ Passing = 8 /\ Stranger = 9
  /\ ta[s] \in TAs /\ at[s] \in 0..9
  /\ Running(s) <=> at[s] \in 1..Len(Script(ta[s]))
  /\ Len(Script(ta[s])) = IF ta[s] = "rsa" THEN 7 ELSE 4
  /\ Running(s) =>
       /\ Command(s) = "open" <=> at[s] = 1
       /\ Command(s) = "encode" <=> ta[s] = "rsa" /\ at[s] = 2
       /\ Command(s) = "decode" <=> ta[s] = "rsa" /\ at[s] = 5
       /\ Command(s) = "signing" <=> ta[s] = "dsa" /\ at[s] = 2
       /\ Command(s) = "digest" <=> ta[s] = "hash" /\ at[s] = 2
       /\ Command(s) = "set_key" <=> SetsKey(s)
       /\ Command(s) = "encrypt" <=> ta[s] = "rsa" /\ at[s] = 4
       /\ Command(s) = "decrypt" <=> ta[s] = "rsa" /\ at[s] = 7
       /\ Command(s) = "sign" <=> ta[s] = "dsa" /\ at[s] = 4
       /\ Command(s) = "update" <=> ta[s] = "hash" /\ at[s] = 3
       /\ Command(s) = "do_final" <=> ta[s] = "hash" /\ at[s] = 4

LEMMA AllStand ==
  ASSUME DemoInv, NEW s \in Sessions
  PROVE  Stands(s)
<1>1. ta[s] \in TAs /\ at[s] \in Positions(ta[s])
  BY Typing DEF DemoInv, Progress
<1>2. CASE ta[s] = "rsa"
  <2>1. at[s] \in 0..9 /\ (Running(s) <=> at[s] \in 1..7)
    BY <1>1, <1>2, Scripts DEF Positions, Running
  <2>2. \A n \in 1..7 : \/ n = 1 \/ n = 2 \/ n = 3 \/ n = 4 \/ n = 5 \/ n = 6 \/ n = 7
    OBVIOUS
  <2>3. QED
    BY <1>1, <1>2, <2>1, <2>2, Scripts DEF Stands, Command, SetsKey
<1>3. CASE ta[s] = "dsa"
  <2>1. at[s] \in 0..9 /\ (Running(s) <=> at[s] \in 1..4)
    BY <1>1, <1>3, Scripts DEF Positions, Running
  <2>2. \A n \in 1..4 : n = 1 \/ n = 2 \/ n = 3 \/ n = 4
    OBVIOUS
  <2>3. QED
    BY <1>1, <1>3, <2>1, <2>2, Scripts DEF Stands, Command, SetsKey
<1>4. CASE ta[s] = "hash"
  <2>1. at[s] \in 0..9 /\ (Running(s) <=> at[s] \in 1..4)
    BY <1>1, <1>4, Scripts DEF Positions, Running
  <2>2. \A n \in 1..4 : n = 1 \/ n = 2 \/ n = 3 \/ n = 4
    OBVIOUS
  <2>3. QED
    BY <1>1, <1>4, <2>1, <2>2, Scripts DEF Stands, Command, SetsKey
<1>5. QED
  BY <1>1, <1>2, <1>3, <1>4 DEF TAs

(* Where main goes after an answer.                                        *)
LEMMA Turns ==
  ASSUME DemoInv, NEW s \in Sessions, Running(s), Returns(s), ta' = ta
  PROVE  /\ DOMAIN at' = Sessions
         /\ \A t \in Sessions \ {s} : at'[t] = at[t]
         /\ reply'.res # "OK" => at'[s] = 0
         /\ reply'.res = "OK" =>
              at'[s] = IF at[s] = (IF ta[s] = "rsa" THEN 7 ELSE 4) THEN 8
                       ELSE at[s] + 1
         /\ at'[s] \in Positions(ta'[s])
<1>1. Stands(s)
  BY AllStand
<1>2. /\ DOMAIN at' = Sessions
      /\ \A t \in Sessions \ {s} : at'[t] = at[t]
      /\ at'[s] = IF reply'.res # "OK" THEN 0
                  ELSE IF at[s] = (IF ta[s] = "rsa" THEN 7 ELSE 4) THEN 8
                  ELSE at[s] + 1
  BY <1>1 DEF DemoInv, Returns, Stands
<1>3. at'[s] \in Positions(ta'[s])
  BY <1>1, <1>2, Scripts, SMTT(30) DEF Positions, Stands, TAs
<1>4. QED
  BY <1>2, <1>3

(* What main asks for is among what any client may ask for.                *)
LEMMA MainAsks ==
  ASSUME NEW s \in Sessions, ta[s] \in TAs
  PROVE  /\ ArgOf(s) \in PrepareArgs(ta[s]) /\ ArgOf(s).mode = ModeOf(s)
         /\ ModeOf(s) # "none" /\ (ta[s] # "hash" => ArgOf(s).type = FormOf(s))
         /\ ta[s] # "hash" => FormOf(s) \in Forms
         /\ KeyOf(s) \in Keys /\ DemoKey \in KeyIds
         /\ First \in Chunks /\ Second \in Chunks
<1>1. ta[s] = "rsa" \/ ta[s] = "dsa" \/ ta[s] = "hash"
  BY DEF TAs
<1>2. FormOf(s) \in Forms /\ 2 \in Sizes
  BY DEF FormOf, Forms, Sizes
<1>3. ta[s] # "hash" => ModeOf(s) \in ModesOf(ta[s]) /\ ModeOf(s) # "none"
  BY <1>1 DEF ModeOf, ModesOf
<1>4. ta[s] = "hash" => ModeOf(s) = "digest"
  BY DEF ModeOf
<1>5. ArgOf(s) \in PrepareArgs(ta[s]) /\ ArgOf(s).mode = ModeOf(s)
  BY <1>1, <1>2, <1>3, <1>4 DEF ArgOf, PrepareArgs
<1>6. KeyOf(s) \in Keys
  BY <1>2, DemoAssumption, KeyAssumption DEF KeyOf, Keys, Forms
<1>7. QED
  BY <1>1, <1>2, <1>3, <1>4, <1>5, <1>6, DemoAssumption DEF ArgOf

LEMMA MainPrepares ==
  ASSUME DemoInv, NEW s \in Sessions, Running(s),
         prepare_rsa(s) \/ prepare_dsa(s) \/ prepare_hash(s)
  PROVE  Prepares(s) /\ PrepareStart(s, ArgOf(s)) /\ UNCHANGED <<at, out>>
<1>1. Stands(s)
  BY AllStand
<1>2. CASE prepare_rsa(s)
  BY <1>1, <1>2 DEF prepare_rsa, prepare, Stands, Prepares, ArgOf, ModeOf, FormOf
<1>3. CASE prepare_dsa(s)
  BY <1>1, <1>3 DEF prepare_dsa, prepare, Stands, Prepares, ArgOf, ModeOf, FormOf
<1>4. CASE prepare_hash(s)
  BY <1>1, <1>4 DEF prepare_hash, Stands, Prepares, ArgOf
<1>5. QED
  BY <1>2, <1>3, <1>4

LEMMA DemoImplementsNext ==
  ASSUME DemoInv, [DemoNext]_demoVars
  PROVE  [Next]_vars
<1> SUFFICES ASSUME DemoNext PROVE [Next]_vars
  BY DEF demoVars, vars
<1>1. PICK s \in Sessions :
        Main(s) \/ Serve(s) \/ terminate_tee_session(s) \/ AnyCommand(s)
  BY DEF DemoNext
<1>2. Stands(s)
  BY AllStand
<1>3. /\ KeyOf(s) \in Keys /\ ArgOf(s) \in PrepareArgs(ta[s])
      /\ DemoKey \in KeyIds /\ First \in Chunks /\ Second \in Chunks
  BY <1>2, MainAsks DEF Stands
<1>4. CASE Running(s) /\ prepare_tee_session(s)
  BY <1>4 DEF prepare_tee_session, Next
<1>5. CASE Running(s) /\ (prepare_rsa(s) \/ prepare_dsa(s) \/ prepare_hash(s))
  BY <1>3, <1>5, MainPrepares DEF Next, TA_InvokeCommandEntryPoint, alloc_resources
<1>6. CASE Running(s) /\ set_rsa_key(s)
  <2>1. \E k \in Keys : rsa_set_key(s, k)
    BY <1>6, DemoAssumption, KeyAssumption DEF set_rsa_key, Keys, Forms
  <2>2. QED
    BY <2>1 DEF Next, TA_InvokeCommandEntryPoint, rsa_invoke
<1>7. CASE Running(s) /\ set_dsa_key(s)
  BY <1>3, <1>7
     DEF set_dsa_key, Next, TA_InvokeCommandEntryPoint, dsa_invoke, dsa_set_key
<1>8. CASE Running(s) /\ asymmetric_operate(s)
  BY <1>8
     DEF asymmetric_operate, Next, TA_InvokeCommandEntryPoint, rsa_invoke, dsa_invoke
<1>9. CASE Running(s) /\ (update(s) \/ final(s))
  BY <1>3, <1>9 DEF update, final, Next, TA_InvokeCommandEntryPoint, hash_invoke
<1>10. CASE Serve(s)
  BY <1>10 DEF Serve, Next
<1>11. CASE terminate_tee_session(s)
  BY <1>11 DEF terminate_tee_session, Next
<1>12. CASE AnyCommand(s)
  BY <1>12 DEF AnyCommand, Next
<1>13. QED
  BY <1>1, <1>4, <1>5, <1>6, <1>7, <1>8, <1>9, <1>10, <1>11, <1>12 DEF Main

(* What a step of s has to show for: the others stay where they are.       *)
Moves(s) ==
  /\ Keeps(s)
  /\ DOMAIN at' = Sessions /\ DOMAIN out' = Sessions
  /\ \A t \in Sessions \ {s} : at'[t] = at[t] /\ out'[t] = out[t]
  /\ UNCHANGED reply \/ reply'.to = s

(* What a session that is set up has.                                      *)
LEMMA ConfiguredIs ==
  ASSUME DemoInv, NEW s \in Sessions, NEW k, NEW fed, Configured(s, k, fed)
  PROVE  /\ Idle(s) /\ sess[s].op # Null
         /\ ta[s] # "hash" => sess[s].key # Null
         /\ Attr(sess[s].op).mode = ModeOf(s) /\ Attr(sess[s].op).key = k
         /\ Attr(sess[s].op).size = ArgOf(s).size /\ Attr(sess[s].op).fed = fed
         /\ Svc[s] = [st |-> "ready", mode |-> ModeOf(s), size |-> ArgOf(s).size,
                      key |-> k, fed |-> fed]
<1>1. Service(s) = [st |-> "ready", mode |-> ModeOf(s), size |-> ArgOf(s).size,
                    key |-> k, fed |-> fed]
  BY DEF Configured
<1>2. sess[s].phase = "open" /\ sess[s].pc = "idle" /\ sess[s].op # Null
  BY <1>1 DEF Service
<1>3. Service(s) = [st |-> "ready", mode |-> Attr(sess[s].op).mode,
                    size |-> Attr(sess[s].op).size,
                    key |-> Attr(sess[s].op).key, fed |-> Attr(sess[s].op).fed]
  BY <1>2 DEF Service
<1>4. ta[s] # "hash" => sess[s].key # Null
  BY <1>2, Typing DEF DemoInv, Stage
<1>5. QED
  BY <1>1, <1>2, <1>3, <1>4 DEF Idle, Svc

LEMMA MovesKeep ==
  ASSUME DemoInv, NEW s \in Sessions, Moves(s), Progress(s)'
  PROVE  DemoInv'
<1>1. IInv'
  BY Frame DEF DemoInv, Moves
<1>2. ASSUME NEW t \in Sessions \ {s} PROVE Progress(t)'
  <2>1. Service(t)' = Service(t)
    BY Others DEF DemoInv, Moves
  <2>2. sess'[t] = sess[t] /\ ta' = ta
    BY DEF Moves, Keeps, Local
  <2>3. reply'.to = t => UNCHANGED reply
    BY DEF Moves
  <2>4. at'[t] = at[t] /\ out'[t] = out[t] /\ Progress(t)
    BY DEF Moves, DemoInv
  <2>5. /\ ModeOf(t)' = ModeOf(t) /\ FormOf(t)' = FormOf(t)
        /\ ArgOf(t)' = ArgOf(t) /\ KeyOf(t)' = KeyOf(t)
    BY <2>2, <2>4 DEF ModeOf, FormOf, ArgOf, KeyOf
  <2>6. /\ SetsKey(t)' = SetsKey(t) /\ Prepares(t)' = Prepares(t)
        /\ Operates(t)' = Operates(t)
    BY <2>2, <2>4 DEF SetsKey, Prepares, Operates
  <2>7. \A k, fed : Configured(t, k, fed)' <=> Configured(t, k, fed)
    BY <2>1, <2>5 DEF Configured
  <2>8. SetsKey(t) => slots'[sess[t].key] = slots[sess[t].key]
    <3>1. SetsKey(t) => sess[t].pc = "idle" /\ sess[t].key # Null
      BY <2>4, ConfiguredIs DEF Progress, SetsKey, Idle
    <3>2. SetsKey(t) => sess[t].key \in Handles /\ slots[sess[t].key].owner = t
      BY <3>1, HeldObject DEF DemoInv
    <3>3. QED
      BY <3>2, TeeCoreAssumption DEF Moves, Keeps, Local
  <2>9. SetsKey(t)' => Attr(sess[t].key)'.type = FormOf(t)'
    BY <2>2, <2>4, <2>5, <2>6, <2>8 DEF Attr, Progress
  <2>10. /\ SetsKey(t)' => Configured(t, NoKey, <<>>)'
         /\ Operates(t)' => Configured(t, KeyOf(t), <<>>)'
    <3>1. /\ SetsKey(t) => Configured(t, NoKey, <<>>)
          /\ Operates(t) => Configured(t, KeyOf(t), <<>>)
      BY <2>4 DEF Progress
    <3>2. SetsKey(t)' => Configured(t, NoKey, <<>>)'
      BY <2>6, <2>7, <3>1
    <3>3. Operates(t)' => Configured(t, KeyOf(t), <<>>)'
      BY <2>1, <2>5, <2>6, <3>1 DEF Configured
    <3>4. QED
      BY <3>2, <3>3
  <2>11. /\ (ta[t] = "hash" /\ at[t] = 3)' => Configured(t, NoKey, <<>>)'
         /\ (ta[t] = "hash" /\ at[t] = 4)' => Configured(t, NoKey, <<First>>)'
    BY <2>2, <2>4, <2>7 DEF Progress
  <2>12. Prepares(t)' =>
           (sess[t].phase = "open" /\ (sess[t].pc # "idle" => sess[t].arg = ArgOf(t)))'
    BY <2>2, <2>4, <2>5, <2>6 DEF Progress
  <2> HIDE DEF Configured
  <2>13. QED
    BY <2>2, <2>3, <2>4, <2>9, <2>10, <2>11, <2>12 DEF Progress
<1>3. QED
  BY <1>1, <1>2 DEF DemoInv, Moves
-----------------------------------------------------------------------------
(* The steps of the mains, one by one.                                     *)

LEMMA OpenMoves ==
  ASSUME DemoInv, NEW s \in Sessions, Running(s), prepare_tee_session(s)
  PROVE  Moves(s) /\ Progress(s)'
<1>1. IInv /\ Stands(s)
  BY AllStand DEF DemoInv
<1>2. at[s] = 1 /\ Keeps(s) /\ ta' = ta
  BY <1>1, OpenKeeps DEF Stands, prepare_tee_session, TA_OpenSessionEntryPoint
<1>3. /\ DOMAIN at' = Sessions
      /\ \A t \in Sessions \ {s} : at'[t] = at[t]
      /\ at'[s] = IF reply'.res = "OK" THEN 2 ELSE 0
      /\ at'[s] \in Positions(ta'[s])
  BY <1>1, <1>2, Turns DEF prepare_tee_session
<1>4. Moves(s)
  BY <1>2, <1>3
     DEF Moves, prepare_tee_session, TA_OpenSessionEntryPoint, Answer, DemoInv
<1>5. sess[s].phase = "closed" /\ sess[s].pc = "idle" /\ sess[s] \in Sess
  BY <1>1, Typing DEF prepare_tee_session, TA_OpenSessionEntryPoint, Stage
<1>6. CASE sess' = [sess EXCEPT ![s].phase = "open"] /\ Answer(s, "open", "OK", Null)
  <2>1. sess'[s].phase = "open" /\ sess'[s].pc = "idle" /\ at'[s] = 2
    BY <1>1, <1>3, <1>5, <1>6, Typing DEF Sess, Answer
  <2>2. QED
    BY <1>3, <1>4, <2>1, Scripts DEF Progress, SetsKey, Operates
<1>7. CASE Answer(s, "open", "FAIL", Null) /\ UNCHANGED sess
  <2>1. at'[s] = 0 /\ reply'.res = "FAIL" /\ sess'[s].pc = "idle"
    BY <1>3, <1>5, <1>7 DEF Answer
  <2>2. QED
    BY <1>3, <1>4, <2>1, Scripts DEF Progress, SetsKey, Operates, Prepares
<1>8. QED
  BY <1>6, <1>7 DEF prepare_tee_session, TA_OpenSessionEntryPoint

LEMMA PrepareMoves ==
  ASSUME DemoInv, NEW s \in Sessions, Running(s),
         prepare_rsa(s) \/ prepare_dsa(s) \/ prepare_hash(s)
  PROVE  Moves(s) /\ Progress(s)'
<1> DEFINE a == ArgOf(s)
<1>1. IInv /\ Stands(s) /\ Progress(s)
  BY AllStand DEF DemoInv
<1>2. Prepares(s) /\ PrepareStart(s, a) /\ UNCHANGED <<at, out>>
  BY MainPrepares
<1>3. Keeps(s)
  BY <1>1, <1>2, MainAsks, PrepareStartKeeps DEF Stands
<1>4. Moves(s)
  BY <1>1, <1>2, <1>3 DEF Moves, DemoInv, PrepareStart
<1>5. sess'[s].phase = "open" /\ sess'[s].arg = a /\ ta' = ta
  BY <1>1, <1>2, Typing DEF PrepareStart, Idle, Sess
<1>6. ArgOf(s)' = a /\ Prepares(s)' /\ ~SetsKey(s)' /\ ~Operates(s)'
  BY <1>2, <1>5 DEF ArgOf, ModeOf, FormOf, Prepares, SetsKey, Operates
<1>7. at'[s] \in {2, 5} /\ at'[s] \in Positions(ta'[s])
  BY <1>1, <1>2, <1>5 DEF Prepares, Progress
<1>8. (ta[s] = "rsa" /\ at[s] \in 5..7)' =>
        out'[s] = [text |-> "encrypted", id |-> DemoKey, size |-> 2]
  BY <1>1, <1>2, <1>5 DEF Progress
<1>9. (ta[s] = "hash")' => at'[s] = 2
  BY <1>2, <1>5 DEF Prepares
<1> HIDE DEF a
<1>10. Prepares(s)' =>
         (sess[s].phase = "open" /\ (sess[s].pc # "idle" => sess[s].arg = ArgOf(s)))'
  BY <1>5, <1>6
<1>11. Failed = 0 /\ Passing = 8
  BY Scripts
<1>12. Progress(s)'
  <2>1. at'[s] # 1 /\ at'[s] # Failed /\ at'[s] # Passing
    BY <1>7, <1>11
  <2>2. ~(ta[s] = "hash" /\ at[s] = 3)' /\ ~(ta[s] = "hash" /\ at[s] = 4)'
    BY <1>9
  <2>3. QED
    BY <1>6, <1>7, <1>8, <1>10, <2>1, <2>2 DEF Progress
<1>13. QED
  BY <1>4, <1>12

(* A PREPARE under way.                                                    *)
GoesOn(s) ==
  /\ sess'[s].pc # "idle" /\ sess'[s].phase = "open"
  /\ sess'[s].arg = sess[s].arg
  /\ UNCHANGED reply

Fails(s) ==
  /\ sess'[s].pc = "idle" /\ reply'.to = s
  /\ reply'.res \in {"FAIL", "BAD_PARAMETERS"}

Readied(s) ==
  LET a == sess[s].arg IN
  /\ sess'[s].pc = "idle" /\ reply'.to = s /\ reply'.res = "OK"
  /\ Service(s)' = [st |-> "ready", mode |-> a.mode, size |-> a.size,
                    key |-> NoKey, fed |-> <<>>]
  /\ ta[s] # "hash" => slots'[sess'[s].key].attr.type = a.type

(* A session is what its operation was allocated for.                      *)
LEMMA ServedAs ==
  ASSUME NEW s \in Sessions, NEW a, Idle(s)', sess'[s].op # Null,
         slots'[sess'[s].op].attr = OperationAttr(a)
  PROVE  Service(s)' = [st |-> "ready", mode |-> a.mode, size |-> a.size,
                        key |-> NoKey, fed |-> <<>>]
BY DEF Service, Idle, Attr, OperationAttr

LEMMA AllocateOperationServes ==
  ASSUME IInv, NEW s \in Sessions, AllocateOperation(s)
  PROVE  GoesOn(s) \/ Readied(s)
<1> DEFINE a == sess[s].arg
<1>1. sess[s].phase = "open" /\ sess[s].pc = "alloc_op" /\ sess[s] \in Sess
  BY Typing DEF AllocateOperation, Stage
<1>2. ASSUME NEW h \in Spare(slots), ta[s] = "hash",
             sess' = [sess EXCEPT ![s].op = h, ![s].pc = "idle", ![s].arg = NoArg],
             slots' = Install(slots, h, "op", s, OperationAttr(a)),
             Answer(s, "prepare", "OK", Null)
      PROVE  Readied(s)
  <2>1. h \in Handles /\ h # Null
    BY TeeCoreAssumption DEF Spare
  <2>2. sess'[s].op = h /\ Idle(s)'
    BY <1>1, <1>2, Typing DEF Sess, Idle
  <2>3. slots'[h].attr = OperationAttr(a)
    BY <1>2, <2>1, Typing DEF Install
  <2>4. Service(s)' = [st |-> "ready", mode |-> a.mode, size |-> a.size,
                       key |-> NoKey, fed |-> <<>>]
    BY <2>1, <2>2, <2>3, ServedAs
  <2>5. QED
    BY <1>2, <2>2, <2>4 DEF Readied, Idle, Answer
<1>3. ASSUME UNCHANGED reply,
             \E h \in Handles \cup {Null}, pc \in {"alloc_key", "err"} :
               sess' = [sess EXCEPT ![s].op = h, ![s].pc = pc]
      PROVE  GoesOn(s)
  BY <1>1, <1>3, Typing DEF Sess, GoesOn
<1>4. QED
  BY <1>2, <1>3 DEF AllocateOperation, Spare

LEMMA AllocateTransientObjectServes ==
  ASSUME IInv, NEW s \in Sessions, AllocateTransientObject(s)
  PROVE  GoesOn(s) \/ Readied(s)
<1> DEFINE a == sess[s].arg
           op == sess[s].op
<1>1. /\ sess[s].phase = "open" /\ sess[s].pc = "alloc_key" /\ sess[s] \in Sess
      /\ op # Null /\ Attr(op) = OperationAttr(a)
  BY Typing DEF AllocateTransientObject, Stage
<1>2. ASSUME NEW h \in Spare(slots),
             sess' = [sess EXCEPT ![s].key = h, ![s].pc = "idle", ![s].arg = NoArg],
             slots' = Install(slots, h, "obj", s, ObjectAttr(a)),
             Answer(s, "prepare", "OK", Null)
      PROVE  Readied(s)
  <2>1. op \in Handles /\ slots[op].kind = "op"
    <3>1. op \in OpClaim(s)
      BY <1>1 DEF OpClaim
    <3>2. QED
      BY <3>1, OwnOperation
  <2>2. sess'[s].op = op /\ sess'[s].key = h /\ Idle(s)'
    BY <1>1, <1>2, Typing DEF Sess, Idle
  <2>3. slots'[op].attr = OperationAttr(a)
    <3>1. op # h
      BY <2>1 DEF Spare
    <3>2. QED
      BY <1>1, <1>2, <2>1, <3>1, Typing DEF Install, Attr
  <2>4. slots'[h].attr.type = a.type
    BY <1>2, Typing DEF Install, ObjectAttr, Spare
  <2>5. Service(s)' = [st |-> "ready", mode |-> a.mode, size |-> a.size,
                       key |-> NoKey, fed |-> <<>>]
    BY <1>1, <2>2, <2>3, ServedAs
  <2>6. QED
    BY <1>2, <2>2, <2>4, <2>5 DEF Readied, Idle, Answer
<1>3. ASSUME UNCHANGED reply, sess' = [sess EXCEPT ![s].key = Null, ![s].pc = "err"]
      PROVE  GoesOn(s)
  BY <1>1, <1>3, Typing DEF Sess, GoesOn
<1>4. QED
  BY <1>2, <1>3 DEF AllocateTransientObject

(* A PREPARE under way goes on for what it was asked, fails, or leaves the *)
(* session ready for it.                                                   *)
LEMMA HandlerServes ==
  ASSUME IInv, NEW s \in Sessions, Handler(s)
  PROVE  /\ sess[s].pc # "idle" /\ sess[s].phase = "open" /\ Keeps(s)
         /\ GoesOn(s) \/ Fails(s) \/ Readied(s)
<1>1. sess[s].pc # "idle" /\ sess[s].phase = "open" /\ sess[s] \in Sess
  BY Typing DEF Handler, AllocateOperation, AllocateTransientObject,
     PrepareError, Stage
<1>2. Keeps(s)
  BY AllocateOperationKeeps, AllocateTransientObjectKeeps, PrepareErrorKeeps
     DEF Handler
<1>3. CASE PrepareError(s)
  <2>1. sess'[s].pc = "idle"
    BY <1>1, <1>3, Typing DEF PrepareError, Sess
  <2>2. reply'.to = s /\ reply'.res \in {"FAIL", "BAD_PARAMETERS"}
    BY <1>3 DEF PrepareError, Answer
  <2>3. QED
    BY <1>1, <1>2, <2>1, <2>2 DEF Fails
<1>4. QED
  BY <1>1, <1>2, <1>3, AllocateOperationServes, AllocateTransientObjectServes
     DEF Handler

LEMMA ServeMoves ==
  ASSUME DemoInv, NEW s \in Sessions, Serve(s)
  PROVE  Moves(s) /\ Progress(s)'
<1>1. IInv /\ Stands(s) /\ Progress(s) /\ UNCHANGED out /\ DOMAIN at = Sessions
  BY AllStand DEF DemoInv, Serve
<1>2. /\ sess[s].pc # "idle" /\ sess[s].phase = "open" /\ Keeps(s)
      /\ GoesOn(s) \/ Fails(s) \/ Readied(s)
  BY <1>1, HandlerServes DEF Serve
<1>3. Prepares(s) \/ at[s] = 9
  <2>1. \A k, fed : ~Configured(s, k, fed)
    BY <1>2, ConfiguredIs DEF Idle
  <2>2. ~SetsKey(s) /\ ~Operates(s) /\ ~(ta[s] = "hash" /\ at[s] \in {3, 4})
        /\ at[s] \notin {0, 1, 8}
    BY <1>1, <1>2, <2>1, Scripts DEF Progress
  <2>3. at[s] = 9 \/ at[s] \in 1..Len(Script(ta[s]))
    BY <1>1, <2>2, Scripts DEF Progress, Positions, Stands, TAs
  <2>4. QED
    BY <1>1, <2>2, <2>3 DEF Stands, SetsKey, Operates, Prepares, TAs
<1>4. ta' = ta
  BY <1>2 DEF Keeps, Local
<1>5. CASE at[s] = 9
  <2>1. UNCHANGED at
    BY <1>1, <1>5 DEF Serve, Stands
  <2>2. Moves(s)
    BY <1>1, <1>2, <2>1 DEF Moves, DemoInv, GoesOn, Fails, Readied
  <2>3. QED
    BY <1>1, <1>4, <1>5, <2>1, <2>2, Scripts
       DEF Progress, Prepares, SetsKey, Operates
<1>6. CASE at[s] # 9
  <2>1. Prepares(s) /\ Running(s) /\ at[s] \in {2, 5} /\ sess[s].arg = ArgOf(s)
    BY <1>1, <1>2, <1>3, <1>6 DEF Prepares, Stands, Progress
  <2>2. CASE GoesOn(s)
    <3>1. UNCHANGED at /\ Moves(s)
      BY <1>1, <1>2, <2>1, <2>2 DEF Serve, Moves, DemoInv, GoesOn
    <3>2. ArgOf(s)' = ArgOf(s)
      BY <1>4, <3>1 DEF ArgOf, ModeOf, FormOf
    <3>3. /\ sess'[s].phase = "open" /\ sess'[s].arg = ArgOf(s)'
          /\ ~SetsKey(s)' /\ ~Operates(s)'
      BY <1>4, <2>1, <2>2, <3>1, <3>2 DEF GoesOn, SetsKey, Operates
    <3>4. /\ (at[s] # 1 /\ at[s] # Failed /\ at[s] # Passing)'
          /\ ~(ta[s] = "hash" /\ at[s] = 3)' /\ ~(ta[s] = "hash" /\ at[s] = 4)'
      BY <2>1, <3>1, Scripts, <1>4 DEF Prepares
    <3>5. at'[s] \in Positions(ta'[s]) /\ out'[s] = out[s] /\ at'[s] = at[s]
      BY <1>1, <1>4, <3>1 DEF Progress
    <3> HIDE DEF GoesOn
    <3>6. (ta[s] = "rsa" /\ at[s] \in 5..7)' =>
            out'[s] = [text |-> "encrypted", id |-> DemoKey, size |-> 2]
      BY <1>1, <1>4, <3>5 DEF Progress
    <3>7. QED
      BY <3>1, <3>3, <3>4, <3>5, <3>6 DEF Progress
  <2>3. ASSUME sess'[s].pc = "idle", reply'.to = s
        PROVE  /\ Moves(s) /\ at'[s] \in Positions(ta'[s])
               /\ at'[s] = IF reply'.res = "OK" THEN at[s] + 1 ELSE 0
    <3>1. Returns(s)
      BY <2>1, <2>3 DEF Serve
    <3>2. /\ DOMAIN at' = Sessions /\ \A t \in Sessions \ {s} : at'[t] = at[t]
          /\ reply'.res # "OK" => at'[s] = 0
          /\ reply'.res = "OK" =>
               at'[s] = IF at[s] = (IF ta[s] = "rsa" THEN 7 ELSE 4) THEN 8
                       ELSE at[s] + 1
          /\ at'[s] \in Positions(ta'[s])
      BY <1>4, <2>1, <3>1, Turns
    <3>3. QED
      BY <1>1, <1>2, <2>1, <2>3, <3>2 DEF Moves, DemoInv, Prepares
  <2>4. CASE Fails(s)
    <3>1. at'[s] = 0 /\ Moves(s) /\ at'[s] \in Positions(ta'[s])
      BY <2>3, <2>4 DEF Fails
    <3>2. QED
      BY <2>4, <3>1, Scripts DEF Fails, Progress, Prepares, SetsKey, Operates
  <2>5. CASE Readied(s)
    <3>1. at'[s] = at[s] + 1 /\ Moves(s) /\ at'[s] \in Positions(ta'[s])
      BY <2>3, <2>5 DEF Readied
    <3>2. ArgOf(s)' = ArgOf(s) /\ ModeOf(s)' = ModeOf(s) /\ FormOf(s)' = FormOf(s)
      <4>1. ModeOf(s)' = ModeOf(s)
        <5>1. ta[s] \in TAs /\ (at'[s] <= 4 <=> at[s] <= 4)
          BY <1>1, <2>1, <3>1 DEF Stands
        <5>2. QED
          BY <1>4, <5>1 DEF ModeOf, TAs
      <4>2. FormOf(s)' = FormOf(s)
        BY <4>1 DEF FormOf
      <4>3. QED
        BY <1>4, <4>1, <4>2 DEF ArgOf
    <3>3. Configured(s, NoKey, <<>>)'
      BY <1>1, <2>1, <2>5, <3>2, MainAsks DEF Readied, Configured, Stands
    <3>4. ta[s] # "hash" => Attr(sess[s].key)'.type = FormOf(s)'
      BY <1>1, <2>1, <2>5, <3>2, MainAsks DEF Readied, Attr, Stands
    <3>5. /\ ~Prepares(s)' /\ ~Operates(s)'
          /\ (at[s] # 1 /\ at[s] # Failed /\ at[s] # Passing)'
          /\ ~(ta[s] = "hash" /\ at[s] = 4)' /\ (SetsKey(s)' => ta[s] # "hash")
      BY <1>4, <2>1, <3>1, Scripts DEF Prepares, Operates, SetsKey
    <3>6. (ta[s] = "rsa" /\ at[s] \in 5..7)' =>
            out'[s] = [text |-> "encrypted", id |-> DemoKey, size |-> 2]
      BY <1>1, <1>4, <2>1, <3>1 DEF Progress
    <3> HIDE DEF Configured
    <3>7. QED
      BY <3>1, <3>3, <3>4, <3>5, <3>6 DEF Progress
  <2>6. QED
    BY <1>2, <2>2, <2>4, <2>5
<1>7. QED
  BY <1>5, <1>6

(* The key main brings is one that its session was prepared for, so that   *)
(* SET_KEY loads it or fails in the core, and the TA does not panic.       *)
LEMMA MainIsKeyable ==
  ASSUME DemoInv, NEW s \in Sessions, SetsKey(s)
  PROVE  /\ Keyable(s, KeyOf(s)) /\ Idle(s) /\ ta[s] # "hash"
         /\ Takes(sess[s].key, KeyOf(s))
         /\ Configured(s, NoKey, <<>>)
<1>1. /\ Configured(s, NoKey, <<>>) /\ ta[s] # "hash"
      /\ Attr(sess[s].key).type = FormOf(s)
  BY DEF DemoInv, Progress, SetsKey
<1>2. /\ Idle(s) /\ sess[s].op # Null /\ sess[s].key # Null
      /\ Attr(sess[s].op).mode = ModeOf(s) /\ Attr(sess[s].op).size = ArgOf(s).size
  BY <1>1, ConfiguredIs
<1>3. Attr(sess[s].key).size = Attr(sess[s].op).size
  BY <1>1, <1>2, Typing DEF DemoInv, Stage, Idle
<1>4. ArgOf(s).size = 2 /\ KeyOf(s).size = 2 /\ KeyOf(s).form = FormOf(s)
  BY <1>1 DEF ArgOf, KeyOf
<1>5. Takes(sess[s].key, KeyOf(s))
  BY <1>1, <1>2, <1>3, <1>4 DEF Takes
<1>6. Attr(sess[s].op).mode \in {"decrypt", "sign"} => KeyOf(s).form = "pair"
  BY <1>2, <1>4 DEF FormOf
<1>7. QED
  BY <1>1, <1>2, <1>5, <1>6 DEF Keyable

LEMMA SetKeyServes ==
  ASSUME DemoInv, NEW s \in Sessions, Running(s), set_rsa_key(s) \/ set_dsa_key(s)
  PROVE  /\ SetsKey(s) /\ Keeps(s) /\ UNCHANGED sess
         /\ reply'.to = s /\ reply'.res \in {"OK", "FAIL", "BAD_PARAMETERS"}
         /\ reply'.res = "OK" => Service(s)' = [Svc[s] EXCEPT !.key = KeyOf(s)]
<1> DEFINE k == KeyOf(s)
<1>1. IInv /\ Stands(s)
  BY AllStand DEF DemoInv
<1>2. SetsKey(s)
  BY <1>1 DEF set_rsa_key, set_dsa_key, Stands
<1>3. /\ Keyable(s, k) /\ Takes(sess[s].key, k) /\ k \in Keys /\ DemoKey \in KeyIds
  BY <1>1, <1>2, MainIsKeyable, MainAsks DEF Stands
<1>4. CASE set_rsa_key(s)
  <2>1. k = [id |-> DemoKey, size |-> 2, form |-> IF at[s] = 3 THEN "public" ELSE "pair"]
    BY <1>2, <1>4 DEF set_rsa_key, SetsKey, KeyOf, FormOf, ModeOf
  <2>2. rsa_set_key(s, k)
    BY <1>4, <2>1 DEF set_rsa_key
  <2> HIDE DEF k
  <2>3. ~RsaSetKeyPanics(s, k)
    BY <1>3 DEF RsaSetKeyPanics
  <2>4. CASE RsaSetKeyRefused(s, k)
    <3>1. reply'.to = s /\ reply'.res = "BAD_PARAMETERS" /\ UNCHANGED sess
      BY <2>4 DEF RsaSetKeyRefused, Answer
    <3>2. QED
      BY <1>1, <1>2, <1>3, <2>2, <3>1, RsaSetKeyKeeps
  <2>5. CASE RsaSetKeyLoaded(s, k)
    <3>1. /\ UNCHANGED sess
          /\ Answer(s, "set_key", "OK", Null) \/ Answer(s, "set_key", "FAIL", Null)
      BY <2>5 DEF RsaSetKeyLoaded, Loaded
    <3>2. Abstract!SetKey(s, k) \/ Abstract!Refuse(s) \/ Abstract!Die(s)
      BY <1>1, <1>3, <2>2, RsaSetKeyRefines
    <3>3. CASE Answer(s, "set_key", "OK", Null)
      <4>1. Abstract!SetKey(s, k)
        BY <3>2, <3>3 DEF Abstract!Refuse, Abstract!Die, Abstract!Answer, Answer
      <4>2. Abstract!Becomes(s, [Svc[s] EXCEPT !.key = k])
        BY <4>1 DEF Abstract!SetKey, Svc
      <4>3. Service(s)' = [Svc[s] EXCEPT !.key = k]
        BY <4>2 DEF Abstract!Becomes, Svc
      <4>4. QED
        BY <1>1, <1>2, <1>3, <2>2, <3>1, <3>3, <4>3, RsaSetKeyKeeps DEF Answer, k
    <3>4. CASE Answer(s, "set_key", "FAIL", Null)
      BY <1>1, <1>2, <1>3, <2>2, <3>1, <3>4, RsaSetKeyKeeps DEF Answer
    <3>5. QED
      BY <3>1, <3>3, <3>4
  <2>6. QED
    BY <2>2, <2>3, <2>4, <2>5 DEF rsa_set_key
<1>5. CASE set_dsa_key(s)
  <2>1. k = Generated(DemoKey)
    BY <1>2, <1>5 DEF set_dsa_key, DsaGenerateRefused, DsaGeneratePanics, DsaGenerated,
       Serves, KeyOf, FormOf, ModeOf, Generated
  <2>2. dsa_set_key(s, DemoKey)
    BY <1>5 DEF set_dsa_key, dsa_set_key
  <2> HIDE DEF k
  <2>3. ~DsaGeneratePanics(s, DemoKey)
    BY <1>3, <2>1 DEF DsaGeneratePanics
  <2>4. CASE DsaGenerateRefused(s, DemoKey)
    <3>1. reply'.to = s /\ reply'.res = "BAD_PARAMETERS" /\ UNCHANGED sess
      BY <2>4 DEF DsaGenerateRefused, Answer
    <3>2. QED
      BY <1>1, <1>2, <1>3, <2>2, <3>1, DsaSetKeyKeeps
  <2>5. CASE DsaGenerated(s, DemoKey)
    <3>1. /\ UNCHANGED sess
          /\ Answer(s, "set_key", "OK", Null) \/ Answer(s, "set_key", "FAIL", Null)
      BY <2>5 DEF DsaGenerated, Loaded
    <3>2. Abstract!SetKey(s, k) \/ Abstract!Refuse(s) \/ Abstract!Die(s)
      BY <1>1, <1>3, <2>1, <2>2, DsaSetKeyRefines
    <3>3. CASE Answer(s, "set_key", "OK", Null)
      <4>1. Abstract!SetKey(s, k)
        BY <3>2, <3>3 DEF Abstract!Refuse, Abstract!Die, Abstract!Answer, Answer
      <4>2. Abstract!Becomes(s, [Svc[s] EXCEPT !.key = k])
        BY <4>1 DEF Abstract!SetKey, Svc
      <4>3. Service(s)' = [Svc[s] EXCEPT !.key = k]
        BY <4>2 DEF Abstract!Becomes, Svc
      <4>4. QED
        BY <1>1, <1>2, <1>3, <2>2, <3>1, <3>3, <4>3, DsaSetKeyKeeps DEF Answer, k
    <3>4. CASE Answer(s, "set_key", "FAIL", Null)
      BY <1>1, <1>2, <1>3, <2>2, <3>1, <3>4, DsaSetKeyKeeps DEF Answer
    <3>5. QED
      BY <3>1, <3>3, <3>4
  <2>6. QED
    BY <1>5, <2>3, <2>4, <2>5 DEF set_dsa_key
<1>6. QED
  BY <1>4, <1>5

LEMMA SetKeyMoves ==
  ASSUME DemoInv, NEW s \in Sessions, Running(s), set_rsa_key(s) \/ set_dsa_key(s)
  PROVE  Moves(s) /\ Progress(s)'
<1> DEFINE k == KeyOf(s)
<1>1. /\ IInv /\ Stands(s) /\ Progress(s) /\ SetsKey(s) /\ Keeps(s)
      /\ UNCHANGED <<sess, ta, out>> /\ Returns(s)
      /\ reply'.to = s /\ reply'.res \in {"OK", "FAIL", "BAD_PARAMETERS"}
  BY AllStand, SetKeyServes DEF DemoInv, set_rsa_key, set_dsa_key, Keeps, Local
<1>2. Configured(s, NoKey, <<>>) /\ Idle(s) /\ ta[s] # "hash"
  BY <1>1, MainIsKeyable
<1>3. /\ DOMAIN at' = Sessions /\ \A t \in Sessions \ {s} : at'[t] = at[t]
      /\ reply'.res # "OK" => at'[s] = 0
      /\ reply'.res = "OK" => at'[s] = at[s] + 1
      /\ at'[s] \in Positions(ta'[s])
  BY <1>1, Turns DEF SetsKey
<1>4. Moves(s)
  BY <1>1, <1>3 DEF Moves, DemoInv
<1>5. CASE reply'.res # "OK"
  <2>1. at'[s] = 0 /\ at'[s] \in Positions(ta'[s]) /\ sess'[s].pc = "idle"
        /\ reply'.res \in {"FAIL", "BAD_PARAMETERS"}
    BY <1>1, <1>2, <1>3, <1>5 DEF Idle
  <2>2. QED
    BY <1>4, <2>1, Scripts DEF Progress, Prepares, SetsKey, Operates
<1>6. CASE reply'.res = "OK"
  <2>1. at'[s] = at[s] + 1 /\ Operates(s)'
    BY <1>1, <1>3, <1>6 DEF SetsKey, Operates
  <2>2. ModeOf(s)' = ModeOf(s)
    <3>1. at'[s] <= 4 <=> at[s] <= 4
      BY <1>1, <2>1 DEF SetsKey, Operates
    <3>2. QED
      BY <1>1, <3>1 DEF ModeOf, SetsKey
  <2>3. FormOf(s)' = FormOf(s)
    BY <2>2 DEF FormOf
  <2>4. KeyOf(s)' = k /\ ArgOf(s)' = ArgOf(s)
    BY <1>1, <2>2, <2>3 DEF KeyOf, ArgOf
  <2>5. Service(s)' = [st |-> "ready", mode |-> ModeOf(s), size |-> ArgOf(s).size,
                       key |-> k, fed |-> <<>>]
    <3>1. PICK v, mode, size, key :
            v = Svc[s] /\ mode = ModeOf(s) /\ size = ArgOf(s).size /\ key = k
      OBVIOUS
    <3>2. v = [st |-> "ready", mode |-> mode, size |-> size, key |-> NoKey, fed |-> <<>>]
      BY <1>2, <3>1, ConfiguredIs
    <3>3. [v EXCEPT !.key = key] =
            [st |-> "ready", mode |-> mode, size |-> size, key |-> key, fed |-> <<>>]
      BY <3>2
    <3>4. Service(s)' = [v EXCEPT !.key = key]
      BY <1>6, <3>1, SetKeyServes
    <3>5. QED
      BY <3>1, <3>3, <3>4
  <2>6. Configured(s, KeyOf(s), <<>>)'
    BY <2>2, <2>4, <2>5 DEF Configured
  <2>7. /\ ~Prepares(s)' /\ ~SetsKey(s)' /\ ~(ta[s] = "hash" /\ at[s] = 3)'
        /\ ~(ta[s] = "hash" /\ at[s] = 4)'
        /\ (at[s] # 1 /\ at[s] # Failed /\ at[s] # Passing)'
    BY <1>1, <1>2, <2>1, Scripts DEF Prepares, SetsKey
  <2>8. (ta[s] = "rsa" /\ at[s] \in 5..7)' =>
          out'[s] = [text |-> "encrypted", id |-> DemoKey, size |-> 2]
    BY <1>1, <2>1 DEF Progress, SetsKey
  <2> HIDE DEF Configured
  <2>9. QED
    BY <1>3, <1>4, <2>6, <2>7, <2>8 DEF Progress
<1>7. QED
  BY <1>5, <1>6

(* An RSA or DSA command runs under the key main loaded.                   *)
LEMMA OperateServes ==
  ASSUME DemoInv, NEW s \in Sessions, Running(s), asymmetric_operate(s)
  PROVE  /\ Operates(s) /\ Keeps(s) /\ UNCHANGED sess
         /\ reply'.to = s /\ reply'.res = "OK" /\ reply'.data = KeyOf(s)
         /\ ta[s] = "rsa" /\ at[s] = 4 => Command(s) = "encrypt"
         /\ ta[s] = "rsa" /\ at[s] = 7 => Command(s) = "decrypt"
         /\ ta[s] = "dsa" => Command(s) = "sign"
<1>1. IInv /\ Stands(s)
  BY AllStand DEF DemoInv
<1>2. /\ Operates(s) /\ ta[s] # "hash"
      /\ ta[s] = "rsa" /\ at[s] = 4 => Command(s) = "encrypt"
      /\ ta[s] = "rsa" /\ at[s] = 7 => Command(s) = "decrypt"
      /\ ta[s] = "dsa" => Command(s) = "sign"
  BY <1>1 DEF asymmetric_operate, Stands, Operates
<1>3. Configured(s, KeyOf(s), <<>>)
  BY <1>2 DEF DemoInv, Progress
<1>4. /\ Idle(s) /\ sess[s].op # Null /\ Attr(sess[s].op).mode = ModeOf(s)
      /\ Attr(sess[s].op).key = KeyOf(s)
  BY <1>3, ConfiguredIs
<1>5. KeyOf(s) # NoKey
  BY DemoAssumption, KeyAssumption DEF KeyOf, NoKey
<1>6. PICK mode \in {"encrypt", "decrypt", "sign"} :
        /\ mode = ModeOf(s) /\ UNCHANGED ta
        /\ Refused(s, mode) \/ Asymmetric(s, mode, TRUE)
  <2>1. CASE Command(s) = "encrypt" /\ rsa_asymmetric_encrypt(s, TRUE)
    <3>1. ModeOf(s) = "encrypt"
      BY <1>1, <2>1 DEF Stands, ModeOf
    <3>2. QED
      BY <2>1, <3>1 DEF rsa_asymmetric_encrypt
  <2>2. CASE Command(s) = "decrypt" /\ rsa_asymmetric_decrypt(s, TRUE)
    <3>1. ModeOf(s) = "decrypt"
      BY <1>1, <2>2 DEF Stands, ModeOf
    <3>2. QED
      BY <2>2, <3>1 DEF rsa_asymmetric_decrypt
  <2>3. CASE Command(s) = "sign" /\ dsa_asymmetric_sign_digest(s, TRUE)
    <3>1. ModeOf(s) = "sign"
      BY <1>1, <2>3 DEF Stands, ModeOf
    <3>2. QED
      BY <2>3, <3>1 DEF dsa_asymmetric_sign_digest
  <2>4. QED
    BY <2>1, <2>2, <2>3 DEF asymmetric_operate
<1>7. Keeps(s)
  BY <1>1, <1>2, <1>4, <1>6, AsymmetricKeeps
<1>8. Answer(s, mode, "OK", KeyOf(s)) /\ UNCHANGED sess
  BY <1>4, <1>5, <1>6 DEF Refused, Asymmetric
<1>9. QED
  BY <1>2, <1>7, <1>8 DEF Answer

LEMMA OperateMoves ==
  ASSUME DemoInv, NEW s \in Sessions, Running(s), asymmetric_operate(s)
  PROVE  Moves(s) /\ Progress(s)'
<1>1. /\ IInv /\ Stands(s) /\ Progress(s) /\ Operates(s) /\ Keeps(s) /\ Returns(s)
      /\ UNCHANGED <<sess, ta>> /\ DOMAIN out = Sessions
      /\ reply'.to = s /\ reply'.res = "OK" /\ reply'.data = KeyOf(s)
  BY AllStand, OperateServes DEF DemoInv, asymmetric_operate, Keeps, Local
<1>2. /\ DOMAIN at' = Sessions /\ \A t \in Sessions \ {s} : at'[t] = at[t]
      /\ at'[s] = IF ta[s] = "rsa" /\ at[s] = 4 THEN 5 ELSE 8
      /\ at'[s] \in Positions(ta'[s])
  BY <1>1, Turns DEF Operates
<1>3. out' = [out EXCEPT ![s] = Yields(Command(s), KeyOf(s), out[s])]
  BY <1>1 DEF asymmetric_operate, Gives
<1>4. /\ DOMAIN out' = Sessions /\ \A t \in Sessions \ {s} : out'[t] = out[t]
      /\ out'[s] = Yields(Command(s), KeyOf(s), out[s])
  BY <1>1, <1>3
<1>5. Moves(s)
  BY <1>1, <1>2, <1>4 DEF Moves
<1>6. sess'[s].pc = "idle" /\ sess'[s].phase = "open"
  <2>1. Configured(s, KeyOf(s), <<>>)
    BY <1>1 DEF Progress
  <2>2. QED
    BY <1>1, <2>1, ConfiguredIs DEF Idle
<1>7. CASE ta[s] = "rsa" /\ at[s] = 4
  <2>1. Command(s) = "encrypt" /\ KeyOf(s).id = DemoKey /\ KeyOf(s).size = 2
    BY <1>7, OperateServes DEF KeyOf
  <2>2. out'[s] = [text |-> "encrypted", id |-> DemoKey, size |-> 2]
    BY <1>4, <2>1 DEF Yields, Encrypted
  <2>3. at'[s] = 5 /\ ta'[s] = "rsa"
    BY <1>1, <1>2, <1>7
  <2>4. QED
    BY <1>2, <1>5, <1>6, <2>2, <2>3, Scripts DEF Progress, SetsKey, Operates
<1>8. CASE ta[s] = "rsa" /\ at[s] = 7
  <2>1. Command(s) = "decrypt" /\ KeyOf(s).id = DemoKey /\ KeyOf(s).size = 2
    BY <1>8, OperateServes DEF KeyOf
  <2>2. out[s] = Encrypted(KeyOf(s))
    BY <1>1, <1>8, <2>1 DEF Progress, Encrypted
  <2>3. out'[s] = Clear
    BY <1>4, <2>1, <2>2 DEF Yields
  <2>4. at'[s] = 8 /\ ta'[s] = "rsa"
    BY <1>1, <1>2, <1>8
  <2>5. QED
    BY <1>2, <1>5, <1>6, <2>3, <2>4, Scripts
       DEF Progress, Prepares, SetsKey, Operates
<1>9. CASE ta[s] = "dsa"
  <2>1. Command(s) = "sign" /\ KeyOf(s) = Generated(DemoKey)
    BY <1>9, OperateServes DEF KeyOf, FormOf, ModeOf, Generated
  <2>2. out'[s] = Signed(Generated(DemoKey))
    BY <1>4, <2>1 DEF Yields
  <2>3. at'[s] = 8 /\ ta'[s] = "dsa"
    BY <1>1, <1>2, <1>9
  <2>4. QED
    BY <1>2, <1>5, <1>6, <2>2, <2>3, Scripts
       DEF Progress, Prepares, SetsKey, Operates
<1>10. QED
  BY <1>1, <1>7, <1>8, <1>9 DEF Operates

(* The hash main feeds both halves in order.                               *)
LEMMA UpdateMoves ==
  ASSUME DemoInv, NEW s \in Sessions, Running(s), update(s)
  PROVE  Moves(s) /\ Progress(s)'
<1>1. /\ IInv /\ Stands(s) /\ Progress(s) /\ Returns(s) /\ First \in Chunks
      /\ hash_update(s, First) /\ UNCHANGED out /\ DOMAIN out = Sessions
  BY AllStand, DemoAssumption DEF DemoInv, update
<1>2. ta[s] = "hash" /\ at[s] = 3
  BY <1>1 DEF Stands, update
<1>3. Configured(s, NoKey, <<>>)
  BY <1>1, <1>2 DEF Progress
<1>4. Keeps(s) /\ ta' = ta
  <2>1. hash_invoke(s)
    BY <1>1 DEF hash_invoke
  <2>2. QED
    BY <1>1, <2>1, InvokeHashKeeps DEF hash_update
<1>5. /\ Idle(s) /\ sess[s].op # Null /\ Attr(sess[s].op).fed = <<>>
      /\ Svc[s] = [st |-> "ready", mode |-> ModeOf(s), size |-> ArgOf(s).size,
                   key |-> NoKey, fed |-> <<>>]
  BY <1>3, ConfiguredIs
<1>6. Answer(s, "update", "OK", Null) /\ UNCHANGED sess
  BY <1>1, <1>5 DEF hash_update, Refused
<1>7. Abstract!Update(s, First)
  <2>1. Abstract!Update(s, First) \/ Abstract!Final(s, First) \/ Abstract!Refuse(s)
    BY <1>1, <1>4, HashRefines
  <2>2. QED
    BY <1>6, <2>1
       DEF Abstract!Final, Abstract!Refuse, Abstract!Answer, Answer
<1>8. Service(s)' = [st |-> "ready", mode |-> ModeOf(s), size |-> ArgOf(s).size,
                     key |-> NoKey, fed |-> <<First>>]
  <2>1. Service(s)' = [Svc[s] EXCEPT !.fed = Append(Svc[s].fed, First)]
    BY <1>7 DEF Abstract!Update, Abstract!Becomes, Svc
  <2>2. Append(<<>>, First) = <<First>>
    OBVIOUS
  <2>3. QED
    BY <1>5, <2>1, <2>2
<1>9. /\ DOMAIN at' = Sessions /\ \A t \in Sessions \ {s} : at'[t] = at[t]
      /\ at'[s] = 4 /\ at'[s] \in Positions(ta'[s])
  BY <1>1, <1>2, <1>4, <1>6, Turns DEF Answer
<1>10. Moves(s)
  BY <1>1, <1>4, <1>6, <1>9 DEF Moves, Answer
<1>11. Configured(s, NoKey, <<First>>)'
  BY <1>2, <1>4, <1>8 DEF Configured, ModeOf, ArgOf
<1>12. QED
  BY <1>2, <1>4, <1>9, <1>10, <1>11, Scripts DEF Progress, Prepares, SetsKey, Operates

LEMMA FinalMoves ==
  ASSUME DemoInv, NEW s \in Sessions, Running(s), final(s)
  PROVE  Moves(s) /\ Progress(s)'
<1>1. /\ IInv /\ Stands(s) /\ Progress(s) /\ Returns(s) /\ Second \in Chunks
      /\ hash_do_final(s, Second, TRUE) /\ Gives(s, "do_final")
      /\ DOMAIN out = Sessions
  BY AllStand, DemoAssumption DEF DemoInv, final
<1>2. ta[s] = "hash" /\ at[s] = 4
  BY <1>1 DEF Stands, final
<1>3. Configured(s, NoKey, <<First>>)
  BY <1>1, <1>2 DEF Progress
<1>4. /\ Idle(s) /\ sess[s].op # Null /\ Attr(sess[s].op).fed = <<First>>
  BY <1>3, ConfiguredIs, ZenonT(60)
<1>5. Keeps(s) /\ ta' = ta
  <2>1. hash_invoke(s)
    BY <1>1 DEF hash_invoke
  <2>2. QED
    BY <1>1, <2>1, InvokeHashKeeps DEF hash_do_final, HashFinal, HashFinalRefused
<1>6. /\ Answer(s, "do_final", "OK", [digest |-> <<First, Second>>])
      /\ UNCHANGED sess
  <2>1. Append(<<First>>, Second) = <<First, Second>>
    <3>1. <<First>> \in Seq(Chunks) /\ Second \in Chunks /\ Len(<<First>>) = 1
      BY DemoAssumption
    <3>2. /\ Append(<<First>>, Second) \in Seq(Chunks)
          /\ Len(Append(<<First>>, Second)) = 2
          /\ Append(<<First>>, Second)[1] = First
          /\ Append(<<First>>, Second)[2] = Second
      BY <3>1, AppendProperties
    <3>3. <<First, Second>> \in Seq(Chunks)
      BY DemoAssumption
    <3>4. PICK a, b : a = Append(<<First>>, Second) /\ b = <<First, Second>>
      OBVIOUS
    <3>5. a \in Seq(Chunks) /\ b \in Seq(Chunks) /\ Len(a) = 2 /\ Len(b) = 2
          /\ a[1] = b[1] /\ a[2] = b[2]
      BY <3>2, <3>3, <3>4
    <3>6. \A i \in 1..2 : a[i] = b[i]
      <4>1. \A i \in 1..2 : i = 1 \/ i = 2
        OBVIOUS
      <4>2. QED
        BY <3>5, <4>1
    <3>7. a = b
      BY <3>5, <3>6, SeqEqual
    <3>8. QED
      BY <3>4, <3>7
  <2>2. HashFinal(s, Second)
    BY <1>1, <1>4 DEF hash_do_final, HashFinalRefused, Refused
  <2>3. QED
    BY <1>4, <2>1, <2>2 DEF HashFinal
<1>7. /\ DOMAIN at' = Sessions /\ \A t \in Sessions \ {s} : at'[t] = at[t]
      /\ at'[s] = 8 /\ at'[s] \in Positions(ta'[s])
  BY <1>1, <1>2, <1>5, <1>6, Turns DEF Answer
<1>8. out' = [out EXCEPT ![s] = [text |-> "digest", of |-> <<First, Second>>]]
  BY <1>1, <1>6 DEF Gives, Yields, Answer
<1>9. Moves(s)
  BY <1>1, <1>5, <1>6, <1>7, <1>8 DEF Moves, Answer
<1>10. /\ sess'[s].pc = "idle" /\ ta'[s] = "hash"
       /\ out'[s] = [text |-> "digest", of |-> <<First, Second>>]
  BY <1>1, <1>2, <1>4, <1>5, <1>6, <1>8 DEF Idle
<1>11. QED
  BY <1>7, <1>9, <1>10, Scripts DEF Progress, Prepares, SetsKey, Operates

LEMMA EndMoves ==
  ASSUME DemoInv, NEW s \in Sessions, terminate_tee_session(s)
  PROVE  Moves(s) /\ Progress(s)'
<1>1. /\ IInv /\ Progress(s) /\ at[s] \in {0, 8} /\ UNCHANGED <<at, out, reply>>
  BY Scripts DEF DemoInv, terminate_tee_session, TA_CloseSessionEntryPoint,
     DestroyInstance
<1>2. Moves(s) /\ ta' = ta
  BY <1>1, CloseKeeps, DestroyKeeps
     DEF Moves, DemoInv, terminate_tee_session, Keeps, Local
<1>3. sess'[s].pc = "idle"
  BY <1>1, Typing DEF terminate_tee_session, TA_CloseSessionEntryPoint,
     DestroyInstance, Closed
<1>4. QED
  <2>1. /\ at'[s] = at[s] /\ out'[s] = out[s] /\ ta'[s] = ta[s] /\ reply' = reply
        /\ ~Prepares(s)' /\ ~SetsKey(s)' /\ ~Operates(s)'
    BY <1>1, <1>2 DEF Prepares, SetsKey, Operates
  <2>2. Failed = 0 /\ Passing = 8
    BY Scripts
  <2>3. /\ at[s] \in Positions(ta[s])
        /\ at[s] = Passing =>
             CASE ta[s] = "rsa" -> out[s] = Clear
               [] ta[s] = "dsa" -> out[s] = Signed(Generated(DemoKey))
               [] ta[s] = "hash" ->
                    out[s] = [text |-> "digest", of |-> <<First, Second>>]
        /\ at[s] = Failed /\ reply.to = s => reply.res \in {"FAIL", "BAD_PARAMETERS"}
    BY <1>1 DEF Progress
  <2>4. Progress(s)'
    <3>1. at'[s] \in Positions(ta'[s]) /\ at'[s] \in {0, 8}
      BY <1>1, <2>1, <2>3 DEF Positions
    <3>2. (at[s] = Passing)' =>
             CASE ta'[s] = "rsa" -> out'[s] = Clear
               [] ta'[s] = "dsa" -> out'[s] = Signed(Generated(DemoKey))
               [] ta'[s] = "hash" ->
                    out'[s] = [text |-> "digest", of |-> <<First, Second>>]
      BY <2>1, <2>3
    <3>3. at'[s] # 1 /\ at'[s] # 3 /\ at'[s] # 4 /\ at'[s] \notin 5..7
      BY <3>1
    <3>4. QED
      BY <1>3, <2>1, <2>3, <3>1, <3>2, <3>3 DEF Progress
  <2>5. QED
    BY <1>2, <2>4

(* A stranger answers to no script.                                        *)
LEMMA StrangerMoves ==
  ASSUME DemoInv, NEW s \in Sessions, AnyCommand(s)
  PROVE  Moves(s) /\ Progress(s)'
<1>1. IInv /\ at[s] = 9 /\ Progress(s) /\ UNCHANGED <<at, out>>
  BY Scripts DEF DemoInv, AnyCommand
<1>2. \/ TA_OpenSessionEntryPoint(s) \/ TA_InvokeCommandEntryPoint(s)
      \/ TA_CloseSessionEntryPoint(s) \/ DestroyInstance(s)
  BY DEF AnyCommand
<1>3. Keeps(s) /\ ta' = ta
  BY <1>1, <1>2, OpenKeeps, InvokeKeeps, CloseKeeps, DestroyKeeps DEF Keeps, Local
<1>4. UNCHANGED reply \/ \E cmd, res, data : Answer(s, cmd, res, data)
  <2>1. ASSUME NEW a, alloc_resources(s, a)
        PROVE  UNCHANGED reply \/ \E cmd, res, data : Answer(s, cmd, res, data)
    BY <2>1 DEF alloc_resources, PrepareRefused, PrepareStart
  <2>2. ASSUME rsa_invoke(s) PROVE \E cmd, res, data : Answer(s, cmd, res, data)
    BY <2>2 DEF rsa_invoke, rsa_set_key, RsaSetKeyRefused, RsaSetKeyPanics,
       RsaSetKeyLoaded, Loaded, rsa_asymmetric_encrypt, rsa_asymmetric_decrypt,
       Refused, Asymmetric, Panic
  <2>3. ASSUME dsa_invoke(s) PROVE \E cmd, res, data : Answer(s, cmd, res, data)
    BY <2>3 DEF dsa_invoke, dsa_set_key, DsaGenerateRefused, DsaGeneratePanics,
       DsaGenerated, DsaSingleBuffer, Loaded, dsa_asymmetric_sign_digest,
       Refused, Asymmetric, Panic
  <2>4. ASSUME hash_invoke(s) PROVE \E cmd, res, data : Answer(s, cmd, res, data)
    BY <2>4 DEF hash_invoke, hash_update, hash_do_final, HashFinal,
       HashFinalRefused, Refused
  <2>5. Malformed(s) \/ TA_OpenSessionEntryPoint(s) =>
          \E cmd, res, data : Answer(s, cmd, res, data)
    BY DEF Malformed, TA_OpenSessionEntryPoint
  <2>6. TA_CloseSessionEntryPoint(s) \/ DestroyInstance(s) => UNCHANGED reply
    BY DEF TA_CloseSessionEntryPoint, DestroyInstance
  <2>7. QED
    BY <1>2, <2>1, <2>2, <2>3, <2>4, <2>5, <2>6 DEF TA_InvokeCommandEntryPoint
<1>5. UNCHANGED reply \/ reply'.to = s
  BY <1>4 DEF Answer
<1>6. Moves(s)
  BY <1>1, <1>3, <1>5 DEF Moves, DemoInv
<1>7. QED
  <2>1. /\ at'[s] = 9 /\ ta'[s] = ta[s]
        /\ ~Prepares(s)' /\ ~SetsKey(s)' /\ ~Operates(s)'
    BY <1>1, <1>3 DEF Prepares, SetsKey, Operates
  <2>2. Failed = 0 /\ Passing = 8 /\ Stranger = 9
    BY Scripts
  <2>3. Progress(s)'
    BY <2>1, <2>2 DEF Progress, Positions
  <2>4. QED
    BY <1>6, <2>3
-----------------------------------------------------------------------------
LEMMA InitDemoInv == DemoInit => DemoInv
<1> SUFFICES ASSUME DemoInit PROVE DemoInv
  OBVIOUS
<1>1. IInv
  BY InitIInv DEF DemoInit
<1>2. ASSUME NEW s \in Sessions PROVE Progress(s)
  <2>1. at[s] \in {1, 9} /\ sess[s].phase = "closed" /\ sess[s].pc = "idle"
    BY Scripts DEF DemoInit, Init, Closed
  <2>2. at[s] \in Positions(ta[s])
    BY <1>1, <2>1, Typing, Scripts DEF Positions, TAs
  <2>3. ~Prepares(s) /\ ~SetsKey(s) /\ ~Operates(s)
    BY <2>1 DEF Prepares, SetsKey, Operates
  <2>4. Failed = 0 /\ Passing = 8
    BY Scripts
  <2>5. QED
    <3>1. at[s] # 3 /\ at[s] # 4 /\ at[s] \notin 5..7
          /\ at[s] # Failed /\ at[s] # Passing
      BY <2>1, <2>4
    <3>2. QED
      BY <2>1, <2>2, <2>3, <3>1 DEF Progress
<1>3. DOMAIN at = Sessions /\ DOMAIN out = Sessions
  BY DEF DemoInit
<1>4. QED
  BY <1>1, <1>2, <1>3 DEF DemoInv

LEMMA StepDemoInv == DemoInv /\ [DemoNext]_demoVars => DemoInv'
<1> SUFFICES ASSUME DemoInv, [DemoNext]_demoVars PROVE DemoInv'
  OBVIOUS
<1>1. CASE DemoNext
  <2>1. PICK s \in Sessions :
          Main(s) \/ Serve(s) \/ terminate_tee_session(s) \/ AnyCommand(s)
    BY <1>1 DEF DemoNext
  <2>2. Moves(s) /\ Progress(s)'
    BY <2>1, OpenMoves, PrepareMoves, SetKeyMoves, OperateMoves, UpdateMoves,
       FinalMoves, ServeMoves, EndMoves, StrangerMoves DEF Main
  <2>3. QED
    BY <2>2, MovesKeep
<1>2. CASE UNCHANGED demoVars
  <2>1. IInv'
    BY StepIInv, DemoImplementsNext DEF DemoInv
  <2>2. UNCHANGED <<ta, sess, slots, reply, at, out>>
    BY <1>2 DEF demoVars
  <2>3. ASSUME NEW s \in Sessions PROVE Progress(s)'
    <3>1. Progress(s)
      BY DEF DemoInv
    <3>2. Service(s)' = Service(s)
      BY <2>2 DEF Service, Attr
    <3>3. /\ ModeOf(s)' = ModeOf(s) /\ FormOf(s)' = FormOf(s)
          /\ ArgOf(s)' = ArgOf(s) /\ KeyOf(s)' = KeyOf(s)
      BY <2>2 DEF ModeOf, FormOf, ArgOf, KeyOf
    <3>4. /\ SetsKey(s)' = SetsKey(s) /\ Prepares(s)' = Prepares(s)
          /\ Operates(s)' = Operates(s) /\ Attr(sess[s].key)' = Attr(sess[s].key)
      BY <2>2 DEF SetsKey, Prepares, Operates, Attr
    <3>5. /\ Configured(s, NoKey, <<>>)' <=> Configured(s, NoKey, <<>>)
          /\ Configured(s, KeyOf(s), <<>>)' <=> Configured(s, KeyOf(s), <<>>)
          /\ Configured(s, NoKey, <<First>>)' <=> Configured(s, NoKey, <<First>>)
      BY <3>2, <3>3 DEF Configured
    <3> HIDE DEF Configured
    <3>6. QED
      BY <2>2, <3>1, <3>3, <3>4, <3>5, ZenonT(60) DEF Progress
  <2>4. QED
    BY <2>1, <2>2, <2>3 DEF DemoInv
<1>3. QED
  BY <1>1, <1>2

LEMMA DemoInductive == DemoSpec => []DemoInv
BY InitDemoInv, StepDemoInv, PTL DEF DemoSpec

(* The clients are clients of the TAs: what is proved of KeyTA, and of the *)
(* service it implements, holds of the processes of the mains and of any   *)
(* stranger beside them.                                                   *)
THEOREM ClientsRunTheTA == DemoSpec => Spec /\ ImplementsKeyService
<1>1. DemoInit => Init
  BY DEF DemoInit
<1>2. DemoInv /\ [DemoNext]_demoVars => [Next]_vars
  BY DemoImplementsNext DEF DemoInv
<1>3. DemoSpec => Spec
  BY <1>1, <1>2, DemoInductive, PTL DEF DemoSpec, Spec
<1>4. QED
  BY <1>3, KeyTARefinesKeyService, PTL

(* A main of the RSA, DSA or hash demo that gets to its end has the clear  *)
(* text back, a signature by a private key or the digest of both halves,   *)
(* whoever else is at the pool: its memcmp finds no difference.            *)
THEOREM MainsGetTheirResults == DemoSpec => []ResultsRight
<1>1. DemoInv => ResultsRight
  BY DEF DemoInv, Progress, ResultsRight
<1>2. QED
  BY <1>1, DemoInductive, PTL

(* The mains never ask their TA for what it refuses or dies of: what ends  *)
(* one early is an allocation, a key or a call that the core refuses.      *)
THEOREM MainsKeepTheOrder == DemoSpec => []NeverOutOfOrder
<1>1. DemoInv => NeverOutOfOrder
  BY DEF DemoInv, Progress, NeverOutOfOrder
<1>2. QED
  BY <1>1, DemoInductive, PTL
=============================================================================
