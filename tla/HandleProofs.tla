---------------------------- MODULE HandleProofs ----------------------------
(***************************************************************************)
(* Proofs about the ECDSA, ECDH and Curve25519 TAs and their clients.      *)
(*                                                                         *)
(* The inductive invariant, DemoInv, says of each position of each main    *)
(* what the session it works in holds: which variables of the client name  *)
(* a slot, of which kind and for which use, with which key, and that the   *)
(* session owns no other slot; and what the client has obtained so far.    *)
(* It is preserved because a command changes nothing but slots of its own  *)
(* session or spare ones (Local), so that no other process, with whatever  *)
(* handles, disturbs a main (Untouched), and because each call of a main   *)
(* takes it from one row of the table (Alive, Filled, UseOf, KeysOf) to    *)
(* the next.                                                               *)
(***************************************************************************)
EXTENDS HandleDemo, TLAPS, SequenceTheorems, FiniteSetTheorems

(* What the pool and the instances look like, whoever works with them.     *)
Slot(kind, s, use, key) ==
  [kind |-> kind, owner |-> s, attr |-> [use |-> use, key |-> key]]

Typed(slot) ==
  \/ slot = Free
  \/ /\ slot = Slot(slot.kind, slot.owner, slot.attr.use, slot.attr.key)
     /\ slot.kind \in {"op", "obj"}
     /\ slot.owner \in Sessions

Whole(i) == i = [phase |-> i.phase, pc |-> i.pc, key |-> i.key]

PoolTyped ==
  /\ ta \in [Sessions -> TAs]
  /\ DOMAIN inst = Sessions
  /\ \A s \in Sessions : Whole(inst[s])
  /\ slots = [h \in Handles |-> slots[h]]
  /\ \A h \in Handles : Typed(slots[h])

Owned(s) == {h \in Handles : slots[h].owner = s}
-----------------------------------------------------------------------------
(* Where a main of TA t is at position n of its script.                    *)
Names == {"op", "key", "pub", "sv"}
KindOf(name) == IF name = "op" THEN "op" ELSE "obj"

TaOf(p) == ta[<<p, 1>>]
Length(t) == IF t = "ecdsa" THEN 20 ELSE IF t = "ecdh" THEN 11 ELSE 28

(* How far a derivation is.                                                *)
Step(t, n) ==
  IF t = "ecdh" THEN n
  ELSE IF t = "ecdsa" \/ n <= 6 THEN 0
  ELSE IF n <= 17 THEN n - 6 ELSE n - 17

(* The session the call is made in, and whether it opens that session.     *)
Cur(t, n) ==
  IF t = "ecdh" THEN 1
  ELSE IF t = "ecdsa" THEN IF n <= 4 THEN 1 ELSE 2
  ELSE IF n <= 3 THEN 1 ELSE IF n <= 6 THEN 2 ELSE IF n <= 17 THEN 3 ELSE 4
Opens(t, n) ==
  \/ n = 1
  \/ t = "ecdsa" /\ n = 5
  \/ t = "curve" /\ n \in {4, 7, 18}
Opened(t, n) == IF Opens(t, n) THEN Cur(t, n) - 1 ELSE Cur(t, n)

(* Which variables hold a handle, and which of those have their key.       *)
Alive(t, n, name) ==
  IF t = "ecdsa" THEN
    \/ name = "op" /\ (n \in 13..16 \/ n \in 18..20)
    \/ name = "key" /\ (n \in 3..4 \/ n \in 10..14)
    \/ name = "pub" /\ n \in 7..19
  ELSE
    \/ name = "op" /\ Step(t, n) \in 3..10
    \/ name = "key" /\ Step(t, n) \in 4..6
    \/ name = "sv" /\ Step(t, n) \in 8..11

Filled(t, n, name) ==
  IF t = "ecdsa" THEN
    \/ name = "op" /\ (n \in 14..16 \/ n \in 19..20)
    \/ name = "key" /\ (n = 4 \/ n \in 11..14)
    \/ name = "pub" /\ n \in 8..19
  ELSE
    \/ name = "op" /\ Step(t, n) \in 6..10
    \/ name = "key" /\ Step(t, n) \in 5..6
    \/ name = "sv" /\ Step(t, n) \in 9..11

UseOf(t, n, name) ==
  IF name # "op" THEN TypeOf(name)
  ELSE IF t # "ecdsa" THEN "derive" ELSE IF n <= 16 THEN "sign" ELSE "verify"

(* What GEN_KEY of the ECDSA TA may give; the pair of a session of         *)
(* Curve25519; the keys a derivation starts from and what it comes to.     *)
Generated(p) ==
  {[pub |-> <<p, 1>>, priv |-> <<p, 1>>, short |-> b] : b \in BOOLEAN}
Pair(s) == Material(s, s)
Start(p, t, n) ==
  IF t = "ecdh" THEN Material(Peer, Own)
  ELSE IF n <= 17 THEN Material(<<p, 1>>, <<p, 2>>)
  ELSE Material(<<p, 2>>, <<p, 1>>)
Agreed(p, t) ==
  IF t = "ecdh" THEN Secret(Peer, Own) ELSE Secret(<<p, 1>>, <<p, 2>>)

(* The key in a variable of ECDSA's first session, of its second, and of a *)
(* derivation.                                                             *)
KeysOf(p, t, n, name) ==
  IF ~Filled(t, n, name) THEN {NoKey}
  ELSE IF t = "ecdsa" THEN
    IF n <= 4 THEN Generated(p)
    ELSE IF name = "pub" \/ (name = "op" /\ n >= 17)
    THEN {PublicHalf(got[<<p, 1>>])} ELSE {got[<<p, 1>>]}
  ELSE {IF name = "sv" THEN Agreed(p, t) ELSE Start(p, t, n)}

Has(p, t, n, name) ==
  LET h == held[p][name] IN
  /\ Owns(slots, <<p, Cur(t, n)>>, KindOf(name), h)
  /\ Attr(h).use = UseOf(t, n, name)
  /\ Attr(h).key \in KeysOf(p, t, n, name)

Items(p, t, n) == \A name \in Names : Alive(t, n, name) => Has(p, t, n, name)

Only(p, t, n) ==
  \A h \in Owned(<<p, Cur(t, n)>>) :
    \E name \in Names : Alive(t, n, name) /\ h = held[p][name]

AtMostOne(S) == \A g, h \in S : g = h

(* What is left of a GEN_KEY, and of the sessions before this one.         *)
LeftEcdsa(p, n) == n >= 5 => AtMostOne(Owned(<<p, 1>>))
LeftCurve(p, n) ==
  /\ \A i \in {1, 2} : Owned(<<p, i>>) \subseteq {inst[<<p, i>>].key}
  /\ \A i \in {1, 2} : n = 3 * i =>
       /\ Owns(slots, <<p, i>>, "obj", inst[<<p, i>>].key)
       /\ Attr(inst[<<p, i>>].key).key = Pair(<<p, i>>)
  /\ \A i \in {1, 2} : n = 3 * i - 1 => inst[<<p, i>>].key = Null
  /\ n >= 18 => Owned(<<p, 3>>) = {}
Left(p, t, n) ==
  /\ t = "ecdsa" => LeftEcdsa(p, n)
  /\ t = "curve" => LeftCurve(p, n)
  /\ (t = "curve" /\ n <= 6) \/ Only(p, t, n)

Sits(p, t, n) ==
  \A i \in 1..4 :
    IF i > Opened(t, n)
    THEN inst[<<p, i>>] = Closed /\ Owned(<<p, i>>) = {}
    ELSE /\ inst[<<p, i>>].phase = "open"
         /\ \/ inst[<<p, i>>].pc = "idle"
            \/ t = "curve" /\ i = Cur(t, n) /\ n \in {2, 5}

Knows(p, t, n) ==
  /\ t = "ecdsa" =>
       /\ n >= 5 => got[<<p, 1>>] \in Generated(p)
       /\ n >= 16 => got[<<p, 2>>] = got[<<p, 1>>]
  /\ t = "ecdh" /\ n >= 10 => got[<<p, 1>>] = Agreed(p, t)
  /\ t = "curve" =>
       /\ n >= 4 => got[<<p, 1>>] = Pair(<<p, 1>>)
       /\ n >= 7 => got[<<p, 2>>] = Pair(<<p, 2>>)
       /\ n >= 16 => got[<<p, 3>>] = Agreed(p, t)
       /\ n >= 27 => got[<<p, 4>>] = Agreed(p, t)

Runs(p, t, n) ==
  Sits(p, t, n) /\ Items(p, t, n) /\ Left(p, t, n) /\ Knows(p, t, n)

Mine(p) == {<<p, i>> : i \in 1..4}

Few(S, n) ==
  \E a, b, c, d \in Handles \cup {Null} : S \subseteq {a, b, c, d} /\ (n = 2 => c = a /\ d = b)
Bound(t) == IF t = "ecdh" THEN 2 ELSE 4

Ends(p, t, n) ==
  /\ Few(SlotsOf(p), Bound(t))
  /\ n = Passing =>
       /\ t = "ecdsa" =>
            got[<<p, 2>>] = Pair(<<p, 1>>) /\ Few(SlotsOf(p), 2)
       /\ t = "ecdh" => got[<<p, 1>>] = Agreed(p, t) /\ SlotsOf(p) = {}
       /\ t = "curve" =>
            /\ got[<<p, 3>>] = Agreed(p, t) /\ got[<<p, 4>>] = Agreed(p, t)
            /\ Few(SlotsOf(p), 2)
  /\ n = Failed /\ reply.to \in Mine(p) =>
       \/ reply.res = "FAIL"
       \/ reply.res = "INVALID" /\ got[<<p, 1>>].short

Progress(p, t, n) ==
  \/ n \in 1..Length(t) /\ Runs(p, t, n)
  \/ n \in {Failed, Passing, Gone} /\ Ends(p, t, n)
  \/ n = Stranger

InPlace(p) ==
  \E t \in TAs, n \in Nat : t = TaOf(p) /\ n = at[p] /\ Progress(p, t, n)

DemoInv ==
  /\ PoolTyped
  /\ \A p \in Procs, i \in 1..4 : ta[<<p, i>>] = TaOf(p)
  /\ DOMAIN at = Procs /\ DOMAIN held = Procs /\ DOMAIN got = Sessions
  /\ \A p \in Procs : DOMAIN held[p] = Names
  /\ \A p \in Procs : InPlace(p)
-----------------------------------------------------------------------------
(* The scripts of the mains, call by call.                                 *)
Commands == {"open", "operation", "object", "populate", "generate", "get", "fetch",
             "set_key", "free_op", "free", "sign", "verify", "derive", "gen_key",
             "get_key"}
Topics == {"op", "key", "pub", "sv", "sign", "verify", "derive"}
CallSet == [i : 1..4, cmd : Commands, about : Topics]

Joined(u, v, m, n) ==
  /\ Len(u \o v) = m + n
  /\ \A k \in 1..m : (u \o v)[k] = u[k]
  /\ \A k \in 1..n : (u \o v)[m + k] = v[k]

LEMMA ConcatAt ==
  ASSUME NEW S, NEW u \in Seq(S), NEW v \in Seq(S),
         NEW m \in Nat, NEW n \in Nat, Len(u) = m, Len(v) = n
  PROVE  u \o v \in Seq(S) /\ Joined(u, v, m, n)
<1>1. /\ u \o v \in Seq(S)
      /\ Len(u \o v) = m + n
      /\ \A k \in 1..(m + n) : (u \o v)[k] = IF k <= m THEN u[k] ELSE v[k - m]
  BY ConcatProperties
<1>2. ASSUME NEW k \in 1..n
      PROVE  (u \o v)[m + k] = v[k]
  <2>1. m + k \in 1..(m + n) /\ ~(m + k <= m) /\ (m + k) - m = k
    OBVIOUS
  <2>2. QED
    BY <1>1, <2>1
<1>3. QED
  BY <1>1, <1>2 DEF Joined

LEMMA CreateKeyCalls ==
  ASSUME NEW i \in 1..4, NEW name \in Topics
  PROVE  /\ CreateKey(i, name) \in Seq(CallSet) /\ Len(CreateKey(i, name)) = 3
         /\ CreateKey(i, name)[1] = Call(i, "object", name)
         /\ CreateKey(i, name)[2] = Call(i, "populate", name)
         /\ CreateKey(i, name)[3] = Call(i, "get", name)
<1>1. /\ Call(i, "object", name) \in CallSet
      /\ Call(i, "populate", name) \in CallSet
      /\ Call(i, "get", name) \in CallSet
  BY DEF Call, CallSet, Commands, Topics
<1>2. QED
  BY <1>1 DEF CreateKey

LEMMA DeriveCalls ==
  ASSUME NEW i \in 1..4
  PROVE  /\ Derive(i) \in Seq(CallSet) /\ Len(Derive(i)) = 11
         /\ Derive(i)[1] = Call(i, "open", "key")
         /\ Derive(i)[2] = Call(i, "operation", "derive")
         /\ Derive(i)[3] = Call(i, "object", "key")
         /\ Derive(i)[4] = Call(i, "populate", "key")
         /\ Derive(i)[5] = Call(i, "set_key", "key")
         /\ Derive(i)[6] = Call(i, "free", "key")
         /\ Derive(i)[7] = Call(i, "object", "sv")
         /\ Derive(i)[8] = Call(i, "derive", "sv")
         /\ Derive(i)[9] = Call(i, "fetch", "sv")
         /\ Derive(i)[10] = Call(i, "free_op", "op")
         /\ Derive(i)[11] = Call(i, "free", "sv")
<1> DEFINE c1 == Call(i, "open", "key")
           c2 == Call(i, "operation", "derive")
           c3 == Call(i, "object", "key")
           c4 == Call(i, "populate", "key")
           c5 == Call(i, "set_key", "key")
           c6 == Call(i, "free", "key")
           c7 == Call(i, "object", "sv")
           c8 == Call(i, "derive", "sv")
           c9 == Call(i, "fetch", "sv")
           c10 == Call(i, "free_op", "op")
           c11 == Call(i, "free", "sv")
<1>1. /\ c1 \in CallSet /\ c2 \in CallSet /\ c3 \in CallSet /\ c4 \in CallSet
      /\ c5 \in CallSet /\ c6 \in CallSet /\ c7 \in CallSet /\ c8 \in CallSet
      /\ c9 \in CallSet /\ c10 \in CallSet /\ c11 \in CallSet
  BY DEF Call, CallSet, Commands, Topics
<1>2. Derive(i) = <<c1, c2, c3, c4, c5, c6, c7, c8, c9, c10, c11>>
  BY DEF Derive
<1> HIDE DEF c1, c2, c3, c4, c5, c6, c7, c8, c9, c10, c11
<1>3. Derive(i) \in Seq(CallSet)
  BY <1>1, <1>2
<1>4. /\ Len(Derive(i)) = 11
      /\ Derive(i)[1] = c1 /\ Derive(i)[2] = c2 /\ Derive(i)[3] = c3
      /\ Derive(i)[4] = c4 /\ Derive(i)[5] = c5 /\ Derive(i)[6] = c6
      /\ Derive(i)[7] = c7 /\ Derive(i)[8] = c8 /\ Derive(i)[9] = c9
      /\ Derive(i)[10] = c10 /\ Derive(i)[11] = c11
  BY <1>2
<1>5. QED
  BY <1>3, <1>4 DEF c1, c2, c3, c4, c5, c6, c7, c8, c9, c10, c11

LEMMA GenKeyCalls ==
  ASSUME NEW i \in 1..4
  PROVE  /\ GenKey(i) \in Seq(CallSet) /\ Len(GenKey(i)) = 3
         /\ GenKey(i)[1] = Call(i, "open", "key")
         /\ GenKey(i)[2] = Call(i, "gen_key", "key")
         /\ GenKey(i)[3] = Call(i, "get_key", "key")
<1>1. /\ Call(i, "open", "key") \in CallSet
      /\ Call(i, "gen_key", "key") \in CallSet
      /\ Call(i, "get_key", "key") \in CallSet
  BY DEF Call, CallSet, Commands, Topics
<1>2. QED
  BY <1>1 DEF GenKey

LEMMA CurveCalls ==
  /\ CurveMain \in Seq(CallSet) /\ Len(CurveMain) = 28
  /\ \A k \in 1..3 : CurveMain[k] = GenKey(1)[k]
  /\ \A k \in 1..3 : CurveMain[3 + k] = GenKey(2)[k]
  /\ \A k \in 1..11 : CurveMain[6 + k] = Derive(3)[k]
  /\ \A k \in 1..11 : CurveMain[17 + k] = Derive(4)[k]
<1> DEFINE a == GenKey(1)
           b == GenKey(2)
           c == Derive(3)
           d == Derive(4)
<1>1. a \in Seq(CallSet) /\ Len(a) = 3 /\ b \in Seq(CallSet) /\ Len(b) = 3
  BY GenKeyCalls
<1>2. c \in Seq(CallSet) /\ Len(c) = 11 /\ d \in Seq(CallSet) /\ Len(d) = 11
  BY DeriveCalls
<1>3. CurveMain = ((a \o b) \o c) \o d
  BY DEF CurveMain
<1> HIDE DEF a, b, c, d
<1>4. /\ a \o b \in Seq(CallSet) /\ Len(a \o b) = 6
      /\ \A k \in 1..3 : (a \o b)[k] = a[k]
      /\ \A k \in 1..3 : (a \o b)[3 + k] = b[k]
  <2>1. 3 \in Nat /\ 3 \in Nat /\ 3 + 3 = 6
    OBVIOUS
  <2>2. a \o b \in Seq(CallSet) /\ Joined(a, b, 3, 3)
    BY <2>1, <1>1, ConcatAt
  <2>3. QED
    BY <2>1, <2>2 DEF Joined
<1> DEFINE ab == a \o b
<1> HIDE DEF ab
<1>5. /\ ab \o c \in Seq(CallSet) /\ Len(ab \o c) = 17
      /\ \A k \in 1..6 : (ab \o c)[k] = ab[k]
      /\ \A k \in 1..11 : (ab \o c)[6 + k] = c[k]
  <2>1. 6 \in Nat /\ 11 \in Nat /\ 6 + 11 = 17
    OBVIOUS
  <2>2. ab \o c \in Seq(CallSet) /\ Joined(ab, c, 6, 11)
    BY <2>1, <1>2, <1>4, ConcatAt DEF ab
  <2>3. QED
    BY <2>1, <2>2 DEF Joined
<1> DEFINE abc == ab \o c
<1> HIDE DEF abc
<1>6. /\ abc \o d \in Seq(CallSet) /\ Len(abc \o d) = 28
      /\ \A k \in 1..17 : (abc \o d)[k] = abc[k]
      /\ \A k \in 1..11 : (abc \o d)[17 + k] = d[k]
  <2>1. 17 \in Nat /\ 11 \in Nat /\ 17 + 11 = 28
    OBVIOUS
  <2>2. abc \o d \in Seq(CallSet) /\ Joined(abc, d, 17, 11)
    BY <2>1, <1>2, <1>5, ConcatAt DEF abc
  <2>3. QED
    BY <2>1, <2>2 DEF Joined
<1>7. CurveMain = abc \o d
  BY <1>3 DEF ab, abc
<1>8. ASSUME NEW k \in 1..3 PROVE CurveMain[k] = a[k] /\ CurveMain[3 + k] = b[k]
  <2>1. /\ k \in 1..6 /\ 3 + k \in 1..6 /\ k \in 1..17 /\ 3 + k \in 1..17
    OBVIOUS
  <2>2. ab[k] = a[k] /\ ab[3 + k] = b[k]
    BY <1>4 DEF ab
  <2>3. abc[k] = ab[k] /\ abc[3 + k] = ab[3 + k]
    BY <1>5, <2>1 DEF abc
  <2>4. QED
    BY <1>6, <1>7, <2>1, <2>2, <2>3
<1>9. ASSUME NEW k \in 1..11
      PROVE  CurveMain[6 + k] = c[k] /\ CurveMain[17 + k] = d[k]
  <2>1. 6 + k \in 1..17
    OBVIOUS
  <2>2. abc[6 + k] = c[k]
    BY <1>5 DEF abc
  <2>3. QED
    BY <1>6, <1>7, <2>1, <2>2
<1>10. QED
  BY <1>6, <1>7, <1>8, <1>9 DEF a, b, c, d

LEMMA EcdsaCalls ==
  /\ EcdsaMain \in Seq(CallSet) /\ Len(EcdsaMain) = 20
  /\ EcdsaMain[1] = Call(1, "open", "key")
  /\ EcdsaMain[2] = Call(1, "object", "key")
  /\ EcdsaMain[3] = Call(1, "generate", "key")
  /\ EcdsaMain[4] = Call(1, "fetch", "key")
  /\ EcdsaMain[5] = Call(2, "open", "key")
  /\ \A k \in 1..3 : EcdsaMain[5 + k] = CreateKey(2, "pub")[k]
  /\ \A k \in 1..3 : EcdsaMain[8 + k] = CreateKey(2, "key")[k]
  /\ EcdsaMain[12] = Call(2, "operation", "sign")
  /\ EcdsaMain[13] = Call(2, "set_key", "key")
  /\ EcdsaMain[14] = Call(2, "free", "key")
  /\ EcdsaMain[15] = Call(2, "sign", "op")
  /\ EcdsaMain[16] = Call(2, "free_op", "op")
  /\ EcdsaMain[17] = Call(2, "operation", "verify")
  /\ EcdsaMain[18] = Call(2, "set_key", "pub")
  /\ EcdsaMain[19] = Call(2, "free", "pub")
  /\ EcdsaMain[20] = Call(2, "verify", "op")
<1> DEFINE a == <<Call(1, "open", "key"), Call(1, "object", "key"),
                  Call(1, "generate", "key"), Call(1, "fetch", "key"),
                  Call(2, "open", "key")>>
           b == CreateKey(2, "pub")
           c == CreateKey(2, "key")
           d == <<Call(2, "operation", "sign"), Call(2, "set_key", "key"),
                  Call(2, "free", "key"), Call(2, "sign", "op"),
                  Call(2, "free_op", "op"), Call(2, "operation", "verify"),
                  Call(2, "set_key", "pub"), Call(2, "free", "pub"),
                  Call(2, "verify", "op")>>
<1>1. \A i \in 1..4 : \A cmd \in Commands : \A about \in Topics :
        Call(i, cmd, about) \in CallSet
  BY DEF Call, CallSet
<1>2. a \in Seq(CallSet) /\ Len(a) = 5
  <2>1. /\ Call(1, "open", "key") \in CallSet /\ Call(1, "object", "key") \in CallSet
        /\ Call(1, "generate", "key") \in CallSet
        /\ Call(1, "fetch", "key") \in CallSet /\ Call(2, "open", "key") \in CallSet
    BY DEF Call, CallSet, Commands, Topics
  <2>2. QED
    BY <2>1
<1>3. d \in Seq(CallSet) /\ Len(d) = 9
  <2>1. /\ Call(2, "operation", "sign") \in CallSet
        /\ Call(2, "set_key", "key") \in CallSet
        /\ Call(2, "free", "key") \in CallSet /\ Call(2, "sign", "op") \in CallSet
        /\ Call(2, "free_op", "op") \in CallSet
        /\ Call(2, "operation", "verify") \in CallSet
        /\ Call(2, "set_key", "pub") \in CallSet
        /\ Call(2, "free", "pub") \in CallSet /\ Call(2, "verify", "op") \in CallSet
    BY DEF Call, CallSet, Commands, Topics
  <2>2. QED
    BY <2>1
<1>4. b \in Seq(CallSet) /\ Len(b) = 3 /\ c \in Seq(CallSet) /\ Len(c) = 3
  <2>1. "pub" \in Topics /\ "key" \in Topics
    BY DEF Topics
  <2>2. QED
    BY <2>1, CreateKeyCalls
<1>5. EcdsaMain = ((a \o b) \o c) \o d
  BY DEF EcdsaMain
<1>6. /\ a[1] = Call(1, "open", "key") /\ a[2] = Call(1, "object", "key")
      /\ a[3] = Call(1, "generate", "key") /\ a[4] = Call(1, "fetch", "key")
      /\ a[5] = Call(2, "open", "key")
      /\ d[1] = Call(2, "operation", "sign") /\ d[2] = Call(2, "set_key", "key")
      /\ d[3] = Call(2, "free", "key") /\ d[4] = Call(2, "sign", "op")
      /\ d[5] = Call(2, "free_op", "op") /\ d[6] = Call(2, "operation", "verify")
      /\ d[7] = Call(2, "set_key", "pub") /\ d[8] = Call(2, "free", "pub")
      /\ d[9] = Call(2, "verify", "op")
  OBVIOUS
<1> HIDE DEF a, b, c, d
<1>7. /\ a \o b \in Seq(CallSet) /\ Len(a \o b) = 8
      /\ \A k \in 1..5 : (a \o b)[k] = a[k]
      /\ \A k \in 1..3 : (a \o b)[5 + k] = b[k]
  <2>1. 5 \in Nat /\ 3 \in Nat /\ 5 + 3 = 8
    OBVIOUS
  <2>2. a \o b \in Seq(CallSet) /\ Joined(a, b, 5, 3)
    BY <2>1, <1>2, <1>4, ConcatAt
  <2>3. QED
    BY <2>1, <2>2 DEF Joined
<1> DEFINE ab == a \o b
<1> HIDE DEF ab
<1>8. /\ ab \o c \in Seq(CallSet) /\ Len(ab \o c) = 11
      /\ \A k \in 1..8 : (ab \o c)[k] = ab[k]
      /\ \A k \in 1..3 : (ab \o c)[8 + k] = c[k]
  <2>1. 8 \in Nat /\ 3 \in Nat /\ 8 + 3 = 11
    OBVIOUS
  <2>2. ab \o c \in Seq(CallSet) /\ Joined(ab, c, 8, 3)
    BY <2>1, <1>4, <1>7, ConcatAt DEF ab
  <2>3. QED
    BY <2>1, <2>2 DEF Joined
<1> DEFINE abc == ab \o c
<1> HIDE DEF abc
<1>9. /\ abc \o d \in Seq(CallSet) /\ Len(abc \o d) = 20
      /\ \A k \in 1..11 : (abc \o d)[k] = abc[k]
      /\ \A k \in 1..9 : (abc \o d)[11 + k] = d[k]
  <2>1. 11 \in Nat /\ 9 \in Nat /\ 11 + 9 = 20
    OBVIOUS
  <2>2. abc \o d \in Seq(CallSet) /\ Joined(abc, d, 11, 9)
    BY <2>1, <1>3, <1>8, ConcatAt DEF abc
  <2>3. QED
    BY <2>1, <2>2 DEF Joined
<1>10. EcdsaMain = abc \o d
  BY <1>5 DEF ab, abc
<1>11. ASSUME NEW k \in 1..5 PROVE EcdsaMain[k] = a[k]
  <2>1. k \in 1..8 /\ k \in 1..11
    OBVIOUS
  <2>2. ab[k] = a[k] /\ abc[k] = ab[k]
    BY <1>7, <1>8, <2>1 DEF ab, abc
  <2>3. QED
    BY <1>9, <1>10, <2>1, <2>2
<1>12. ASSUME NEW k \in 1..3
       PROVE  EcdsaMain[5 + k] = b[k] /\ EcdsaMain[8 + k] = c[k]
  <2>1. 5 + k \in 1..8 /\ 5 + k \in 1..11 /\ 8 + k \in 1..11
    OBVIOUS
  <2>2. ab[5 + k] = b[k]
    BY <1>7 DEF ab
  <2>3. abc[5 + k] = ab[5 + k] /\ abc[8 + k] = c[k]
    BY <1>8, <2>1 DEF abc
  <2>4. QED
    BY <1>9, <1>10, <2>1, <2>2, <2>3
<1>13. \A k \in 1..9 : EcdsaMain[11 + k] = d[k]
  BY <1>9, <1>10
<1>14. /\ EcdsaMain[1] = a[1] /\ EcdsaMain[2] = a[2] /\ EcdsaMain[3] = a[3]
       /\ EcdsaMain[4] = a[4] /\ EcdsaMain[5] = a[5]
  BY <1>11
<1>15. /\ EcdsaMain[12] = d[1] /\ EcdsaMain[13] = d[2] /\ EcdsaMain[14] = d[3]
       /\ EcdsaMain[15] = d[4] /\ EcdsaMain[16] = d[5] /\ EcdsaMain[17] = d[6]
       /\ EcdsaMain[18] = d[7] /\ EcdsaMain[19] = d[8] /\ EcdsaMain[20] = d[9]
  BY <1>13
<1>16. EcdsaMain \in Seq(CallSet) /\ Len(EcdsaMain) = 20
  BY <1>9, <1>10
<1>17. QED
  BY <1>6, <1>12, <1>14, <1>15, <1>16 DEF b, c

(* What a main calls at position n, and with what.                         *)
At(t, n, S, D) == IF t = "ecdsa" THEN n \in S ELSE Step(t, n) \in D

Asked(c, t, n) ==
  /\ c.i = Cur(t, n)
  /\ c.cmd = "open" => Opens(t, n)
  /\ c.cmd = "operation" =>
       c.about = UseOf(t, n + 1, "op") /\ At(t, n, {12, 17}, {2})
  /\ c.cmd = "object" =>
       \/ c.about = "key" /\ At(t, n, {2, 9}, {3})
       \/ c.about = "pub" /\ At(t, n, {6}, {})
       \/ c.about = "sv" /\ At(t, n, {}, {7})
  /\ c.cmd = "populate" =>
       \/ c.about = "key" /\ At(t, n, {10}, {4})
       \/ c.about = "pub" /\ At(t, n, {7}, {})
  /\ c.cmd = "generate" => c.about = "key" /\ At(t, n, {3}, {})
  /\ c.cmd = "get" =>
       \/ c.about = "key" /\ At(t, n, {11}, {})
       \/ c.about = "pub" /\ At(t, n, {8}, {})
  /\ c.cmd = "fetch" =>
       \/ c.about = "key" /\ At(t, n, {4}, {})
       \/ c.about = "sv" /\ At(t, n, {}, {9})
  /\ c.cmd = "set_key" =>
       \/ c.about = "key" /\ At(t, n, {13}, {5})
       \/ c.about = "pub" /\ At(t, n, {18}, {})
  /\ c.cmd = "free" =>
       \/ c.about = "key" /\ At(t, n, {14}, {6})
       \/ c.about = "pub" /\ At(t, n, {19}, {})
       \/ c.about = "sv" /\ At(t, n, {}, {11})
  /\ c.cmd = "free_op" => At(t, n, {16}, {10})
  /\ c.cmd = "sign" => At(t, n, {15}, {})
  /\ c.cmd = "verify" => At(t, n, {20}, {})
  /\ c.cmd = "derive" => c.about = "sv" /\ At(t, n, {}, {8})
  /\ c.cmd = "gen_key" => t = "curve" /\ n \in {2, 5}
  /\ c.cmd = "get_key" => t = "curve" /\ n \in {3, 6}

LEMMA DerivationAsks ==
  ASSUME NEW t \in {"ecdh", "curve"}, NEW n \in 1..Length(t), Step(t, n) # 0
  PROVE  /\ Step(t, n) \in 1..11
         /\ Asked(Derive(Cur(t, n))[Step(t, n)], t, n)
<1> DEFINE i == Cur(t, n)
           d == Step(t, n)
<1>1. i \in 1..4 /\ d \in 1..11 /\ (d = 1 => Opens(t, n))
  BY DEF Cur, Step, Opens, Length
<1>2. UseOf(t, n + 1, "op") = "derive"
  BY DEF UseOf
<1>3. \/ d = 1 /\ Derive(i)[d] = Call(i, "open", "key")
      \/ d = 2 /\ Derive(i)[d] = Call(i, "operation", "derive")
      \/ d = 3 /\ Derive(i)[d] = Call(i, "object", "key")
      \/ d = 4 /\ Derive(i)[d] = Call(i, "populate", "key")
      \/ d = 5 /\ Derive(i)[d] = Call(i, "set_key", "key")
      \/ d = 6 /\ Derive(i)[d] = Call(i, "free", "key")
      \/ d = 7 /\ Derive(i)[d] = Call(i, "object", "sv")
      \/ d = 8 /\ Derive(i)[d] = Call(i, "derive", "sv")
      \/ d = 9 /\ Derive(i)[d] = Call(i, "fetch", "sv")
      \/ d = 10 /\ Derive(i)[d] = Call(i, "free_op", "op")
      \/ d = 11 /\ Derive(i)[d] = Call(i, "free", "sv")
  <2> HIDE DEF i, d
  <2>1. \/ d = 1 \/ d = 2 \/ d = 3 \/ d = 4 \/ d = 5 \/ d = 6 \/ d = 7 \/ d = 8
        \/ d = 9 \/ d = 10 \/ d = 11
    BY <1>1
  <2>2. QED
    BY <1>1, <2>1, DeriveCalls, SMTT(30)
<1>4. t # "ecdsa"
  OBVIOUS
<1> DEFINE c == Derive(i)[d]
<1>5. c.i = i /\ c.cmd \notin {"generate", "get", "sign", "verify", "gen_key", "get_key"}
  <2> HIDE DEF i, d
  <2>1. QED
    BY <1>3 DEF Call
<1> HIDE DEF i, d, c
<1>6. \/ d = 1 /\ c.cmd = "open"
      \/ d = 2 /\ c.cmd = "operation" /\ c.about = "derive"
      \/ d = 3 /\ c.cmd = "object" /\ c.about = "key"
      \/ d = 4 /\ c.cmd = "populate" /\ c.about = "key"
      \/ d = 5 /\ c.cmd = "set_key" /\ c.about = "key"
      \/ d = 6 /\ c.cmd = "free" /\ c.about = "key"
      \/ d = 7 /\ c.cmd = "object" /\ c.about = "sv"
      \/ d = 8 /\ c.cmd = "derive" /\ c.about = "sv"
      \/ d = 9 /\ c.cmd = "fetch" /\ c.about = "sv"
      \/ d = 10 /\ c.cmd = "free_op"
      \/ d = 11 /\ c.cmd = "free" /\ c.about = "sv"
  BY <1>3 DEF Call, c
<1>7. Asked(c, t, n)
  BY <1>1, <1>2, <1>4, <1>5, <1>6, SMTT(30) DEF Asked, At, i, d
<1>8. QED
  BY <1>1, <1>7 DEF c, i, d

LEMMA EcdsaAsks ==
  ASSUME NEW n \in 1..20
  PROVE  Asked(EcdsaMain[n], "ecdsa", n)
<1> DEFINE c == EcdsaMain[n]
           i == Cur("ecdsa", n)
<1>1. i = IF n <= 4 THEN 1 ELSE 2
  BY DEF Cur
<1>2. /\ EcdsaMain[6] = Call(2, "object", "pub")
      /\ EcdsaMain[7] = Call(2, "populate", "pub")
      /\ EcdsaMain[8] = Call(2, "get", "pub")
      /\ EcdsaMain[9] = Call(2, "object", "key")
      /\ EcdsaMain[10] = Call(2, "populate", "key")
      /\ EcdsaMain[11] = Call(2, "get", "key")
  <2>1. /\ 5 + 1 = 6 /\ 5 + 2 = 7 /\ 5 + 3 = 8 /\ 8 + 1 = 9 /\ 8 + 2 = 10
        /\ 8 + 3 = 11 /\ 1 \in 1..3 /\ 2 \in 1..3 /\ 3 \in 1..3 /\ 2 \in 1..4
    OBVIOUS
  <2>2. "pub" \in Topics /\ "key" \in Topics
    BY DEF Topics
  <2>3. \A k \in 1..3 : /\ EcdsaMain[5 + k] = CreateKey(2, "pub")[k]
                        /\ EcdsaMain[8 + k] = CreateKey(2, "key")[k]
    BY EcdsaCalls
  <2>4. /\ EcdsaMain[6] = CreateKey(2, "pub")[1]
        /\ EcdsaMain[7] = CreateKey(2, "pub")[2]
        /\ EcdsaMain[8] = CreateKey(2, "pub")[3]
        /\ EcdsaMain[9] = CreateKey(2, "key")[1]
        /\ EcdsaMain[10] = CreateKey(2, "key")[2]
        /\ EcdsaMain[11] = CreateKey(2, "key")[3]
    BY <2>1, <2>3
  <2>5. QED
    BY <2>1, <2>2, <2>4, CreateKeyCalls
<1>3. \/ n = 1 /\ c = Call(i, "open", "key")
      \/ n = 2 /\ c = Call(i, "object", "key")
      \/ n = 3 /\ c = Call(i, "generate", "key")
      \/ n = 4 /\ c = Call(i, "fetch", "key")
      \/ n = 5 /\ c = Call(i, "open", "key")
      \/ n = 6 /\ c = Call(i, "object", "pub")
      \/ n = 7 /\ c = Call(i, "populate", "pub")
      \/ n = 8 /\ c = Call(i, "get", "pub")
      \/ n = 9 /\ c = Call(i, "object", "key")
      \/ n = 10 /\ c = Call(i, "populate", "key")
      \/ n = 11 /\ c = Call(i, "get", "key")
      \/ n = 12 /\ c = Call(i, "operation", "sign")
      \/ n = 13 /\ c = Call(i, "set_key", "key")
      \/ n = 14 /\ c = Call(i, "free", "key")
      \/ n = 15 /\ c = Call(i, "sign", "op")
      \/ n = 16 /\ c = Call(i, "free_op", "op")
      \/ n = 17 /\ c = Call(i, "operation", "verify")
      \/ n = 18 /\ c = Call(i, "set_key", "pub")
      \/ n = 19 /\ c = Call(i, "free", "pub")
      \/ n = 20 /\ c = Call(i, "verify", "op")
  <2>1. \/ n = 1 \/ n = 2 \/ n = 3 \/ n = 4 \/ n = 5 \/ n = 6 \/ n = 7
        \/ n = 8 \/ n = 9 \/ n = 10 \/ n = 11 \/ n = 12 \/ n = 13 \/ n = 14
        \/ n = 15 \/ n = 16 \/ n = 17 \/ n = 18 \/ n = 19 \/ n = 20
    OBVIOUS
  <2>2. (n <= 4 => i = 1) /\ (n >= 5 => i = 2)
    BY <1>1
  <2> HIDE DEF i
  <2>3. QED
    BY <1>2, <2>1, <2>2, EcdsaCalls, SMTT(30)
<1> HIDE DEF c, i
<1>4. c.i = i /\ c.cmd \notin {"derive", "gen_key", "get_key"}
  BY <1>3 DEF Call
<1>5. \/ n = 1 /\ c.cmd = "open"
      \/ n = 2 /\ c.cmd = "object" /\ c.about = "key"
      \/ n = 3 /\ c.cmd = "generate" /\ c.about = "key"
      \/ n = 4 /\ c.cmd = "fetch" /\ c.about = "key"
      \/ n = 5 /\ c.cmd = "open"
      \/ n = 6 /\ c.cmd = "object" /\ c.about = "pub"
      \/ n = 7 /\ c.cmd = "populate" /\ c.about = "pub"
      \/ n = 8 /\ c.cmd = "get" /\ c.about = "pub"
      \/ n = 9 /\ c.cmd = "object" /\ c.about = "key"
      \/ n = 10 /\ c.cmd = "populate" /\ c.about = "key"
      \/ n = 11 /\ c.cmd = "get" /\ c.about = "key"
      \/ n = 12 /\ c.cmd = "operation" /\ c.about = "sign"
      \/ n = 13 /\ c.cmd = "set_key" /\ c.about = "key"
      \/ n = 14 /\ c.cmd = "free" /\ c.about = "key"
      \/ n = 15 /\ c.cmd = "sign"
      \/ n = 16 /\ c.cmd = "free_op"
      \/ n = 17 /\ c.cmd = "operation" /\ c.about = "verify"
      \/ n = 18 /\ c.cmd = "set_key" /\ c.about = "pub"
      \/ n = 19 /\ c.cmd = "free" /\ c.about = "pub"
      \/ n = 20 /\ c.cmd = "verify"
  BY <1>3 DEF Call
<1>6. UseOf("ecdsa", n + 1, "op") = IF n + 1 <= 16 THEN "sign" ELSE "verify"
  BY DEF UseOf
<1>7. Asked(c, "ecdsa", n)
  BY <1>4, <1>5, <1>6, SMTT(30) DEF Asked, At, Opens, i
<1>8. QED
  BY <1>7 DEF c

LEMMA CurveAsks ==
  ASSUME NEW n \in 1..28
  PROVE  Asked(CurveMain[n], "curve", n)
<1>1. CASE n <= 6
  <2> DEFINE i == Cur("curve", n)
             c == CurveMain[n]
  <2>1. /\ n <= 3 => n \in 1..3 /\ i = 1 /\ c = GenKey(1)[n]
        /\ n > 3 => n - 3 \in 1..3 /\ 3 + (n - 3) = n /\ i = 2
    <3>1. /\ n <= 3 => n \in 1..3 /\ i = 1
          /\ n > 3 => n - 3 \in 1..3 /\ 3 + (n - 3) = n /\ i = 2
      BY <1>1 DEF Cur
    <3>2. \A k \in 1..3 : CurveMain[k] = GenKey(1)[k]
      BY CurveCalls
    <3>3. QED
      BY <3>1, <3>2
  <2>2. n > 3 => c = GenKey(2)[n - 3]
    <3>1. \A k \in 1..3 : CurveMain[3 + k] = GenKey(2)[k]
      BY CurveCalls
    <3>2. QED
      BY <1>1, <2>1, <3>1
  <2>3. \/ (n = 1 \/ n = 4) /\ c = Call(i, "open", "key")
        \/ (n = 2 \/ n = 5) /\ c = Call(i, "gen_key", "key")
        \/ (n = 3 \/ n = 6) /\ c = Call(i, "get_key", "key")
    <3>1. n = 1 \/ n = 2 \/ n = 3 \/ n = 4 \/ n = 5 \/ n = 6
      BY <1>1
    <3>2. 4 - 3 = 1 /\ 5 - 3 = 2 /\ 6 - 3 = 3 /\ 1 \in 1..4 /\ 2 \in 1..4
      OBVIOUS
    <3> HIDE DEF i, c
    <3>3. QED
      BY <2>1, <2>2, <3>1, <3>2, GenKeyCalls
  <2> HIDE DEF i, c
  <2>4. c.i = i /\ c.cmd \in {"open", "gen_key", "get_key"}
    BY <2>3 DEF Call
  <2>5. /\ c.cmd = "open" => n = 1 \/ n = 4
        /\ c.cmd = "gen_key" => n = 2 \/ n = 5
        /\ c.cmd = "get_key" => n = 3 \/ n = 6
    BY <2>3 DEF Call
  <2>6. Asked(c, "curve", n)
    BY <2>4, <2>5 DEF Asked, Opens, i
  <2>7. QED
    BY <2>6 DEF c
<1>2. CASE n > 6
  <2>1. Step("curve", n) # 0 /\ n \in 1..Length("curve")
    BY <1>2 DEF Step, Length
  <2>2. CurveMain[n] = Derive(Cur("curve", n))[Step("curve", n)]
    <3>1. CASE n <= 17
      <4>1. /\ n - 6 \in 1..11 /\ 6 + (n - 6) = n /\ Cur("curve", n) = 3
            /\ Step("curve", n) = n - 6
        BY <1>2, <3>1 DEF Step, Cur
      <4>2. \A k \in 1..11 : CurveMain[6 + k] = Derive(3)[k]
        BY CurveCalls
      <4>3. QED
        BY <4>1, <4>2
    <3>2. CASE n > 17
      <4>1. /\ n - 17 \in 1..11 /\ 17 + (n - 17) = n /\ Cur("curve", n) = 4
            /\ Step("curve", n) = n - 17
        BY <3>2 DEF Step, Cur
      <4>2. \A k \in 1..11 : CurveMain[17 + k] = Derive(4)[k]
        BY CurveCalls
      <4>3. QED
        BY <4>1, <4>2
    <3>3. QED
      BY <3>1, <3>2
  <2>3. QED
    BY <2>1, <2>2, DerivationAsks
<1>3. QED
  BY <1>1, <1>2

(* A main that runs is in its script, and its next call is one of those.   *)
LEMMA MainAsks ==
  ASSUME NEW p, NEW t \in TAs, t = TaOf(p), Running(p)
  PROVE  /\ at[p] \in 1..Length(t) /\ Len(Script(p)) = Length(t)
         /\ Asked(Now(p), t, at[p])
<1>1. CASE t = "ecdsa"
  <2>1. Script(p) = EcdsaMain
    BY <1>1 DEF Script, TaOf
  <2>2. Len(EcdsaMain) = 20 /\ DOMAIN EcdsaMain = 1..20
    BY EcdsaCalls, LenProperties
  <2>3. QED
    BY <1>1, <2>1, <2>2, EcdsaAsks DEF Running, Now, Length
<1>2. CASE t = "ecdh"
  <2>1. Script(p) = Derive(1)
    BY <1>2 DEF Script, TaOf, EcdhMain
  <2>2. Len(Derive(1)) = 11 /\ DOMAIN Derive(1) = 1..11
    <3>1. 1 \in 1..4
      OBVIOUS
    <3>2. QED
      BY <3>1, DeriveCalls, LenProperties
  <2>3. at[p] \in 1..11 /\ Len(Script(p)) = 11
    BY <2>1, <2>2 DEF Running
  <2>4. /\ Length("ecdh") = 11 /\ Step("ecdh", at[p]) = at[p] /\ Cur("ecdh", at[p]) = 1
        /\ at[p] # 0
    BY <2>3 DEF Length, Step, Cur
  <2>5. Asked(Derive(1)[at[p]], "ecdh", at[p])
    BY <2>3, <2>4, DerivationAsks
  <2>6. QED
    BY <1>2, <2>1, <2>3, <2>4, <2>5 DEF Now
<1>3. CASE t = "curve"
  <2>1. Script(p) = CurveMain
    BY <1>3 DEF Script, TaOf
  <2>2. Len(CurveMain) = 28 /\ DOMAIN CurveMain = 1..28
    BY CurveCalls, LenProperties
  <2>3. QED
    BY <1>3, <2>1, <2>2, CurveAsks DEF Running, Now, Length
<1>4. QED
  BY <1>1, <1>2, <1>3 DEF TAs
-----------------------------------------------------------------------------
(* What a step in one session leaves alone: the instances and the slots of *)
(* every other, however the pool changes.                                  *)
InstLocal(s) ==
  /\ DOMAIN inst' = Sessions
  /\ \A r \in Sessions : Whole(inst'[r])
  /\ \A r \in Sessions : r # s => inst'[r] = inst[r]

SlotsLocal(s) ==
  /\ slots' = [h \in Handles |-> slots'[h]]
  /\ \A h \in Handles : Typed(slots[h])'
  /\ \A h \in Handles : \A r \in Sessions :
       r # s /\ (slots[h].owner = r \/ slots'[h].owner = r) => slots'[h] = slots[h]

ReplyLocal(s) == reply' = reply \/ \E res, data : Answer(s, res, data)

Local(s) == ta' = ta /\ InstLocal(s) /\ SlotsLocal(s) /\ ReplyLocal(s)

(* Only the slot of h changes.                                             *)
Becomes(h, slot) ==
  slots'[h] = slot /\ \A g \in Handles : g # h => slots'[g] = slots[g]

LEMMA InstSame == PoolTyped /\ UNCHANGED inst => \A s : InstLocal(s)
BY DEF PoolTyped, InstLocal

LEMMA SlotsSame == PoolTyped /\ UNCHANGED slots => \A s : SlotsLocal(s)
BY DEF PoolTyped, SlotsLocal, Typed

LEMMA Owner ==
  ASSUME PoolTyped, NEW h \in Handles
  PROVE  /\ slots[h].kind = "free" => slots[h] = Free
         /\ slots[h].owner \in Sessions =>
              /\ slots[h] = Slot(slots[h].kind, slots[h].owner,
                                 slots[h].attr.use, slots[h].attr.key)
              /\ slots[h].kind \in {"op", "obj"}
<1>1. Typed(slots[h])
  BY DEF PoolTyped
<1>2. Free.kind = "free" /\ Free.owner = Null /\ Null \notin Sessions
  BY TeeCoreAssumption DEF Free
<1>3. CASE slots[h] = Free
  BY <1>2, <1>3
<1>4. CASE slots[h] # Free
  BY <1>1, <1>4 DEF Typed
<1>5. QED
  BY <1>3, <1>4

(* Whatever becomes of a slot that is spare or the session's own.          *)
LEMMA BecomesLocal ==
  ASSUME PoolTyped, NEW s \in Sessions, NEW h \in Handles, NEW slot,
         slots' = [slots EXCEPT ![h] = slot], Typed(slot),
         slot.owner = s \/ slot = Free,
         slots[h].owner = s \/ slots[h] = Free
  PROVE  SlotsLocal(s) /\ Becomes(h, slot)
<1>1. slots = [g \in Handles |-> slots[g]]
  BY DEF PoolTyped
<1>2. Becomes(h, slot)
  BY <1>1 DEF Becomes
<1>3. slots' = [g \in Handles |-> slots'[g]]
  BY <1>1
<1>4. ASSUME NEW g \in Handles PROVE Typed(slots'[g])
  BY <1>2 DEF Becomes, PoolTyped
<1>5. ASSUME NEW g \in Handles, NEW r \in Sessions, r # s,
             slots[g].owner = r \/ slots'[g].owner = r
      PROVE  slots'[g] = slots[g]
  <2>1. CASE g = h
    BY <1>2, <1>5, <2>1, TeeCoreAssumption DEF Becomes, Free
  <2>2. CASE g # h
    BY <1>2, <2>2 DEF Becomes
  <2>3. QED
    BY <2>1, <2>2
<1>6. QED
  BY <1>2, <1>3, <1>4, <1>5 DEF SlotsLocal, Typed

LEMMA InstallLocal ==
  ASSUME PoolTyped, NEW s \in Sessions, NEW h \in Spare(slots),
         NEW kind \in {"op", "obj"}, NEW use, NEW key,
         slots' = Install(slots, h, kind, s, [use |-> use, key |-> key])
  PROVE  /\ h \in Handles /\ slots[h] = Free
         /\ SlotsLocal(s) /\ Becomes(h, Slot(kind, s, use, key))
<1> DEFINE slot == Slot(kind, s, use, key)
<1>1. h \in Handles /\ slots[h] = Free
  BY Owner DEF Spare
<1>2. slots' = [slots EXCEPT ![h] = slot]
  BY DEF Install, Slot
<1>3. Typed(slot) /\ slot.owner = s
  BY DEF Typed, Slot
<1> HIDE DEF slot
<1>4. SlotsLocal(s) /\ Becomes(h, slot)
  BY <1>1, <1>2, <1>3, BecomesLocal
<1>5. QED
  BY <1>1, <1>4 DEF slot

LEMMA FillLocal ==
  ASSUME PoolTyped, NEW s \in Sessions, NEW h \in Handles, slots[h].owner = s,
         NEW k, Fill(s, h, k)
  PROVE  /\ SlotsLocal(s) /\ InstLocal(s) /\ ReplyLocal(s)
         /\ Becomes(h, Slot(slots[h].kind, s, slots[h].attr.use, k))
<1> DEFINE slot == Slot(slots[h].kind, s, slots[h].attr.use, k)
<1>1. /\ slots[h] = Slot(slots[h].kind, s, slots[h].attr.use, slots[h].attr.key)
      /\ slots[h].kind \in {"op", "obj"}
  BY Owner
<1>2. [slots[h] EXCEPT !.attr.key = k] = slot
  BY <1>1 DEF Slot
<1>3. slots' = [slots EXCEPT ![h] = slot]
  <2>1. slots' = [slots EXCEPT ![h] = [slots[h] EXCEPT !.attr.key = k]]
    BY DEF Fill, PoolTyped
  <2>2. QED
    BY <1>2, <2>1
<1>4. Typed(slot) /\ slot.owner = s
  BY <1>1 DEF Typed, Slot
<1> HIDE DEF slot
<1>5. SlotsLocal(s) /\ Becomes(h, slot)
  BY <1>3, <1>4, BecomesLocal
<1>6. InstLocal(s) /\ ReplyLocal(s)
  BY InstSame DEF Fill, ReplyLocal
<1>7. QED
  BY <1>5, <1>6 DEF slot

LEMMA ReleaseLocal ==
  ASSUME PoolTyped, NEW s \in Sessions, NEW h,
         h = Null \/ (h \in Handles /\ slots[h].owner = s),
         slots' = Release(slots, {h})
  PROVE  /\ SlotsLocal(s)
         /\ h \in Handles => slots'[h] = Free
         /\ \A g \in Handles : g # h => slots'[g] = slots[g]
<1>1. slots' = [g \in Handles |-> IF g = h THEN Free ELSE slots[g]]
  BY DEF Release
<1>2. \A g \in Handles : slots'[g] = IF g = h THEN Free ELSE slots[g]
  BY <1>1
<1>3. slots' = [g \in Handles |-> slots'[g]]
  BY <1>1
<1>4. ASSUME NEW g \in Handles PROVE Typed(slots'[g])
  BY <1>2 DEF PoolTyped, Typed
<1>5. ASSUME NEW g \in Handles, NEW r \in Sessions, r # s,
             slots[g].owner = r \/ slots'[g].owner = r
      PROVE  slots'[g] = slots[g]
  <2>1. CASE g = h
    BY <1>2, <1>5, <2>1, TeeCoreAssumption DEF Free
  <2>2. CASE g # h
    BY <1>2, <2>2
  <2>3. QED
    BY <2>1, <2>2
<1>6. QED
  BY <1>2, <1>3, <1>4, <1>5 DEF SlotsLocal, Typed

LEMMA ReclaimLocal ==
  ASSUME PoolTyped, NEW s \in Sessions, slots' = Reclaim(slots, s)
  PROVE  SlotsLocal(s) /\ \A h \in Handles : slots'[h].owner # s
<1>1. slots' = [g \in Handles |-> IF slots[g].owner = s THEN Free ELSE slots[g]]
  BY DEF Reclaim
<1>2. \A g \in Handles : slots'[g] = IF slots[g].owner = s THEN Free ELSE slots[g]
  BY <1>1
<1>3. slots' = [g \in Handles |-> slots'[g]]
  BY <1>1
<1>4. ASSUME NEW g \in Handles PROVE Typed(slots'[g])
  BY <1>2 DEF PoolTyped, Typed
<1>5. Free.owner = Null /\ Null \notin Sessions
  BY TeeCoreAssumption DEF Free
<1>6. ASSUME NEW g \in Handles, NEW r \in Sessions, r # s,
             slots[g].owner = r \/ slots'[g].owner = r
      PROVE  slots'[g] = slots[g]
  BY <1>2, <1>5, <1>6
<1>7. \A h \in Handles : slots'[h].owner # s
  BY <1>2, <1>5
<1>8. QED
  BY <1>3, <1>4, <1>6, <1>7 DEF SlotsLocal, Typed

(* An instance that becomes another whole one.                             *)
LEMMA InstBecomes ==
  ASSUME PoolTyped, NEW s \in Sessions, NEW i, Whole(i),
         inst' = [inst EXCEPT ![s] = i]
  PROVE  InstLocal(s) /\ inst'[s] = i
BY DEF PoolTyped, InstLocal

LEMMA PanicLocal ==
  ASSUME PoolTyped, NEW s \in Sessions, Panic(s), ta' = ta
  PROVE  Local(s)
<1> DEFINE i == [Closed EXCEPT !.phase = "dead"]
<1>1. Whole(i)
  BY DEF Whole, Closed
<1>2. inst' = [inst EXCEPT ![s] = i]
  BY DEF Panic
<1> HIDE DEF i
<1>3. InstLocal(s)
  BY <1>1, <1>2, InstBecomes
<1>4. SlotsLocal(s)
  BY ReclaimLocal DEF Panic
<1>5. ReplyLocal(s)
  BY DEF Panic, ReplyLocal
<1>6. QED
  BY <1>3, <1>4, <1>5 DEF Local

(* A step that only answers.                                               *)
LEMMA AnswerLocal ==
  ASSUME PoolTyped, NEW s, NEW res, NEW data, Answer(s, res, data),
         UNCHANGED <<ta, inst, slots>>
  PROVE  Local(s)
BY InstSame, SlotsSame DEF Local, ReplyLocal
-----------------------------------------------------------------------------
(* Every command stays in its session.                                     *)

LEMMA FailsLocal ==
  ASSUME PoolTyped, NEW s, NEW call, Fails(s, call), ta' = ta
  PROVE  Local(s)
BY AnswerLocal DEF Fails

LEMMA FilledLocal ==
  ASSUME PoolTyped, NEW s \in Sessions, NEW h, NEW kind, Owns(slots, s, kind, h),
         NEW k, Fill(s, h, k), ta' = ta
  PROVE  Local(s)
<1>1. h \in Handles /\ slots[h].owner = s
  BY DEF Owns
<1>2. QED
  BY <1>1, FillLocal DEF Local

LEMMA OpenLocal ==
  ASSUME PoolTyped, NEW s \in Sessions, NEW parameters,
         TA_OpenSessionEntryPoint(s, parameters)
  PROVE  Local(s)
<1>1. CASE inst' = [inst EXCEPT ![s].phase = "open"] /\ Answer(s, "OK", Null)
  <2> DEFINE i == [inst[s] EXCEPT !.phase = "open"]
  <2>1. Whole(i)
    BY DEF PoolTyped, Whole
  <2>2. inst' = [inst EXCEPT ![s] = i]
    BY <1>1
  <2> HIDE DEF i
  <2>3. InstLocal(s)
    BY <2>1, <2>2, InstBecomes
  <2>4. QED
    BY <1>1, <2>3, SlotsSame DEF TA_OpenSessionEntryPoint, Local, ReplyLocal
<1>2. CASE UNCHANGED inst /\ \E res : Answer(s, res, Null)
  BY <1>2, AnswerLocal DEF TA_OpenSessionEntryPoint
<1>3. QED
  BY <1>1, <1>2 DEF TA_OpenSessionEntryPoint

LEMMA AllocateLocal ==
  ASSUME PoolTyped, NEW s \in Sessions, NEW kind \in {"op", "obj"}, NEW use,
         Allocate(s, kind, use)
  PROVE  Local(s)
<1>1. CASE Answer(s, "FAIL", Null) /\ UNCHANGED slots
  BY <1>1, AnswerLocal DEF Allocate
<1>2. ASSUME NEW h \in Spare(slots), Answer(s, "OK", h),
             slots' = Install(slots, h, kind, s, [use |-> use, key |-> NoKey])
      PROVE  Local(s)
  <2>1. SlotsLocal(s)
    BY <1>2, InstallLocal
  <2>2. QED
    BY <1>2, <2>1, InstSame DEF Allocate, Local, ReplyLocal
<1>3. QED
  BY <1>1, <1>2 DEF Allocate

LEMMA FreeLocal ==
  ASSUME PoolTyped, NEW s \in Sessions, NEW kind, NEW h, FreeHandle(s, kind, h),
         ta' = ta
  PROVE  Local(s)
<1>1. CASE /\ Owns(slots, s, kind, h) \/ h = Null
           /\ slots' = Release(slots, {h})
           /\ Answer(s, "OK", Null)
           /\ UNCHANGED inst
  <2>1. h = Null \/ (h \in Handles /\ slots[h].owner = s)
    BY <1>1 DEF Owns
  <2>2. SlotsLocal(s)
    BY <1>1, <2>1, ReleaseLocal
  <2>3. QED
    BY <1>1, <2>2, InstSame DEF Local, ReplyLocal
<1>2. QED
  BY <1>1, PanicLocal DEF FreeHandle

LEMMA PopulateLocal ==
  ASSUME PoolTyped, NEW s \in Sessions, NEW h, NEW k,
         ta_entry_populate_transient_object(s, h, k)
  PROVE  Local(s)
BY FailsLocal, FilledLocal, PanicLocal
   DEF ta_entry_populate_transient_object, Blank

LEMMA GenerateLocal ==
  ASSUME PoolTyped, NEW s \in Sessions, NEW h, ta_entry_generate_key(s, h)
  PROVE  Local(s)
BY FailsLocal, FilledLocal, PanicLocal DEF ta_entry_generate_key, Blank

LEMMA GetLocal ==
  ASSUME PoolTyped, NEW s \in Sessions, NEW h,
         ta_entry_get_object_buffer_attribute(s, h)
  PROVE  Local(s)
BY AnswerLocal, PanicLocal DEF ta_entry_get_object_buffer_attribute

LEMMA SetKeyLocal ==
  ASSUME PoolTyped, NEW s \in Sessions, NEW op, NEW h,
         ta_entry_set_operation_key(s, op, h)
  PROVE  Local(s)
BY FailsLocal, FilledLocal, PanicLocal DEF ta_entry_set_operation_key, Suits

LEMMA SignLocal ==
  ASSUME PoolTyped, NEW s \in Sessions, NEW op, ta_entry_asymmetric_sign_digest(s, op)
  PROVE  Local(s)
BY AnswerLocal, PanicLocal DEF ta_entry_asymmetric_sign_digest

LEMMA VerifyLocal ==
  ASSUME PoolTyped, NEW s \in Sessions, NEW op, NEW signer,
         ta_entry_asymmetric_verify_digest(s, op, signer)
  PROVE  Local(s)
BY AnswerLocal, PanicLocal DEF ta_entry_asymmetric_verify_digest

LEMMA DeriveLocal ==
  ASSUME PoolTyped, NEW s \in Sessions, NEW op, NEW h, NEW peer,
         test_derive_key(s, op, h, peer)
  PROVE  Local(s)
BY FailsLocal, FilledLocal, PanicLocal DEF test_derive_key, Blank

LEMMA AllocTransientLocal ==
  ASSUME PoolTyped, NEW s \in Sessions, alloc_transient_object(s)
  PROVE  Local(s)
<1> DEFINE old == inst[s].key
           i == [inst[s] EXCEPT !.pc = "gen_key"]
<1>1. CASE /\ old = Null \/ Owns(slots, s, "obj", old)
           /\ slots' = Release(slots, {old})
           /\ inst' = [inst EXCEPT ![s].pc = "gen_key"]
           /\ UNCHANGED reply
  <2>1. old = Null \/ (old \in Handles /\ slots[old].owner = s)
    BY <1>1 DEF Owns
  <2>2. SlotsLocal(s)
    <3> HIDE DEF old
    <3>1. QED
      BY <1>1, <2>1, ReleaseLocal
  <2>3. Whole(i)
    BY DEF PoolTyped, Whole
  <2>4. inst' = [inst EXCEPT ![s] = i]
    BY <1>1
  <2>5. InstLocal(s)
    <3> HIDE DEF i
    <3>1. QED
      BY <2>3, <2>4, InstBecomes
  <2>6. QED
    BY <1>1, <2>2, <2>5 DEF Local, ReplyLocal, alloc_transient_object
<1>2. QED
  BY <1>1, PanicLocal DEF alloc_transient_object

LEMMA GenKeyLocal ==
  ASSUME PoolTyped, NEW s \in Sessions, gen_key(s)
  PROVE  Local(s)
<1>1. ASSUME NEW i, Whole(i), inst' = [inst EXCEPT ![s] = i], SlotsLocal(s),
             \E res : Answer(s, res, Null)
      PROVE  Local(s)
  BY <1>1, InstBecomes DEF Local, ReplyLocal, gen_key
<1>2. CASE /\ inst' = [inst EXCEPT ![s] = [Closed EXCEPT !.phase = "open"]]
           /\ Answer(s, "FAIL", Null)
           /\ UNCHANGED slots
  <2>1. Whole([Closed EXCEPT !.phase = "open"])
    BY DEF Whole, Closed
  <2>2. QED
    BY <1>1, <1>2, <2>1, SlotsSame
<1>3. ASSUME NEW h \in Spare(slots), NEW k, NEW res,
             inst' = [inst EXCEPT ![s] = [@ EXCEPT !.pc = "idle", !.key = h]],
             slots' = Install(slots, h, "obj", s, [use |-> "pair", key |-> k]),
             Answer(s, res, Null)
      PROVE  Local(s)
  <2> DEFINE i == [inst[s] EXCEPT !.pc = "idle", !.key = h]
  <2>1. Whole(i)
    <3>1. PICK phase, pc, key : inst[s] = [phase |-> phase, pc |-> pc, key |-> key]
      BY DEF PoolTyped, Whole
    <3>2. [inst[s] EXCEPT !.pc = "idle"] = [phase |-> phase, pc |-> "idle", key |-> key]
      BY <3>1
    <3>3. i = [[phase |-> phase, pc |-> "idle", key |-> key] EXCEPT !.key = h]
      BY <3>2
    <3>4. i = [phase |-> phase, pc |-> "idle", key |-> h]
      BY <3>3
    <3>5. QED
      BY <3>4 DEF Whole
  <2>2. inst' = [inst EXCEPT ![s] = i]
    BY <1>3
  <2>3. SlotsLocal(s)
    BY <1>3, InstallLocal
  <2> HIDE DEF i
  <2>4. QED
    BY <1>1, <1>3, <2>1, <2>2, <2>3
<1>4. QED
  BY <1>2, <1>3 DEF gen_key

LEMMA GetKeyLocal ==
  ASSUME PoolTyped, NEW s \in Sessions, get_key(s)
  PROVE  Local(s)
BY AnswerLocal, PanicLocal DEF get_key

LEMMA CloseLocal ==
  ASSUME PoolTyped, NEW s \in Sessions, TA_CloseSessionEntryPoint(s)
  PROVE  Local(s)
<1> DEFINE i == [inst[s] EXCEPT !.phase = "destroying"]
<1>1. Whole(i)
  BY DEF PoolTyped, Whole
<1>2. inst' = [inst EXCEPT ![s] = i]
  BY DEF TA_CloseSessionEntryPoint
<1> HIDE DEF i
<1>3. InstLocal(s)
  BY <1>1, <1>2, InstBecomes
<1>4. QED
  BY <1>3, SlotsSame DEF TA_CloseSessionEntryPoint, Local, ReplyLocal

LEMMA DestroyLocal ==
  ASSUME PoolTyped, NEW s \in Sessions, DestroyInstance(s)
  PROVE  Local(s)
<1>1. Whole(Closed)
  BY DEF Whole, Closed
<1>2. InstLocal(s)
  BY <1>1, InstBecomes DEF DestroyInstance
<1>3. QED
  BY <1>2, ReclaimLocal DEF DestroyInstance, Local, ReplyLocal

LEMMA InvokeLocal ==
  ASSUME PoolTyped, NEW s \in Sessions, NEW keys, TA_InvokeCommandEntryPoint(s, keys)
  PROVE  Local(s)
<1>1. CASE \E use : Allocate(s, "op", use) \/ Allocate(s, "obj", use)
  BY <1>1, AllocateLocal
<1>2. CASE \E h : \/ ta_entry_free_operation(s, h)
                  \/ ta_entry_free_transient_object(s, h)
  BY <1>2, FreeLocal DEF ta_entry_free_operation, ta_entry_free_transient_object
<1>3. CASE Harmless(s)
  BY <1>3, AnswerLocal DEF Harmless
<1>4. QED
  BY <1>1, <1>2, <1>3, PopulateLocal, GenerateLocal, GetLocal, SetKeyLocal,
     SignLocal, VerifyLocal, DeriveLocal, AllocTransientLocal, GenKeyLocal,
     GetKeyLocal
     DEF TA_InvokeCommandEntryPoint, ta_entry_allocate_operation,
         ta_entry_allocate_transient_object
-----------------------------------------------------------------------------
(* The mains.                                                              *)

(* What a step of another process leaves to process p.                     *)
Untouched(p) ==
  /\ at'[p] = at[p] /\ held'[p] = held[p]
  /\ \A i \in 1..4 :
       /\ got'[<<p, i>>] = got[<<p, i>>] /\ inst'[<<p, i>>] = inst[<<p, i>>]
       /\ \A h \in Handles :
            slots[h].owner = <<p, i>> \/ slots'[h].owner = <<p, i>> =>
              slots'[h] = slots[h]
  /\ reply' = reply \/ reply'.to \notin Mine(p)

LEMMA CurIn == \A t, n : Cur(t, n) \in 1..4
BY DEF Cur

LEMMA Sits4 ==
  ASSUME NEW p \in Procs, NEW i \in 1..4
  PROVE  <<p, i>> \in Sessions
BY DemoAssumption

LEMMA UntouchedProgress ==
  ASSUME NEW p \in Procs, Untouched(p), NEW t \in TAs, NEW n \in Nat,
         Progress(p, t, n)
  PROVE  Progress(p, t, n)'
<1>1. at'[p] = at[p]
  BY DEF Untouched
<1>2. \A i \in 1..4 : \A h \in Handles :
        slots[h].owner = <<p, i>> \/ slots'[h].owner = <<p, i>> => slots'[h] = slots[h]
  BY DEF Untouched
<1>3. \A i \in 1..4 : Owned(<<p, i>>)' = Owned(<<p, i>>)
  BY <1>2 DEF Owned
<1>4. SlotsOf(p)' = SlotsOf(p)
  BY <1>2 DEF SlotsOf
<1>5. \A i \in 1..4 : got'[<<p, i>>] = got[<<p, i>>] /\ inst'[<<p, i>>] = inst[<<p, i>>]
  BY DEF Untouched
<1>6. 1 \in 1..4 /\ 2 \in 1..4 /\ 3 \in 1..4 /\ 4 \in 1..4
  OBVIOUS
<1>7. ASSUME n \in 1..Length(t), Runs(p, t, n)
      PROVE  Runs(p, t, n)'
  <2>1. Sits(p, t, n)'
    BY <1>3, <1>5, <1>7 DEF Runs, Sits
  <2>2. Items(p, t, n)'
    <3>1. SUFFICES ASSUME NEW name \in Names, Alive(t, n, name)
                   PROVE  Has(p, t, n, name)'
      BY DEF Items
    <3>2. Has(p, t, n, name)
      BY <1>7, <3>1 DEF Runs, Items
    <3>3. KeysOf(p, t, n, name)' = KeysOf(p, t, n, name)
      BY <1>5, <1>6 DEF KeysOf
    <3>4. held'[p][name] = held[p][name]
      BY DEF Untouched
    <3>5. slots'[held[p][name]] = slots[held[p][name]]
      BY <1>2, <3>2, CurIn DEF Has, Owns
    <3>6. QED
      BY <3>2, <3>3, <3>4, <3>5 DEF Has, Owns, Attr
  <2>3. Left(p, t, n)'
    <3>1. LeftEcdsa(p, n) => LeftEcdsa(p, n)'
      BY <1>3, <1>6 DEF LeftEcdsa
    <3>2. LeftCurve(p, n) => LeftCurve(p, n)'
      <4>1. SUFFICES ASSUME LeftCurve(p, n) PROVE LeftCurve(p, n)'
        OBVIOUS
      <4>2. \A i \in {1, 2} : inst'[<<p, i>>] = inst[<<p, i>>]
        BY <1>5
      <4>3. \A i \in {1, 2, 3} : Owned(<<p, i>>)' = Owned(<<p, i>>)
        BY <1>3
      <4>4. ASSUME NEW i \in {1, 2}, n = 3 * i
            PROVE  /\ Owns(slots, <<p, i>>, "obj", inst[<<p, i>>].key)'
                   /\ Attr(inst[<<p, i>>].key)'.key = Pair(<<p, i>>)
        <5>1. /\ Owns(slots, <<p, i>>, "obj", inst[<<p, i>>].key)
              /\ Attr(inst[<<p, i>>].key).key = Pair(<<p, i>>)
          BY <4>1, <4>4 DEF LeftCurve
        <5>2. slots'[inst[<<p, i>>].key] = slots[inst[<<p, i>>].key]
          BY <1>2, <5>1 DEF Owns
        <5>3. QED
          BY <4>2, <5>1, <5>2 DEF Owns, Attr
      <4>5. QED
        BY <4>1, <4>2, <4>3, <4>4 DEF LeftCurve
    <3>3. Only(p, t, n) => Only(p, t, n)'
      BY <1>3, CurIn DEF Only, Untouched
    <3>4. QED
      BY <1>7, <3>1, <3>2, <3>3 DEF Runs, Left
  <2>4. Knows(p, t, n)'
    BY <1>5, <1>6, <1>7 DEF Runs, Knows
  <2>5. QED
    BY <2>1, <2>2, <2>3, <2>4 DEF Runs
<1>8. ASSUME Ends(p, t, n)
      PROVE  Ends(p, t, n)'
  <2>1. Few(SlotsOf(p), Bound(t))' /\ (Few(SlotsOf(p), 2) => Few(SlotsOf(p), 2)')
    BY <1>4, <1>8 DEF Ends, Few
  <2>2. reply' = reply \/ reply'.to \notin Mine(p)
    BY DEF Untouched
  <2>3. QED
    BY <1>4, <1>5, <1>6, <1>8, <2>1, <2>2 DEF Ends, Mine
<1>9. QED
  BY <1>1, <1>7, <1>8 DEF Progress
-----------------------------------------------------------------------------
(* From a position to the next in the same session: only the variable name *)
(* is another afterwards ("none": no variable is).                         *)
Carries(t, n, name) ==
  /\ n + 1 \in 1..Length(t) /\ Cur(t, n + 1) = Cur(t, n)
  /\ ~Opens(t, n) /\ ~Opens(t, n + 1)
  /\ t = "curve" => n >= 7
  /\ \A m \in Names : m # name =>
       /\ Alive(t, n + 1, m) <=> Alive(t, n, m)
       /\ Alive(t, n, m) =>
            /\ Filled(t, n + 1, m) <=> Filled(t, n, m)
            /\ UseOf(t, n + 1, m) = UseOf(t, n, m)

LEMMA StepNext ==
  ASSUME NEW t \in {"ecdh", "curve"}, NEW n \in 1..Length(t), Step(t, n) \in 2..10
  PROVE  /\ Step(t, n + 1) = Step(t, n) + 1
         /\ n + 1 \in 1..Length(t) /\ Cur(t, n + 1) = Cur(t, n)
         /\ ~Opens(t, n) /\ ~Opens(t, n + 1)
         /\ t = "curve" => n >= 7
BY DEF Step, Length, Cur, Opens

LEMMA EcdsaNext ==
  ASSUME NEW n \in 1..19, n \notin {1, 4, 5}
  PROVE  /\ n + 1 \in 1..Length("ecdsa") /\ Cur("ecdsa", n + 1) = Cur("ecdsa", n)
         /\ ~Opens("ecdsa", n) /\ ~Opens("ecdsa", n + 1)
BY DEF Length, Cur, Opens

(* What becomes of the variables of a derivation, and of ECDSA.            *)
LEMMA DerivationNext ==
  ASSUME NEW t \in {"ecdh", "curve"}, NEW n \in 1..Length(t), Step(t, n) \in 2..10,
         NEW name,
         name = CASE Step(t, n) \in {2, 5, 10} -> "op"
                  [] Step(t, n) \in {3, 4, 6} -> "key"
                  [] Step(t, n) \in {7, 8} -> "sv"
                  [] Step(t, n) = 9 -> "none"
  PROVE  Carries(t, n, name)
<1> DEFINE d == Step(t, n)
<1>1. d \in 2..10 /\ Step(t, n + 1) = d + 1
  BY StepNext
<1>2. t # "ecdsa"
  OBVIOUS
<1>3. /\ d \in {2, 5, 10} => name = "op"
      /\ d \in {3, 4, 6} => name = "key"
      /\ d \in {7, 8} => name = "sv"
      /\ d = 9 => name = "none"
  <2> HIDE DEF d
  <2>1. name = CASE d \in {2, 5, 10} -> "op"
                 [] d \in {3, 4, 6} -> "key"
                 [] d \in {7, 8} -> "sv"
                 [] d = 9 -> "none"
    BY DEF d
  <2>2. QED
    BY <1>1, <2>1
<1> HIDE DEF d
<1>4. ASSUME NEW m \in Names, m # name
      PROVE  /\ Alive(t, n + 1, m) <=> Alive(t, n, m)
             /\ Alive(t, n, m) =>
                  /\ Filled(t, n + 1, m) <=> Filled(t, n, m)
                  /\ UseOf(t, n + 1, m) = UseOf(t, n, m)
  <2>1. CASE m = "op"
    BY <1>1, <1>2, <1>3, <1>4, <2>1 DEF Alive, Filled, UseOf, d
  <2>2. CASE m = "key"
    BY <1>1, <1>2, <1>3, <1>4, <2>2 DEF Alive, Filled, UseOf, d
  <2>3. CASE m = "sv"
    BY <1>1, <1>2, <1>3, <1>4, <2>3 DEF Alive, Filled, UseOf, d
  <2>4. CASE m = "pub"
    BY <1>2, <2>4 DEF Alive
  <2>5. QED
    BY <2>1, <2>2, <2>3, <2>4 DEF Names
<1>5. QED
  BY <1>4, StepNext DEF Carries

EcdsaVar(n) ==
  IF n \in {12, 13, 16, 17, 18} THEN "op"
  ELSE IF n \in {2, 3, 9, 10, 14} THEN "key"
  ELSE IF n \in {6, 7, 19} THEN "pub" ELSE "none"

LEMMA EcdsaCarries ==
  ASSUME NEW n \in 1..19, n \notin {1, 4, 5}
  PROVE  Carries("ecdsa", n, EcdsaVar(n))
<1>1. ASSUME NEW m \in Names, m # EcdsaVar(n)
      PROVE  /\ Alive("ecdsa", n + 1, m) <=> Alive("ecdsa", n, m)
             /\ Alive("ecdsa", n, m) =>
                  /\ Filled("ecdsa", n + 1, m) <=> Filled("ecdsa", n, m)
                  /\ UseOf("ecdsa", n + 1, m) = UseOf("ecdsa", n, m)
  <2>1. CASE m = "op"
    <3>1. n \notin {12, 13, 16, 17, 18}
      BY <1>1, <2>1 DEF EcdsaVar
    <3>2. QED
      BY <2>1, <3>1 DEF Alive, Filled, UseOf
  <2>2. CASE m = "key"
    <3>1. n \notin {2, 3, 9, 10, 14}
      BY <1>1, <2>2 DEF EcdsaVar
    <3>2. QED
      BY <2>2, <3>1 DEF Alive, Filled, UseOf
  <2>3. CASE m = "pub"
    <3>1. n \notin {6, 7, 19}
      BY <1>1, <2>3 DEF EcdsaVar
    <3>2. QED
      BY <2>3, <3>1 DEF Alive, Filled, UseOf
  <2>4. CASE m = "sv"
    BY <2>4 DEF Alive
  <2>5. QED
    BY <2>1, <2>2, <2>3, <2>4 DEF Names
<1>2. QED
  BY <1>1, EcdsaNext DEF Carries
-----------------------------------------------------------------------------
(* A main in its script.                                                   *)
Standing(p, t, n) ==
  /\ PoolTyped /\ t = TaOf(p) /\ n = at[p] /\ n \in 1..Length(t)
  /\ Len(Script(p)) = Length(t)
  /\ Runs(p, t, n) /\ Asked(Now(p), t, n)
  /\ \A i \in 1..4 : ta[<<p, i>>] = t
  /\ DOMAIN at = Procs /\ DOMAIN held = Procs /\ DOMAIN got = Sessions
  /\ DOMAIN held[p] = Names

LEMMA Stands ==
  ASSUME DemoInv, NEW p \in Procs, Running(p)
  PROVE  \E t \in TAs, n \in Nat : Standing(p, t, n)
<1>1. PICK t \in TAs, n \in Nat : t = TaOf(p) /\ n = at[p] /\ Progress(p, t, n)
  BY DEF DemoInv, InPlace
<1>2. n \in 1..Length(t) /\ Len(Script(p)) = Length(t) /\ Asked(Now(p), t, n)
  BY <1>1, MainAsks
<1>3. Length(t) <= 28
  BY DEF Length
<1>4. Runs(p, t, n)
  BY <1>1, <1>2, <1>3 DEF Progress, Failed, Passing, Gone, Stranger
<1>5. QED
  BY <1>1, <1>2, <1>4 DEF Standing, DemoInv

(* Where a main comes to.                                                  *)
Goes(p, t) == \E m \in Nat : m = at'[p] /\ Progress(p, t, m)'

LEMMA Turns ==
  ASSUME NEW p \in Procs, NEW t \in TAs, NEW n \in Nat, Standing(p, t, n), Returns(p)
  PROVE  /\ DOMAIN at' = Procs /\ \A q \in Procs : q # p => at'[q] = at[q]
         /\ reply'.res # "OK" => at'[p] = 0
         /\ reply'.res = "OK" => at'[p] = IF n = Length(t) THEN 50 ELSE n + 1
BY DEF Standing, Returns, Failed, Passing

LEMMA Advances ==
  ASSUME NEW p \in Procs, NEW t \in TAs, NEW n \in Nat, Standing(p, t, n), Returns(p),
         reply'.res = "OK", n + 1 \in 1..Length(t), Runs(p, t, n + 1)'
  PROVE  Goes(p, t)
<1> DEFINE m == n + 1
<1>1. m \in Nat /\ at'[p] = m
  BY Turns DEF Length
<1> HIDE DEF m
<1>2. m \in 1..Length(t) /\ Runs(p, t, m)'
  BY DEF m
<1>3. QED
  BY <1>1, <1>2 DEF Goes, Progress

LEMMA FewOf ==
  ASSUME NEW a \in Handles \cup {Null}, NEW b \in Handles \cup {Null},
         NEW c \in Handles \cup {Null}, NEW d \in Handles \cup {Null},
         NEW S, S \subseteq {a, b, c, d}
  PROVE  Few(S, 4)
BY DEF Few

(* What a main holds of the pool.                                          *)
LEMMA SlotsBound ==
  ASSUME NEW p \in Procs, NEW t \in TAs, NEW n \in Nat, n \in 1..Length(t),
         Runs(p, t, n)
  PROVE  Few(SlotsOf(p), Bound(t))
<1>1. /\ Sits(p, t, n) /\ Left(p, t, n) /\ n \in 1..Length(t)
  BY DEF Runs
<1>2. ASSUME NEW h \in SlotsOf(p)
      PROVE  \E i \in 1..4 : h \in Owned(<<p, i>>) /\ i <= Opened(t, n)
  <2>1. PICK i \in 1..4 : h \in Owned(<<p, i>>)
    BY <1>2 DEF SlotsOf, Owned
  <2>2. i <= Opened(t, n)
    BY <1>1, <2>1 DEF Sits, Opened, Cur
  <2>3. QED
    BY <2>1, <2>2
<1>3. SlotsOf(p) \subseteq Handles
  BY DEF SlotsOf
<1> DEFINE In4(x) == IF x \in Handles THEN x ELSE Null
           op == In4(held[p]["op"])
           key == In4(held[p]["key"])
           pub == In4(held[p]["pub"])
           sv == In4(held[p]["sv"])
<1>4. /\ op \in Handles \cup {Null} /\ key \in Handles \cup {Null}
      /\ pub \in Handles \cup {Null} /\ sv \in Handles \cup {Null}
  OBVIOUS
<1>5. ASSUME Only(p, t, n), NEW h \in Owned(<<p, Cur(t, n)>>)
      PROVE  \/ h = op /\ Alive(t, n, "op")
             \/ h = key /\ Alive(t, n, "key")
             \/ h = pub /\ Alive(t, n, "pub")
             \/ h = sv /\ Alive(t, n, "sv")
  <2>1. h \in Handles
    BY <1>5 DEF Owned
  <2>2. QED
    BY <1>5, <2>1 DEF Only, Names
<1> HIDE DEF op, key, pub, sv
<1>6. CASE t = "ecdsa"
  <2>1. Only(p, t, n)
    BY <1>1, <1>6 DEF Left
  <2>2. PICK x \in Handles \cup {Null} :
          n >= 5 => Owned(<<p, 1>>) \subseteq {x}
    <3>1. n >= 5 => AtMostOne(Owned(<<p, 1>>)) /\ Owned(<<p, 1>>) \subseteq Handles
      BY <1>1, <1>6 DEF Left, LeftEcdsa, Owned
    <3>2. QED
      BY <3>1 DEF AtMostOne
  <2>3. /\ n <= 4 => Cur(t, n) = 1 /\ Opened(t, n) <= 1
        /\ n >= 5 => Cur(t, n) = 2 /\ Opened(t, n) <= 2
    BY <1>1, <1>6 DEF Cur, Opened
  <2>4. ~Alive(t, n, "sv")
    BY <1>6 DEF Alive
  <2>5. ASSUME NEW h \in SlotsOf(p) PROVE h \in {op, key, pub, x}
    <3>1. PICK i \in 1..4 : h \in Owned(<<p, i>>) /\ i <= Opened(t, n)
      BY <1>2
    <3>2. i = Cur(t, n) \/ (n >= 5 /\ i = 1)
      <4>1. Opened(t, n) \in Int
        BY CurIn DEF Opened
      <4>2. QED
        BY <2>3, <3>1, <4>1
    <3>3. QED
      BY <1>5, <2>1, <2>2, <2>4, <3>1, <3>2
  <2>6. Bound(t) = 4
    BY <1>6 DEF Bound
  <2>7. QED
    BY <1>4, <2>5, <2>6 DEF Few
<1>7. ASSUME t # "ecdsa", Only(p, t, n), NEW h \in Owned(<<p, Cur(t, n)>>)
      PROVE  h = op \/ h = IF Step(t, n) \in 4..6 THEN key ELSE sv
  <2>1. ~Alive(t, n, "pub")
    BY <1>7 DEF Alive
  <2>2. /\ Alive(t, n, "key") => Step(t, n) \in 4..6
        /\ Alive(t, n, "sv") => Step(t, n) \in 8..11
    BY <1>7 DEF Alive
  <2>3. Step(t, n) \in 4..6 => ~(Step(t, n) \in 8..11)
    OBVIOUS
  <2>4. QED
    BY <1>5, <1>7, <2>1, <2>2, <2>3
<1> DEFINE y == IF Step(t, n) \in 4..6 THEN key ELSE sv
<1>8. y \in Handles \cup {Null}
  BY <1>4
<1> HIDE DEF y
<1>9. CASE t = "ecdh"
  <2>1. Only(p, t, n) /\ Cur(t, n) = 1 /\ Opened(t, n) <= 1
    BY <1>1, <1>9 DEF Left, Cur, Opened
  <2>2. ASSUME NEW h \in SlotsOf(p) PROVE h \in {op, y}
    <3>1. h \in Owned(<<p, Cur(t, n)>>)
      <4>1. PICK i \in 1..4 : h \in Owned(<<p, i>>) /\ i <= Opened(t, n)
        BY <1>2
      <4>2. Opened(t, n) \in Int
        BY CurIn DEF Opened
      <4>3. i = 1
        BY <2>1, <4>1, <4>2
      <4>4. QED
        BY <2>1, <4>1, <4>3
    <3>2. QED
      BY <1>7, <1>9, <2>1, <3>1 DEF y
  <2>3. SlotsOf(p) \subseteq {op, y, op, y} /\ Bound(t) = 2
    BY <1>9, <2>2 DEF Bound
  <2>4. QED
    BY <1>4, <1>8, <2>3 DEF Few
<1>10. CASE t = "curve"
  <2> DEFINE a == In4(inst[<<p, 1>>].key)
             b == In4(inst[<<p, 2>>].key)
  <2>1. a \in Handles \cup {Null} /\ b \in Handles \cup {Null}
    OBVIOUS
  <2>2. Owned(<<p, 1>>) \subseteq {a} /\ Owned(<<p, 2>>) \subseteq {b}
    <3>1. LeftCurve(p, n)
      BY <1>1, <1>10 DEF Left
    <3>2. Owned(<<p, 1>>) \subseteq Handles /\ Owned(<<p, 2>>) \subseteq Handles
      BY DEF Owned
    <3>3. /\ Owned(<<p, 1>>) \subseteq {inst[<<p, 1>>].key}
          /\ Owned(<<p, 2>>) \subseteq {inst[<<p, 2>>].key}
      BY <3>1 DEF LeftCurve
    <3>4. QED
      BY <3>2, <3>3
  <2> HIDE DEF a, b
  <2>3. /\ n <= 6 => Opened(t, n) <= 2
        /\ n >= 7 /\ n <= 17 => Cur(t, n) = 3 /\ Opened(t, n) <= 3
        /\ n >= 18 => Cur(t, n) = 4 /\ Owned(<<p, 3>>) = {}
    BY <1>1, <1>10 DEF Cur, Opened, Left, LeftCurve
  <2>4. n >= 7 => Only(p, t, n)
    BY <1>1, <1>10 DEF Left
  <2>5. ASSUME NEW h \in SlotsOf(p) PROVE h \in {a, b, op, y}
    <3>1. PICK i \in 1..4 : h \in Owned(<<p, i>>) /\ i <= Opened(t, n)
      BY <1>2
    <3>2. i = 1 \/ i = 2 \/ (n >= 7 /\ i = Cur(t, n))
      <4>1. Opened(t, n) \in Int /\ (n >= 18 => i # 3)
        BY <2>3, <3>1, CurIn DEF Opened
      <4>2. QED
        BY <2>3, <3>1, <4>1
    <3>3. QED
      BY <1>7, <1>10, <2>2, <2>4, <3>1, <3>2 DEF y
  <2>6. Bound(t) = 4 /\ SlotsOf(p) \subseteq {a, b, op, y}
    BY <1>10, <2>5 DEF Bound
  <2>7. Few(SlotsOf(p), 4)
    BY <1>4, <1>8, <2>1, <2>6, FewOf
  <2>8. QED
    BY <2>6, <2>7
<1>11. QED
  BY <1>6, <1>9, <1>10 DEF TAs

(* A call that only fails ends the main.                                   *)
LEMMA GivesUp ==
  ASSUME NEW p \in Procs, NEW t \in TAs, NEW n \in Nat, Standing(p, t, n), Returns(p),
         reply'.res = "FAIL", UNCHANGED slots
  PROVE  Goes(p, t)
<1>1. at'[p] = 0
  BY Turns
<1>2. Few(SlotsOf(p), Bound(t))'
  <2>1. SlotsOf(p)' = SlotsOf(p)
    BY DEF SlotsOf
  <2>2. Few(SlotsOf(p), Bound(t))
    BY SlotsBound DEF Standing
  <2>3. QED
    BY <2>1, <2>2 DEF Few
<1>3. Ends(p, t, 0)'
  BY <1>2 DEF Ends, Passing
<1>4. QED
  BY <1>1, <1>3 DEF Goes, Progress, Failed

(* A variable with its handle, apart from what the others hold.            *)
LEMMA Distinct ==
  ASSUME NEW p, NEW t, NEW n, NEW l \in Names, NEW m \in Names, l # m,
         Has(p, t, n, l), Has(p, t, n, m)
  PROVE  held[p][l] # held[p][m]
<1>1. CASE l = "op" \/ m = "op"
  BY <1>1 DEF Has, Owns, KindOf
<1>2. CASE l # "op" /\ m # "op"
  <2>1. Attr(held[p][l]).use = TypeOf(l) /\ Attr(held[p][m]).use = TypeOf(m)
    BY <1>2 DEF Has, UseOf
  <2>2. TypeOf("key") = "pair" /\ TypeOf("pub") = "public" /\ TypeOf("sv") = "secret"
    BY DEF TypeOf
  <2>3. TypeOf(l) # TypeOf(m)
    BY <1>2, <2>2 DEF Names
  <2>4. QED
    BY <2>1, <2>3
<1>3. QED
  BY <1>1, <1>2

LEMMA CarrySits ==
  ASSUME NEW p \in Procs, NEW t \in TAs, NEW n \in Nat, Standing(p, t, n), NEW name,
         Carries(t, n, name), UNCHANGED inst, SlotsLocal(<<p, Cur(t, n)>>)
  PROVE  Sits(p, t, n + 1)'
<1> DEFINE c == Cur(t, n)
<1>1. Sits(p, t, n) /\ c \in 1..4
  BY CurIn DEF Standing, Runs
<1>2. Opened(t, n) = c /\ Opened(t, n + 1) = c /\ Cur(t, n + 1) = c
  BY DEF Opened, Carries
<1>3. t = "curve" => n \notin {2, 5}
  BY DEF Carries
<1>4. \A i \in 1..4 : i # c => Owned(<<p, i>>)' = Owned(<<p, i>>)
  BY <1>1, Sits4 DEF SlotsLocal, Owned
<1> HIDE DEF c
<1>5. QED
  BY <1>1, <1>2, <1>3, <1>4 DEF Sits

LEMMA CarryLeft ==
  ASSUME NEW p \in Procs, NEW t \in TAs, NEW n \in Nat, Standing(p, t, n), NEW name,
         Carries(t, n, name), UNCHANGED inst, SlotsLocal(<<p, Cur(t, n)>>),
         Only(p, t, n + 1)'
  PROVE  Left(p, t, n + 1)'
<1> DEFINE c == Cur(t, n)
<1>1. Left(p, t, n) /\ c \in 1..4
  BY CurIn DEF Standing, Runs
<1>2. \A i \in 1..4 : i # c => Owned(<<p, i>>)' = Owned(<<p, i>>)
  BY <1>1, Sits4 DEF SlotsLocal, Owned
<1>3. CASE t = "ecdsa"
  <2>1. n + 1 >= 5 => n >= 5 /\ c = 2
    BY <1>3 DEF Carries, Opens, Cur
  <2> HIDE DEF c
  <2>2. (n + 1 >= 5) => AtMostOne(Owned(<<p, 1>>))'
    BY <1>1, <1>2, <1>3, <2>1 DEF Left, LeftEcdsa, AtMostOne
  <2>3. QED
    BY <1>3, <2>2 DEF Left, LeftEcdsa
<1>4. CASE t = "curve"
  <2>1. n >= 7 /\ c \in {3, 4} /\ (n + 1 >= 18 => n >= 18 /\ c = 4)
    BY <1>4 DEF Carries, Opens, Cur
  <2> HIDE DEF c
  <2>2. \A i \in {1, 2} : n + 1 # 3 * i /\ n + 1 # 3 * i - 1
    BY <2>1
  <2>3. LeftCurve(p, n)
    BY <1>1, <1>4 DEF Left
  <2>4. LeftCurve(p, n + 1)'
    BY <1>2, <2>1, <2>2, <2>3 DEF LeftCurve
  <2>5. QED
    BY <1>4, <2>4 DEF Left
<1>5. CASE t = "ecdh"
  BY <1>5 DEF Left
<1>6. QED
  BY <1>3, <1>4, <1>5 DEF TAs

(* The client gets to know something at four calls only.                   *)
Learns(t, n) ==
  \/ At(t, n, {4, 15}, {9})
  \/ t = "curve" /\ n \in {3, 6}

LEMMA CarryKnows ==
  ASSUME NEW p \in Procs, NEW t \in TAs, NEW n \in Nat, Standing(p, t, n),
         UNCHANGED got, ~Learns(t, n)
  PROVE  Knows(p, t, n + 1)'
<1>1. Knows(p, t, n)
  BY DEF Standing, Runs
<1>2. CASE t = "ecdsa"
  <2>1. n # 4 /\ n # 15
    BY <1>2 DEF Learns, At
  <2>2. QED
    BY <1>1, <1>2, <2>1 DEF Knows
<1>3. CASE t = "ecdh"
  <2>1. n # 9
    BY <1>3 DEF Learns, At, Step
  <2>2. QED
    BY <1>1, <1>3, <2>1 DEF Knows
<1>4. CASE t = "curve"
  <2>1. n # 3 /\ n # 6 /\ n # 15 /\ n # 26
    BY <1>4 DEF Learns, At, Step
  <2>2. QED
    BY <1>1, <1>4, <2>1 DEF Knows
<1>5. QED
  BY <1>2, <1>3, <1>4 DEF TAs

LEMMA KeysCarry ==
  ASSUME NEW p \in Procs, NEW t \in TAs, NEW n \in Nat, NEW name, Carries(t, n, name),
         t = "ecdsa" => got'[<<p, 1>>] = got[<<p, 1>>],
         NEW m \in Names, m # name, Alive(t, n, m)
  PROVE  KeysOf(p, t, n + 1, m)' = KeysOf(p, t, n, m)
<1>1. Filled(t, n + 1, m) <=> Filled(t, n, m)
  BY DEF Carries
<1>2. CASE t = "ecdsa"
  <2>1. n + 1 <= 4 <=> n <= 4
    BY <1>2 DEF Carries, Opens
  <2>2. m = "op" => (n + 1 >= 17 <=> n >= 17)
    BY <1>2 DEF Alive, Carries
  <2>3. QED
    BY <1>1, <1>2, <2>1, <2>2 DEF KeysOf
<1>3. CASE t # "ecdsa"
  <2>1. t = "ecdh" \/ (t = "curve" /\ (n + 1 <= 17 <=> n <= 17))
    BY <1>3 DEF Carries, Opens, TAs
  <2>2. Start(p, t, n + 1) = Start(p, t, n)
    BY <1>3, <2>1 DEF Start
  <2>3. QED
    BY <1>1, <1>3, <2>2 DEF KeysOf
<1>4. QED
  BY <1>2, <1>3

LEMMA CarryItems ==
  ASSUME NEW p \in Procs, NEW t \in TAs, NEW n \in Nat, Standing(p, t, n), NEW name,
         Carries(t, n, name),
         t = "ecdsa" => got'[<<p, 1>>] = got[<<p, 1>>],
         NEW m \in Names, m # name, Alive(t, n + 1, m),
         held'[p][m] = held[p][m],
         slots'[held[p][m]] = slots[held[p][m]]
  PROVE  Has(p, t, n + 1, m)'
<1>1. Alive(t, n, m) /\ UseOf(t, n + 1, m) = UseOf(t, n, m) /\ Cur(t, n + 1) = Cur(t, n)
  BY DEF Carries
<1>2. Has(p, t, n, m)
  BY <1>1 DEF Standing, Runs, Items
<1>3. KeysOf(p, t, n + 1, m)' = KeysOf(p, t, n, m)
  BY <1>1, KeysCarry
<1>4. QED
  BY <1>1, <1>2, <1>3 DEF Has, Owns, Attr

(* Where all that changes is what the client knows.                        *)
LEMMA Kept ==
  ASSUME NEW p \in Procs, NEW t \in TAs, NEW n \in Nat, Standing(p, t, n),
         Carries(t, n, "none"), UNCHANGED <<inst, slots, held>>,
         t = "ecdsa" => got'[<<p, 1>>] = got[<<p, 1>>],
         Knows(p, t, n + 1)'
  PROVE  Runs(p, t, n + 1)'
<1>1. SlotsLocal(<<p, Cur(t, n)>>)
  BY SlotsSame DEF Standing
<1>2. Sits(p, t, n + 1)'
  BY <1>1, CarrySits
<1>3. Items(p, t, n + 1)'
  <2>1. ASSUME NEW m \in Names, Alive(t, n + 1, m)
        PROVE  Has(p, t, n + 1, m)'
    <3>1. m # "none"
      BY DEF Names
    <3>2. QED
      BY <2>1, <3>1, CarryItems
  <2>2. QED
    BY <2>1 DEF Items
<1>4. Only(p, t, n + 1)'
  <2>1. Only(p, t, n)
    BY DEF Standing, Runs, Left, Carries
  <2>2. \A m \in Names : Alive(t, n, m) => Alive(t, n + 1, m)
    BY DEF Carries, Names
  <2>3. Cur(t, n + 1) = Cur(t, n)
    BY DEF Carries
  <2>4. QED
    BY <2>1, <2>2, <2>3 DEF Only, Owned
<1>5. QED
  BY <1>1, <1>2, <1>3, <1>4, CarryLeft DEF Runs

(* A new handle in a variable.                                             *)
LEMMA Installed ==
  ASSUME NEW p \in Procs, NEW t \in TAs, NEW n \in Nat, Standing(p, t, n),
         NEW name \in Names, Carries(t, n, name), NEW h \in Handles,
         Alive(t, n + 1, name), ~Filled(t, n + 1, name), ~Alive(t, n, name),
         slots[h] = Free, SlotsLocal(<<p, Cur(t, n)>>),
         Becomes(h, Slot(KindOf(name), <<p, Cur(t, n)>>, UseOf(t, n + 1, name), NoKey)),
         UNCHANGED <<inst, got>>, held' = [held EXCEPT ![p][name] = h],
         ~Learns(t, n)
  PROVE  Runs(p, t, n + 1)'
<1> DEFINE s == <<p, Cur(t, n)>>
<1>1. Cur(t, n + 1) = Cur(t, n)
  BY DEF Carries
<1>2. held'[p][name] = h /\ \A m \in Names : m # name => held'[p][m] = held[p][m]
  BY DEF Standing
<1>3. s \in Sessions /\ s # Null
  BY CurIn, Sits4, TeeCoreAssumption
<1>4. Sits(p, t, n + 1)'
  BY CarrySits
<1>5. Knows(p, t, n + 1)'
  BY CarryKnows
<1>6. /\ slots'[h].kind = KindOf(name) /\ slots'[h].owner = s
      /\ slots'[h].attr.use = UseOf(t, n + 1, name) /\ slots'[h].attr.key = NoKey
  BY DEF Becomes, Slot
<1>7. Items(p, t, n + 1)'
  <2>1. Has(p, t, n + 1, name)'
    BY <1>1, <1>2, <1>6 DEF Has, Owns, Attr, KeysOf
  <2>2. ASSUME NEW m \in Names, m # name, Alive(t, n + 1, m)
        PROVE  Has(p, t, n + 1, m)'
    <3>1. Has(p, t, n, m)
      <4>1. Alive(t, n, m)
        BY <2>2, SMTT(30) DEF Carries
      <4>2. QED
        BY <4>1 DEF Standing, Runs, Items
    <3>2. held[p][m] # h /\ held[p][m] \in Handles
      BY <1>3, <3>1 DEF Has, Owns, Free
    <3>3. slots'[held[p][m]] = slots[held[p][m]]
      BY <3>2 DEF Becomes
    <3>4. QED
      BY <1>2, <2>2, <3>3, CarryItems
  <2>3. QED
    BY <2>1, <2>2 DEF Items
<1>8. Only(p, t, n + 1)'
  <2>1. Only(p, t, n)
    BY DEF Standing, Runs, Left, Carries
  <2>2. \A m \in Names : Alive(t, n, m) => Alive(t, n + 1, m) /\ m # name
    BY DEF Carries
  <2>3. ASSUME NEW g \in Handles, slots'[g].owner = s
        PROVE  \E m \in Names : Alive(t, n + 1, m) /\ g = held'[p][m]
    <3>1. CASE g = h
      BY <1>2, <3>1
    <3>2. CASE g # h
      <4>1. g \in Owned(s)
        BY <2>3, <3>2 DEF Becomes, Owned
      <4>2. PICK m \in Names : Alive(t, n, m) /\ g = held[p][m]
        BY <2>1, <4>1 DEF Only
      <4>3. QED
        BY <1>2, <2>2, <4>2
    <3>3. QED
      BY <3>1, <3>2
  <2>4. QED
    BY <1>1, <2>3 DEF Only, Owned
<1>9. QED
  BY <1>4, <1>5, <1>7, <1>8, CarryLeft DEF Runs

(* The key of what a variable holds.                                       *)
LEMMA FilledIn ==
  ASSUME NEW p \in Procs, NEW t \in TAs, NEW n \in Nat, Standing(p, t, n),
         NEW name \in Names, Carries(t, n, name),
         Alive(t, n, name), Alive(t, n + 1, name),
         UseOf(t, n + 1, name) = UseOf(t, n, name),
         SlotsLocal(<<p, Cur(t, n)>>), NEW k,
         Becomes(held[p][name],
                 Slot(slots[held[p][name]].kind, <<p, Cur(t, n)>>,
                      slots[held[p][name]].attr.use, k)),
         UNCHANGED <<inst, got, held>>, k \in KeysOf(p, t, n + 1, name)',
         ~Learns(t, n)
  PROVE  Runs(p, t, n + 1)'
<1> DEFINE s == <<p, Cur(t, n)>>
           h == held[p][name]
<1>1. Cur(t, n + 1) = Cur(t, n)
  BY DEF Carries
<1>2. Has(p, t, n, name)
  BY DEF Standing, Runs, Items
<1>3. /\ slots'[h].kind = slots[h].kind /\ slots'[h].owner = s
      /\ slots'[h].attr.use = slots[h].attr.use /\ slots'[h].attr.key = k
  BY DEF Becomes, Slot
<1>4. Sits(p, t, n + 1)'
  BY CarrySits
<1>5. Knows(p, t, n + 1)'
  BY CarryKnows
<1>6. Items(p, t, n + 1)'
  <2>1. Has(p, t, n + 1, name)'
    BY <1>1, <1>2, <1>3 DEF Has, Owns, Attr
  <2>2. ASSUME NEW m \in Names, m # name, Alive(t, n + 1, m)
        PROVE  Has(p, t, n + 1, m)'
    <3>1. Has(p, t, n, m)
      <4>1. Alive(t, n, m)
        BY <2>2, SMTT(30) DEF Carries
      <4>2. QED
        BY <4>1 DEF Standing, Runs, Items
    <3>2. held[p][m] # h /\ held[p][m] \in Handles
      BY <1>2, <2>2, <3>1, Distinct DEF Has, Owns
    <3>3. slots'[held[p][m]] = slots[held[p][m]]
      BY <3>2 DEF Becomes
    <3>4. QED
      BY <2>2, <3>3, CarryItems
  <2>3. QED
    BY <2>1, <2>2 DEF Items
<1>7. Only(p, t, n + 1)'
  <2>1. Only(p, t, n)
    BY DEF Standing, Runs, Left, Carries
  <2>2. ASSUME NEW m \in Names PROVE Alive(t, n, m) => Alive(t, n + 1, m)
    <3>1. CASE m = name
      BY <3>1
    <3>2. CASE m # name
      BY <3>2 DEF Carries
    <3>3. QED
      BY <3>1, <3>2
  <2>3. Owned(s)' = Owned(s)
    <3>1. slots[h].owner = s
      BY <1>2 DEF Has, Owns
    <3>2. \A g \in Handles : g # h => slots'[g] = slots[g]
      BY DEF Becomes
    <3> HIDE DEF h, s
    <3>3. \A g \in Handles : slots'[g].owner = s <=> slots[g].owner = s
      BY <1>3, <3>1, <3>2
    <3>4. QED
      BY <3>3 DEF Owned
  <2>4. QED
    BY <1>1, <2>1, <2>2, <2>3 DEF Only
<1>8. QED
  BY <1>4, <1>5, <1>6, <1>7, CarryLeft DEF Runs

(* The handle in a variable, freed.                                        *)
LEMMA Released ==
  ASSUME NEW p \in Procs, NEW t \in TAs, NEW n \in Nat, Standing(p, t, n),
         NEW name \in Names, Carries(t, n, name), Alive(t, n, name),
         ~Alive(t, n + 1, name), SlotsLocal(<<p, Cur(t, n)>>),
         slots'[held[p][name]] = Free,
         \A g \in Handles : g # held[p][name] => slots'[g] = slots[g],
         UNCHANGED <<inst, got, held>>, ~Learns(t, n)
  PROVE  Runs(p, t, n + 1)'
<1> DEFINE s == <<p, Cur(t, n)>>
           h == held[p][name]
<1>1. Cur(t, n + 1) = Cur(t, n)
  BY DEF Carries
<1>2. Has(p, t, n, name)
  BY DEF Standing, Runs, Items
<1>3. Sits(p, t, n + 1)'
  BY CarrySits
<1>4. Knows(p, t, n + 1)'
  BY CarryKnows
<1>5. Items(p, t, n + 1)'
  <2>1. ASSUME NEW m \in Names, Alive(t, n + 1, m)
        PROVE  Has(p, t, n + 1, m)'
    <3>1. m # name
      BY <2>1
    <3>2. Has(p, t, n, m)
      <4>1. Alive(t, n, m)
        BY <2>1, <3>1, SMTT(30) DEF Carries
      <4>2. QED
        BY <4>1 DEF Standing, Runs, Items
    <3>3. held[p][m] # h /\ held[p][m] \in Handles
      BY <1>2, <3>1, <3>2, Distinct DEF Has, Owns
    <3>4. slots'[held[p][m]] = slots[held[p][m]]
      BY <3>3
    <3>5. QED
      BY <2>1, <3>1, <3>4, CarryItems
  <2>2. QED
    BY <2>1 DEF Items
<1>6. Only(p, t, n + 1)'
  <2>1. Only(p, t, n)
    BY DEF Standing, Runs, Left, Carries
  <2>2. s # Null
    BY CurIn, Sits4, TeeCoreAssumption
  <2>3. ASSUME NEW g \in Handles, slots'[g].owner = s
        PROVE  \E m \in Names : Alive(t, n + 1, m) /\ g = held[p][m]
    <3>1. g # h
      BY <2>2, <2>3 DEF Free
    <3>2. g \in Owned(s)
      BY <2>3, <3>1 DEF Owned
    <3>3. PICK m \in Names : Alive(t, n, m) /\ g = held[p][m]
      BY <2>1, <3>2 DEF Only
    <3>4. QED
      BY <3>1, <3>3 DEF Carries
  <2>4. QED
    BY <1>1, <2>3 DEF Only, Owned
<1>7. QED
  BY <1>3, <1>4, <1>5, <1>6, CarryLeft DEF Runs

(* Where the next call opens a session, none of its slots is there.        *)
LEMMA Enters ==
  ASSUME NEW p \in Procs, NEW t \in TAs, NEW n \in Nat, Standing(p, t, n),
         n + 1 \in 1..Length(t), Opens(t, n + 1), ~Opens(t, n), UNCHANGED inst,
         SlotsLocal(<<p, Cur(t, n)>>)
  PROVE  Sits(p, t, n + 1)' /\ Items(p, t, n + 1)' /\ Only(p, t, n + 1)'
<1> DEFINE c == Cur(t, n)
<1>1. /\ Sits(p, t, n) /\ c \in 1..3
      /\ n \in 1..Length(t)
  BY DEF Standing, Runs, Opens, Cur, Length
<1>2. Opened(t, n) = c /\ Opened(t, n + 1) = c /\ Cur(t, n + 1) = c + 1
  BY <1>1 DEF Opened, Opens, Cur
<1>3. t = "curve" => n \notin {2, 5} /\ n + 1 \notin {2, 5}
  BY DEF Opens
<1>4. \A i \in 1..4 : i # c => Owned(<<p, i>>)' = Owned(<<p, i>>)
  BY <1>1, Sits4 DEF SlotsLocal, Owned
<1>5. \A m \in Names : ~Alive(t, n + 1, m)
  BY <1>1 DEF Alive, Opens, Step, Length
<1> HIDE DEF c
<1>6. Sits(p, t, n + 1)'
  BY <1>1, <1>2, <1>3, <1>4 DEF Sits
<1>7. Owned(<<p, c + 1>>)' = {}
  <2>1. c + 1 \in 1..4 /\ c + 1 # c /\ c + 1 > Opened(t, n)
    BY <1>1, <1>2
  <2>2. QED
    BY <1>1, <1>4, <2>1 DEF Sits
<1>8. QED
  BY <1>2, <1>5, <1>6, <1>7 DEF Items, Only
-----------------------------------------------------------------------------
(* The calls of a main, one by one.                                        *)

LEMMA Here ==
  ASSUME NEW p \in Procs, NEW t \in TAs, NEW n \in Nat, Standing(p, t, n)
  PROVE  /\ In(p) = <<p, Cur(t, n)>> /\ Cur(t, n) \in 1..4
         /\ In(p) \in Sessions /\ ta[In(p)] = t
BY CurIn, Sits4 DEF Standing, Asked, In

LEMMA OwnIsKey == Own # Null
BY DemoAssumption, HandleAssumption

(* No key is taken for the lack of one.                                    *)
LEMMA KeysAreKeys ==
  ASSUME NEW p \in Procs, NEW t \in TAs, NEW n \in Nat, NEW name \in Names,
         Filled(t, n, name), Knows(p, t, n), NEW k \in KeysOf(p, t, n, name)
  PROVE  k # NoKey
<1>1. \A i \in 1..4 : <<p, i>> # Null
  BY Sits4, TeeCoreAssumption
<1>2. <<p, 1>> # Null /\ <<p, 2>> # Null
  BY <1>1
<1>3. \A x \in Generated(p) : x.pub = <<p, 1>>
  BY DEF Generated
<1>4. NoKey.pub = Null /\ NoKey.priv = Null
  BY DEF NoKey
<1>5. CASE t = "ecdsa"
  <2>1. k.pub = <<p, 1>>
    <3>1. CASE n <= 4
      BY <1>3, <1>5, <3>1 DEF KeysOf
    <3>2. CASE n > 4
      <4>1. PICK b \in BOOLEAN :
              got[<<p, 1>>] = [pub |-> <<p, 1>>, priv |-> <<p, 1>>, short |-> b]
        BY <1>5, <3>2 DEF Knows, Generated
      <4>2. got[<<p, 1>>].pub = <<p, 1>> /\ PublicHalf(got[<<p, 1>>]).pub = <<p, 1>>
        BY <4>1 DEF PublicHalf
      <4>3. k = PublicHalf(got[<<p, 1>>]) \/ k = got[<<p, 1>>]
        BY <1>5, <3>2 DEF KeysOf
      <4>4. QED
        BY <4>2, <4>3
    <3>3. QED
      BY <3>1, <3>2
  <2>2. QED
    BY <1>2, <1>4, <2>1
<1>6. CASE t # "ecdsa" /\ name # "sv"
  <2>1. k = Start(p, t, n)
    BY <1>6 DEF KeysOf
  <2>2. k.pub = <<p, 1>> \/ k.pub = <<p, 2>> \/ k.priv = Own
    BY <2>1 DEF Start, Material
  <2>3. QED
    BY <1>2, <1>4, <2>2, OwnIsKey
<1>7. CASE t # "ecdsa" /\ name = "sv"
  <2>1. k = Agreed(p, t)
    BY <1>7 DEF KeysOf
  <2>2. PICK a, b : k = [secret |-> {a, b}]
    BY <2>1 DEF Agreed, Secret
  <2>3. DOMAIN k = {"secret"} /\ "pub" \in DOMAIN NoKey
    BY <2>2 DEF NoKey
  <2>4. QED
    BY <2>3
<1>8. QED
  BY <1>5, <1>6, <1>7

(* What a variable holds, as the TA looks at it.                           *)
LEMMA Looks ==
  ASSUME NEW p \in Procs, NEW t \in TAs, NEW n \in Nat, Standing(p, t, n),
         NEW name \in Names, Alive(t, n, name)
  PROVE  /\ held[p][name] \in Handles
         /\ Owns(slots, In(p), KindOf(name), held[p][name])
         /\ Attr(held[p][name]).use = UseOf(t, n, name)
         /\ ~Filled(t, n, name) => Attr(held[p][name]).key = NoKey
         /\ Filled(t, n, name) =>
              /\ Attr(held[p][name]).key # NoKey
              /\ Attr(held[p][name]).key \in KeysOf(p, t, n, name)
<1>1. Has(p, t, n, name) /\ Knows(p, t, n)
  BY DEF Standing, Runs, Items
<1>2. In(p) = <<p, Cur(t, n)>>
  BY Here
<1>3. ~Filled(t, n, name) => Attr(held[p][name]).key = NoKey
  BY <1>1 DEF Has, KeysOf
<1>4. Filled(t, n, name) =>
        /\ Attr(held[p][name]).key # NoKey
        /\ Attr(held[p][name]).key \in KeysOf(p, t, n, name)
  BY <1>1, KeysAreKeys DEF Has
<1>5. QED
  BY <1>1, <1>2, <1>3, <1>4 DEF Has, Owns

LEMMA AllocateGoes ==
  ASSUME NEW p \in Procs, NEW t \in TAs, NEW n \in Nat, Standing(p, t, n),
         NEW name \in Names, Carries(t, n, name), ~Alive(t, n, name),
         Alive(t, n + 1, name), ~Filled(t, n + 1, name), ~Learns(t, n),
         Allocate(In(p), KindOf(name), UseOf(t, n + 1, name)),
         Returns(p), KeepsHandle(p, name)
  PROVE  Goes(p, t)
<1> DEFINE use == UseOf(t, n + 1, name)
           kind == KindOf(name)
<1>1. In(p) = <<p, Cur(t, n)>> /\ In(p) \in Sessions /\ kind \in {"op", "obj"}
  BY Here DEF KindOf
<1>2. CASE Answer(In(p), "FAIL", Null) /\ UNCHANGED slots
  BY <1>2, GivesUp DEF Answer
<1>3. ASSUME NEW h \in Spare(slots), Answer(In(p), "OK", h),
             slots' = Install(slots, h, kind, In(p), [use |-> use, key |-> NoKey])
      PROVE  Goes(p, t)
  <2>1. PoolTyped
    BY DEF Standing
  <2> HIDE DEF use, kind
  <2>2. /\ h \in Handles /\ slots[h] = Free
        /\ SlotsLocal(In(p)) /\ Becomes(h, Slot(kind, In(p), use, NoKey))
    BY <1>1, <1>3, <2>1, InstallLocal
  <2>3. reply'.res = "OK" /\ reply'.data = h
    BY <1>3 DEF Answer
  <2>4. held' = [held EXCEPT ![p][name] = h] /\ UNCHANGED <<inst, got>>
    BY <2>3 DEF KeepsHandle, Allocate
  <2>5. Runs(p, t, n + 1)'
    BY <1>1, <2>2, <2>4, Installed DEF use, kind
  <2>6. n + 1 \in 1..Length(t)
    BY DEF Carries
  <2>7. QED
    BY <2>3, <2>5, <2>6, Advances
<1>4. QED
  BY <1>2, <1>3 DEF Allocate

LEMMA FillGoes ==
  ASSUME NEW p \in Procs, NEW t \in TAs, NEW n \in Nat, Standing(p, t, n),
         NEW name \in Names, Carries(t, n, name), Alive(t, n, name),
         Alive(t, n + 1, name), UseOf(t, n + 1, name) = UseOf(t, n, name),
         ~Learns(t, n), NEW k, k \in KeysOf(p, t, n + 1, name)',
         Fill(In(p), held[p][name], k), Returns(p), KeepsNothing
  PROVE  Goes(p, t)
<1> DEFINE h == held[p][name]
<1>1. /\ In(p) = <<p, Cur(t, n)>> /\ In(p) \in Sessions /\ PoolTyped
  BY Here DEF Standing
<1>2. h \in Handles /\ slots[h].owner = In(p)
  BY Looks DEF Owns
<1> HIDE DEF h
<1>3. SlotsLocal(In(p)) /\ Becomes(h, Slot(slots[h].kind, In(p), slots[h].attr.use, k))
  BY <1>1, <1>2, FillLocal DEF h
<1>4. reply'.res = "OK" /\ UNCHANGED <<inst, got, held>>
  BY DEF Fill, Answer, KeepsNothing
<1>5. Runs(p, t, n + 1)'
  BY <1>1, <1>3, <1>4, FilledIn DEF h
<1>6. n + 1 \in 1..Length(t)
  BY DEF Carries
<1>7. QED
  BY <1>4, <1>5, <1>6, Advances

(* Freeing what a variable holds does just that.                           *)
LEMMA FreeFrees ==
  ASSUME NEW p \in Procs, NEW t \in TAs, NEW n \in Nat, Standing(p, t, n),
         NEW name \in Names, Alive(t, n, name),
         FreeHandle(In(p), KindOf(name), held[p][name])
  PROVE  /\ SlotsLocal(<<p, Cur(t, n)>>)
         /\ slots'[held[p][name]] = Free
         /\ \A g \in Handles : g # held[p][name] => slots'[g] = slots[g]
         /\ reply'.res = "OK" /\ UNCHANGED inst
<1> DEFINE h == held[p][name]
<1>1. /\ In(p) = <<p, Cur(t, n)>> /\ In(p) \in Sessions /\ PoolTyped
  BY Here DEF Standing
<1>2. /\ h \in Handles /\ slots[h].owner = In(p)
      /\ Owns(slots, In(p), KindOf(name), h)
  BY Looks DEF Owns
<1> HIDE DEF h
<1>3. /\ slots' = Release(slots, {h}) /\ Answer(In(p), "OK", Null)
      /\ UNCHANGED inst
  BY <1>2 DEF FreeHandle, h
<1>4. /\ SlotsLocal(In(p)) /\ slots'[h] = Free
      /\ \A g \in Handles : g # h => slots'[g] = slots[g]
  BY <1>1, <1>2, <1>3, ReleaseLocal
<1>5. QED
  BY <1>1, <1>3, <1>4 DEF Answer, h

LEMMA FreeGoes ==
  ASSUME NEW p \in Procs, NEW t \in TAs, NEW n \in Nat, Standing(p, t, n),
         NEW name \in Names, Carries(t, n, name), Alive(t, n, name),
         ~Alive(t, n + 1, name), ~Learns(t, n),
         FreeHandle(In(p), KindOf(name), held[p][name]), Returns(p), KeepsNothing
  PROVE  Goes(p, t)
<1>1. /\ SlotsLocal(<<p, Cur(t, n)>>)
      /\ slots'[held[p][name]] = Free
      /\ \A g \in Handles : g # held[p][name] => slots'[g] = slots[g]
      /\ reply'.res = "OK" /\ UNCHANGED <<inst, got, held>>
  BY FreeFrees DEF KeepsNothing
<1>2. Runs(p, t, n + 1)'
  BY <1>1, Released
<1>3. n + 1 \in 1..Length(t)
  BY DEF Carries
<1>4. QED
  BY <1>1, <1>2, <1>3, Advances
-----------------------------------------------------------------------------
(* What a call does to the variable it is about.                           *)
Acquires(t, n, name) ==
  /\ Carries(t, n, name) /\ ~Learns(t, n)
  /\ ~Alive(t, n, name)
  /\ Alive(t, n + 1, name) /\ ~Filled(t, n + 1, name)
Keys(t, n, name) ==
  /\ Carries(t, n, name) /\ ~Learns(t, n)
  /\ Alive(t, n, name) /\ ~Filled(t, n, name)
  /\ Alive(t, n + 1, name) /\ Filled(t, n + 1, name)
  /\ UseOf(t, n + 1, name) = UseOf(t, n, name)
Drops(t, n, name) ==
  /\ Carries(t, n, name) /\ ~Learns(t, n)
  /\ Alive(t, n, name) /\ ~Alive(t, n + 1, name)

LEMMA CarriesAt ==
  ASSUME NEW t \in TAs, NEW n \in 1..Length(t), NEW name,
         \/ name = "op" /\ At(t, n, {12, 13, 16, 17, 18}, {2, 5, 10})
         \/ name = "key" /\ At(t, n, {2, 3, 9, 10, 14}, {3, 4, 6})
         \/ name = "pub" /\ At(t, n, {6, 7, 19}, {})
         \/ name = "sv" /\ At(t, n, {}, {7, 8})
         \/ name = "none" /\ At(t, n, {8, 11, 15}, {9})
  PROVE  Carries(t, n, name)
<1>1. CASE t = "ecdsa"
  <2>1. n \in 1..19 /\ n \notin {1, 4, 5} /\ name = EcdsaVar(n)
    BY <1>1 DEF At, EcdsaVar, Length
  <2>2. QED
    BY <1>1, <2>1, EcdsaCarries
<1>2. CASE t # "ecdsa"
  <2> DEFINE d == Step(t, n)
  <2>1. t \in {"ecdh", "curve"} /\ d \in Int
    BY <1>2 DEF TAs, Step, Length
  <2>2. /\ d \in 2..10
        /\ name = CASE d \in {2, 5, 10} -> "op"
                    [] d \in {3, 4, 6} -> "key"
                    [] d \in {7, 8} -> "sv"
                    [] d = 9 -> "none"
    <3> HIDE DEF d
    <3>1. \/ name = "op" /\ d \in {2, 5, 10}
          \/ name = "key" /\ d \in {3, 4, 6}
          \/ name = "sv" /\ d \in {7, 8}
          \/ name = "none" /\ d = 9
      BY <1>2 DEF At, d
    <3>2. QED
      BY <2>1, <3>1
  <2>3. QED
    BY <2>1, <2>2, DerivationNext
<1>3. QED
  BY <1>1, <1>2

LEMMA StepsOn ==
  ASSUME NEW t \in TAs, t # "ecdsa", NEW n \in 1..Length(t), NEW D,
         D \subseteq 2..10, At(t, n, {}, D)
  PROVE  Step(t, n) \in D /\ Step(t, n) \in 2..10 /\ Step(t, n + 1) = Step(t, n) + 1
<1>1. t \in {"ecdh", "curve"} /\ Step(t, n) \in D
  BY DEF TAs, At
<1>2. QED
  BY <1>1, StepNext

LEMMA AcquiresAt ==
  ASSUME NEW t \in TAs, NEW n \in 1..Length(t), NEW name,
         \/ name = "op" /\ At(t, n, {12, 17}, {2})
         \/ name = "key" /\ At(t, n, {2, 9}, {3})
         \/ name = "pub" /\ At(t, n, {6}, {})
         \/ name = "sv" /\ At(t, n, {}, {7})
  PROVE  Acquires(t, n, name)
<1>1. Carries(t, n, name)
  BY CarriesAt DEF At
<1>2. CASE t = "ecdsa"
  BY <1>1, <1>2 DEF Acquires, Learns, At, Alive, Filled
<1>3. CASE t # "ecdsa"
  <2>1. /\ Step(t, n) \in {2, 3, 7} /\ Step(t, n + 1) = Step(t, n) + 1
    <3>1. At(t, n, {}, {2, 3, 7})
      BY <1>3 DEF At
    <3>2. QED
      BY <1>3, <3>1, StepsOn
  <2>2. \/ name = "op" /\ Step(t, n) = 2
        \/ name = "key" /\ Step(t, n) = 3
        \/ name = "sv" /\ Step(t, n) = 7
    BY <1>3 DEF At
  <2>3. ~Learns(t, n)
    BY <1>1, <1>3, <2>2 DEF Learns, At, Carries
  <2>4. QED
    BY <1>1, <1>3, <2>1, <2>2, <2>3 DEF Acquires, Alive, Filled
<1>4. QED
  BY <1>2, <1>3

LEMMA KeysAt ==
  ASSUME NEW t \in TAs, NEW n \in 1..Length(t), NEW name,
         \/ name = "op" /\ At(t, n, {13, 18}, {5})
         \/ name = "key" /\ At(t, n, {3, 10}, {4})
         \/ name = "pub" /\ At(t, n, {7}, {})
         \/ name = "sv" /\ At(t, n, {}, {8})
  PROVE  Keys(t, n, name)
<1>1. Carries(t, n, name)
  BY CarriesAt DEF At
<1>2. CASE t = "ecdsa"
  BY <1>1, <1>2 DEF Keys, Learns, At, Alive, Filled, UseOf
<1>3. CASE t # "ecdsa"
  <2>1. /\ Step(t, n) \in {4, 5, 8} /\ Step(t, n + 1) = Step(t, n) + 1
    <3>1. At(t, n, {}, {4, 5, 8})
      BY <1>3 DEF At
    <3>2. QED
      BY <1>3, <3>1, StepsOn
  <2>2. \/ name = "op" /\ Step(t, n) = 5
        \/ name = "key" /\ Step(t, n) = 4
        \/ name = "sv" /\ Step(t, n) = 8
    BY <1>3 DEF At
  <2>3. ~Learns(t, n)
    BY <1>1, <1>3, <2>2 DEF Learns, At, Carries
  <2>4. QED
    BY <1>1, <1>3, <2>1, <2>2, <2>3 DEF Keys, Alive, Filled, UseOf
<1>4. QED
  BY <1>2, <1>3

LEMMA DropsAt ==
  ASSUME NEW t \in TAs, NEW n \in 1..Length(t), NEW name,
         \/ name = "op" /\ At(t, n, {16}, {10})
         \/ name = "key" /\ At(t, n, {14}, {6})
         \/ name = "pub" /\ At(t, n, {19}, {})
  PROVE  Drops(t, n, name)
<1>1. Carries(t, n, name)
  BY CarriesAt DEF At
<1>2. CASE t = "ecdsa"
  BY <1>1, <1>2 DEF Drops, Learns, At, Alive
<1>3. CASE t # "ecdsa"
  <2>1. /\ Step(t, n) \in {6, 10} /\ Step(t, n + 1) = Step(t, n) + 1
    <3>1. At(t, n, {}, {6, 10})
      BY <1>3 DEF At
    <3>2. QED
      BY <1>3, <3>1, StepsOn
  <2>2. \/ name = "op" /\ Step(t, n) = 10
        \/ name = "key" /\ Step(t, n) = 6
    BY <1>3 DEF At
  <2>3. ~Learns(t, n)
    BY <1>1, <1>3, <2>2 DEF Learns, At, Carries
  <2>4. QED
    BY <1>1, <1>3, <2>1, <2>2, <2>3 DEF Drops, Alive
<1>4. QED
  BY <1>2, <1>3

LEMMA OperationGoes ==
  ASSUME NEW p \in Procs, NEW t \in TAs, NEW n \in Nat, Standing(p, t, n),
         ta_crypt_cmd_allocate_operation(p)
  PROVE  Goes(p, t)
<1>1. n \in 1..Length(t) /\ Now(p).cmd = "operation" /\ Asked(Now(p), t, n)
  BY DEF Standing, ta_crypt_cmd_allocate_operation
<1>2. Now(p).about = UseOf(t, n + 1, "op") /\ At(t, n, {12, 17}, {2})
  BY <1>1 DEF Asked
<1>3. Acquires(t, n, "op") /\ KindOf("op") = "op" /\ "op" \in Names
  BY <1>1, <1>2, AcquiresAt DEF KindOf, Names
<1>4. /\ Allocate(In(p), "op", UseOf(t, n + 1, "op"))
      /\ Returns(p) /\ KeepsHandle(p, "op")
  BY <1>2 DEF ta_crypt_cmd_allocate_operation, ta_entry_allocate_operation
<1>5. QED
  BY <1>3, <1>4, AllocateGoes DEF Acquires

LEMMA ObjectGoes ==
  ASSUME NEW p \in Procs, NEW t \in TAs, NEW n \in Nat, Standing(p, t, n),
         ta_crypt_cmd_allocate_transient_object(p)
  PROVE  Goes(p, t)
<1> DEFINE name == Now(p).about
<1>1. n \in 1..Length(t) /\ Now(p).cmd = "object" /\ Asked(Now(p), t, n)
  BY DEF Standing, ta_crypt_cmd_allocate_transient_object
<1>2. \/ name = "key" /\ At(t, n, {2, 9}, {3})
      \/ name = "pub" /\ At(t, n, {6}, {})
      \/ name = "sv" /\ At(t, n, {}, {7})
  BY <1>1 DEF Asked
<1>3. /\ Allocate(In(p), "obj", TypeOf(name))
      /\ Returns(p) /\ KeepsHandle(p, name)
  BY DEF ta_crypt_cmd_allocate_transient_object, ta_entry_allocate_transient_object
<1> HIDE DEF name
<1>4. Acquires(t, n, name) /\ name \in Names
  BY <1>1, <1>2, AcquiresAt DEF Names
<1>5. KindOf(name) = "obj" /\ UseOf(t, n + 1, name) = TypeOf(name)
  BY <1>2 DEF KindOf, UseOf
<1>6. QED
  BY <1>3, <1>4, <1>5, AllocateGoes DEF Acquires

(* The key a main brings is the one its variable is to have.               *)
LEMMA BringsRight ==
  ASSUME NEW p \in Procs, NEW t \in TAs, NEW n \in Nat, Standing(p, t, n),
         UNCHANGED got, NEW name, name = Now(p).about,
         \/ name = "key" /\ At(t, n, {10}, {4})
         \/ name = "pub" /\ At(t, n, {7}, {})
  PROVE  /\ Brings(p) \in KeysOf(p, t, n + 1, name)'
         /\ TypeOf(name) = IF Brings(p).priv = Null THEN "public" ELSE "pair"
<1> DEFINE k == Brings(p)
<1>1. /\ Knows(p, t, n) /\ n \in 1..Length(t) /\ ta[<<p, 1>>] = t
      /\ Now(p).i = Cur(t, n)
  BY DEF Standing, Runs, TaOf, Asked
<1>2. Filled(t, n + 1, name)
  BY <1>1, KeysAt DEF Keys, At
<1>3. TypeOf("key") = "pair" /\ TypeOf("pub") = "public"
  BY DEF TypeOf
<1>4. <<p, 1>> # Null /\ <<p, 2>> # Null
  <2>1. \A i \in 1..4 : <<p, i>> # Null
    BY Sits4, TeeCoreAssumption
  <2>2. QED
    BY <2>1
<1>5. got'[<<p, 1>>] = got[<<p, 1>>] /\ got'[<<p, 2>>] = got[<<p, 2>>]
  OBVIOUS
<1>6. CASE t = "ecdsa"
  <2>1. (name = "key" /\ n = 10) \/ (name = "pub" /\ n = 7)
    BY <1>6 DEF At
  <2>2. PICK b \in BOOLEAN :
          got[<<p, 1>>] = [pub |-> <<p, 1>>, priv |-> <<p, 1>>, short |-> b]
    BY <1>1, <1>6, <2>1 DEF Knows, Generated
  <2>3. k = IF name = "pub" THEN PublicHalf(got[<<p, 1>>]) ELSE got[<<p, 1>>]
    BY <1>1, <1>6 DEF Brings
  <2>4. k \in KeysOf(p, t, n + 1, name)'
    BY <1>2, <1>5, <1>6, <2>1, <2>3 DEF KeysOf
  <2>5. got[<<p, 1>>].priv # Null /\ PublicHalf(got[<<p, 1>>]).priv = Null
    BY <1>4, <2>2 DEF PublicHalf
  <2> HIDE DEF k
  <2>6. TypeOf(name) = IF k.priv = Null THEN "public" ELSE "pair"
    BY <1>3, <2>1, <2>3, <2>5
  <2>7. QED
    BY <2>4, <2>6 DEF k
<1>7. CASE t # "ecdsa"
  <2>1. name = "key" /\ Step(t, n) = 4
    BY <1>7 DEF At
  <2>2. k = Start(p, t, n)
    <3>1. CASE t = "ecdh"
      BY <1>1, <3>1 DEF Brings, Start
    <3>2. CASE t = "curve"
      <4>1. (n = 10 /\ Cur(t, n) = 3) \/ (n = 21 /\ Cur(t, n) = 4)
        BY <1>1, <2>1, <3>2 DEF Step, Cur, Length
      <4>2. got[<<p, 1>>] = Pair(<<p, 1>>) /\ got[<<p, 2>>] = Pair(<<p, 2>>)
        BY <1>1, <3>2, <4>1 DEF Knows
      <4>3. /\ got[<<p, 1>>].pub = <<p, 1>> /\ got[<<p, 1>>].priv = <<p, 1>>
            /\ got[<<p, 2>>].pub = <<p, 2>> /\ got[<<p, 2>>].priv = <<p, 2>>
        BY <4>2 DEF Pair, Material
      <4>4. k = IF Now(p).i = 3
                THEN Material(got[<<p, 1>>].pub, got[<<p, 2>>].priv)
                ELSE Material(got[<<p, 2>>].pub, got[<<p, 1>>].priv)
        <5>1. 3 - 1 = 2 /\ 3 - 2 = 1
          OBVIOUS
        <5>2. QED
          BY <1>1, <3>2, <5>1 DEF Brings
      <4>5. QED
        BY <1>1, <3>2, <4>1, <4>3, <4>4 DEF Start
    <3>3. QED
      BY <1>7, <3>1, <3>2 DEF TAs
  <2>3. Start(p, t, n + 1) = Start(p, t, n)
    BY <1>1, <1>7, <2>1 DEF Start, Step, Length, TAs
  <2>4. KeysOf(p, t, n + 1, name)' = {Start(p, t, n + 1)}
    BY <1>2, <1>7, <2>1 DEF KeysOf
  <2>5. Start(p, t, n).priv # Null
    BY <1>4, OwnIsKey DEF Start, Material
  <2> HIDE DEF k
  <2>6. TypeOf(name) = IF k.priv = Null THEN "public" ELSE "pair"
    BY <1>3, <2>1, <2>2, <2>5
  <2>7. QED
    BY <2>2, <2>3, <2>4, <2>6 DEF k
<1>8. QED
  BY <1>6, <1>7

LEMMA PopulateGoes ==
  ASSUME NEW p \in Procs, NEW t \in TAs, NEW n \in Nat, Standing(p, t, n),
         ta_crypt_cmd_populate_transient_object(p)
  PROVE  Goes(p, t)
<1>0. PICK name, k : name = Now(p).about /\ k = Brings(p)
  OBVIOUS
<1> DEFINE h == held[p][name]
<1>1. n \in 1..Length(t) /\ Now(p).cmd = "populate" /\ Asked(Now(p), t, n)
  BY DEF Standing, ta_crypt_cmd_populate_transient_object
<1>2. \/ name = "key" /\ At(t, n, {10}, {4})
      \/ name = "pub" /\ At(t, n, {7}, {})
  BY <1>0, <1>1 DEF Asked
<1>3. /\ Returns(p) /\ KeepsNothing /\ UNCHANGED got
      /\ ta_entry_populate_transient_object(In(p), h, k)
  BY <1>0 DEF ta_crypt_cmd_populate_transient_object, KeepsNothing, Obj
<1>4. /\ k \in KeysOf(p, t, n + 1, name)'
      /\ TypeOf(name) = IF k.priv = Null THEN "public" ELSE "pair"
  BY <1>0, <1>2, <1>3, BringsRight
<1>5. Keys(t, n, name) /\ name \in Names /\ KindOf(name) = "obj"
  BY <1>1, <1>2, KeysAt DEF Names, KindOf, At
<1>6. Blank(In(p), h, TypeOf(name))
  <2>1. UseOf(t, n, name) = TypeOf(name)
    BY <1>2 DEF UseOf
  <2>2. QED
    BY <1>5, <2>1, Looks DEF Keys, Blank
<1>7. CASE \E call : Fails(In(p), call)
  BY <1>3, <1>7, GivesUp DEF Fails, Answer
<1>8. CASE Fill(In(p), h, k)
  BY <1>3, <1>4, <1>5, <1>8, FillGoes DEF Keys
<1>9. QED
  BY <1>3, <1>4, <1>6, <1>7, <1>8 DEF ta_entry_populate_transient_object

LEMMA GenerateGoes ==
  ASSUME NEW p \in Procs, NEW t \in TAs, NEW n \in Nat, Standing(p, t, n),
         ta_crypt_cmd_generate_key(p)
  PROVE  Goes(p, t)
<1> DEFINE h == held[p]["key"]
<1>1. n \in 1..Length(t) /\ Now(p).cmd = "generate" /\ Asked(Now(p), t, n)
  BY DEF Standing, ta_crypt_cmd_generate_key
<1>2. Now(p).about = "key" /\ At(t, n, {3}, {})
  BY <1>1 DEF Asked
<1>3. /\ Returns(p) /\ KeepsNothing
      /\ ta_entry_generate_key(In(p), h)
  BY <1>2 DEF ta_crypt_cmd_generate_key, Obj
<1>4. t = "ecdsa" /\ n = 3 /\ In(p) = <<p, 1>>
  BY <1>1, <1>2, Here DEF At, Cur
<1>5. Keys(t, n, "key") /\ "key" \in Names /\ KindOf("key") = "obj"
  BY <1>1, <1>2, KeysAt DEF Names, KindOf, At
<1>6. Blank(In(p), h, "pair")
  <2>1. UseOf(t, n, "key") = "pair"
    BY DEF UseOf, TypeOf
  <2>2. QED
    BY <1>5, <2>1, Looks DEF Keys, Blank
<1>7. CASE \E call : Fails(In(p), call)
  BY <1>3, <1>7, GivesUp DEF Fails, Answer
<1>8. ASSUME NEW short \in BOOLEAN,
             Fill(In(p), h, [Material(In(p), In(p)) EXCEPT !.short = short])
      PROVE  Goes(p, t)
  <2> DEFINE k == [Material(In(p), In(p)) EXCEPT !.short = short]
  <2>1. k = [pub |-> <<p, 1>>, priv |-> <<p, 1>>, short |-> short]
    BY <1>4 DEF Material
  <2> HIDE DEF k
  <2>2. k \in Generated(p)
    BY <2>1 DEF Generated
  <2>3. KeysOf(p, t, n + 1, "key")' = Generated(p)
    BY <1>4, <1>5 DEF KeysOf, Keys
  <2>4. Fill(In(p), h, k)
    BY <1>8 DEF k
  <2>5. QED
    BY <1>3, <1>5, <2>2, <2>3, <2>4, FillGoes DEF Keys
<1>9. QED
  BY <1>3, <1>6, <1>7, <1>8 DEF ta_entry_generate_key

(* An operation takes the key of the object it is given.                   *)
LEMMA TakesTheKey ==
  ASSUME NEW p \in Procs, NEW t \in TAs, NEW n \in Nat, Standing(p, t, n),
         UNCHANGED got, NEW name,
         \/ name = "key" /\ At(t, n, {13}, {5})
         \/ name = "pub" /\ At(t, n, {18}, {})
  PROVE  /\ Alive(t, n, name) /\ Filled(t, n, name)
         /\ name = "pub" => UseOf(t, n, "op") = "verify"
         /\ KeysOf(p, t, n, name) \subseteq KeysOf(p, t, n + 1, "op")'
<1>1. n \in 1..Length(t)
  BY DEF Standing
<1>2. Filled(t, n + 1, "op")
  BY <1>1, KeysAt DEF Keys, At
<1>3. got'[<<p, 1>>] = got[<<p, 1>>]
  OBVIOUS
<1>4. CASE t = "ecdsa"
  <2>1. (name = "key" /\ n = 13) \/ (name = "pub" /\ n = 18)
    BY <1>4 DEF At
  <2>2. Alive(t, n, name) /\ Filled(t, n, name)
    BY <1>4, <2>1 DEF Alive, Filled
  <2>3. QED
    BY <1>2, <1>3, <1>4, <2>1, <2>2 DEF KeysOf, UseOf
<1>5. CASE t # "ecdsa"
  <2>1. name = "key" /\ Step(t, n) = 5
    BY <1>5 DEF At
  <2>2. Alive(t, n, name) /\ Filled(t, n, name)
    BY <1>5, <2>1 DEF Alive, Filled
  <2>3. Start(p, t, n + 1) = Start(p, t, n)
    BY <1>1, <1>5, <2>1 DEF Start, Step, Length, TAs
  <2>4. QED
    BY <1>2, <1>5, <2>1, <2>2, <2>3 DEF KeysOf
<1>6. QED
  BY <1>4, <1>5

LEMMA SetKeyGoes ==
  ASSUME NEW p \in Procs, NEW t \in TAs, NEW n \in Nat, Standing(p, t, n),
         ta_crypt_cmd_set_operation_key(p)
  PROVE  Goes(p, t)
<1>0. PICK name, k : name = Now(p).about /\ k = Attr(held[p][name]).key
  OBVIOUS
<1> DEFINE h == held[p][name]
           op == held[p]["op"]
<1>1. n \in 1..Length(t) /\ Now(p).cmd = "set_key" /\ Asked(Now(p), t, n)
  BY DEF Standing, ta_crypt_cmd_set_operation_key
<1>2. \/ name = "key" /\ At(t, n, {13}, {5})
      \/ name = "pub" /\ At(t, n, {18}, {})
  BY <1>0, <1>1 DEF Asked
<1>3. /\ Returns(p) /\ KeepsNothing /\ UNCHANGED got
      /\ ta_entry_set_operation_key(In(p), op, h)
  BY <1>0 DEF ta_crypt_cmd_set_operation_key, KeepsNothing, Op, Obj
<1>4. /\ Keys(t, n, "op") /\ "op" \in Names /\ name \in Names
      /\ KindOf("op") = "op" /\ KindOf(name) = "obj"
  BY <1>1, <1>2, KeysAt DEF Names, KindOf, At
<1>5. /\ Alive(t, n, name) /\ Filled(t, n, name)
      /\ name = "pub" => UseOf(t, n, "op") = "verify"
      /\ KeysOf(p, t, n, name) \subseteq KeysOf(p, t, n + 1, "op")'
  BY <1>2, <1>3, TakesTheKey
<1>6. /\ Owns(slots, In(p), "obj", h) /\ Attr(h).use = UseOf(t, n, name)
      /\ k # NoKey /\ k \in KeysOf(p, t, n, name)
  BY <1>0, <1>4, <1>5, Looks
<1>7. Owns(slots, In(p), "op", op) /\ Attr(op).use = UseOf(t, n, "op")
  BY <1>4, Looks DEF Keys
<1>8. Suits(In(p), op, h)
  <2>1. UseOf(t, n, name) = IF name = "key" THEN "pair" ELSE "public"
    BY <1>2 DEF UseOf, TypeOf
  <2> HIDE DEF h, op
  <2>2. QED
    BY <1>0, <1>2, <1>5, <1>6, <1>7, <2>1 DEF Suits, Keyed, h
<1>9. CASE \E call : Fails(In(p), call)
  BY <1>3, <1>9, GivesUp DEF Fails, Answer
<1>10. CASE Fill(In(p), op, k)
  BY <1>3, <1>4, <1>5, <1>6, <1>10, FillGoes DEF Keys
<1>11. h # Null
  BY <1>6, TeeCoreAssumption DEF Owns
<1>12. QED
  BY <1>0, <1>3, <1>8, <1>9, <1>10, <1>11 DEF ta_entry_set_operation_key

(* Both sides of a key agreement put the same two halves together.         *)
LEMMA AgreesOn ==
  ASSUME NEW p \in Procs, NEW t \in TAs, NEW n \in Nat, Standing(p, t, n),
         At(t, n, {}, {8}), UNCHANGED got
  PROVE  /\ t # "ecdsa"
         /\ Alive(t, n, "op") /\ Filled(t, n, "op") /\ UseOf(t, n, "op") = "derive"
         /\ KeysOf(p, t, n, "op") = {Start(p, t, n)}
         /\ KeysOf(p, t, n + 1, "sv")' =
              {Secret(IF t = "ecdh" THEN Peer
                      ELSE got[<<p, IF Now(p).i = 3 THEN 1 ELSE 2>>].pub,
                      Start(p, t, n).priv)}
<1>1. /\ n \in 1..Length(t) /\ Knows(p, t, n) /\ Now(p).i = Cur(t, n)
  BY DEF Standing, Runs, Asked
<1>2. t # "ecdsa" /\ Step(t, n) = 8
  BY DEF At
<1>3. Filled(t, n + 1, "sv")
  BY <1>1, KeysAt DEF Keys
<1>4. KeysOf(p, t, n + 1, "sv")' = {Agreed(p, t)}
  BY <1>2, <1>3 DEF KeysOf
<1>5. Alive(t, n, "op") /\ Filled(t, n, "op") /\ UseOf(t, n, "op") = "derive"
  BY <1>2 DEF Alive, Filled, UseOf
<1>6. CASE t = "ecdh"
  BY <1>2, <1>4, <1>5, <1>6 DEF KeysOf, Agreed, Start, Material
<1>7. CASE t = "curve"
  <2>1. (n = 14 /\ Cur(t, n) = 3) \/ (n = 25 /\ Cur(t, n) = 4)
    BY <1>1, <1>2, <1>7 DEF Step, Cur, Length
  <2>2. got[<<p, 1>>].pub = <<p, 1>> /\ got[<<p, 2>>].pub = <<p, 2>>
    BY <1>1, <1>7, <2>1 DEF Knows, Pair, Material
  <2>3. Start(p, t, n).priv = IF n = 14 THEN <<p, 2>> ELSE <<p, 1>>
    BY <1>7, <2>1 DEF Start, Material
  <2>4. Secret(<<p, 1>>, <<p, 2>>) = Secret(<<p, 2>>, <<p, 1>>)
    BY DEF Secret
  <2>5. Agreed(p, t) = Secret(got[<<p, IF Now(p).i = 3 THEN 1 ELSE 2>>].pub,
                              Start(p, t, n).priv)
    <3>1. CASE n = 14
      BY <1>1, <1>7, <2>1, <2>2, <2>3, <3>1 DEF Agreed
    <3>2. CASE n = 25
      BY <1>1, <1>7, <2>1, <2>2, <2>3, <2>4, <3>2 DEF Agreed
    <3>3. QED
      BY <2>1, <3>1, <3>2
  <2>6. KeysOf(p, t, n, "op") = {Start(p, t, n)}
    BY <1>2, <1>5 DEF KeysOf
  <2>7. QED
    BY <1>2, <1>4, <1>5, <1>7, <2>5, <2>6
<1>8. QED
  BY <1>2, <1>6, <1>7 DEF TAs

LEMMA DeriveGoes ==
  ASSUME NEW p \in Procs, NEW t \in TAs, NEW n \in Nat, Standing(p, t, n),
         derive_key(p)
  PROVE  Goes(p, t)
<1>0. PICK peer, k :
        /\ peer = IF t = "ecdh" THEN Peer
                  ELSE got[<<p, IF Now(p).i = 3 THEN 1 ELSE 2>>].pub
        /\ k = Secret(peer, Start(p, t, n).priv)
  OBVIOUS
<1> DEFINE h == held[p]["sv"]
           op == held[p]["op"]
<1>1. n \in 1..Length(t) /\ Now(p).cmd = "derive" /\ Asked(Now(p), t, n)
  BY DEF Standing, derive_key
<1>2. Now(p).about = "sv" /\ At(t, n, {}, {8})
  BY <1>1 DEF Asked
<1>3. /\ Returns(p) /\ KeepsNothing /\ UNCHANGED got
      /\ test_derive_key(In(p), op, h, peer)
  BY <1>0, <1>2, Here DEF derive_key, KeepsNothing, Op, Obj
<1>4. /\ Keys(t, n, "sv") /\ "op" \in Names /\ "sv" \in Names
      /\ KindOf("op") = "op" /\ KindOf("sv") = "obj" /\ UseOf(t, n, "sv") = "secret"
  BY <1>1, <1>2, KeysAt DEF Names, KindOf, UseOf, TypeOf
<1>5. /\ Alive(t, n, "op") /\ Filled(t, n, "op") /\ UseOf(t, n, "op") = "derive"
      /\ KeysOf(p, t, n, "op") = {Start(p, t, n)}
      /\ KeysOf(p, t, n + 1, "sv")' = {k}
  BY <1>0, <1>2, <1>3, AgreesOn
<1>6. Ready(In(p), op, "derive") /\ Attr(op).key = Start(p, t, n)
  BY <1>4, <1>5, Looks DEF Ready
<1>7. Blank(In(p), h, "secret")
  BY <1>4, Looks DEF Keys, Blank
<1> HIDE DEF op
<1>8. CASE \E call : Fails(In(p), call)
  BY <1>3, <1>8, GivesUp DEF Fails, Answer
<1>9. CASE Fill(In(p), h, k)
  BY <1>3, <1>4, <1>5, <1>9, FillGoes DEF Keys
<1>10. QED
  BY <1>0, <1>3, <1>6, <1>7, <1>8, <1>9 DEF test_derive_key

LEMMA FreeOpGoes ==
  ASSUME NEW p \in Procs, NEW t \in TAs, NEW n \in Nat, Standing(p, t, n),
         ta_crypt_cmd_free_operation(p)
  PROVE  Goes(p, t)
<1>1. n \in 1..Length(t) /\ Now(p).cmd = "free_op" /\ Asked(Now(p), t, n)
  BY DEF Standing, ta_crypt_cmd_free_operation
<1>2. At(t, n, {16}, {10})
  BY <1>1 DEF Asked
<1>3. Drops(t, n, "op") /\ "op" \in Names /\ KindOf("op") = "op"
  BY <1>1, <1>2, DropsAt DEF Names, KindOf
<1>4. /\ Returns(p) /\ KeepsNothing
      /\ FreeHandle(In(p), "op", held[p]["op"])
  BY DEF ta_crypt_cmd_free_operation, ta_entry_free_operation, Op
<1>5. QED
  BY <1>3, <1>4, FreeGoes DEF Drops

(* The last call of a main.                                                *)
LEMMA Passes ==
  ASSUME NEW p \in Procs, NEW t \in TAs, Standing(p, t, Length(t)), Returns(p),
         reply'.res = "OK", Ends(p, t, Passing)'
  PROVE  Goes(p, t)
<1>1. Length(t) \in Nat
  BY DEF Length
<1>2. at'[p] = 50
  BY <1>1, Turns
<1>3. QED
  BY <1>2 DEF Goes, Progress, Passing

LEMMA FewIs ==
  ASSUME NEW p \in Procs, NEW a \in Handles \cup {Null}, NEW b \in Handles \cup {Null},
         SlotsOf(p)' \subseteq {a, b}
  PROVE  \A k \in {2, 4} : Few(SlotsOf(p), k)'
<1>1. SlotsOf(p)' \subseteq {a, b, a, b}
  OBVIOUS
<1>2. QED
  BY <1>1 DEF Few

(* The secret of a derivation is the last thing its session holds.         *)
LEMMA FreesLast ==
  ASSUME NEW p \in Procs, NEW t \in TAs, NEW n \in Nat, Standing(p, t, n),
         At(t, n, {}, {11}), FreeHandle(In(p), "obj", held[p]["sv"])
  PROVE  /\ SlotsLocal(<<p, Cur(t, n)>>) /\ Owned(<<p, Cur(t, n)>>)' = {}
         /\ reply'.res = "OK" /\ UNCHANGED inst
<1>1. t # "ecdsa" /\ Step(t, n) = 11 /\ n \in 1..Length(t)
  BY DEF At, Standing
<1>2. "sv" \in Names /\ KindOf("sv") = "obj"
  BY DEF Names, KindOf
<1>3. \A m \in Names : Alive(t, n, m) <=> m = "sv"
  BY <1>1 DEF Alive, Names
<1>4. /\ SlotsLocal(<<p, Cur(t, n)>>)
      /\ slots'[held[p]["sv"]] = Free
      /\ \A g \in Handles : g # held[p]["sv"] => slots'[g] = slots[g]
      /\ reply'.res = "OK" /\ UNCHANGED inst
  BY <1>2, <1>3, FreeFrees
<1>5. Only(p, t, n)
  <2>1. ~(t = "curve" /\ n <= 6)
    BY <1>1 DEF Step
  <2>2. QED
    BY <2>1 DEF Standing, Runs, Left
<1>6. <<p, Cur(t, n)>> # Null
  BY CurIn, Sits4, TeeCoreAssumption
<1>7. ASSUME NEW g \in Handles, slots'[g].owner = <<p, Cur(t, n)>>
      PROVE  FALSE
  <2>1. g # held[p]["sv"]
    BY <1>4, <1>6, <1>7 DEF Free
  <2>2. g \in Owned(<<p, Cur(t, n)>>)
    BY <1>4, <1>7, <2>1 DEF Owned
  <2>3. QED
    BY <1>3, <1>5, <2>1, <2>2 DEF Only
<1>8. QED
  BY <1>4, <1>7 DEF Owned

(* What the sessions of a process hold, from what each of them holds.      *)
LEMMA SlotsOwned ==
  ASSUME NEW p \in Procs
  PROVE  SlotsOf(p) =
           UNION {Owned(<<p, i>>) : i \in 1..4}
BY DEF SlotsOf, Owned

LEMMA EcdhEnds ==
  ASSUME NEW p \in Procs, NEW n \in Nat, Standing(p, "ecdh", n), n = 11,
         Returns(p), KeepsNothing, FreeHandle(In(p), "obj", held[p]["sv"])
  PROVE  Goes(p, "ecdh")
<1>1. At("ecdh", n, {}, {11}) /\ Cur("ecdh", n) = 1 /\ Opened("ecdh", n) = 1
  BY DEF At, Step, Cur, Opened, Opens
<1>2. /\ SlotsLocal(<<p, 1>>) /\ Owned(<<p, 1>>)' = {}
      /\ reply'.res = "OK" /\ UNCHANGED got
  BY <1>1, FreesLast DEF TAs, KeepsNothing
<1>3. Sits(p, "ecdh", n) /\ got[<<p, 1>>] = Agreed(p, "ecdh")
  BY DEF Standing, Runs, Knows
<1>4. \A i \in 1..4 : Owned(<<p, i>>)' = {}
  <2>1. ASSUME NEW i \in 1..4, i # 1 PROVE Owned(<<p, i>>)' = {}
    <3>1. Owned(<<p, i>>) = {}
      BY <1>1, <1>3, <2>1 DEF Sits
    <3>2. QED
      BY <1>2, <2>1, <3>1, Sits4 DEF SlotsLocal, Owned
  <2>2. QED
    BY <1>2, <2>1
<1>5. SlotsOf(p)' = {}
  BY <1>4 DEF SlotsOf, Owned
<1>6. Few(SlotsOf(p), 2)'
  BY <1>5, FewIs
<1>7. Ends(p, "ecdh", Passing)'
  BY <1>2, <1>3, <1>5, <1>6 DEF Ends, Bound, Passing, Failed, Agreed
<1>8. n = Length("ecdh")
  BY DEF Length
<1>9. QED
  BY <1>2, <1>7, <1>8, Passes DEF TAs

LEMMA CurveEnds ==
  ASSUME NEW p \in Procs, NEW n \in Nat, Standing(p, "curve", n), n = 28,
         Returns(p), KeepsNothing, FreeHandle(In(p), "obj", held[p]["sv"])
  PROVE  Goes(p, "curve")
<1>1. At("curve", n, {}, {11}) /\ Cur("curve", n) = 4
  BY DEF At, Step, Cur
<1>2. /\ SlotsLocal(<<p, 4>>) /\ Owned(<<p, 4>>)' = {}
      /\ reply'.res = "OK" /\ UNCHANGED <<inst, got>>
  BY <1>1, FreesLast DEF TAs, KeepsNothing
<1>3. /\ LeftCurve(p, n)
      /\ got[<<p, 3>>] = Agreed(p, "curve") /\ got[<<p, 4>>] = Agreed(p, "curve")
  BY DEF Standing, Runs, Knows, Left
<1>4. \A i \in 1..3 : Owned(<<p, i>>)' = Owned(<<p, i>>)
  <2>1. ASSUME NEW i \in 1..3 PROVE Owned(<<p, i>>)' = Owned(<<p, i>>)
    <3>1. i \in 1..4 /\ i # 4
      OBVIOUS
    <3>2. <<p, i>> \in Sessions /\ <<p, i>> # <<p, 4>>
      BY <3>1, Sits4
    <3>3. QED
      BY <1>2, <3>2 DEF SlotsLocal, Owned
  <2>2. QED
    BY <2>1
<1> DEFINE In4(x) == IF x \in Handles THEN x ELSE Null
           a == In4(inst[<<p, 1>>].key)
           b == In4(inst[<<p, 2>>].key)
<1>5. a \in Handles \cup {Null} /\ b \in Handles \cup {Null}
  OBVIOUS
<1>6. /\ Owned(<<p, 1>>) \subseteq {a} /\ Owned(<<p, 2>>) \subseteq {b}
      /\ Owned(<<p, 3>>) = {}
  <2>1. Owned(<<p, 1>>) \subseteq Handles /\ Owned(<<p, 2>>) \subseteq Handles
    BY DEF Owned
  <2>2. /\ Owned(<<p, 1>>) \subseteq {inst[<<p, 1>>].key}
        /\ Owned(<<p, 2>>) \subseteq {inst[<<p, 2>>].key}
        /\ Owned(<<p, 3>>) = {}
    BY <1>3 DEF LeftCurve
  <2>3. QED
    BY <2>1, <2>2
<1> HIDE DEF a, b
<1>7. SlotsOf(p)' \subseteq {a, b}
  <2>1. SUFFICES ASSUME NEW i \in 1..4 PROVE Owned(<<p, i>>)' \subseteq {a, b}
    BY DEF SlotsOf, Owned
  <2>2. i = 1 \/ i = 2 \/ i = 3 \/ i = 4
    OBVIOUS
  <2>3. QED
    BY <1>2, <1>4, <1>6, <2>2
<1>8. Few(SlotsOf(p), 2)' /\ Few(SlotsOf(p), 4)'
  <2>1. PICK x, y : x = a /\ y = b
    OBVIOUS
  <2>2. SlotsOf(p)' \subseteq {x, y}
    BY <1>7, <2>1
  <2>3. \A k \in {2, 4} : Few(SlotsOf(p), k)'
    BY <1>5, <2>1, <2>2, FewIs
  <2>4. QED
    BY <2>3
<1>9. Ends(p, "curve", Passing)'
  BY <1>2, <1>3, <1>8 DEF Ends, Bound, Passing, Failed, Agreed
<1>10. n = Length("curve")
  BY DEF Length
<1>11. QED
  BY <1>2, <1>9, <1>10, Passes DEF TAs

LEMMA CurveTurns ==
  ASSUME NEW p \in Procs, NEW n \in Nat, Standing(p, "curve", n), n = 17,
         Returns(p), KeepsNothing, FreeHandle(In(p), "obj", held[p]["sv"])
  PROVE  Goes(p, "curve")
<1>1. /\ At("curve", n, {}, {11}) /\ Cur("curve", n) = 3 /\ Cur("curve", n + 1) = 4
      /\ n + 1 \in 1..Length("curve") /\ "curve" \in TAs
      /\ Opens("curve", n + 1) /\ ~Opens("curve", n) /\ ~Learns("curve", n)
  BY DEF At, Step, Cur, Length, Opens, Learns, TAs
<1>2. /\ SlotsLocal(<<p, 3>>) /\ Owned(<<p, 3>>)' = {}
      /\ reply'.res = "OK" /\ UNCHANGED <<inst, got>>
  BY <1>1, FreesLast DEF KeepsNothing
<1>3. /\ Sits(p, "curve", n + 1)' /\ Items(p, "curve", n + 1)'
      /\ Only(p, "curve", n + 1)'
  BY <1>1, <1>2, Enters
<1>4. Knows(p, "curve", n + 1)'
  BY <1>1, <1>2, CarryKnows
<1>5. LeftCurve(p, n)
  BY DEF Standing, Runs, Left
<1>6. \A i \in {1, 2} : Owned(<<p, i>>)' = Owned(<<p, i>>)
  <2>1. ASSUME NEW i \in {1, 2} PROVE Owned(<<p, i>>)' = Owned(<<p, i>>)
    <3>1. i \in 1..4 /\ i # 3
      OBVIOUS
    <3>2. <<p, i>> \in Sessions /\ <<p, i>> # <<p, 3>>
      BY <3>1, Sits4
    <3>3. QED
      BY <1>2, <3>2 DEF SlotsLocal, Owned
  <2>2. QED
    BY <2>1
<1>7. LeftCurve(p, n + 1)'
  BY <1>2, <1>5, <1>6 DEF LeftCurve
<1>8. Runs(p, "curve", n + 1)'
  BY <1>3, <1>4, <1>7 DEF Runs, Left
<1>9. QED
  BY <1>1, <1>2, <1>8, Advances

LEMMA FreeObjectGoes ==
  ASSUME NEW p \in Procs, NEW t \in TAs, NEW n \in Nat, Standing(p, t, n),
         ta_crypt_cmd_free_transient_object(p)
  PROVE  Goes(p, t)
<1>0. PICK name : name = Now(p).about
  OBVIOUS
<1>1. n \in 1..Length(t) /\ Now(p).cmd = "free" /\ Asked(Now(p), t, n)
  BY DEF Standing, ta_crypt_cmd_free_transient_object
<1>2. \/ name = "key" /\ At(t, n, {14}, {6})
      \/ name = "pub" /\ At(t, n, {19}, {})
      \/ name = "sv" /\ At(t, n, {}, {11})
  BY <1>0, <1>1 DEF Asked
<1>3. /\ Returns(p) /\ KeepsNothing
      /\ FreeHandle(In(p), "obj", held[p][name])
  BY <1>0 DEF ta_crypt_cmd_free_transient_object, ta_entry_free_transient_object, Obj
<1>4. name \in Names /\ KindOf(name) = "obj"
  BY <1>2 DEF Names, KindOf
<1>5. CASE name # "sv"
  <2>1. Drops(t, n, name)
    BY <1>1, <1>2, <1>5, DropsAt
  <2>2. QED
    BY <1>3, <1>4, <2>1, FreeGoes DEF Drops
<1>6. CASE name = "sv"
  <2>1. (t = "ecdh" /\ n = 11) \/ (t = "curve" /\ n = 17) \/ (t = "curve" /\ n = 28)
    BY <1>1, <1>2, <1>6 DEF At, Step, Length, TAs
  <2>2. QED
    BY <1>3, <1>6, <2>1, EcdhEnds, CurveTurns, CurveEnds
<1>7. QED
  BY <1>5, <1>6

(* The attributes of an object whose variable has its key.                 *)
LEMMA GivesKey ==
  ASSUME NEW p \in Procs, NEW t \in TAs, NEW n \in Nat, Standing(p, t, n),
         NEW name \in Names, Alive(t, n, name), Filled(t, n, name),
         KindOf(name) = "obj",
         ta_entry_get_object_buffer_attribute(In(p), held[p][name])
  PROVE  /\ UNCHANGED <<inst, slots>> /\ reply'.res = "OK"
         /\ reply'.data = Attr(held[p][name]).key
         /\ reply'.data \in KeysOf(p, t, n, name)
<1> DEFINE h == held[p][name]
<1>1. Keyed(In(p), h) /\ Attr(h).key \in KeysOf(p, t, n, name)
  BY Looks DEF Keyed
<1> HIDE DEF h
<1>2. Answer(In(p), "OK", Attr(h).key) /\ UNCHANGED <<inst, slots>>
  BY <1>1 DEF ta_entry_get_object_buffer_attribute, h
<1>3. QED
  BY <1>1, <1>2 DEF Answer, h

LEMMA GetGoes ==
  ASSUME NEW p \in Procs, NEW t \in TAs, NEW n \in Nat, Standing(p, t, n),
         Now(p).cmd = "get", Returns(p), KeepsNothing,
         ta_entry_get_object_buffer_attribute(In(p), Obj(p))
  PROVE  Goes(p, t)
<1>0. PICK name : name = Now(p).about
  OBVIOUS
<1>1. /\ n \in 1..Length(t)
      /\ \/ name = "key" /\ At(t, n, {11}, {})
         \/ name = "pub" /\ At(t, n, {8}, {})
  BY <1>0 DEF Standing, Asked
<1>2. /\ t = "ecdsa" /\ name \in Names /\ KindOf(name) = "obj"
      /\ Alive(t, n, name) /\ Filled(t, n, name) /\ ~Learns(t, n)
      /\ At(t, n, {8, 11, 15}, {9})
  BY <1>1 DEF At, Names, KindOf, Alive, Filled, Learns
<1>3. Carries(t, n, "none")
  BY <1>1, <1>2, CarriesAt
<1>4. UNCHANGED <<inst, slots, held, got>> /\ reply'.res = "OK"
  BY <1>0, <1>2, GivesKey DEF Obj, KeepsNothing
<1>5. Knows(p, t, n + 1)'
  BY <1>2, <1>4, CarryKnows
<1>6. Runs(p, t, n + 1)'
  BY <1>3, <1>4, <1>5, Kept
<1>7. QED
  BY <1>3, <1>4, <1>6, Advances DEF Carries

LEMMA SecretGoes ==
  ASSUME NEW p \in Procs, NEW t \in TAs, NEW n \in Nat, Standing(p, t, n),
         At(t, n, {}, {9}), Returns(p), KeepsData(p),
         ta_entry_get_object_buffer_attribute(In(p), held[p]["sv"])
  PROVE  Goes(p, t)
<1>1. t # "ecdsa" /\ Step(t, n) = 9 /\ n \in 1..Length(t)
  BY DEF At, Standing
<1>2. /\ "sv" \in Names /\ KindOf("sv") = "obj"
      /\ Alive(t, n, "sv") /\ Filled(t, n, "sv")
  BY <1>1 DEF Names, KindOf, Alive, Filled
<1>3. KeysOf(p, t, n, "sv") = {Agreed(p, t)}
  BY <1>1, <1>2 DEF KeysOf
<1>4. /\ UNCHANGED <<inst, slots>> /\ reply'.res = "OK"
      /\ reply'.data = Agreed(p, t)
  BY <1>2, <1>3, GivesKey
<1>5. /\ UNCHANGED held
      /\ got' = [got EXCEPT ![<<p, Cur(t, n)>>] = Agreed(p, t)]
  BY <1>4, Here DEF KeepsData
<1>6. Carries(t, n, "none")
  BY <1>1, CarriesAt DEF At
<1>7. got'[<<p, Cur(t, n)>>] = Agreed(p, t)
  BY <1>5, CurIn, Sits4 DEF Standing
<1>8. \A i \in 1..4 : i # Cur(t, n) => got'[<<p, i>>] = got[<<p, i>>]
  BY <1>5 DEF Standing
<1>9. Knows(p, t, n)
  BY DEF Standing, Runs
<1>10. Knows(p, t, n + 1)'
  <2>1. CASE t = "ecdh"
    <3>1. Cur(t, n) = 1
      BY <2>1 DEF Cur
    <3>2. QED
      BY <2>1, <1>7, <3>1 DEF Knows, Agreed
  <2>2. CASE t = "curve"
    <3>1. (n = 15 /\ Cur(t, n) = 3) \/ (n = 26 /\ Cur(t, n) = 4)
      BY <1>1, <2>2 DEF Step, Cur, Length
    <3>2. 1 \in 1..4 /\ 2 \in 1..4 /\ 3 \in 1..4 /\ 4 \in 1..4
      OBVIOUS
    <3>3. got'[<<p, 1>>] = got[<<p, 1>>] /\ got'[<<p, 2>>] = got[<<p, 2>>]
      BY <1>8, <3>1, <3>2
    <3>4. Agreed(p, t)' = Agreed(p, t)
      BY DEF Agreed
    <3>5. CASE n = 15
      BY <1>7, <1>9, <2>2, <3>1, <3>3, <3>4, <3>5 DEF Knows
    <3>6. CASE n = 26
      <4>1. got'[<<p, 3>>] = got[<<p, 3>>]
        BY <1>8, <3>1, <3>2, <3>6
      <4>2. QED
        BY <1>7, <1>9, <2>2, <3>1, <3>3, <3>4, <3>6, <4>1 DEF Knows
    <3>7. QED
      BY <3>1, <3>5, <3>6
  <2>3. QED
    BY <1>1, <2>1, <2>2 DEF TAs
<1>11. Runs(p, t, n + 1)'
  BY <1>1, <1>4, <1>5, <1>6, <1>10, Kept
<1>12. QED
  BY <1>4, <1>6, <1>11, Advances DEF Carries

(* The key pair leaves its session, and the next session is opened.        *)
LEMMA PairGoes ==
  ASSUME NEW p \in Procs, NEW n \in Nat, Standing(p, "ecdsa", n), n = 4,
         Returns(p), KeepsData(p),
         ta_entry_get_object_buffer_attribute(In(p), held[p]["key"])
  PROVE  Goes(p, "ecdsa")
<1>1. /\ "key" \in Names /\ KindOf("key") = "obj" /\ "ecdsa" \in TAs
      /\ Alive("ecdsa", n, "key") /\ Filled("ecdsa", n, "key")
      /\ Cur("ecdsa", n) = 1 /\ n + 1 \in 1..Length("ecdsa")
      /\ Opens("ecdsa", n + 1) /\ ~Opens("ecdsa", n)
      /\ \A m \in Names : Alive("ecdsa", n, m) <=> m = "key"
  BY DEF Names, KindOf, TAs, Alive, Filled, Cur, Length, Opens
<1>2. KeysOf(p, "ecdsa", n, "key") = Generated(p)
  BY <1>1 DEF KeysOf
<1>3. /\ UNCHANGED <<inst, slots>> /\ reply'.res = "OK"
      /\ reply'.data \in Generated(p)
  BY <1>1, <1>2, GivesKey
<1>4. got'[<<p, 1>>] \in Generated(p)
  <2>1. got' = [got EXCEPT ![<<p, 1>>] = reply'.data]
    <3>1. In(p) = <<p, 1>>
      BY <1>1, Here
    <3>2. QED
      BY <1>3, <3>1 DEF KeepsData
  <2>2. <<p, 1>> \in Sessions
    <3>1. 1 \in 1..4
      OBVIOUS
    <3>2. QED
      BY <3>1, Sits4
  <2>3. QED
    BY <1>3, <2>1, <2>2 DEF Standing
<1>5. SlotsLocal(<<p, Cur("ecdsa", n)>>)
  BY <1>3, SlotsSame DEF Standing
<1>6. /\ Sits(p, "ecdsa", n + 1)' /\ Items(p, "ecdsa", n + 1)'
      /\ Only(p, "ecdsa", n + 1)'
  BY <1>1, <1>3, <1>5, Enters
<1>7. AtMostOne(Owned(<<p, 1>>))'
  <2>1. Only(p, "ecdsa", n)
    BY DEF Standing, Runs, Left
  <2>2. \A h \in Owned(<<p, 1>>) : h = held[p]["key"]
    BY <1>1, <2>1 DEF Only
  <2>3. QED
    BY <1>3, <2>2 DEF Owned, AtMostOne
<1>8. Left(p, "ecdsa", n + 1)'
  BY <1>6, <1>7 DEF Left, LeftEcdsa
<1>9. Knows(p, "ecdsa", n + 1)'
  BY <1>4 DEF Knows, Generated
<1>10. Runs(p, "ecdsa", n + 1)'
  BY <1>6, <1>8, <1>9 DEF Runs
<1>11. QED
  BY <1>1, <1>3, <1>10, Advances

LEMMA AttributesGoes ==
  ASSUME NEW p \in Procs, NEW t \in TAs, NEW n \in Nat, Standing(p, t, n),
         ta_crypt_cmd_get_object_buffer_attribute(p)
  PROVE  Goes(p, t)
<1>1. CASE Now(p).cmd = "get"
  BY <1>1, GetGoes DEF ta_crypt_cmd_get_object_buffer_attribute
<1>2. CASE Now(p).cmd = "fetch"
  <2>1. /\ Returns(p) /\ KeepsData(p)
        /\ ta_entry_get_object_buffer_attribute(In(p), held[p][Now(p).about])
    BY <1>2 DEF ta_crypt_cmd_get_object_buffer_attribute, Obj
  <2>2. \/ Now(p).about = "key" /\ At(t, n, {4}, {})
        \/ Now(p).about = "sv" /\ At(t, n, {}, {9})
    BY <1>2 DEF Standing, Asked
  <2>3. CASE Now(p).about = "key" /\ At(t, n, {4}, {})
    <3>1. t = "ecdsa" /\ n = 4
      BY <2>3 DEF At
    <3>2. QED
      BY <2>1, <2>3, <3>1, PairGoes
  <2>4. CASE Now(p).about = "sv" /\ At(t, n, {}, {9})
    BY <2>1, <2>4, SecretGoes
  <2>5. QED
    BY <2>2, <2>3, <2>4
<1>3. QED
  BY <1>1, <1>2 DEF ta_crypt_cmd_get_object_buffer_attribute

LEMMA SignGoes ==
  ASSUME NEW p \in Procs, NEW t \in TAs, NEW n \in Nat, Standing(p, t, n),
         ta_crypt_cmd_asymmetric_sign(p)
  PROVE  Goes(p, t)
<1> DEFINE op == held[p]["op"]
<1>1. At(t, n, {15}, {}) /\ n \in 1..Length(t)
  BY DEF ta_crypt_cmd_asymmetric_sign, Standing, Asked
<1>2. /\ t = "ecdsa" /\ n = 15 /\ "op" \in Names /\ KindOf("op") = "op"
      /\ Alive(t, n, "op") /\ Filled(t, n, "op") /\ UseOf(t, n, "op") = "sign"
      /\ Cur(t, n) = 2
  BY <1>1 DEF At, Names, KindOf, Alive, Filled, UseOf, Cur
<1>3. KeysOf(p, t, n, "op") = {got[<<p, 1>>]}
  BY <1>2 DEF KeysOf
<1>4. Ready(In(p), op, "sign") /\ Attr(op).key = got[<<p, 1>>]
  BY <1>2, <1>3, Looks DEF Ready
<1>5. /\ Returns(p) /\ KeepsData(p)
      /\ ta_entry_asymmetric_sign_digest(In(p), op)
  BY DEF ta_crypt_cmd_asymmetric_sign, Op
<1> HIDE DEF op
<1>6. UNCHANGED <<inst, slots>>
  BY <1>4, <1>5 DEF ta_entry_asymmetric_sign_digest
<1>7. CASE Answer(In(p), "FAIL", Null)
  BY <1>5, <1>6, <1>7, GivesUp DEF Answer
<1>8. CASE Answer(In(p), "OK", Attr(op).key)
  <2>1. reply'.res = "OK" /\ reply'.data = got[<<p, 1>>]
    BY <1>4, <1>8 DEF Answer
  <2>2. /\ UNCHANGED held
        /\ got' = [got EXCEPT ![<<p, 2>>] = got[<<p, 1>>]]
    <3>1. In(p) = <<p, 2>>
      BY <1>2, Here
    <3>2. QED
      BY <1>5, <2>1, <3>1 DEF KeepsData
  <2>3. got'[<<p, 2>>] = got[<<p, 1>>] /\ got'[<<p, 1>>] = got[<<p, 1>>]
    <3>1. \A i \in 1..4 : <<p, i>> \in Sessions
      BY Sits4
    <3>2. /\ <<p, 1>> \in Sessions /\ <<p, 2>> \in Sessions
          /\ <<p, 1>> # <<p, 2>>
      BY <3>1
    <3>3. QED
      BY <2>2, <3>2 DEF Standing
  <2>4. Carries(t, n, "none")
    BY <1>1, CarriesAt DEF At
  <2>5. Knows(p, t, n)
    BY DEF Standing, Runs
  <2>6. Knows(p, t, n + 1)'
    BY <1>2, <2>3, <2>5 DEF Knows
  <2>7. Runs(p, t, n + 1)'
    BY <1>6, <2>2, <2>3, <2>4, <2>6, Kept
  <2>8. QED
    BY <1>5, <2>1, <2>4, <2>7, Advances DEF Carries
<1>9. QED
  BY <1>4, <1>5, <1>7, <1>8 DEF ta_entry_asymmetric_sign_digest

(* What an ECDSA main keeps: the object of its first session, and the      *)
(* operation it verified with.                                             *)
LEMMA EcdsaKeepsTwo ==
  ASSUME NEW p \in Procs, NEW n \in Nat, Standing(p, "ecdsa", n), n = 20,
         UNCHANGED slots
  PROVE  Few(SlotsOf(p), 2)'
<1>1. /\ Sits(p, "ecdsa", n) /\ Only(p, "ecdsa", n) /\ AtMostOne(Owned(<<p, 1>>))
      /\ Cur("ecdsa", n) = 2 /\ Opened("ecdsa", n) = 2
  BY DEF Standing, Runs, Left, LeftEcdsa, Cur, Opened, Opens
<1>2. \A m \in Names : Alive("ecdsa", n, m) <=> m = "op"
  BY DEF Alive, Names
<1>3. "op" \in Names /\ "ecdsa" \in TAs
  BY DEF Names, TAs
<1>4. PICK b : b = held[p]["op"] /\ b \in Handles
  BY <1>2, <1>3, Looks
<1>5. PICK a \in Handles \cup {Null} : Owned(<<p, 1>>) \subseteq {a}
  <2>1. Owned(<<p, 1>>) \subseteq Handles
    BY DEF Owned
  <2>2. QED
    BY <1>1, <2>1 DEF AtMostOne
<1>6. Owned(<<p, 2>>) \subseteq {b}
  BY <1>1, <1>2, <1>4 DEF Only
<1>7. Owned(<<p, 3>>) = {} /\ Owned(<<p, 4>>) = {}
  BY <1>1 DEF Sits
<1>8. SlotsOf(p) \subseteq {a, b}
  <2>1. SUFFICES ASSUME NEW i \in 1..4 PROVE Owned(<<p, i>>) \subseteq {a, b}
    BY DEF SlotsOf, Owned
  <2>2. i = 1 \/ i = 2 \/ i = 3 \/ i = 4
    OBVIOUS
  <2>3. QED
    BY <1>5, <1>6, <1>7, <2>2
<1>9. SlotsOf(p)' \subseteq {a, b}
  BY <1>8 DEF SlotsOf
<1>10. QED
  BY <1>4, <1>5, <1>9, FewIs

LEMMA VerifyGoes ==
  ASSUME NEW p \in Procs, NEW t \in TAs, NEW n \in Nat, Standing(p, t, n),
         ta_crypt_cmd_asymmetric_verify(p)
  PROVE  Goes(p, t)
<1> DEFINE op == held[p]["op"]
           signer == got[<<p, 2>>]
<1>1. At(t, n, {20}, {}) /\ n \in 1..Length(t)
  BY DEF ta_crypt_cmd_asymmetric_verify, Standing, Asked
<1>2. /\ t = "ecdsa" /\ n = 20 /\ "op" \in Names /\ KindOf("op") = "op"
      /\ Alive(t, n, "op") /\ Filled(t, n, "op") /\ UseOf(t, n, "op") = "verify"
      /\ Cur(t, n) = 2 /\ n = Length(t)
  BY <1>1 DEF At, Names, KindOf, Alive, Filled, UseOf, Cur, Length
<1>3. KeysOf(p, t, n, "op") = {PublicHalf(got[<<p, 1>>])}
  BY <1>2 DEF KeysOf
<1>4. Ready(In(p), op, "verify") /\ Attr(op).key = PublicHalf(got[<<p, 1>>])
  BY <1>2, <1>3, Looks DEF Ready
<1>5. In(p) = <<p, 2>> /\ In(p) \in Mine(p)
  BY <1>2, Here DEF Mine
<1>6. /\ Returns(p) /\ KeepsNothing /\ UNCHANGED got
      /\ ta_entry_asymmetric_verify_digest(In(p), op, signer)
  BY <1>5 DEF ta_crypt_cmd_asymmetric_verify, Op, KeepsNothing
<1>7. PICK b \in BOOLEAN :
        got[<<p, 1>>] = [pub |-> <<p, 1>>, priv |-> <<p, 1>>, short |-> b]
  <2>1. got[<<p, 1>>] \in Generated(p)
    BY <1>2 DEF Standing, Runs, Knows
  <2>2. QED
    BY <2>1 DEF Generated
<1>8. signer = [pub |-> <<p, 1>>, priv |-> <<p, 1>>, short |-> b]
  <2>1. got[<<p, 2>>] = got[<<p, 1>>]
    BY <1>2 DEF Standing, Runs, Knows
  <2>2. QED
    BY <1>7, <2>1
<1>9. PublicHalf(got[<<p, 1>>]) = [pub |-> <<p, 1>>, priv |-> Null, short |-> b]
  BY <1>7 DEF PublicHalf
<1> HIDE DEF op, signer
<1>10. Verifies(Attr(op).key, signer) <=> ~b
  BY <1>4, <1>8, <1>9 DEF Verifies
<1>11. /\ UNCHANGED slots
       /\ Answer(In(p), IF Verifies(Attr(op).key, signer) THEN "OK" ELSE "INVALID", Null)
  BY <1>4, <1>6 DEF ta_entry_asymmetric_verify_digest
<1>12. CASE ~b
  <2>1. reply'.res = "OK"
    BY <1>10, <1>11, <1>12 DEF Answer
  <2>2. signer = Pair(<<p, 1>>)
    BY <1>8, <1>12 DEF Pair, Material
  <2>3. Few(SlotsOf(p), 2)'
    BY <1>2, <1>11, EcdsaKeepsTwo
  <2>4. Few(SlotsOf(p), 4)'
    BY <2>3 DEF Few
  <2>5. got'[<<p, 2>>] = Pair(<<p, 1>>)
    BY <1>6, <2>2 DEF signer
  <2>6. Ends(p, t, Passing)'
    BY <1>2, <2>3, <2>4, <2>5 DEF Ends, Bound, Passing, Failed
  <2>7. QED
    BY <1>2, <1>6, <2>1, <2>6, Passes
<1>13. CASE b
  <2>1. reply'.res = "INVALID"
    BY <1>10, <1>11, <1>13 DEF Answer
  <2>2. at'[p] = 0
    BY <1>6, <2>1, Turns
  <2>3. Few(SlotsOf(p), Bound(t))'
    <3>1. SlotsOf(p)' = SlotsOf(p)
      BY <1>11 DEF SlotsOf
    <3>2. Few(SlotsOf(p), Bound(t))
      BY SlotsBound DEF Standing
    <3>3. QED
      BY <3>1, <3>2 DEF Few
  <2>4. got'[<<p, 1>>].short
    BY <1>6, <1>7, <1>13
  <2>5. Ends(p, t, 0)'
    BY <2>1, <2>3, <2>4 DEF Ends, Passing
  <2>6. QED
    BY <2>2, <2>5 DEF Goes, Progress, Failed
<1>14. QED
  BY <1>12, <1>13

(* A session is opened, with nothing in it.                                *)
LEMMA OpenGoes ==
  ASSUME NEW p \in Procs, NEW t \in TAs, NEW n \in Nat, Standing(p, t, n),
         open_session(p)
  PROVE  Goes(p, t)
<1> DEFINE c == Cur(t, n)
<1>1. /\ Opens(t, n) /\ n \in 1..Length(t) /\ c \in 1..4 /\ PoolTyped
      /\ In(p) = <<p, c>> /\ In(p) \in Sessions /\ ta[In(p)] = t
  BY Here DEF open_session, Standing, Asked
<1>2. /\ TA_OpenSessionEntryPoint(In(p), FALSE) /\ Returns(p) /\ UNCHANGED got
      /\ UNCHANGED slots
  BY DEF open_session, TA_OpenSessionEntryPoint
<1>3. CASE Answer(In(p), "FAIL", Null)
  BY <1>2, <1>3, GivesUp DEF Answer
<1>4. CASE /\ inst' = [inst EXCEPT ![In(p)].phase = "open"]
           /\ Answer(In(p), "OK", Null)
  <2>1. /\ Sits(p, t, n) /\ Left(p, t, n)
    BY DEF Standing, Runs
  <2>2. /\ n + 1 \in 1..Length(t) /\ Opened(t, n) = c - 1 /\ Opened(t, n + 1) = c
        /\ Cur(t, n) = c /\ Cur(t, n + 1) = c /\ ~Opens(t, n + 1) /\ ~Learns(t, n)
    BY <1>1 DEF Opens, Opened, Cur, Length, Learns, At, Step, TAs
  <2>3. \A m \in Names : ~Alive(t, n + 1, m)
    BY <1>1 DEF Opens, Length, Alive, Step
  <2>4. inst[<<p, c>>] = Closed /\ Owned(<<p, c>>) = {}
    BY <1>1, <2>1, <2>2 DEF Sits
  <2>5. /\ inst'[<<p, c>>] = [phase |-> "open", pc |-> "idle", key |-> Null]
        /\ \A i \in 1..4 : i # c => inst'[<<p, i>>] = inst[<<p, i>>]
    <3>1. inst' = [inst EXCEPT ![<<p, c>>] = [inst[<<p, c>>] EXCEPT !.phase = "open"]]
      BY <1>1, <1>4
    <3>2. DOMAIN inst = Sessions
      BY <1>1 DEF PoolTyped
    <3>3. [inst[<<p, c>>] EXCEPT !.phase = "open"] =
             [phase |-> "open", pc |-> "idle", key |-> Null]
      BY <2>4 DEF Closed
    <3> HIDE DEF c
    <3>4. QED
      BY <1>1, <3>1, <3>2, <3>3, Sits4
  <2>6. \A i \in 1..4 : Owned(<<p, i>>)' = Owned(<<p, i>>)
    BY <1>2 DEF Owned
  <2> HIDE DEF c
  <2>7. Sits(p, t, n + 1)'
    BY <1>1, <2>1, <2>2, <2>5, <2>6 DEF Sits
  <2>8. Items(p, t, n + 1)'
    BY <2>3 DEF Items
  <2>9. Only(p, t, n + 1)'
    BY <1>1, <2>2, <2>4, <2>6 DEF Only
  <2>10. Knows(p, t, n + 1)'
    BY <1>2, <2>2, CarryKnows
  <2>11. CASE t = "ecdsa"
    <3>1. n + 1 >= 5 => n >= 5
      BY <1>1, <2>11 DEF Opens
    <3>2. LeftEcdsa(p, n + 1)'
      BY <2>1, <2>6, <2>11, <3>1 DEF Left, LeftEcdsa
    <3>3. QED
      BY <1>2, <2>2, <2>7, <2>8, <2>9, <2>10, <2>11, <3>2, <1>4, Advances
         DEF Left, Runs, Answer
  <2>12. CASE t = "curve"
    <3>1. /\ \A i \in {1, 2} : n + 1 # 3 * i
          /\ \A i \in {1, 2} : n + 1 = 3 * i - 1 => i = c
          /\ n + 1 >= 18 => c = 4
      BY <1>1, <2>12 DEF Opens, c, Cur
    <3>2. LeftCurve(p, n)
      BY <2>1, <2>12 DEF Left
    <3>3. \A i \in {1, 2} : Owned(<<p, i>>)' \subseteq {inst'[<<p, i>>].key}
      BY <2>4, <2>5, <2>6, <3>2 DEF LeftCurve
    <3>4. n + 1 >= 18 => Owned(<<p, 3>>)' = {}
      BY <1>1, <2>6, <2>12, <3>2 DEF LeftCurve, Opens
    <3>5. LeftCurve(p, n + 1)'
      BY <2>5, <3>1, <3>3, <3>4 DEF LeftCurve
    <3>6. QED
      BY <1>2, <2>2, <2>7, <2>8, <2>9, <2>10, <2>12, <3>5, <1>4, Advances
         DEF Left, Runs, Answer
  <2>13. CASE t = "ecdh"
    BY <1>2, <2>2, <2>7, <2>8, <2>9, <2>10, <2>13, <1>4, Advances
       DEF Left, Runs, Answer
  <2>14. QED
    BY <2>11, <2>12, <2>13 DEF TAs
<1>5. QED
  BY <1>2, <1>3, <1>4 DEF TA_OpenSessionEntryPoint

(* GEN_KEY finds no key in its session, and allocates the only one.        *)
LEMMA GenKeyAt ==
  ASSUME NEW p \in Procs, NEW t \in TAs, NEW n \in Nat, Standing(p, t, n),
         Now(p).cmd = "gen_key"
  PROVE  /\ t = "curve" /\ n \in {2, 5} /\ Cur(t, n) \in {1, 2}
         /\ n = 3 * Cur(t, n) - 1 /\ Opened(t, n) = Cur(t, n)
         /\ n + 1 \in 1..Length(t) /\ Cur(t, n + 1) = Cur(t, n)
         /\ Opened(t, n + 1) = Cur(t, n) /\ ~Learns(t, n)
         /\ \A m \in Names : ~Alive(t, n, m) /\ ~Alive(t, n + 1, m)
         /\ inst[In(p)].key = Null /\ inst[In(p)].phase = "open"
         /\ Owned(In(p)) = {}
<1>1. t = "curve" /\ n \in {2, 5}
  BY DEF Standing, Asked
<1>2. /\ Cur(t, n) \in {1, 2} /\ n = 3 * Cur(t, n) - 1 /\ Opened(t, n) = Cur(t, n)
      /\ n + 1 \in 1..Length(t) /\ Cur(t, n + 1) = Cur(t, n)
      /\ Opened(t, n + 1) = Cur(t, n)
  BY <1>1 DEF Cur, Opened, Opens, Length
<1>3. ~Learns(t, n)
  BY <1>1 DEF Learns, At, Step
<1>4. \A m \in Names : ~Alive(t, n, m) /\ ~Alive(t, n + 1, m)
  BY <1>1 DEF Alive, Step
<1>5. In(p) = <<p, Cur(t, n)>>
  BY Here
<1>6. LeftCurve(p, n) /\ Sits(p, t, n)
  BY <1>1 DEF Standing, Runs, Left
<1>7. inst[In(p)].key = Null
  BY <1>2, <1>5, <1>6 DEF LeftCurve
<1>8. inst[In(p)].phase = "open"
  BY <1>2, <1>5, <1>6 DEF Sits
<1>9. Owned(In(p)) = {}
  <2>1. Owned(In(p)) \subseteq {inst[In(p)].key}
    BY <1>2, <1>5, <1>6 DEF LeftCurve
  <2>2. Owned(In(p)) \subseteq Handles
    BY DEF Owned
  <2>3. QED
    BY <1>7, <2>1, <2>2, TeeCoreAssumption
<1>10. QED
  BY <1>1, <1>2, <1>3, <1>4, <1>7, <1>8, <1>9

LEMMA AllocTransientGoes ==
  ASSUME NEW p \in Procs, NEW t \in TAs, NEW n \in Nat, Standing(p, t, n),
         Now(p).cmd = "gen_key", UNCHANGED at, KeepsNothing,
         alloc_transient_object(In(p))
  PROVE  Goes(p, t)
<1> DEFINE c == Cur(t, n)
<1>1. /\ t = "curve" /\ n \in {2, 5} /\ c \in {1, 2} /\ n = 3 * c - 1
      /\ Opened(t, n) = c /\ \A m \in Names : ~Alive(t, n, m)
      /\ inst[In(p)].key = Null
  BY GenKeyAt
<1>2. In(p) = <<p, c>> /\ In(p) \in Sessions /\ PoolTyped
  BY Here DEF Standing
<1>3. /\ slots' = Release(slots, {Null})
      /\ inst' = [inst EXCEPT ![<<p, c>>].pc = "gen_key"]
  BY <1>1, <1>2 DEF alloc_transient_object
<1>4. \A h \in Handles : slots'[h] = slots[h]
  BY <1>3, TeeCoreAssumption DEF Release
<1>5. \A i \in 1..4 : Owned(<<p, i>>)' = Owned(<<p, i>>)
  BY <1>4 DEF Owned
<1>6. /\ inst'[<<p, c>>].phase = inst[<<p, c>>].phase
      /\ inst'[<<p, c>>].key = inst[<<p, c>>].key
      /\ \A i \in 1..4 : i # c => inst'[<<p, i>>] = inst[<<p, i>>]
  <2>1. inst' = [inst EXCEPT ![<<p, c>>] = [inst[<<p, c>>] EXCEPT !.pc = "gen_key"]]
    BY <1>3
  <2>2. DOMAIN inst = Sessions /\ Whole(inst[<<p, c>>])
    BY <1>2 DEF PoolTyped
  <2> DEFINE i == [inst[<<p, c>>] EXCEPT !.pc = "gen_key"]
  <2>3. i.phase = inst[<<p, c>>].phase /\ i.key = inst[<<p, c>>].key
    BY <2>2 DEF Whole
  <2> HIDE DEF c, i
  <2>4. inst'[<<p, c>>] = i
    BY <1>2, <2>1, <2>2 DEF i
  <2>5. \A j \in 1..4 : j # c => inst'[<<p, j>>] = inst[<<p, j>>]
    BY <2>1, <2>2, Sits4
  <2>6. QED
    BY <2>3, <2>4, <2>5
<1>7. Sits(p, t, n) /\ LeftCurve(p, n) /\ Knows(p, t, n) /\ Cur(t, n) = c
  BY <1>1 DEF Standing, Runs, Left
<1> HIDE DEF c
<1>8. Sits(p, t, n)'
  BY <1>1, <1>5, <1>6, <1>7 DEF Sits
<1>9. Items(p, t, n)'
  BY <1>1 DEF Items
<1>10. LeftCurve(p, n)'
  <2>1. \A i \in {1, 2} : inst'[<<p, i>>].key = inst[<<p, i>>].key
    BY <1>1, <1>6
  <2>2. \A i \in {1, 2} : n # 3 * i
    BY <1>1
  <2>3. Owned(<<p, 1>>)' = Owned(<<p, 1>>) /\ Owned(<<p, 2>>)' = Owned(<<p, 2>>)
    BY <1>5
  <2>4. QED
    BY <1>1, <1>7, <2>1, <2>2, <2>3 DEF LeftCurve
<1>11. Left(p, t, n)'
  BY <1>1, <1>10 DEF Left
<1>12. Knows(p, t, n)'
  BY <1>1, <1>7 DEF Knows, KeepsNothing
<1>13. Runs(p, t, n)'
  BY <1>8, <1>9, <1>11, <1>12 DEF Runs
<1>14. at'[p] = n /\ n \in 1..Length(t)
  BY DEF Standing
<1>15. QED
  BY <1>13, <1>14 DEF Goes, Progress

LEMMA GenKeyGoes ==
  ASSUME NEW p \in Procs, NEW t \in TAs, NEW n \in Nat, Standing(p, t, n),
         Now(p).cmd = "gen_key", Returns(p), KeepsNothing, gen_key(In(p))
  PROVE  Goes(p, t)
<1> DEFINE c == Cur(t, n)
<1>1. /\ t = "curve" /\ n \in {2, 5} /\ c \in {1, 2} /\ n = 3 * c - 1
      /\ Opened(t, n) = c /\ Opened(t, n + 1) = c /\ Cur(t, n + 1) = c
      /\ n + 1 \in 1..Length(t) /\ ~Learns(t, n)
      /\ \A m \in Names : ~Alive(t, n + 1, m)
      /\ inst[In(p)].phase = "open" /\ Owned(In(p)) = {}
  BY GenKeyAt
<1>2. In(p) = <<p, c>> /\ In(p) \in Sessions /\ PoolTyped
  BY Here DEF Standing
<1>3. CASE Answer(In(p), "FAIL", Null) /\ UNCHANGED slots
  BY <1>3, GivesUp DEF Answer
<1>4. ASSUME NEW h \in Spare(slots), NEW res \in {"OK", "FAIL"}, NEW k,
             k = IF res = "OK" THEN Material(<<p, c>>, <<p, c>>) ELSE NoKey,
             inst' = [inst EXCEPT ![<<p, c>>] = [@ EXCEPT !.pc = "idle", !.key = h]],
             slots' = Install(slots, h, "obj", <<p, c>>, [use |-> "pair", key |-> k]),
             Answer(In(p), res, Null)
      PROVE  Goes(p, t)
  <2>1. /\ Sits(p, t, n) /\ LeftCurve(p, n) /\ Cur(t, n) = c
    BY <1>1 DEF Standing, Runs, Left
  <2> HIDE DEF c
  <2>2. /\ h \in Handles /\ slots[h] = Free /\ SlotsLocal(<<p, c>>)
        /\ Becomes(h, Slot("obj", <<p, c>>, "pair", k))
    BY <1>2, <1>4, InstallLocal
  <2>3. \A i \in 1..4 : i # c => Owned(<<p, i>>)' = Owned(<<p, i>>)
    BY <1>2, <2>2, Sits4 DEF SlotsLocal, Owned
  <2>4. /\ slots'[h].kind = "obj" /\ slots'[h].owner = <<p, c>>
        /\ slots'[h].attr.key = k
    BY <2>2 DEF Becomes, Slot
  <2>5. Owned(<<p, c>>)' = {h}
    <3>1. \A g \in Handles : g # h => slots'[g].owner # <<p, c>>
      BY <1>1, <1>2, <2>2 DEF Becomes, Owned
    <3>2. QED
      BY <2>2, <2>4, <3>1 DEF Owned
  <2>6. /\ inst'[<<p, c>>] = [phase |-> "open", pc |-> "idle", key |-> h]
        /\ \A i \in 1..4 : i # c => inst'[<<p, i>>] = inst[<<p, i>>]
    <3>1. DOMAIN inst = Sessions /\ Whole(inst[<<p, c>>])
      BY <1>2 DEF PoolTyped
    <3>2. [inst[<<p, c>>] EXCEPT !.pc = "idle", !.key = h] =
            [phase |-> "open", pc |-> "idle", key |-> h]
      <4>1. PICK pc, key : inst[<<p, c>>] = [phase |-> "open", pc |-> pc, key |-> key]
        BY <1>1, <1>2, <3>1 DEF Whole
      <4>2. [inst[<<p, c>>] EXCEPT !.pc = "idle"] =
              [phase |-> "open", pc |-> "idle", key |-> key]
        BY <4>1
      <4>3. [inst[<<p, c>>] EXCEPT !.pc = "idle", !.key = h] =
              [[phase |-> "open", pc |-> "idle", key |-> key] EXCEPT !.key = h]
        BY <4>2
      <4>4. QED
        BY <4>3
    <3>3. inst' = [inst EXCEPT ![<<p, c>>] = [phase |-> "open", pc |-> "idle", key |-> h]]
      BY <1>4, <3>2
    <3>4. QED
      BY <1>2, <3>1, <3>3, Sits4
  <2>7. UNCHANGED got
    BY DEF KeepsNothing
  <2>8. CASE res = "OK"
    <3>1. Sits(p, t, n + 1)'
      BY <1>1, <2>1, <2>3, <2>6 DEF Sits
    <3>2. Items(p, t, n + 1)'
      BY <1>1 DEF Items
    <3>3. LeftCurve(p, n + 1)'
      <4>1. n + 1 = 3 * c /\ \A i \in {1, 2} : n + 1 # 3 * i - 1
        BY <1>1
      <4>2. ASSUME NEW i \in {1, 2}
            PROVE  Owned(<<p, i>>)' \subseteq {inst'[<<p, i>>].key}
        <5>1. CASE i = c
          BY <2>5, <2>6, <5>1
        <5>2. CASE i # c
          <6>1. Owned(<<p, i>>)' = Owned(<<p, i>>) /\ inst'[<<p, i>>] = inst[<<p, i>>]
            BY <2>3, <2>6, <5>2
          <6>2. QED
            BY <2>1, <6>1 DEF LeftCurve
        <5>3. QED
          BY <5>1, <5>2
      <4>3. ASSUME NEW i \in {1, 2}, n + 1 = 3 * i
            PROVE  /\ Owns(slots, <<p, i>>, "obj", inst[<<p, i>>].key)'
                   /\ Attr(inst[<<p, i>>].key)'.key = Pair(<<p, i>>)
        <5>1. i = c
          BY <1>1, <4>1, <4>3
        <5>2. inst'[<<p, i>>].key = h /\ k = Pair(<<p, i>>)
          BY <1>4, <2>6, <2>8, <5>1 DEF Pair
        <5>3. QED
          BY <2>2, <2>4, <5>1, <5>2 DEF Owns, Attr
      <4>4. ~(n + 1 >= 18)
        BY <1>1
      <4>5. QED
        BY <4>1, <4>2, <4>3, <4>4 DEF LeftCurve
    <3>4. Left(p, t, n + 1)'
      BY <1>1, <3>3 DEF Left
    <3>5. Knows(p, t, n + 1)'
      BY <1>1, <2>7, CarryKnows
    <3>6. Runs(p, t, n + 1)'
      BY <3>1, <3>2, <3>4, <3>5 DEF Runs
    <3>7. reply'.res = "OK"
      BY <1>4, <2>8 DEF Answer
    <3>8. QED
      BY <1>1, <3>6, <3>7, Advances
  <2>9. CASE res = "FAIL"
    <3>1. reply'.res = "FAIL"
      BY <1>4, <2>9 DEF Answer
    <3>2. at'[p] = 0
      BY <3>1, Turns
    <3>3. PICK a \in Handles \cup {Null} : Owned(<<p, 1>>) \subseteq {a}
      <4>1. Owned(<<p, 1>>) \subseteq {inst[<<p, 1>>].key}
        BY <2>1 DEF LeftCurve
      <4>2. Owned(<<p, 1>>) \subseteq Handles
        BY DEF Owned
      <4>3. QED
        BY <4>1, <4>2
    <3>4. SlotsOf(p)' \subseteq {a, h}
      <4>1. SUFFICES ASSUME NEW i \in 1..4 PROVE Owned(<<p, i>>)' \subseteq {a, h}
        BY DEF SlotsOf, Owned
      <4>2. CASE i = c
        BY <2>5, <4>2
      <4>3. CASE i # c
        <5>1. Owned(<<p, i>>)' = Owned(<<p, i>>)
          BY <2>3, <4>3
        <5>2. i = 1 \/ i > c
          BY <1>1, <4>3
        <5>3. i > c => Owned(<<p, i>>) = {}
          BY <1>1, <2>1 DEF Sits
        <5>4. QED
          BY <3>3, <5>1, <5>2, <5>3
      <4>4. QED
        BY <4>2, <4>3
    <3>5. Few(SlotsOf(p), 4)'
      <4>1. \A m \in {2, 4} : Few(SlotsOf(p), m)'
        BY <2>2, <3>3, <3>4, FewIs
      <4>2. QED
        BY <4>1
    <3>6. Ends(p, t, 0)'
      BY <1>1, <3>1, <3>5 DEF Ends, Bound, Passing
    <3>7. QED
      BY <3>2, <3>6 DEF Goes, Progress, Failed
  <2>10. QED
    BY <1>4, <2>8, <2>9
<1>5. QED
  BY <1>2, <1>3, <1>4 DEF gen_key

LEMMA Gen25519Goes ==
  ASSUME NEW p \in Procs, NEW t \in TAs, NEW n \in Nat, Standing(p, t, n),
         gen_key_25519(p)
  PROVE  Goes(p, t)
BY AllocTransientGoes, GenKeyGoes DEF gen_key_25519

LEMMA Get25519Goes ==
  ASSUME NEW p \in Procs, NEW t \in TAs, NEW n \in Nat, Standing(p, t, n),
         get_key_25519(p)
  PROVE  Goes(p, t)
<1> DEFINE c == Cur(t, n)
<1>1. t = "curve" /\ n \in {3, 6}
  BY DEF get_key_25519, Standing, Asked
<1>2. /\ c \in {1, 2} /\ n = 3 * c /\ n + 1 \in 1..Length(t)
      /\ Opens(t, n + 1) /\ ~Opens(t, n)
  BY <1>1 DEF Cur, Length, Opens
<1>3. In(p) = <<p, c>> /\ In(p) \in Sessions /\ PoolTyped
  BY Here DEF Standing
<1>4. LeftCurve(p, n) /\ Knows(p, t, n) /\ Cur(t, n) = c
  BY <1>1 DEF Standing, Runs, Left
<1> HIDE DEF c
<1>5. /\ Owns(slots, <<p, c>>, "obj", inst[<<p, c>>].key)
      /\ Attr(inst[<<p, c>>].key).key = Pair(<<p, c>>)
  BY <1>2, <1>4 DEF LeftCurve
<1>6. Pair(<<p, c>>) # NoKey
  <2>1. <<p, c>> # Null
    BY <1>3, TeeCoreAssumption
  <2>2. Pair(<<p, c>>).pub = <<p, c>> /\ NoKey.pub = Null
    BY DEF Pair, Material, NoKey
  <2>3. QED
    BY <2>1, <2>2
<1>7. Keyed(<<p, c>>, inst[<<p, c>>].key) /\ inst[<<p, c>>].key # Null
  BY <1>5, <1>6, TeeCoreAssumption DEF Keyed, Owns
<1>8. get_key(<<p, c>>) /\ Returns(p) /\ KeepsData(p)
  BY <1>3 DEF get_key_25519
<1>9. /\ Answer(<<p, c>>, "OK", Pair(<<p, c>>)) /\ UNCHANGED <<inst, slots>>
  BY <1>5, <1>7, <1>8 DEF get_key
<1>10. reply'.res = "OK" /\ reply'.data = Pair(<<p, c>>)
  BY <1>9 DEF Answer
<1>11. got' = [got EXCEPT ![<<p, c>>] = Pair(<<p, c>>)]
  BY <1>3, <1>8, <1>10 DEF KeepsData
<1>12. /\ got'[<<p, c>>] = Pair(<<p, c>>)
       /\ \A i \in 1..4 : i # c => got'[<<p, i>>] = got[<<p, i>>]
  BY <1>3, <1>11, Sits4 DEF Standing
<1>13. SlotsLocal(<<p, c>>)
  BY <1>3, <1>9, SlotsSame
<1>14. Sits(p, t, n + 1)' /\ Items(p, t, n + 1)' /\ Only(p, t, n + 1)'
  BY <1>2, <1>4, <1>9, <1>13, Enters
<1>15. LeftCurve(p, n + 1)'
  <2>1. /\ \A i \in {1, 2} : n + 1 # 3 * i /\ n + 1 # 3 * i - 1
        /\ ~(n + 1 >= 18)
    BY <1>1
  <2>2. \A i \in {1, 2} : Owned(<<p, i>>)' = Owned(<<p, i>>)
    BY <1>9 DEF Owned
  <2>3. QED
    BY <1>4, <1>9, <2>1, <2>2 DEF LeftCurve
<1>16. Knows(p, t, n + 1)'
  <2>1. n + 1 >= 4 /\ ~(n + 1 >= 16) /\ ~(n + 1 >= 27)
    BY <1>1
  <2>2. CASE c = 1
    BY <1>1, <1>2, <1>12, <2>1, <2>2 DEF Knows, Pair
  <2>3. CASE c = 2
    <3>1. got'[<<p, 1>>] = Pair(<<p, 1>>)
      <4>1. 1 \in 1..4 /\ 1 # c /\ n >= 4
        BY <1>2, <2>3
      <4>2. got'[<<p, 1>>] = got[<<p, 1>>]
        BY <1>12, <4>1
      <4>3. QED
        BY <1>1, <1>4, <4>1, <4>2 DEF Knows
    <3>2. QED
      BY <1>1, <1>2, <1>12, <2>1, <2>3, <3>1 DEF Knows, Pair
  <2>4. QED
    BY <1>2, <2>2, <2>3
<1>17. Runs(p, t, n + 1)'
  BY <1>1, <1>14, <1>15, <1>16 DEF Runs, Left
<1>18. QED
  BY <1>2, <1>8, <1>10, <1>17, Advances

LEMMA MainGoes ==
  ASSUME NEW p \in Procs, NEW t \in TAs, NEW n \in Nat, Standing(p, t, n), Main(p)
  PROVE  Goes(p, t)
BY OpenGoes, OperationGoes, ObjectGoes, PopulateGoes, GenerateGoes, AttributesGoes,
   SetKeyGoes, FreeOpGoes, FreeObjectGoes, SignGoes, VerifyGoes, DeriveGoes,
   Gen25519Goes, Get25519Goes
   DEF Main
-----------------------------------------------------------------------------
(* A step of one process is a step in one of its sessions, and leaves what *)
(* the others keep.                                                        *)
Frame(p) ==
  /\ DOMAIN at' = Procs /\ DOMAIN held' = Procs /\ DOMAIN got' = Sessions
  /\ DOMAIN held'[p] = Names
  /\ \A q \in Procs : q # p => at'[q] = at[q] /\ held'[q] = held[q]
  /\ \A q \in Procs, i \in 1..4 : q # p => got'[<<q, i>>] = got[<<q, i>>]

ClientsTyped ==
  /\ DOMAIN at = Procs /\ DOMAIN held = Procs /\ DOMAIN got = Sessions
  /\ \A p \in Procs : DOMAIN held[p] = Names

LEMMA HandleFrame ==
  ASSUME ClientsTyped, NEW p \in Procs, NEW name, KeepsHandle(p, name), Returns(p)
  PROVE  Frame(p)
<1>1. PICK x, y : at' = [at EXCEPT ![p] = x] /\ held' = [held EXCEPT ![p][name] = y]
  BY DEF KeepsHandle, Returns
<1>2. UNCHANGED got
  BY DEF KeepsHandle
<1>3. DOMAIN held'[p] = Names
  BY <1>1 DEF ClientsTyped
<1>4. QED
  BY <1>1, <1>2, <1>3 DEF Frame, ClientsTyped

LEMMA DataFrame ==
  ASSUME ClientsTyped, NEW p \in Procs, NEW i \in 1..4, In(p) = <<p, i>>,
         KeepsData(p), Returns(p)
  PROVE  Frame(p)
<1>1. PICK x, y : at' = [at EXCEPT ![p] = x] /\ got' = [got EXCEPT ![<<p, i>>] = y]
  BY DEF KeepsData, Returns
<1>2. UNCHANGED held
  BY DEF KeepsData
<1>3. ASSUME NEW q \in Procs, NEW j \in 1..4, q # p
      PROVE  got'[<<q, j>>] = got[<<q, j>>]
  <2>1. <<q, j>> \in Sessions /\ <<q, j>> # <<p, i>>
    BY <1>3, Sits4
  <2>2. QED
    BY <1>1, <2>1 DEF ClientsTyped
<1>4. QED
  BY <1>1, <1>2, <1>3 DEF Frame, ClientsTyped

LEMMA NothingFrame ==
  ASSUME ClientsTyped, NEW p \in Procs, UNCHANGED <<held, got>>,
         UNCHANGED at \/ \E x : at' = [at EXCEPT ![p] = x]
  PROVE  Frame(p)
BY DEF Frame, ClientsTyped

LEMMA OpenFrame ==
  ASSUME ClientsTyped, NEW p \in Procs, open_session(p)
  PROVE  Frame(p)
<1>1. PICK x : at' = [at EXCEPT ![p] = x]
  BY DEF open_session, Returns
<1>2. held' = [held EXCEPT ![p] = NoHandles] /\ UNCHANGED got
  BY DEF open_session
<1>3. DOMAIN NoHandles = Names
  BY DEF NoHandles, Names
<1>4. QED
  BY <1>1, <1>2, <1>3 DEF Frame, ClientsTyped

LEMMA MainFrame ==
  ASSUME ClientsTyped, NEW p \in Procs, NEW i \in 1..4, In(p) = <<p, i>>, Main(p)
  PROVE  Frame(p)
<1>1. CASE open_session(p)
  BY <1>1, OpenFrame
<1>2. CASE \E name : KeepsHandle(p, name) /\ Returns(p)
  BY <1>2, HandleFrame
<1>3. CASE KeepsData(p) /\ Returns(p)
  BY <1>3, DataFrame
<1>4. CASE KeepsNothing /\ (UNCHANGED at \/ Returns(p))
  BY <1>4, NothingFrame DEF KeepsNothing, Returns
<1>5. QED
  BY <1>1, <1>2, <1>3, <1>4
     DEF Main, ta_crypt_cmd_allocate_operation, ta_crypt_cmd_allocate_transient_object,
         ta_crypt_cmd_populate_transient_object, ta_crypt_cmd_generate_key,
         ta_crypt_cmd_get_object_buffer_attribute, ta_crypt_cmd_set_operation_key,
         ta_crypt_cmd_free_operation, ta_crypt_cmd_free_transient_object,
         ta_crypt_cmd_asymmetric_sign, ta_crypt_cmd_asymmetric_verify, derive_key,
         gen_key_25519, get_key_25519

LEMMA MainLocal ==
  ASSUME PoolTyped, NEW p \in Procs, In(p) \in Sessions, Main(p)
  PROVE  Local(In(p))
<1>1. CASE \E use : Allocate(In(p), "op", use) \/ Allocate(In(p), "obj", use)
  BY <1>1, AllocateLocal
<1>2. CASE \E h : \/ ta_entry_free_operation(In(p), h)
                  \/ ta_entry_free_transient_object(In(p), h)
  BY <1>2, FreeLocal DEF ta_entry_free_operation, ta_entry_free_transient_object
<1>3. CASE TA_OpenSessionEntryPoint(In(p), FALSE)
  BY <1>3, OpenLocal
<1>4. CASE \E h, k : \/ ta_entry_populate_transient_object(In(p), h, k)
                     \/ ta_entry_generate_key(In(p), h)
                     \/ ta_entry_get_object_buffer_attribute(In(p), h)
                     \/ ta_entry_set_operation_key(In(p), h, k)
  BY <1>4, PopulateLocal, GenerateLocal, GetLocal, SetKeyLocal
<1>5. CASE \E h, k : \/ ta_entry_asymmetric_sign_digest(In(p), h)
                     \/ ta_entry_asymmetric_verify_digest(In(p), h, k)
                     \/ \E o : test_derive_key(In(p), h, o, k)
  BY <1>5, SignLocal, VerifyLocal, DeriveLocal
<1>6. CASE \/ alloc_transient_object(In(p)) \/ gen_key(In(p)) \/ get_key(In(p))
  BY <1>6, AllocTransientLocal, GenKeyLocal, GetKeyLocal
<1>7. CASE \/ open_session(p) \/ ta_crypt_cmd_allocate_operation(p)
           \/ ta_crypt_cmd_allocate_transient_object(p)
           \/ ta_crypt_cmd_free_operation(p) \/ ta_crypt_cmd_free_transient_object(p)
  <2>1. CASE open_session(p)
    BY <1>3, <2>1 DEF open_session
  <2>2. CASE \/ ta_crypt_cmd_allocate_operation(p)
             \/ ta_crypt_cmd_allocate_transient_object(p)
    BY <1>1, <2>2
       DEF ta_crypt_cmd_allocate_operation, ta_crypt_cmd_allocate_transient_object,
           ta_entry_allocate_operation, ta_entry_allocate_transient_object
  <2>3. CASE \/ ta_crypt_cmd_free_operation(p)
             \/ ta_crypt_cmd_free_transient_object(p)
    BY <1>2, <2>3
       DEF ta_crypt_cmd_free_operation, ta_crypt_cmd_free_transient_object
  <2>4. QED
    BY <1>7, <2>1, <2>2, <2>3
<1>8. CASE \/ ta_crypt_cmd_populate_transient_object(p)
           \/ ta_crypt_cmd_generate_key(p)
           \/ ta_crypt_cmd_get_object_buffer_attribute(p)
           \/ ta_crypt_cmd_set_operation_key(p)
  BY <1>4, <1>8
     DEF ta_crypt_cmd_populate_transient_object, ta_crypt_cmd_generate_key,
         ta_crypt_cmd_get_object_buffer_attribute, ta_crypt_cmd_set_operation_key
<1>9. CASE \/ ta_crypt_cmd_asymmetric_sign(p) \/ ta_crypt_cmd_asymmetric_verify(p)
           \/ derive_key(p)
  BY <1>5, <1>9
     DEF ta_crypt_cmd_asymmetric_sign, ta_crypt_cmd_asymmetric_verify, derive_key
<1>10. CASE gen_key_25519(p) \/ get_key_25519(p)
  BY <1>6, <1>10 DEF gen_key_25519, get_key_25519
<1>11. QED
  BY <1>7, <1>8, <1>9, <1>10 DEF Main

LEMMA OthersUntouched ==
  ASSUME NEW p \in Procs, NEW q \in Procs, q # p, NEW i \in 1..4, Local(<<p, i>>),
         Frame(p)
  PROVE  Untouched(q)
<1>1. \A j \in 1..4 : <<q, j>> \in Sessions /\ <<q, j>> # <<p, i>>
  BY Sits4
<1>2. \A j \in 1..4 : inst'[<<q, j>>] = inst[<<q, j>>]
  BY <1>1 DEF Local, InstLocal
<1>3. ASSUME NEW j \in 1..4, NEW h \in Handles,
             slots[h].owner = <<q, j>> \/ slots'[h].owner = <<q, j>>
      PROVE  slots'[h] = slots[h]
  BY <1>1, <1>3 DEF Local, SlotsLocal
<1>4. reply' = reply \/ reply'.to \notin Mine(q)
  <2>1. <<p, i>> \notin Mine(q)
    BY DEF Mine
  <2>2. QED
    BY <2>1 DEF Local, ReplyLocal, Answer
<1>5. QED
  BY <1>2, <1>3, <1>4 DEF Untouched, Frame

(* One process where it goes, the others where they were.                  *)
LEMMA StepPreserves ==
  ASSUME DemoInv, NEW p \in Procs, NEW i \in 1..4, Local(<<p, i>>), Frame(p),
         NEW t \in TAs, t = TaOf(p), Goes(p, t)
  PROVE  DemoInv'
<1>1. ta' = ta
  BY DEF Local
<1>2. PoolTyped'
  <2>1. slots' = [h \in Handles |-> slots'[h]] /\ \A h \in Handles : Typed(slots[h])'
    BY DEF Local, SlotsLocal
  <2>2. DOMAIN inst' = Sessions /\ \A s \in Sessions : Whole(inst'[s])
    BY DEF Local, InstLocal
  <2>3. ta' \in [Sessions -> TAs]
    BY <1>1 DEF DemoInv, PoolTyped
  <2>4. QED
    BY <2>1, <2>2, <2>3 DEF PoolTyped, Whole, Typed
<1>3. \A q \in Procs, j \in 1..4 : ta'[<<q, j>>] = TaOf(q)'
  BY <1>1 DEF DemoInv, TaOf
<1>4. /\ DOMAIN at' = Procs /\ DOMAIN held' = Procs /\ DOMAIN got' = Sessions
      /\ \A q \in Procs : DOMAIN held'[q] = Names
  BY DEF DemoInv, Frame
<1>5. ASSUME NEW q \in Procs
      PROVE  InPlace(q)'
  <2>1. CASE q = p
    BY <1>1, <2>1 DEF Goes, InPlace, TaOf
  <2>2. CASE q # p
    <3>1. PICK u \in TAs, m \in Nat : u = TaOf(q) /\ m = at[q] /\ Progress(q, u, m)
      BY DEF DemoInv, InPlace
    <3>2. Untouched(q)
      BY <2>2, OthersUntouched
    <3>3. Progress(q, u, m)'
      BY <3>1, <3>2, UntouchedProgress
    <3>4. at'[q] = m /\ TaOf(q)' = u
      BY <1>1, <3>1, <3>2 DEF Untouched, TaOf
    <3>5. QED
      BY <3>3, <3>4 DEF InPlace
  <2>3. QED
    BY <2>1, <2>2
<1>6. QED
  BY <1>2, <1>3, <1>4, <1>5 DEF DemoInv

LEMMA MainPreserves ==
  ASSUME DemoInv, NEW p \in Procs, Main(p)
  PROVE  DemoInv'
<1>1. PICK t \in TAs, n \in Nat : Standing(p, t, n)
  BY Stands DEF Main
<1>2. Goes(p, t) /\ t = TaOf(p)
  BY <1>1, MainGoes DEF Standing
<1>3. PICK i \in 1..4 : In(p) = <<p, i>> /\ In(p) \in Sessions
  BY <1>1, Here
<1>4. ClientsTyped /\ PoolTyped
  BY DEF DemoInv, ClientsTyped
<1>5. Frame(p)
  BY <1>3, <1>4, MainFrame
<1>6. Local(<<p, i>>)
  BY <1>3, <1>4, MainLocal
<1>7. QED
  BY <1>2, <1>5, <1>6, StepPreserves

LEMMA FewShrinks ==
  ASSUME NEW S, NEW T, T \subseteq S, NEW k, Few(S, k)
  PROVE  Few(T, k)
BY DEF Few

LEMMA ExitPreserves ==
  ASSUME DemoInv, NEW p \in Procs, Exit(p)
  PROVE  DemoInv'
<1>1. PICK i \in 1..4 :
        TA_CloseSessionEntryPoint(<<p, i>>) \/ DestroyInstance(<<p, i>>)
  BY DEF Exit
<1>2. ClientsTyped /\ PoolTyped /\ <<p, i>> \in Sessions
  BY Sits4 DEF DemoInv, ClientsTyped
<1>3. Local(<<p, i>>)
  BY <1>1, <1>2, CloseLocal, DestroyLocal
<1>4. /\ at' = [at EXCEPT ![p] = Gone] /\ held' = [held EXCEPT ![p] = NoHandles]
      /\ got' = [s \in Sessions |-> IF s[1] = p THEN NoKey ELSE got[s]]
  BY DEF Exit
<1>5. Frame(p)
  <2>1. DOMAIN NoHandles = Names
    BY DEF NoHandles, Names
  <2>2. ASSUME NEW q \in Procs, NEW j \in 1..4, q # p
        PROVE  got'[<<q, j>>] = got[<<q, j>>]
    BY <1>4, <2>2, Sits4
  <2>3. QED
    BY <1>2, <1>4, <2>1, <2>2 DEF Frame, ClientsTyped
<1>6. SlotsOf(p)' \subseteq SlotsOf(p)
  <2>1. CASE TA_CloseSessionEntryPoint(<<p, i>>)
    BY <2>1 DEF TA_CloseSessionEntryPoint, SlotsOf
  <2>2. CASE DestroyInstance(<<p, i>>)
    <3>1. slots' = [h \in Handles |-> IF slots[h].owner = <<p, i>> THEN Free ELSE slots[h]]
      BY <2>2 DEF DestroyInstance, Reclaim
    <3>2. \A j \in 1..4 : Free.owner # <<p, j>>
      BY Sits4, TeeCoreAssumption DEF Free
    <3>3. ASSUME NEW h \in Handles, NEW j \in 1..4, slots'[h].owner = <<p, j>>
          PROVE  slots[h].owner = <<p, j>>
      BY <3>1, <3>2, <3>3
    <3>4. QED
      BY <3>3 DEF SlotsOf
  <2>3. QED
    BY <1>1, <2>1, <2>2
<1>7. PICK t \in TAs, n \in Nat : t = TaOf(p) /\ n = at[p] /\ Progress(p, t, n)
  BY DEF DemoInv, InPlace
<1>8. Few(SlotsOf(p), Bound(t))
  <2>1. n \in {0, 50, 52}
    BY <1>7 DEF Exit, Failed, Passing, Gone
  <2>2. n \notin 1..Length(t) /\ n # 51
    BY <2>1 DEF Length
  <2>3. Ends(p, t, n)
    BY <1>7, <2>2 DEF Progress, Stranger
  <2>4. QED
    BY <2>3 DEF Ends
<1>9. Ends(p, t, 52)'
  <2>1. PICK S, T : S = SlotsOf(p) /\ T = SlotsOf(p)'
    OBVIOUS
  <2>2. Few(T, Bound(t))
    BY <1>6, <1>8, <2>1, FewShrinks
  <2>3. Few(SlotsOf(p), Bound(t))'
    BY <2>1, <2>2 DEF Few
  <2>4. QED
    BY <2>3 DEF Ends, Passing, Failed
<1>10. at'[p] = 52
  BY <1>2, <1>4 DEF Gone, ClientsTyped
<1>11. Goes(p, t)
  BY <1>9, <1>10 DEF Goes, Progress, Gone
<1>12. QED
  BY <1>3, <1>5, <1>7, <1>11, StepPreserves

LEMMA AnyCommandPreserves ==
  ASSUME DemoInv, NEW p \in Procs, AnyCommand(p)
  PROVE  DemoInv'
<1>1. ClientsTyped /\ PoolTyped /\ 1 \in 1..4
  BY DEF DemoInv, ClientsTyped
<1>2. \A i \in 1..4 : <<p, i>> \in Sessions
  BY Sits4
<1>3. <<p, 1>> \in Sessions
  BY <1>1, <1>2
<1>4. Local(<<p, 1>>)
  BY <1>1, <1>3, OpenLocal, InvokeLocal, CloseLocal, DestroyLocal DEF AnyCommand
<1>5. Frame(p)
  BY <1>1, NothingFrame DEF AnyCommand, KeepsNothing
<1>6. PICK t \in TAs : t = TaOf(p)
  BY DEF DemoInv, InPlace
<1>7. at'[p] = 51
  BY DEF AnyCommand, Stranger
<1>8. Goes(p, t)
  BY <1>7 DEF Goes, Progress, Stranger
<1>9. QED
  BY <1>1, <1>4, <1>5, <1>6, <1>8, StepPreserves

LEMMA StutterPreserves ==
  ASSUME DemoInv, UNCHANGED demoVars
  PROVE  DemoInv'
<1>1. /\ ta' = ta /\ inst' = inst /\ slots' = slots /\ reply' = reply /\ at' = at
      /\ held' = held /\ got' = got
  BY DEF demoVars
<1>2. PoolTyped'
  BY <1>1 DEF DemoInv, PoolTyped, Typed, Whole
<1>3. ASSUME NEW p \in Procs PROVE InPlace(p)'
  <2>1. PICK t \in TAs, n \in Nat : t = TaOf(p) /\ n = at[p] /\ Progress(p, t, n)
    BY DEF DemoInv, InPlace
  <2>2. Untouched(p)
    BY <1>1 DEF Untouched
  <2>3. Progress(p, t, n)'
    BY <2>1, <2>2, UntouchedProgress
  <2>4. QED
    BY <1>1, <2>1, <2>3 DEF InPlace, TaOf
<1>4. QED
  BY <1>1, <1>2, <1>3 DEF DemoInv, TaOf

LEMMA InitPreserves == DemoInit => DemoInv
<1>1. SUFFICES ASSUME DemoInit PROVE DemoInv
  OBVIOUS
<1>2. \A s \in Sessions : inst[s] = Closed
  BY <1>1 DEF DemoInit, Init
<1>3. \A h \in Handles : slots[h] = Free
  BY <1>1 DEF DemoInit, Init
<1>4. PoolTyped
  <2>1. Whole(Closed)
    BY DEF Whole, Closed
  <2>2. QED
    BY <1>1, <1>2, <1>3, <2>1 DEF DemoInit, Init, PoolTyped, Typed
<1>5. /\ DOMAIN at = Procs /\ DOMAIN held = Procs /\ DOMAIN got = Sessions
      /\ \A p \in Procs : DOMAIN held[p] = Names
  BY <1>1 DEF DemoInit, NoHandles, Names
<1>6. \A p \in Procs, i \in 1..4 : ta[<<p, i>>] = TaOf(p)
  BY <1>1 DEF DemoInit, TaOf
<1>7. ASSUME NEW p \in Procs
      PROVE  InPlace(p)
  <2>1. \A i \in 1..4 : <<p, i>> \in Sessions
    BY Sits4
  <2>2. PICK t \in TAs : t = TaOf(p)
    BY <1>4, <2>1 DEF PoolTyped, TaOf
  <2>3. \A i \in 1..4 : Owned(<<p, i>>) = {}
    BY <1>3, <2>1, TeeCoreAssumption DEF Owned, Free
  <2>4. Sits(p, t, 1)
    <3>1. Opened(t, 1) = 0
      BY DEF Opened, Opens, Cur, TAs
    <3>2. QED
      BY <1>2, <2>1, <2>3, <3>1 DEF Sits
  <2>5. Items(p, t, 1)
    BY DEF Items, Alive, Step, TAs
  <2>6. Left(p, t, 1)
    <3>1. LeftCurve(p, 1)
      BY <2>3 DEF LeftCurve
    <3>2. Only(p, t, 1)
      BY <2>3, CurIn DEF Only
    <3>3. QED
      BY <3>1, <3>2 DEF Left, LeftEcdsa
  <2>7. Knows(p, t, 1)
    BY DEF Knows
  <2>8. at[p] = 1 \/ at[p] = 51
    BY <1>1 DEF DemoInit, Stranger
  <2>9. 1 \in 1..Length(t)
    BY DEF Length
  <2>10. QED
    BY <2>2, <2>4, <2>5, <2>6, <2>7, <2>8, <2>9 DEF InPlace, Progress, Runs, Stranger
<1>8. QED
  BY <1>4, <1>5, <1>6, <1>7 DEF DemoInv

(* The inductive invariant: every main is where its script says, with just *)
(* the slots, keys and results that belong there.                          *)
THEOREM MainsAreInPlace == DemoSpec => []DemoInv
<1>1. DemoInit => DemoInv
  BY InitPreserves
<1>2. DemoInv /\ [DemoNext]_demoVars => DemoInv'
  BY MainPreserves, ExitPreserves, AnyCommandPreserves, StutterPreserves DEF DemoNext
<1>3. QED
  BY <1>1, <1>2, PTL DEF DemoSpec
-----------------------------------------------------------------------------
(* What the place of a process says of it, at the end and on the way.      *)

LEMMA AtTheEnd ==
  ASSUME DemoInv, NEW p \in Procs, at[p] \in {Failed, Passing}
  PROVE  Ends(p, TaOf(p), at[p]) /\ TaOf(p) \in TAs
<1>1. PICK t \in TAs, n \in Nat : t = TaOf(p) /\ n = at[p] /\ Progress(p, t, n)
  BY DEF DemoInv, InPlace
<1>2. n \in {0, 50}
  BY <1>1 DEF Failed, Passing
<1>3. n \notin 1..Length(t) /\ n # 51
  BY <1>2 DEF Length
<1>4. QED
  BY <1>1, <1>3 DEF Progress, Stranger

LEMMA FewAreFew ==
  ASSUME NEW S, NEW k \in {2, 4}, Few(S, k)
  PROVE  Cardinality(S) \in Nat /\ Cardinality(S) <= k
<1>1. PICK a, b, c, d : S \subseteq {a, b, c, d} /\ (k = 2 => c = a /\ d = b)
  BY DEF Few
<1>2. ASSUME NEW x, NEW y
      PROVE  IsFiniteSet({x, y}) /\ Cardinality({x, y}) \in Nat /\ Cardinality({x, y}) <= 2
  <2>1. IsFiniteSet({x}) /\ Cardinality({x}) = 1
    BY FS_Singleton
  <2>2. {x, y} = {x} \cup {y}
    OBVIOUS
  <2>3. /\ IsFiniteSet({x} \cup {y})
        /\ Cardinality({x} \cup {y}) = IF y \in {x} THEN 1 ELSE 1 + 1
    BY <2>1, FS_AddElement
  <2>4. QED
    BY <2>2, <2>3
<1>3. PICK T : S \subseteq T /\ IsFiniteSet(T) /\ Cardinality(T) \in Nat /\ Cardinality(T) <= k
  <2>1. CASE k = 2
    <3>1. S \subseteq {a, b}
      BY <1>1, <2>1
    <3>2. QED
      BY <1>2, <2>1, <3>1
  <2>2. CASE k = 4
    <3> DEFINE V == {a, b}
               U == V \cup {c}
    <3>1. IsFiniteSet(V) /\ Cardinality(V) \in Nat /\ Cardinality(V) <= 2
      BY <1>2
    <3>2. IsFiniteSet(U) /\ Cardinality(U) \in Nat /\ Cardinality(U) <= 3
      <4> HIDE DEF V
      <4>1. /\ IsFiniteSet(V \cup {c})
            /\ Cardinality(V \cup {c}) =
                 IF c \in V THEN Cardinality(V) ELSE Cardinality(V) + 1
        BY <3>1, FS_AddElement
      <4>2. QED
        BY <3>1, <4>1
    <3>3. S \subseteq U \cup {d}
      BY <1>1
    <3> HIDE DEF U
    <3>4. /\ IsFiniteSet(U \cup {d})
          /\ Cardinality(U \cup {d}) = IF d \in U THEN Cardinality(U) ELSE Cardinality(U) + 1
      BY <3>2, FS_AddElement
    <3>5. QED
      BY <2>2, <3>2, <3>3, <3>4
  <2>3. QED
    BY <2>1, <2>2
<1>4. IsFiniteSet(S) /\ Cardinality(S) <= Cardinality(T)
  BY <1>3, FS_Subset
<1>5. Cardinality(S) \in Nat
  BY <1>4, FS_CardinalityType
<1>6. QED
  BY <1>3, <1>4, <1>5

(* Both sides of a key agreement come to the secret of both pairs, and     *)
(* ECDH to that of its test vector, whatever handles another process       *)
(* passes and frees in between.                                            *)
THEOREM SidesAgree == DemoSpec => []SecretsAgree
<1>1. DemoInv => SecretsAgree
  BY AtTheEnd DEF Ends, SecretsAgree, TaOf, Agreed, Passing
<1>2. QED
  BY <1>1, MainsAreInPlace, PTL

(* An ECDSA main that reports success has verified, with the key pair it   *)
(* generated in an earlier session, what it signed with that pair, none of *)
(* whose attributes lost a leading zero on the way.                        *)
THEOREM VerifiedIsSigned == DemoSpec => []SignatureVerifies
<1>1. DemoInv => SignatureVerifies
  BY AtTheEnd DEF Ends, SignatureVerifies, TaOf, Pair, Passing
<1>2. QED
  BY <1>1, MainsAreInPlace, PTL

(* No main fails on a handle the core does not know, or on an object or an *)
(* operation in the wrong state: only resources and a leading zero do it.  *)
THEOREM FailureHasCause == DemoSpec => []FailsForCause
<1>1. DemoInv => FailsForCause
  BY AtTheEnd DEF Ends, FailsForCause, Mine, Failed, Passing
<1>2. QED
  BY <1>1, MainsAreInPlace, PTL

(* What a main holds of the pool is bounded at every step of it, and what  *)
(* it leaves there at its end, before its sessions are closed.             *)
THEOREM FootprintIsBounded == DemoSpec => []Footprint
<1>1. ASSUME DemoInv, NEW p \in Procs, at[p] # Stranger
      PROVE  /\ Cardinality(SlotsOf(p)) <= IF TaOf(p) = "ecdh" THEN 2 ELSE 4
             /\ at[p] = Passing =>
                  CASE TaOf(p) = "ecdsa" -> Cardinality(SlotsOf(p)) <= 2
                    [] TaOf(p) = "ecdh" -> SlotsOf(p) = {}
                    [] TaOf(p) = "curve" -> Cardinality(SlotsOf(p)) <= 2
  <2>1. PICK t \in TAs, n \in Nat : t = TaOf(p) /\ n = at[p] /\ Progress(p, t, n)
    BY <1>1 DEF DemoInv, InPlace
  <2>2. Few(SlotsOf(p), Bound(t))
    <3>1. CASE n \in 1..Length(t) /\ Runs(p, t, n)
      BY <3>1, SlotsBound
    <3>2. CASE Ends(p, t, n)
      BY <3>2 DEF Ends
    <3>3. QED
      BY <1>1, <2>1, <3>1, <3>2 DEF Progress
  <2>3. Bound(t) \in {2, 4} /\ Bound(t) = IF t = "ecdh" THEN 2 ELSE 4
    BY DEF Bound
  <2>4. Cardinality(SlotsOf(p)) <= Bound(t)
    BY <2>2, <2>3, FewAreFew
  <2>5. ASSUME n = Passing, t \in {"ecdsa", "curve"}
        PROVE  Cardinality(SlotsOf(p)) <= 2
    <3>1. Few(SlotsOf(p), 2)
      BY <1>1, <2>1, <2>5, AtTheEnd DEF Ends
    <3>2. QED
      BY <3>1, FewAreFew
  <2>6. n = Passing /\ t = "ecdh" => SlotsOf(p) = {}
    BY <1>1, <2>1, AtTheEnd DEF Ends
  <2>7. QED
    BY <2>1, <2>3, <2>4, <2>5, <2>6 DEF TAs
<1>2. DemoInv => Footprint
  BY <1>1 DEF Footprint, TaOf
<1>3. QED
  BY <1>2, MainsAreInPlace, PTL
-----------------------------------------------------------------------------
(* The TAs, whoever their clients are: a step in a session neither moves   *)
(* another one nor changes a slot of the pool that another one holds, and  *)
(* what it changes ends as its own or as free.                             *)
StaysWithin(s) ==
  /\ \A r \in Sessions : r # s => inst'[r] = inst[r]
  /\ \A h \in Handles : slots'[h] # slots[h] =>
       slots[h].owner \in {s, Null} /\ slots'[h].owner \in {s, Null}

LEMMA NextLocal ==
  ASSUME PoolTyped, Next
  PROVE  \E s \in Sessions : Local(s)
<1>1. PICK s \in Sessions :
        \/ \E parameters \in BOOLEAN : TA_OpenSessionEntryPoint(s, parameters)
        \/ TA_InvokeCommandEntryPoint(s, Materials)
        \/ TA_CloseSessionEntryPoint(s)
        \/ DestroyInstance(s)
  BY DEF Next
<1>2. QED
  BY <1>1, OpenLocal, InvokeLocal, CloseLocal, DestroyLocal

LEMMA LocalTyped ==
  ASSUME PoolTyped, NEW s \in Sessions, Local(s)
  PROVE  PoolTyped'
<1>1. slots' = [h \in Handles |-> slots'[h]] /\ \A h \in Handles : Typed(slots[h])'
  BY DEF Local, SlotsLocal
<1>2. DOMAIN inst' = Sessions /\ \A r \in Sessions : Whole(inst'[r])
  BY DEF Local, InstLocal
<1>3. ta' \in [Sessions -> TAs]
  BY DEF Local, PoolTyped
<1>4. QED
  BY <1>1, <1>2, <1>3 DEF PoolTyped, Whole, Typed

LEMMA LocalStays ==
  ASSUME PoolTyped, NEW s \in Sessions, Local(s)
  PROVE  StaysWithin(s)
<1>1. \A r \in Sessions : r # s => inst'[r] = inst[r]
  BY DEF Local, InstLocal
<1>2. PoolTyped'
  BY LocalTyped
<1>3. ASSUME NEW h \in Handles, slots'[h] # slots[h]
      PROVE  slots[h].owner \in {s, Null} /\ slots'[h].owner \in {s, Null}
  <2>1. Typed(slots[h]) /\ Typed(slots'[h])
    BY <1>2 DEF PoolTyped, Typed
  <2>2. /\ slots[h].owner \in Sessions \cup {Null}
        /\ slots'[h].owner \in Sessions \cup {Null}
    BY <2>1 DEF Typed, Free
  <2>3. \A r \in Sessions : r # s => slots[h].owner # r /\ slots'[h].owner # r
    BY <1>3 DEF Local, SlotsLocal
  <2>4. QED
    BY <2>2, <2>3
<1>4. QED
  BY <1>1, <1>3 DEF StaysWithin

LEMMA PoolInvariant == Spec => []PoolTyped
<1>1. Init => PoolTyped
  <2>1. Whole(Closed) /\ Typed(Free)
    BY DEF Whole, Closed, Typed
  <2>2. QED
    BY <2>1 DEF Init, PoolTyped
<1>2. PoolTyped /\ [Next]_vars => PoolTyped'
  <2>1. PoolTyped /\ Next => PoolTyped'
    BY NextLocal, LocalTyped
  <2>2. PoolTyped /\ UNCHANGED vars => PoolTyped'
    BY DEF vars, PoolTyped, Whole, Typed
  <2>3. QED
    BY <2>1, <2>2
<1>3. QED
  BY <1>1, <1>2, PTL DEF Spec

(* Whatever handles and keys clients pass, and although the TAs keep no    *)
(* table of the handles they gave away, a command works on slots of its    *)
(* own session only, a close gives back those alone, and nobody's instance *)
(* but the caller's moves.                                                 *)
THEOREM SessionsAreIsolated == Spec => [][\E s \in Sessions : StaysWithin(s)]_vars
<1>1. PoolTyped /\ [Next]_vars => [\E s \in Sessions : StaysWithin(s)]_vars
  BY NextLocal, LocalStays
<1>2. QED
  BY <1>1, PoolInvariant, PTL DEF Spec
-----------------------------------------------------------------------------
(* The mains call the TAs: what they do are commands of HandleTA, with     *)
(* handles of the session and with keys there are.                         *)

(* The handle a call passes is one of its session.                         *)
LEMMA PassesOwn ==
  ASSUME NEW p \in Procs, NEW t \in TAs, NEW n \in Nat, Standing(p, t, n), NEW name,
         \/ /\ name = Now(p).about
            /\ Now(p).cmd \in {"populate", "generate", "get", "fetch", "set_key",
                               "free", "derive"}
         \/ /\ name = "op"
            /\ Now(p).cmd \in {"set_key", "free_op", "sign", "verify", "derive"}
  PROVE  held[p][name] \in Handles /\ held[p][name] \in Passed(In(p))
<1>1. Asked(Now(p), t, n)
  BY DEF Standing
<1>2. \/ name = "op" /\ At(t, n, {13, 15, 16, 18, 20}, {5, 8, 10})
      \/ name = "key" /\ At(t, n, {3, 4, 10, 11, 13, 14}, {4, 5, 6})
      \/ name = "pub" /\ At(t, n, {7, 8, 18, 19}, {})
      \/ name = "sv" /\ At(t, n, {}, {8, 9, 11})
  <2>1. CASE t = "ecdsa"
    BY <1>1, <2>1 DEF Asked, At
  <2>2. CASE t # "ecdsa"
    BY <1>1, <2>2 DEF Asked, At
  <2>3. QED
    BY <2>1, <2>2
<1>3. name \in Names /\ Alive(t, n, name)
  <2>1. CASE t = "ecdsa"
    BY <1>2, <2>1 DEF At, Alive, Names
  <2>2. CASE t # "ecdsa"
    BY <1>2, <2>2 DEF At, Alive, Names
  <2>3. QED
    BY <2>1, <2>2
<1>4. QED
  BY <1>3, Looks DEF Owns, Passed

LEMMA GeneratedIsKey ==
  ASSUME NEW p \in Procs, NEW k \in Generated(p)
  PROVE  /\ k \in Materials /\ PublicHalf(k) \in Materials
         /\ k.priv # Null
<1>1. PICK b \in BOOLEAN : k = [pub |-> <<p, 1>>, priv |-> <<p, 1>>, short |-> b]
  BY DEF Generated
<1>2. <<p, 1>> \in Halves /\ <<p, 1>> # Null
  <2>1. \A i \in 1..4 : <<p, i>> \in Sessions /\ <<p, i>> # Null
    BY Sits4, TeeCoreAssumption
  <2>2. QED
    BY <2>1 DEF Halves
<1>3. PublicHalf(k) = [pub |-> <<p, 1>>, priv |-> Null, short |-> b]
  BY <1>1 DEF PublicHalf
<1>4. QED
  BY <1>1, <1>2, <1>3 DEF Materials

LEMMA MaterialIsKey ==
  ASSUME NEW a \in Halves, NEW b \in Halves \cup {Null}
  PROVE  Material(a, b) \in Materials /\ Material(a, b).pub = a
BY DEF Material, Materials

LEMMA HalvesAre ==
  /\ Peer \in Halves /\ Own \in Halves
  /\ \A p \in Procs, i \in 1..4 : <<p, i>> \in Halves
BY Sits4, DemoAssumption DEF Halves

(* The key a call of a main brings.                                        *)
LEMMA BringsKey ==
  ASSUME NEW p \in Procs, NEW t \in TAs, NEW n \in Nat, Standing(p, t, n),
         Now(p).cmd = "populate"
  PROVE  Brings(p) \in Materials
<1>1. /\ Knows(p, t, n) /\ n \in 1..Length(t) /\ ta[<<p, 1>>] = t
      /\ Now(p).i = Cur(t, n)
      /\ At(t, n, {7, 10}, {4})
  BY DEF Standing, Runs, TaOf, Asked, At
<1>2. CASE t = "ecdsa"
  <2>1. got[<<p, 1>>] \in Generated(p)
    BY <1>1, <1>2 DEF At, Knows
  <2>2. Brings(p) \in {got[<<p, 1>>], PublicHalf(got[<<p, 1>>])}
    BY <1>1, <1>2 DEF Brings
  <2>3. QED
    BY <2>1, <2>2, GeneratedIsKey
<1>3. CASE t = "ecdh"
  BY <1>1, <1>3, HalvesAre, MaterialIsKey DEF Brings
<1>4. CASE t = "curve"
  <2>1. n >= 7
    BY <1>1, <1>4 DEF At, Step
  <2>2. got[<<p, 1>>] = Pair(<<p, 1>>) /\ got[<<p, 2>>] = Pair(<<p, 2>>)
    BY <1>1, <1>4, <2>1 DEF Knows
  <2>3. /\ got[<<p, 1>>].pub = <<p, 1>> /\ got[<<p, 1>>].priv = <<p, 1>>
        /\ got[<<p, 2>>].pub = <<p, 2>> /\ got[<<p, 2>>].priv = <<p, 2>>
    BY <2>2 DEF Pair, Material
  <2>4. Brings(p) \in {Material(<<p, 1>>, <<p, 2>>), Material(<<p, 2>>, <<p, 1>>)}
    <3>1. 3 - 1 = 2 /\ 3 - 2 = 1
      OBVIOUS
    <3>2. QED
      BY <1>1, <1>4, <2>3, <3>1 DEF Brings
  <2>5. <<p, 1>> \in Halves /\ <<p, 2>> \in Halves
    <3>1. 1 \in 1..4 /\ 2 \in 1..4
      OBVIOUS
    <3>2. QED
      BY <3>1, HalvesAre
  <2>6. QED
    BY <2>4, <2>5, MaterialIsKey
<1>5. QED
  BY <1>2, <1>3, <1>4 DEF TAs

(* The peer of a derivation is the public half of some key.                *)
PeerOf(p, t) ==
  IF t = "ecdh" THEN Peer ELSE got[<<p, IF Now(p).i = 3 THEN 1 ELSE 2>>].pub

LEMMA PeerIsKey ==
  ASSUME NEW p \in Procs, NEW t \in TAs, NEW n \in Nat, Standing(p, t, n),
         Now(p).cmd = "derive"
  PROVE  \E k \in Materials : k.pub = PeerOf(p, t)
<1>1. /\ Knows(p, t, n) /\ n \in 1..Length(t) /\ Now(p).i = Cur(t, n)
      /\ At(t, n, {}, {8})
  BY DEF Standing, Runs, Asked
<1>2. CASE t = "ecdh"
  <2>1. PeerOf(p, t) = Peer
    BY <1>2 DEF PeerOf
  <2>2. QED
    BY <2>1, HalvesAre, MaterialIsKey
<1>3. CASE t = "curve"
  <2>1. n >= 7
    BY <1>1, <1>3 DEF At, Step
  <2>2. got[<<p, 1>>].pub = <<p, 1>> /\ got[<<p, 2>>].pub = <<p, 2>>
    BY <1>1, <1>3, <2>1 DEF Knows, Pair, Material
  <2>3. PeerOf(p, t) \in {<<p, 1>>, <<p, 2>>}
    BY <1>3, <2>2 DEF PeerOf
  <2>4. PeerOf(p, t) \in Halves
    <3>1. 1 \in 1..4 /\ 2 \in 1..4
      OBVIOUS
    <3>2. QED
      BY <2>3, <3>1, HalvesAre
  <2>5. QED
    BY <2>4, MaterialIsKey
<1>4. QED
  BY <1>1, <1>2, <1>3 DEF TAs, At

LEMMA SignatureIsOfKey ==
  ASSUME NEW p \in Procs, NEW t \in TAs, NEW n \in Nat, Standing(p, t, n),
         Now(p).cmd = "verify"
  PROVE  got[In(p)] \in Materials /\ got[In(p)].priv # Null
<1>1. t = "ecdsa" /\ n = 20
  BY DEF Standing, Asked, At
<1>2. In(p) = <<p, 2>>
  BY <1>1, Here DEF Cur
<1>3. got[<<p, 2>>] \in Generated(p)
  BY <1>1 DEF Standing, Runs, Knows
<1>4. QED
  BY <1>2, <1>3, GeneratedIsKey

LEMMA CallsTheTA ==
  ASSUME NEW p \in Procs, NEW t \in TAs, NEW n \in Nat, Standing(p, t, n), Main(p)
  PROVE  Next
<1>1. PICK s \in Sessions : s = In(p) /\ ta[s] = t
  BY Here
<1>2. TA_InvokeCommandEntryPoint(s, Materials) => Next
  BY DEF Next
<1>3. CASE open_session(p)
  BY <1>1, <1>3 DEF open_session, Next
<1>4. CASE \/ ta_crypt_cmd_allocate_operation(p)
           \/ ta_crypt_cmd_allocate_transient_object(p)
  <2>1. CASE ta_crypt_cmd_allocate_operation(p)
    <3>1. Now(p).about \in Modes
      BY <2>1 DEF ta_crypt_cmd_allocate_operation, Standing, Asked, UseOf, Modes
    <3>2. QED
      BY <1>1, <1>2, <2>1, <3>1
         DEF ta_crypt_cmd_allocate_operation, TA_InvokeCommandEntryPoint
  <2>2. CASE ta_crypt_cmd_allocate_transient_object(p)
    <3>1. TypeOf(Now(p).about) \in Types
      BY <2>2 DEF ta_crypt_cmd_allocate_transient_object, Standing, Asked, TypeOf, Types
    <3>2. QED
      BY <1>1, <1>2, <2>2, <3>1
         DEF ta_crypt_cmd_allocate_transient_object, TA_InvokeCommandEntryPoint
  <2>3. QED
    BY <1>4, <2>1, <2>2
<1>5. CASE ta_crypt_cmd_free_operation(p) \/ ta_crypt_cmd_free_transient_object(p)
  <2>1. CASE ta_crypt_cmd_free_operation(p)
    <3>1. Op(p) \in Handles
      BY <2>1, PassesOwn DEF ta_crypt_cmd_free_operation, Op
    <3>2. QED
      BY <1>1, <1>2, <2>1, <3>1
         DEF ta_crypt_cmd_free_operation, TA_InvokeCommandEntryPoint
  <2>2. CASE ta_crypt_cmd_free_transient_object(p)
    <3>1. Obj(p) \in Handles
      BY <2>2, PassesOwn DEF ta_crypt_cmd_free_transient_object, Obj
    <3>2. QED
      BY <1>1, <1>2, <2>2, <3>1
         DEF ta_crypt_cmd_free_transient_object, TA_InvokeCommandEntryPoint
  <2>3. QED
    BY <1>5, <2>1, <2>2
<1>6. CASE \/ ta_crypt_cmd_populate_transient_object(p)
           \/ ta_crypt_cmd_generate_key(p)
           \/ ta_crypt_cmd_get_object_buffer_attribute(p)
  <2>1. Obj(p) \in Passed(s)
    BY <1>1, <1>6, PassesOwn
       DEF ta_crypt_cmd_populate_transient_object, ta_crypt_cmd_generate_key,
           ta_crypt_cmd_get_object_buffer_attribute, Obj
  <2>2. CASE ta_crypt_cmd_populate_transient_object(p)
    <3>1. Brings(p) \in Materials
      BY <2>2, BringsKey DEF ta_crypt_cmd_populate_transient_object
    <3>2. QED
      BY <1>1, <1>2, <2>1, <2>2, <3>1
         DEF ta_crypt_cmd_populate_transient_object, TA_InvokeCommandEntryPoint
  <2>3. CASE ta_crypt_cmd_generate_key(p)
    BY <1>1, <1>2, <2>1, <2>3 DEF ta_crypt_cmd_generate_key, TA_InvokeCommandEntryPoint
  <2>4. CASE ta_crypt_cmd_get_object_buffer_attribute(p)
    BY <1>1, <1>2, <2>1, <2>4
       DEF ta_crypt_cmd_get_object_buffer_attribute, TA_InvokeCommandEntryPoint
  <2>5. QED
    BY <1>6, <2>2, <2>3, <2>4
<1>7. CASE ta_crypt_cmd_set_operation_key(p) \/ derive_key(p)
  <2>1. Op(p) \in Passed(s) /\ Obj(p) \in Passed(s)
    BY <1>1, <1>7, PassesOwn DEF ta_crypt_cmd_set_operation_key, derive_key, Op, Obj
  <2>2. CASE ta_crypt_cmd_set_operation_key(p)
    BY <1>1, <1>2, <2>1, <2>2
       DEF ta_crypt_cmd_set_operation_key, TA_InvokeCommandEntryPoint
  <2>3. CASE derive_key(p)
    <3>1. PICK k \in Materials : k.pub = PeerOf(p, t)
      BY <2>3, PeerIsKey DEF derive_key
    <3>2. test_derive_key(s, Op(p), Obj(p), k.pub)
      BY <1>1, <2>3, <3>1 DEF derive_key, PeerOf
    <3>3. QED
      BY <1>2, <2>1, <3>2 DEF TA_InvokeCommandEntryPoint
  <2>4. QED
    BY <1>7, <2>2, <2>3
<1>8. CASE ta_crypt_cmd_asymmetric_sign(p) \/ ta_crypt_cmd_asymmetric_verify(p)
  <2>1. Op(p) \in Passed(s)
    BY <1>1, <1>8, PassesOwn
       DEF ta_crypt_cmd_asymmetric_sign, ta_crypt_cmd_asymmetric_verify, Op
  <2>2. CASE ta_crypt_cmd_asymmetric_sign(p)
    BY <1>1, <1>2, <2>1, <2>2
       DEF ta_crypt_cmd_asymmetric_sign, TA_InvokeCommandEntryPoint
  <2>3. CASE ta_crypt_cmd_asymmetric_verify(p)
    <3>1. got[s] \in Materials /\ got[s].priv # Null
      BY <1>1, <2>3, SignatureIsOfKey DEF ta_crypt_cmd_asymmetric_verify
    <3>2. ta_entry_asymmetric_verify_digest(s, Op(p), got[s])
      BY <1>1, <2>3 DEF ta_crypt_cmd_asymmetric_verify
    <3>3. QED
      BY <1>2, <2>1, <3>1, <3>2 DEF TA_InvokeCommandEntryPoint
  <2>4. QED
    BY <1>8, <2>2, <2>3
<1>9. CASE gen_key_25519(p) \/ get_key_25519(p)
  BY <1>1, <1>2, <1>9 DEF gen_key_25519, get_key_25519, TA_InvokeCommandEntryPoint
<1>10. QED
  BY <1>3, <1>4, <1>5, <1>6, <1>7, <1>8, <1>9 DEF Main

LEMMA StrangerCallsTheTA ==
  ASSUME NEW p \in Procs, AnyCommand(p)
  PROVE  Next
<1>1. PICK s \in Sessions : s = <<p, 1>>
  <2>1. 1 \in 1..4
    OBVIOUS
  <2>2. QED
    BY <2>1, Sits4
<1>2. {Material(s, s), Material(s, Null)} \subseteq Materials
  BY MaterialIsKey DEF Halves
<1>3. PICK keys : keys = {Material(s, s), Material(s, Null)}
  OBVIOUS
<1>4. TA_InvokeCommandEntryPoint(s, keys) => TA_InvokeCommandEntryPoint(s, Materials)
  BY <1>2, <1>3 DEF TA_InvokeCommandEntryPoint
<1>5. \/ \E parameters \in BOOLEAN : TA_OpenSessionEntryPoint(s, parameters)
      \/ TA_InvokeCommandEntryPoint(s, keys)
      \/ TA_CloseSessionEntryPoint(s)
      \/ DestroyInstance(s)
  BY <1>1, <1>3 DEF AnyCommand
<1>6. QED
  BY <1>4, <1>5 DEF Next

(* Every behaviour of the mains, and of a stranger beside them, is one of  *)
(* the three TAs: each call is a command of theirs in a session of the     *)
(* process, with handles that session was given and keys that exist, so    *)
(* that what is proved of the TAs holds under their demonstrations.        *)
THEOREM ClientsRunTheTA == DemoSpec => Spec
<1>1. DemoInit => Init
  BY DEF DemoInit
<1>2. DemoInv /\ [DemoNext]_demoVars => [Next]_vars
  <2>1. ASSUME DemoInv, NEW p \in Procs, Main(p)
        PROVE  Next
    <3>1. PICK t \in TAs, n \in Nat : Standing(p, t, n)
      BY <2>1, Stands DEF Main
    <3>2. QED
      BY <2>1, <3>1, CallsTheTA
  <2>2. ASSUME NEW p \in Procs, Exit(p)
        PROVE  Next
    <3>1. PICK i \in 1..4 :
            TA_CloseSessionEntryPoint(<<p, i>>) \/ DestroyInstance(<<p, i>>)
      BY <2>2 DEF Exit
    <3>2. <<p, i>> \in Sessions
      BY Sits4
    <3>3. QED
      BY <3>1, <3>2 DEF Next
  <2>3. UNCHANGED demoVars => UNCHANGED vars
    BY DEF demoVars, vars
  <2>4. QED
    BY <2>1, <2>2, <2>3, StrangerCallsTheTA DEF DemoNext
<1>3. QED
  BY <1>1, <1>2, MainsAreInPlace, PTL DEF DemoSpec, Spec
=============================================================================
