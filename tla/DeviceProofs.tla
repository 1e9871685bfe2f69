---------------------------- MODULE DeviceProofs ----------------------------
(***************************************************************************)
(* Proofs about the clients of the SPI, security element, I2C and GPIO     *)
(* TAs.                                                                    *)
(*                                                                         *)
(* DemoInv says for each call of each main in which state the driver       *)
(* handle behind it is, as long as no call of the main has failed.  What   *)
(* goes over the line of the security element does not enter: an exchange, *)
(* however it ends, only moves link on by a call.                          *)
(*                                                                         *)
(* LinkInv follows the line.  That the rest of a header is still to come   *)
(* in one piece (Completes) is true when the request has been heard,       *)
(* because an answer begins with a header, and a byte read either brings   *)
(* the hunt on or was not needed (HuntGoesOn).  What the bytes in between  *)
(* are, and how many, does not enter.                                      *)
(*                                                                         *)
(* ScanInv says what they are.  As long as the element has given no answer *)
(* that can be mistaken for two, the line holds whole answers behind the   *)
(* rest of at most one that lacks its header (Parses), so a hunt finds the *)
(* next of them and nothing before it (Searches); a client nobody has      *)
(* disturbed is at one place of one answer (InPlace), and one that was     *)
(* disturbed still has only bytes that were on the line (Took).  That such *)
(* a client does not refuse the checksum is ChecksumsAgree.                *)
(***************************************************************************)
EXTENDS DeviceDemo, TLAPS, SequenceTheorems, WellFoundedInduction

Ended == {Failed, Passing, Gone}

Length(m) ==
  CASE m = "flash" -> 10 [] m = "link" -> 4 [] m = "i2c" -> 6
    [] m = "gpio" -> 9 [] m = "se" -> 13

Following(m, n) == IF n = Length(m) THEN Passing ELSE n + 1

Starts == {"init", "request"}

(* Before a call of main m, or at its end.                                 *)
HandleAt(m, n) ==
  IF n \in {1, Passing} \/ (m = "flash" /\ n = 6) THEN {"none"}
  ELSE IF n = 2 \/ (m = "flash" /\ n = 7) THEN {"open", "unset"}
  ELSE IF \/ m = "flash" /\ n \in {5, 10}
          \/ m = "i2c" /\ n = 6
          \/ m = "se" /\ n = 13
       THEN {"open"} ELSE {"ready"}

Progress(p) ==
  /\ at[p] \in Ended \cup IF main[p] = "stranger" THEN {1} ELSE DOMAIN Script(p)
  /\ main[p] = "stranger" => at[p] = 1
  /\ Exchanging(p) => main[p] = "link" /\ at[p] = 3
  /\ at[p] \notin {Failed, Gone} =>
       /\ main[p] \in {"i2c", "gpio"} => hurt[p] = 0
       /\ hurt[p] = 0 /\ main[p] # "stranger" =>
            /\ hd[p] \in HandleAt(main[p], at[p])
            /\ p \in adrift => main[p] \in {"link", "gpio"}

DemoInv ==
  /\ main \in [Procs -> Mains]
  /\ hurt \in [Procs -> Nat]
  /\ DOMAIN at = Procs /\ DOMAIN io = Procs /\ DOMAIN hd = Procs
  /\ \A p \in Procs : Progress(p)
-----------------------------------------------------------------------------
(* The flash scan is two scans in a row.                                   *)
LEMMA Twice ==
  /\ Len(Scan \o Scan) = 10
  /\ DOMAIN (Scan \o Scan) = 1..10
  /\ \A n \in 1..5 : (Scan \o Scan)[n] = Scan[n] /\ (Scan \o Scan)[n + 5] = Scan[n]
<1>1. Len(Scan) = 5
  BY DEF Scan
<1>2. PICK T : Scan \in Seq(T)
  <2>1. Scan \in Seq({"open", "init", "send_then_receive", "uninit", "close"})
    BY DEF Scan
  <2>2. QED
    BY <2>1
<1>3. /\ Scan \o Scan \in Seq(T)
      /\ Len(Scan \o Scan) = Len(Scan) + Len(Scan)
      /\ \A i \in 1 .. Len(Scan) + Len(Scan) :
           (Scan \o Scan)[i] = IF i <= Len(Scan) THEN Scan[i] ELSE Scan[i - Len(Scan)]
  BY <1>2, ConcatProperties
<1>4. Len(Scan \o Scan) = 10 /\ DOMAIN (Scan \o Scan) = 1..10
  BY <1>1, <1>3
<1>5. \A i \in 1..10 : (Scan \o Scan)[i] = IF i <= 5 THEN Scan[i] ELSE Scan[i - 5]
  BY <1>1, <1>3
<1> DEFINE Whole == Scan \o Scan
<1>6. \A i \in 1..10 : Whole[i] = IF i <= 5 THEN Scan[i] ELSE Scan[i - 5]
  BY <1>5
<1> HIDE DEF Whole
<1>7. \A n \in 1..5 : Whole[n] = Scan[n] /\ Whole[n + 5] = Scan[n]
  BY <1>6
<1>8. QED
  BY <1>4, <1>7 DEF Whole

(* How long the scripts are.                                               *)
LEMMA Scripts ==
  ASSUME NEW p \in Procs, main[p] \in Mains
  PROVE  /\ main[p] = "stranger" => DOMAIN Script(p) = {}
         /\ main[p] # "stranger" =>
              /\ Len(Script(p)) = Length(main[p])
              /\ DOMAIN Script(p) = 1..Length(main[p])
              /\ Length(main[p]) \in 4..13
<1>1. main[p] = "stranger" => Script(p) = <<>>
  BY DEF Script
<1>2. CASE main[p] = "flash"
  BY <1>2, Twice DEF Length, Script
<1>3. CASE main[p] = "link"
  BY <1>3 DEF Length, Script
<1>4. CASE main[p] = "i2c"
  BY <1>4 DEF Length, Script
<1>5. CASE main[p] = "gpio"
  BY <1>5 DEF Length, Script
<1>6. CASE main[p] = "se"
  BY <1>6 DEF Length, Script
<1>7. CASE main[p] = "stranger"
  BY <1>1, <1>7 DEF Length
<1>8. QED
  BY <1>2, <1>3, <1>4, <1>5, <1>6, <1>7 DEF Mains

(* What a call does to the table.                                          *)
LEMMA Calls ==
  ASSUME NEW p \in Procs, main[p] \in Mains, Running(p)
  PROVE  LET m == main[p]
             now == HandleAt(m, at[p])
             then == HandleAt(m, Following(m, at[p]))
         IN /\ m # "stranger"
            /\ at[p] \in 1..Length(m)
            /\ Now(p) = "open" => now = {"none"} /\ then = {"open", "unset"}
            /\ Now(p) \in Starts => now = {"open", "unset"} /\ then = {"ready"}
            /\ Now(p) = "uninit" => now = {"ready"} /\ then = {"open"}
            /\ Now(p) = "close" =>
                 /\ then = {"none"}
                 /\ "ready" \in now => m \in {"link", "gpio"}
            /\ Now(p) \notin {"open", "uninit", "close"} \cup Starts =>
                 now = {"ready"} /\ then = {"ready"}
            /\ m = "link" /\ Now(p) = "transmit" => at[p] = 3
<1> USE DEF Running, Now, HandleAt, Following, Length, Starts, Passing
<1>1. main[p] # "stranger"
  BY Scripts
<1>2. CASE main[p] = "flash"
  <2>1. at[p] \in 1..10 /\ Script(p) = Scan \o Scan
    BY <1>2, Scripts DEF Script
  <2>2. PICK i \in 1..5 : (at[p] = i \/ at[p] = i + 5) /\ Now(p) = Scan[i]
    <3>1. at[p] \in 1..5 \/ at[p] - 5 \in 1..5
      BY <2>1
    <3>2. CASE at[p] \in 1..5
      BY <2>1, <3>2, Twice
    <3>3. CASE at[p] - 5 \in 1..5
      <4>1. PICK i \in 1..5 : at[p] - 5 = i
        BY <3>3
      <4>2. at[p] = i + 5
        BY <2>1, <4>1
      <4>3. QED
        BY <2>1, <4>2, Twice
    <3>4. QED
      BY <3>1, <3>2, <3>3
  <2>3. QED
    BY <1>2, <2>1, <2>2 DEF Scan
<1>3. CASE main[p] = "link"
  BY <1>3, Scripts DEF Script
<1>4. CASE main[p] = "i2c"
  BY <1>4, Scripts DEF Script
<1>5. CASE main[p] = "gpio"
  BY <1>5, Scripts DEF Script
<1>6. CASE main[p] = "se"
  <2>1. at[p] \in 1..13
    BY <1>6, Scripts
  <2>2. Now(p) = <<"open", "init", "atr", "channel_open", "transmit",
         "transmit", "transmit", "reset", "mutual_auth", "get_status",
         "channel_close", "uninit", "close">>[at[p]]
    BY <1>6 DEF Script
  <2>3. /\ at[p] = 1 => Now(p) = "open"
        /\ at[p] = 2 => Now(p) = "init"
        /\ at[p] = 12 => Now(p) = "uninit"
        /\ at[p] = 13 => Now(p) = "close"
        /\ at[p] \in 3..11 => Now(p) \notin {"open", "uninit", "close"} \cup Starts
    BY <2>1, <2>2
  <2> HIDE DEF Now, Running
  <2>4. QED
    BY <1>1, <1>6, <2>1, <2>3
<1>7. QED
  BY <1>1, <1>2, <1>3, <1>4, <1>5, <1>6 DEF Mains
-----------------------------------------------------------------------------
(* A step of p leaves everybody else where he is.                          *)
HandlesLocal(p) ==
  /\ DOMAIN hd' = Procs
  /\ \A q \in Procs \ {p} : hd'[q] = hd[q] /\ (q \in adrift' <=> q \in adrift)

ClientLocal(p) ==
  /\ main' = main
  /\ hurt' \in [Procs -> Nat]
  /\ DOMAIN at' = Procs /\ DOMAIN io' = Procs
  /\ \A q \in Procs \ {p} : at'[q] = at[q] /\ io'[q] = io[q] /\ hurt'[q] = hurt[q]

LEMMA Frame ==
  ASSUME DemoInv, NEW p \in Procs, HandlesLocal(p), ClientLocal(p), Progress(p)'
  PROVE  DemoInv'
<1>1. ASSUME NEW q \in Procs, q # p
      PROVE  Progress(q)'
  <2>1. Progress(q) /\ Script(q)' = Script(q)
    BY DEF DemoInv, ClientLocal, Script
  <2>2. QED
    BY <1>1, <2>1 DEF ClientLocal, HandlesLocal, Progress, Exchanging, HandleAt
<1>2. QED
  BY <1>1 DEF DemoInv, ClientLocal, HandlesLocal

(* The calls a main may have failed are counted.                           *)
LEMMA Counted ==
  ASSUME DemoInv, NEW p \in Procs, NEW res, Called(p, res)
  PROVE  /\ main' = main
         /\ hurt' \in [Procs -> Nat]
         /\ \A q \in Procs \ {p} : hurt'[q] = hurt[q]
         /\ hurt'[p] = 0 => hurt[p] = 0 /\ res = "OK"
         /\ res = "OK" => hurt'[p] = hurt[p]
<1>1. MaxHurt \in Nat \ {0}
  BY DemoAssumption
<1>2. hurt \in [Procs -> Nat] /\ hurt[p] \in Nat
  BY DEF DemoInv
<1>3. hurt' = [hurt EXCEPT ![p] = IF res # "OK" /\ hurt[p] < MaxHurt THEN hurt[p] + 1 ELSE hurt[p]]
  BY DEF Called
<1>4. main' = main
  BY DEF Called
<1>5. QED
  BY <1>1, <1>2, <1>3, <1>4

LEMMA DriverCall ==
  ASSUME DemoInv, NEW p \in Procs, NEW cmd, NEW res, Driver(p, cmd, res)
  PROVE  /\ HandlesLocal(p) /\ adrift' = adrift
         /\ res = "OK" =>
              /\ hd[p] = "ready" \/ (cmd \in Starts /\ hd[p] = "open")
              /\ hd'[p] = IF cmd \in Starts THEN "ready" ELSE IF cmd = "uninit" THEN "open" ELSE hd[p]
<1>1. DOMAIN hd = Procs
  BY DEF DemoInv
<1>2. adrift' = adrift
  BY DEF Driver
<1>3. CASE /\ res = "OK"
           /\ hd[p] = "ready" \/ (cmd \in Starts /\ hd[p] = "open")
           /\ hd' = [hd EXCEPT ![p] = IF cmd \in Starts THEN "ready"
                                     ELSE IF cmd = "uninit" THEN "open" ELSE @]
  <2>1. HandlesLocal(p)
    BY <1>1, <1>2, <1>3 DEF HandlesLocal
  <2>2. hd'[p] = IF cmd \in Starts THEN "ready" ELSE IF cmd = "uninit" THEN "open" ELSE hd[p]
    BY <1>1, <1>3
  <2>3. QED
    BY <1>2, <1>3, <2>1, <2>2
<1>4. CASE res = "FAIL" /\ hd' = hd
  BY <1>1, <1>2, <1>4 DEF HandlesLocal
<1>5. CASE res = "TARGET_DEAD" /\ hd' = [hd EXCEPT ![p] = "dead"]
  BY <1>1, <1>2, <1>5 DEF HandlesLocal
<1>6. QED
  BY <1>3, <1>4, <1>5 DEF Driver, Starts

LEMMA ServedCall ==
  ASSUME DemoInv, NEW p \in Procs, NEW cmd, NEW res,
         TA_InvokeCommandEntryPoint(p, cmd, res) \/ Dead(p, res)
  PROVE  /\ HandlesLocal(p) /\ adrift' = adrift
         /\ res = "OK" =>
              /\ hd[p] = "ready" \/ (cmd \in Starts /\ hd[p] = "open")
              /\ hd'[p] = IF cmd \in Starts THEN "ready" ELSE IF cmd = "uninit" THEN "open" ELSE hd[p]
<1>1. CASE Dead(p, res)
  BY <1>1 DEF Dead, deviceVars, HandlesLocal, DemoInv
<1>2. CASE TA_InvokeCommandEntryPoint(p, cmd, res)
  <2>1. Driver(p, cmd, res)
    BY <1>2 DEF TA_InvokeCommandEntryPoint, spi_invoke, i2c_invoke, gpio_invoke, se_invoke
  <2>2. QED
    BY <2>1, DriverCall
<1>3. QED
  BY <1>1, <1>2

(* An instance that goes away, and with it its session.                    *)
LEMMA Closes ==
  ASSUME DemoInv, NEW p \in Procs, TA_CloseSessionEntryPoint(p) \/ DestroyInstance(p)
  PROVE  /\ HandlesLocal(p) /\ hd'[p] = "none"
         /\ adrift' = adrift \/ hd[p] = "ready"
BY DEF DemoInv, TA_CloseSessionEntryPoint, DestroyInstance, HandlesLocal
-----------------------------------------------------------------------------
(* Where a main goes when a call has returned.                             *)
LEMMA Advances ==
  ASSUME DemoInv, NEW p \in Procs, Running(p), Onward(p)
  PROVE  /\ at' = [at EXCEPT ![p] = Following(main[p], at[p])]
         /\ at'[p] = Following(main[p], at[p])
         /\ at'[p] \in Ended \cup DOMAIN Script(p)
         /\ at'[p] \notin {Failed, Gone}
<1>1. main[p] \in Mains /\ DOMAIN at = Procs
  BY DEF DemoInv
<1>2. main[p] # "stranger" /\ at[p] \in 1..Length(main[p])
  BY <1>1, Calls
<1>3. Len(Script(p)) = Length(main[p]) /\ DOMAIN Script(p) = 1..Length(main[p])
      /\ Length(main[p]) \in 4..13
  BY <1>1, <1>2, Scripts
<1>4. at' = [at EXCEPT ![p] = Following(main[p], at[p])]
  BY <1>3 DEF Onward, Goes, Following
<1>5. QED
  BY <1>1, <1>2, <1>3, <1>4 DEF Following, Ended, Passing, Failed, Gone

(* A main that makes one of these calls is not in an exchange.             *)
LEMMA CallsOutside ==
  ASSUME DemoInv, NEW p \in Procs,
         open_session(p) \/ ca_invoke(p) \/ close_session(p)
  PROVE  ~Exchanging(p)
<1>1. main[p] = "link" /\ at[p] = 3 => Now(p) = "transmit"
  BY DEF Now, Script
<1>2. QED
  BY <1>1 DEF DemoInv, Progress, open_session, ca_invoke, close_session, Talks

LEMMA OpenStep ==
  ASSUME DemoInv, NEW p \in Procs, Running(p), open_session(p)
  PROVE  DemoInv'
<1>1. PICK res \in Results :
        /\ TA_OpenSessionEntryPoint(p, FALSE, res)
        /\ IF res = "OK" THEN Onward(p) ELSE Goes(p, Failed)
        /\ Called(p, res) /\ UNCHANGED io
  BY DEF open_session
<1>2. /\ main[p] \in Mains /\ DOMAIN at = Procs /\ DOMAIN io = Procs
      /\ Progress(p)
  BY DEF DemoInv
<1>3. /\ main[p] # "stranger" /\ at[p] \in 1..Length(main[p])
      /\ HandleAt(main[p], Following(main[p], at[p])) = {"open", "unset"}
  BY <1>2, Calls DEF open_session
<1>4. HandlesLocal(p) /\ adrift' = adrift /\ (res = "OK" => hd'[p] \in {"open", "unset"})
  BY <1>1 DEF TA_OpenSessionEntryPoint, HandlesLocal, DemoInv
<1>5. ~Exchanging(p)
  BY CallsOutside
<1>6. ClientLocal(p)
  BY <1>1, <1>2, Counted, Advances DEF ClientLocal, Goes
<1>7. Script(p)' = Script(p) /\ ~Exchanging(p)'
  BY <1>1, <1>5, <1>6 DEF ClientLocal, Script, Exchanging
<1>8. CASE res = "OK"
  <2>1. at'[p] = Following(main[p], at[p]) /\ at'[p] \in Ended \cup DOMAIN Script(p)
    BY <1>1, <1>8, Advances
  <2>2. hurt'[p] = hurt[p]
    BY <1>1, <1>8, Counted
  <2>3. at[p] \notin {Failed, Gone}
    BY <1>3, Scripts, <1>2 DEF Failed, Gone
  <2>4. Progress(p)'
    BY <1>2, <1>3, <1>4, <1>6, <1>7, <1>8, <2>1, <2>2, <2>3 DEF Progress, ClientLocal
  <2>5. QED
    BY <1>4, <1>6, <2>4, Frame
<1>9. CASE res # "OK"
  <2>1. at'[p] = Failed
    BY <1>1, <1>2, <1>9 DEF Goes
  <2>2. Progress(p)'
    BY <1>3, <1>6, <1>7, <2>1 DEF Progress, ClientLocal, Ended
  <2>3. QED
    BY <1>4, <1>6, <2>2, Frame
<1>10. QED
  BY <1>8, <1>9

LEMMA InvokeStep ==
  ASSUME DemoInv, NEW p \in Procs, Running(p), ca_invoke(p)
  PROVE  DemoInv'
<1>1. PICK res \in Results :
        /\ TA_InvokeCommandEntryPoint(p, Now(p), res) \/ Dead(p, res)
        /\ Returns(p, res)
        /\ Called(p, res) /\ UNCHANGED io
  BY DEF ca_invoke
<1>2. main[p] \in Mains /\ DOMAIN at = Procs /\ DOMAIN io = Procs /\ Progress(p)
  BY DEF DemoInv
<1>3. /\ main[p] # "stranger" /\ at[p] \in 1..Length(main[p])
      /\ at[p] \notin {Failed, Gone}
  BY <1>2, Calls, Scripts DEF Failed, Gone
<1>4. HandlesLocal(p) /\ adrift' = adrift
  BY <1>1, ServedCall
<1>5. ~Exchanging(p)
  BY CallsOutside
<1>6. ClientLocal(p)
  BY <1>1, <1>2, Counted, Advances DEF ClientLocal, Goes, Returns
<1>7. Script(p)' = Script(p) /\ ~Exchanging(p)'
  BY <1>1, <1>5, <1>6 DEF ClientLocal, Script, Exchanging
<1>8. CASE Goes(p, Failed)
  <2>1. at'[p] = Failed
    BY <1>2, <1>8 DEF Goes
  <2>2. Progress(p)'
    BY <1>3, <1>6, <1>7, <2>1 DEF Progress, ClientLocal, Ended
  <2>3. QED
    BY <1>4, <1>6, <2>2, Frame
<1>9. CASE Onward(p) /\ (main[p] \in {"i2c", "gpio"} => res = "OK")
  <2>1. at'[p] = Following(main[p], at[p]) /\ at'[p] \in Ended \cup DOMAIN Script(p)
    BY <1>9, Advances
  <2>2. main[p] \in {"i2c", "gpio"} => hurt'[p] = 0
    BY <1>1, <1>2, <1>3, <1>9, Counted DEF Progress
  <2>3. ASSUME hurt'[p] = 0
        PROVE  /\ hd'[p] \in HandleAt(main[p], at'[p])
               /\ p \in adrift' => main[p] \in {"link", "gpio"}
    <3>1. hurt[p] = 0 /\ res = "OK"
      BY <1>1, <2>3, Counted
    <3>2. /\ hd[p] \in HandleAt(main[p], at[p])
          /\ p \in adrift => main[p] \in {"link", "gpio"}
      BY <1>2, <1>3, <3>1 DEF Progress
    <3>3. /\ hd[p] = "ready" \/ (Now(p) \in Starts /\ hd[p] = "open")
          /\ hd'[p] = IF Now(p) \in Starts THEN "ready"
                      ELSE IF Now(p) = "uninit" THEN "open" ELSE hd[p]
      BY <1>1, <3>1, ServedCall
    <3>4. Now(p) \notin {"open", "close"}
      BY DEF ca_invoke
    <3>5. hd'[p] \in HandleAt(main[p], Following(main[p], at[p]))
      BY <1>2, <3>2, <3>3, <3>4, Calls DEF Starts
    <3>6. QED
      BY <1>4, <2>1, <3>2, <3>5
  <2>4. Progress(p)'
    BY <1>3, <1>6, <1>7, <2>1, <2>2, <2>3 DEF Progress, ClientLocal
  <2>5. QED
    BY <1>4, <1>6, <2>4, Frame
<1>10. QED
  BY <1>1, <1>8, <1>9 DEF Returns

LEMMA CloseStep ==
  ASSUME DemoInv, NEW p \in Procs, Running(p), close_session(p)
  PROVE  DemoInv'
<1>1. main[p] \in Mains /\ DOMAIN at = Procs /\ DOMAIN io = Procs /\ Progress(p)
  BY DEF DemoInv
<1>2. /\ main[p] # "stranger" /\ at[p] \in 1..Length(main[p])
      /\ at[p] \notin {Failed, Gone}
  BY <1>1, Calls, Scripts DEF Failed, Gone
<1>3. HandlesLocal(p) /\ hd'[p] = "none" /\ (adrift' = adrift \/ hd[p] = "ready")
  BY Closes DEF close_session
<1>4. ~Exchanging(p)
  BY CallsOutside
<1>5. /\ at'[p] = Following(main[p], at[p]) /\ at'[p] \in Ended \cup DOMAIN Script(p)
      /\ at' = [at EXCEPT ![p] = Following(main[p], at[p])]
  BY Advances DEF close_session
<1>6. ClientLocal(p) /\ hurt'[p] = hurt[p]
  BY <1>1, <1>5 DEF ClientLocal, close_session, DemoInv
<1>7. Script(p)' = Script(p) /\ ~Exchanging(p)'
  BY <1>4, <1>6 DEF ClientLocal, close_session, Script, Exchanging
<1>8. ASSUME hurt'[p] = 0
      PROVE  /\ hd'[p] \in HandleAt(main[p], at'[p])
             /\ p \in adrift' => main[p] \in {"link", "gpio"}
  <2>1. /\ hd[p] \in HandleAt(main[p], at[p])
        /\ p \in adrift => main[p] \in {"link", "gpio"}
    BY <1>1, <1>2, <1>6, <1>8 DEF Progress
  <2>2. /\ HandleAt(main[p], Following(main[p], at[p])) = {"none"}
        /\ "ready" \in HandleAt(main[p], at[p]) => main[p] \in {"link", "gpio"}
    BY <1>1, Calls DEF close_session
  <2>3. QED
    BY <1>3, <1>5, <2>1, <2>2
<1>9. Progress(p)'
  BY <1>1, <1>2, <1>5, <1>6, <1>7, <1>8 DEF Progress, ClientLocal
<1>10. QED
  BY <1>3, <1>6, <1>9, Frame
-----------------------------------------------------------------------------
(* The exchange with the security element, however it ends.                *)
LEMMA LinkStep ==
  ASSUME DemoInv, NEW p \in Procs, main[p] = "link", at[p] = 3,
         HandlesLocal(p), adrift' = adrift, ClientLocal(p),
         hurt'[p] = 0 => hurt[p] = 0 /\ hd'[p] = hd[p],
         at'[p] \in {3, 4, Failed}, Exchanging(p)' => at'[p] = 3
  PROVE  DemoInv'
<1>1. main'[p] = "link" /\ DOMAIN Script(p)' = 1..4
  BY DEF ClientLocal, Script
<1>2. HandleAt("link", 3) = {"ready"} /\ HandleAt("link", 4) = {"ready"}
  BY DEF HandleAt, Passing
<1>3. Progress(p)
  BY DEF DemoInv
<1>4. Progress(p)'
  BY <1>1, <1>2, <1>3 DEF Progress, Ended, Failed, Gone
<1>5. QED
  BY <1>4, Frame

LEMMA TalkingIs ==
  ASSUME DemoInv, NEW p \in Procs, Exchanging(p)
  PROVE  main[p] = "link" /\ at[p] = 3 /\ Running(p)
BY DEF DemoInv, Progress, Running, Script

LEMMA SendStep ==
  ASSUME DemoInv, NEW p \in Procs, Running(p),
         se_spi_send(p) \/ ca_spi_send_one_byte(p)
  PROVE  DemoInv'
<1>1. DOMAIN at = Procs /\ DOMAIN io = Procs /\ DOMAIN hd = Procs /\ main[p] \in Mains
  BY DEF DemoInv
<1>2. CASE se_spi_send(p)
  <2>1. main[p] = "link" /\ at[p] = 3
    BY <1>1, <1>2, Calls DEF se_spi_send, Talks
  <2>2. DOMAIN io' = Procs /\ \A q \in Procs \ {p} : io'[q] = io[q]
    BY <1>1, <1>2 DEF se_spi_send
  <2>3. HandlesLocal(p) /\ ClientLocal(p) /\ UNCHANGED <<hd, adrift, at, hurt>>
    BY <1>1, <1>2, <2>2 DEF se_spi_send, HandlesLocal, ClientLocal, DemoInv
  <2>4. QED
    BY <2>1, <2>3, LinkStep
<1>3. CASE ca_spi_send_one_byte(p)
  <2>1. main[p] = "link" /\ at[p] = 3
    BY <1>3, TalkingIs DEF ca_spi_send_one_byte, Exchanging
  <2>2. PICK res \in Results :
          /\ ta_spi_send_bytes(p, Head(io[p].frame), res) \/ Dead(p, res)
          /\ Called(p, res)
    BY <1>3 DEF ca_spi_send_one_byte
  <2>3. HandlesLocal(p) /\ adrift' = adrift /\ (res = "OK" => hd'[p] = hd[p])
    BY <1>1, <2>2, DriverCall DEF ta_spi_send_bytes, Dead, deviceVars, HandlesLocal, Starts
  <2>4. DOMAIN io' = Procs /\ at' = at /\ \A q \in Procs \ {p} : io'[q] = io[q]
    BY <1>1, <1>3 DEF ca_spi_send_one_byte
  <2>5. ClientLocal(p) /\ (hurt'[p] = 0 => hurt[p] = 0 /\ res = "OK")
    BY <1>1, <2>2, <2>4, Counted DEF ClientLocal
  <2>6. QED
    BY <2>1, <2>3, <2>4, <2>5, LinkStep
<1>4. QED
  BY <1>2, <1>3

(* A byte the client reads is used up in one way or another.               *)
LEMMA Reads ==
  ASSUME DemoInv, NEW p \in Procs, NEW x,
         Hunt(p, x) \/ Header(p, x) \/ Data(p, x) \/ Check(p, x)
  PROVE  /\ Exchanging(p)
         /\ DOMAIN io' = Procs /\ \A q \in Procs \ {p} : io'[q] = io[q]
         /\ \/ at' = at
            \/ (Goes(p, Failed) \/ Onward(p)) /\ ~Exchanging(p)'
<1>1. DOMAIN io = Procs
  BY DEF DemoInv
<1>2. CASE Hunt(p, x)
  BY <1>1, <1>2 DEF Hunt, Hunts, Exchanging
<1>3. CASE Rejects(p) /\ Exchanging(p)
  BY <1>1, <1>3 DEF Rejects, Quiet, Exchanging
<1>4. CASE Header(p, x) /\ ~Rejects(p)
  BY <1>1, <1>4 DEF Header, Exchanging
<1>5. CASE Data(p, x)
  BY <1>1, <1>5 DEF Data, Exchanging
<1>6. CASE Check(p, x) /\ ~Rejects(p)
  <2>1. CASE io[p].stage = "crc_high"
    BY <1>1, <1>6, <2>1 DEF Check, Exchanging
  <2>2. CASE io[p].stage = "crc_low"
    <3>1. /\ io' = [io EXCEPT ![p] = [Quiet(io[p].crc) EXCEPT !.got = io[p].buf]]
          /\ Judge(p, io[p].buf)
      BY <1>6, <2>2 DEF Check
    <3>2. Goes(p, Failed) \/ Onward(p)
      BY <3>1 DEF Judge
    <3>3. io'[p].stage = "idle"
      BY <1>1, <3>1 DEF Quiet
    <3>4. QED
      BY <1>1, <2>2, <3>1, <3>2, <3>3 DEF Exchanging
  <2>3. QED
    BY <1>6, <2>1, <2>2 DEF Check
<1>7. (Header(p, x) \/ Check(p, x)) => Exchanging(p)
  BY DEF Header, Check, Exchanging
<1>8. QED
  BY <1>2, <1>3, <1>4, <1>5, <1>6, <1>7

LEMMA ReceiveStep ==
  ASSUME DemoInv, NEW p \in Procs, Running(p), se_spi_receive(p)
  PROVE  DemoInv'
<1>1. DOMAIN at = Procs /\ DOMAIN io = Procs /\ DOMAIN hd = Procs
  BY DEF DemoInv
<1>2. PICK x :
        /\ ca_spi_receive_one_byte(p, x)
        /\ Hunt(p, x) \/ Header(p, x) \/ Data(p, x) \/ Check(p, x)
  BY DEF se_spi_receive
<1>3. PICK res \in Results :
        /\ ta_spi_receive_bytes(p, res) \/ Dead(p, res)
        /\ Called(p, res)
  BY <1>2 DEF ca_spi_receive_one_byte
<1>4. main[p] = "link" /\ at[p] = 3
  BY <1>2, Reads, TalkingIs
<1>5. HandlesLocal(p) /\ adrift' = adrift /\ (res = "OK" => hd'[p] = hd[p])
  BY <1>1, <1>3, DriverCall DEF ta_spi_receive_bytes, Dead, deviceVars, HandlesLocal, Starts
<1>6. DOMAIN io' = Procs /\ \A q \in Procs \ {p} : io'[q] = io[q]
  BY <1>2, Reads
<1>7. \/ at' = at
      \/ /\ at' = [at EXCEPT ![p] = Failed] \/ at' = [at EXCEPT ![p] = 4]
         /\ ~Exchanging(p)'
  <2>1. Onward(p) => at' = [at EXCEPT ![p] = 4]
    BY <1>4, Advances DEF Following, Length
  <2>2. QED
    BY <1>2, <2>1, Reads DEF Goes
<1>8. ClientLocal(p) /\ (hurt'[p] = 0 => hurt[p] = 0 /\ res = "OK")
  BY <1>1, <1>3, <1>6, <1>7, Counted DEF ClientLocal
<1>9. at'[p] \in {3, 4, Failed} /\ (Exchanging(p)' => at'[p] = 3)
  BY <1>1, <1>4, <1>7 DEF Failed
<1>10. QED
  BY <1>4, <1>5, <1>8, <1>9, LinkStep
-----------------------------------------------------------------------------
LEMMA ExitStep ==
  ASSUME DemoInv, NEW p \in Procs, Exit(p)
  PROVE  DemoInv'
<1>1. DOMAIN at = Procs /\ DOMAIN io = Procs /\ DOMAIN hd = Procs
      /\ Progress(p) /\ main[p] \in Mains
  BY DEF DemoInv
<1>2. main[p] # "stranger"
  BY <1>1, Scripts DEF Exit, Running, Progress, Failed
<1>3. HandlesLocal(p)
  BY <1>1, Closes DEF Exit, deviceVars, HandlesLocal
<1>4. ClientLocal(p) /\ at'[p] = Gone /\ ~Exchanging(p)'
  BY <1>1 DEF Exit, Goes, ClientLocal, Exchanging, Quiet, DemoInv
<1>5. Progress(p)'
  BY <1>2, <1>4 DEF Progress, ClientLocal, Ended
<1>6. QED
  BY <1>3, <1>4, <1>5, Frame

LEMMA StrangerStep ==
  ASSUME DemoInv, NEW p \in Procs, AnyCommand(p)
  PROVE  DemoInv'
<1>1. DOMAIN at = Procs /\ DOMAIN io = Procs /\ DOMAIN hd = Procs
      /\ Progress(p) /\ main[p] = "stranger"
  BY DEF DemoInv, AnyCommand
<1>2. ClientLocal(p)
  <2>1. PICK res : Called(p, res)
    BY DEF AnyCommand
  <2>2. QED
    BY <1>1, <2>1, Counted DEF AnyCommand, ClientLocal
<1>3. HandlesLocal(p)
  <2>1. CASE TA_CloseSessionEntryPoint(p) \/ DestroyInstance(p)
    BY <2>1, Closes
  <2>2. CASE \E res, b : TA_OpenSessionEntryPoint(p, b, res)
    BY <1>1, <2>2 DEF TA_OpenSessionEntryPoint, HandlesLocal
  <2>3. CASE \E res, cmd : TA_InvokeCommandEntryPoint(p, cmd, res)
    BY <2>3, ServedCall
  <2>4. CASE \E res, b : ta_spi_send_bytes(p, b, res)
    BY <2>4, DriverCall DEF ta_spi_send_bytes
  <2>5. CASE \E res : ta_spi_receive_bytes(p, res)
    BY <2>5, DriverCall DEF ta_spi_receive_bytes
  <2>6. CASE \E res : Malformed(p, res)
    BY <1>1, <2>6 DEF Malformed, HandlesLocal
  <2>7. QED
    BY <2>1, <2>2, <2>3, <2>4, <2>5, <2>6 DEF AnyCommand
<1>4. Progress(p)'
  BY <1>1, <1>2 DEF AnyCommand, ClientLocal, Progress, Exchanging, Ended
<1>5. QED
  BY <1>2, <1>3, <1>4, Frame

LEMMA InitDemoInv == DemoInit => DemoInv
<1>1. ASSUME DemoInit, NEW p \in Procs
      PROVE  Progress(p)
  <2>1. /\ at[p] = 1 /\ hurt[p] = 0 /\ io[p].stage = "idle" /\ hd[p] = "none"
        /\ adrift = {} /\ main[p] \in Mains
    BY <1>1 DEF DemoInit, Init, Quiet
  <2>2. main[p] # "stranger" => at[p] \in DOMAIN Script(p)
    BY <2>1, Scripts
  <2>3. QED
    BY <2>1, <2>2 DEF Progress, Exchanging, HandleAt
<1>2. DemoInit => /\ main \in [Procs -> Mains]
                  /\ hurt \in [Procs -> Nat]
                  /\ DOMAIN at = Procs /\ DOMAIN io = Procs /\ DOMAIN hd = Procs
  BY DEF DemoInit, Init
<1>3. QED
  BY <1>1, <1>2 DEF DemoInv

LEMMA NextDemoInv == DemoInv /\ [DemoNext]_demoVars => DemoInv'
<1>1. ASSUME DemoInv, UNCHANGED demoVars
      PROVE  DemoInv'
  BY <1>1 DEF demoVars, DemoInv, Progress, Exchanging, Script
<1>2. ASSUME DemoInv, NEW p \in Procs, Main(p)
      PROVE  DemoInv'
  BY <1>2, OpenStep, InvokeStep, CloseStep, SendStep, ReceiveStep DEF Main
<1>3. ASSUME DemoInv, NEW p \in Procs, Exit(p) \/ AnyCommand(p)
      PROVE  DemoInv'
  BY <1>3, ExitStep, StrangerStep
<1>4. QED
  BY <1>1, <1>2, <1>3 DEF DemoNext

(* Before each of its calls a main of which no call has failed finds its   *)
(* device in the state the call needs, whatever the exchange with the      *)
(* security element brought and whoever else was killed in one.            *)
THEOREM DevicesAreInPlace == DemoSpec => []DemoInv
BY InitDemoInv, NextDemoInv, PTL DEF DemoSpec

(* A main that gets through leaves no device initialised, unless a call of *)
(* it failed; those of I2C and GPIO do not get through then at all.        *)
THEOREM MainsRelease == DemoSpec => []Released
<1>1. DemoInv => Released
  BY DEF DemoInv, Progress, Released, Passing, Failed, Gone
<1>2. QED
  BY <1>1, DevicesAreInPlace, PTL
-----------------------------------------------------------------------------
(* The line of the security element.                                       *)
Proper(s) == s \in Seq({s[i] : i \in DOMAIN s})

Line ==
  /\ chip = [heard |-> chip.heard, out |-> chip.out, said |-> chip.said]
  /\ Proper(chip.out)

Shaped(ex) ==
  ex = [stage |-> ex.stage, frame |-> ex.frame, n |-> ex.n, heard |-> ex.heard,
        buf |-> ex.buf, got |-> ex.got, crc |-> ex.crc]

(* Where the exchange of p is; as long as nobody has disturbed it, what p  *)
(* hunts for is still to come.                                             *)
Exchange(p) ==
  /\ Shaped(io[p])
  /\ io[p].stage \in {"idle", "send"} => io[p].n = 0
  /\ io[p].stage = "hunt" =>
       /\ io[p].n \in 0..4
       /\ io[p].heard /\ hurt[p] = 0 /\ ~meddled[p] => Completes(io[p].n, chip.out)

LinkInv ==
  /\ DemoInv
  /\ Line
  /\ meddled = [q \in Procs |-> meddled[q]]
  /\ \A p \in Procs : Exchange(p)

LEMMA SyncIs == Len(Sync) = 5
BY DEF Sync

LEMMA KnownProper ==
  ASSUME NEW T, NEW s \in Seq(T)
  PROVE  Proper(s)
<1> DEFINE R == {s[i] : i \in DOMAIN s}
<1>1. Len(s) \in Nat /\ s \in [1..Len(s) -> T]
  BY LenProperties
<1>2. s \in [1..Len(s) -> R]
  BY <1>1
<1>3. s \in Seq(R)
  BY <1>1, <1>2, SeqDef
<1>4. QED
  BY <1>3 DEF Proper

LEMMA EmptyProper == Proper(<<>>)
BY DEF Proper

(* What comes first is still there when more is appended.                  *)
LEMMA BeginningStays ==
  ASSUME NEW T, NEW s \in Seq(T), NEW t \in Seq(T), Len(s) >= 6,
         \A i \in 1..5 : s[i] = Sync[i]
  PROVE  /\ s \o t \in Seq(T)
         /\ Len(s \o t) >= 6
         /\ \A i \in 1..5 : (s \o t)[i] = Sync[i]
<1>1. /\ s \o t \in Seq(T)
      /\ Len(s \o t) = Len(s) + Len(t)
      /\ \A i \in 1..Len(s) + Len(t) :
           (s \o t)[i] = IF i <= Len(s) THEN s[i] ELSE t[i - Len(s)]
  BY ConcatProperties
<1>2. Len(s) \in Nat /\ Len(t) \in Nat
  OBVIOUS
<1> DEFINE u == s \o t
<1> HIDE DEF u
<1>3. ASSUME NEW i \in 1..5
      PROVE  u[i] = Sync[i]
  <2>1. i \in 1..Len(s) + Len(t) /\ i <= Len(s)
    BY <1>2
  <2>2. QED
    BY <1>1, <2>1 DEF u
<1>4. QED
  BY <1>1, <1>2, <1>3 DEF u

(* An answer begins with the header.                                       *)
LEMMA AnswerStarts ==
  ASSUME NEW data \in Seq(Byte)
  PROVE  /\ \E T : AnswerFrame(data) \in Seq(T)
         /\ Len(AnswerFrame(data)) >= 6
         /\ \A i \in 1..5 : AnswerFrame(data)[i] = Sync[i]
<1> DEFINE a == <<0, 0, 0, \hAA, \h55, 0>>
           b == <<Len(data) \div 256, Len(data) % 256>>
           c == <<Kermit(data) % 256, Kermit(data) \div 256>>
           T == Byte \cup {b[1], b[2], c[1], c[2]}
<1>1. a \in Seq(T) /\ Len(a) >= 6 /\ \A i \in 1..5 : a[i] = Sync[i]
  BY DEF Sync, Byte
<1>2. b \in Seq(T) /\ c \in Seq(T) /\ data \in Seq(T)
  OBVIOUS
<1>3. AnswerFrame(data) = ((a \o b) \o data) \o c
  BY DEF AnswerFrame, Framed
<1> HIDE DEF a, b, c, T
<1> DEFINE u == a \o b
           v == u \o data
<1>4. u \in Seq(T) /\ Len(u) >= 6 /\ \A i \in 1..5 : u[i] = Sync[i]
  BY <1>1, <1>2, BeginningStays
<1> HIDE DEF u
<1>5. v \in Seq(T) /\ Len(v) >= 6 /\ \A i \in 1..5 : v[i] = Sync[i]
  BY <1>2, <1>4, BeginningStays
<1> HIDE DEF v
<1>6. v \o c \in Seq(T) /\ Len(v \o c) >= 6 /\ \A i \in 1..5 : (v \o c)[i] = Sync[i]
  BY <1>2, <1>5, BeginningStays
<1>7. QED
  BY <1>3, <1>6 DEF u, v

(* So whatever was left unread, a header is to come.                       *)
LEMMA AnswerHasHeader ==
  ASSUME NEW left, Proper(left), NEW data \in Seq(Byte)
  PROVE  LET out == left \o AnswerFrame(data) IN Proper(out) /\ Completes(0, out)
<1> DEFINE f == AnswerFrame(data)
           out == left \o f
<1>1. PICK T : left \in Seq(T)
  BY DEF Proper
<1>2. PICK S : f \in Seq(S)
  BY AnswerStarts
<1>3. Len(f) >= 6 /\ \A i \in 1..5 : f[i] = Sync[i]
  BY AnswerStarts
<1> HIDE DEF f
<1>4. left \in Seq(T \cup S) /\ f \in Seq(T \cup S)
  BY <1>1, <1>2
<1>5. /\ out \in Seq(T \cup S)
      /\ Len(out) = Len(left) + Len(f)
      /\ \A i \in 1..Len(left) + Len(f) :
           out[i] = IF i <= Len(left) THEN left[i] ELSE f[i - Len(left)]
  BY <1>4, ConcatProperties
<1> HIDE DEF out
<1>6. Len(left) \in Nat /\ Len(f) \in Nat
  BY <1>4
<1>7. ASSUME NEW i \in 1..5
      PROVE  Len(left) + i - 0 <= Len(out) /\ out[Len(left) + i - 0] = Sync[i]
  <2>1. PICK j \in 1..Len(left) + Len(f) : j = Len(left) + i - 0 /\ j - Len(left) = i
    BY <1>3, <1>6
  <2>2. out[j] = f[i]
    BY <1>5, <1>6, <2>1
  <2>3. QED
    BY <1>3, <1>5, <1>6, <2>1, <2>2, SMTT(30)
<1>8. Completes(0, out)
  BY <1>5, <1>6, <1>7, SyncIs DEF Completes
<1>9. QED
  BY <1>5, <1>8, KnownProper DEF out, f

(* A byte of it read brings the hunt on, or was not needed.                *)
LEMMA HuntGoesOn ==
  ASSUME NEW out, Proper(out), NEW n \in 0..4, Completes(n, out)
  PROVE  LET n2 == IF Head(out) = Sync[n + 1] THEN n + 1 ELSE n
         IN out # <<>> /\ (n2 = 5 \/ Completes(n2, Tail(out)))
<1>1. PICK T : out \in Seq(T)
  BY DEF Proper
<1>2. PICK k \in 0..Len(out) :
        \A i \in (n + 1)..5 : k + i - n <= Len(out) /\ out[k + i - n] = Sync[i]
  BY SyncIs DEF Completes
<1>3. Len(out) \in Nat /\ k + 5 - n <= Len(out)
  BY <1>1, <1>2
<1>4. out # <<>> /\ Head(out) = out[1]
  BY <1>1, <1>3
<1>5. /\ Len(Tail(out)) = Len(out) - 1
      /\ \A j \in 1..(Len(out) - 1) : Tail(out)[j] = out[j + 1]
  BY <1>1, <1>4
<1> DEFINE tail == Tail(out)
<1> HIDE DEF tail
<1>6. CASE Head(out) = Sync[n + 1] /\ n # 4
  <2>1. ASSUME NEW i \in (n + 2)..5
        PROVE  k + i - (n + 1) <= Len(tail) /\ tail[k + i - (n + 1)] = Sync[i]
    <3>1. PICK j \in 1..(Len(out) - 1) : j = k + i - (n + 1) /\ j + 1 = k + i - n
      BY <1>2, <1>3
    <3>2. QED
      BY <1>2, <1>3, <1>5, <3>1 DEF tail
  <2>2. k \in 0..Len(tail) /\ n + 1 + 1 = n + 2
    BY <1>3, <1>5, <1>6 DEF tail
  <2>3. Completes(n + 1, tail)
    BY <2>1, <2>2, SyncIs DEF Completes
  <2>4. QED
    BY <1>4, <1>6, <2>3 DEF tail
<1>7. CASE Head(out) # Sync[n + 1]
  <2>1. k # 0
    BY <1>2, <1>4, <1>7
  <2>2. ASSUME NEW i \in (n + 1)..5
        PROVE  (k - 1) + i - n <= Len(tail) /\ tail[(k - 1) + i - n] = Sync[i]
    <3>1. PICK j \in 1..(Len(out) - 1) : j = (k - 1) + i - n /\ j + 1 = k + i - n
      BY <1>2, <1>3, <2>1
    <3>2. QED
      BY <1>2, <1>3, <1>5, <3>1 DEF tail
  <2>3. k - 1 \in 0..Len(tail)
    BY <1>3, <1>5, <2>1 DEF tail
  <2>4. Completes(n, tail)
    BY <2>2, <2>3, SyncIs DEF Completes
  <2>5. QED
    BY <1>4, <1>7, <2>4 DEF tail
<1>8. QED
  BY <1>4, <1>6, <1>7
-----------------------------------------------------------------------------
(* What a step does to the line and to those who listen there.             *)
LEMMA LineKept ==
  ASSUME Line, chip' = chip \/ Shifts \/ \E b : Hears(b)
  PROVE  Line'
<1>1. PICK T : chip.out \in Seq(T)
  BY DEF Line, Proper
<1>2. CASE Shifts
  <2>1. chip'.out = IF chip.out = <<>> THEN chip.out ELSE Tail(chip.out)
    BY <1>2 DEF Shifts, Line
  <2>2. chip'.out \in Seq(T)
    BY <1>1, <2>1
  <2>3. chip' = [heard |-> chip'.heard, out |-> chip'.out, said |-> chip'.said]
    BY <1>2 DEF Shifts, Line
  <2>4. QED
    BY <2>2, <2>3, KnownProper DEF Line
<1>3. CASE \E b : Hears(b)
  <2>1. CASE \E n : chip' = [chip EXCEPT !.heard = n]
    BY <2>1 DEF Line, Proper
  <2>2. CASE \E data \in Said, left \in {<<>>, chip.out} :
               chip' = [heard |-> 0, out |-> left \o AnswerFrame(data),
                        said |-> chip.said \cup {data}]
    <3>1. PICK data \in Said, left \in {<<>>, chip.out} :
            chip' = [heard |-> 0, out |-> left \o AnswerFrame(data),
                     said |-> chip.said \cup {data}]
      BY <2>2
    <3>2. Proper(left) /\ data \in Seq(Byte)
      BY <1>1, EmptyProper, KnownProper, DeviceAssumption
    <3>3. Proper(chip'.out)
      BY <3>1, <3>2, AnswerHasHeader
    <3>4. QED
      BY <3>1, <3>3 DEF Line
  <2>3. QED
    BY <1>3, <2>1, <2>2 DEF Hears
<1>4. CASE chip' = chip
  BY <1>4 DEF Line, Proper
<1>5. QED
  BY <1>2, <1>3, <1>4

Undisturbed(q) == ~meddled'[q] => ~meddled[q] /\ (chip' = chip \/ ~Exchanging(q))

LEMMA LinkFrame ==
  ASSUME LinkInv, NEW p \in Procs, DemoInv', Exchange(p)',
         chip' = chip \/ Shifts \/ \E b : Hears(b),
         meddled' = [q \in Procs |-> meddled'[q]],
         \A q \in Procs \ {p} : io'[q] = io[q] /\ hurt'[q] = hurt[q] /\ Undisturbed(q)
  PROVE  LinkInv'
<1>1. ASSUME NEW q \in Procs, q # p
      PROVE  Exchange(q)'
  <2>1. Exchange(q) /\ io'[q] = io[q] /\ hurt'[q] = hurt[q] /\ Undisturbed(q)
    BY <1>1 DEF LinkInv
  <2>2. QED
    BY <2>1 DEF Exchange, Shaped, Undisturbed, Exchanging
<1>2. Line'
  BY LineKept DEF LinkInv
<1>3. QED
  BY <1>1, <1>2 DEF LinkInv

LEMMA Noticed ==
  ASSUME LinkInv, NEW p \in Procs, NEW res, Called(p, res)
  PROVE  /\ meddled' = [q \in Procs |-> meddled'[q]]
         /\ \A q \in Procs \ {p} : hurt'[q] = hurt[q] /\ Undisturbed(q)
         /\ ~meddled'[p] => ~meddled[p]
         /\ hurt'[p] = 0 => hurt[p] = 0 /\ res = "OK"
<1>1. DemoInv
  BY DEF LinkInv
<1>2. meddled' = [q \in Procs |-> meddled[q] \/ (q # p /\ Exchanging(q) /\ chip' # chip)]
  BY DEF Called
<1>3. meddled' = [q \in Procs |-> meddled'[q]]
  BY <1>2
<1>4. ASSUME NEW q \in Procs, ~meddled'[q]
      PROVE  ~meddled[q] /\ (q = p \/ chip' = chip \/ ~Exchanging(q))
  <2>1. meddled'[q] = (meddled[q] \/ (q # p /\ Exchanging(q) /\ chip' # chip))
    BY <1>2
  <2>2. QED
    BY <1>4, <2>1
<1>5. QED
  BY <1>1, <1>3, <1>4, Counted DEF Undisturbed
-----------------------------------------------------------------------------
(* Calls outside an exchange, and the end of a process.                    *)
LEMMA IdleStep ==
  ASSUME LinkInv, NEW p \in Procs, DemoInv', ~Exchanging(p), io' = io,
         chip' = chip \/ Shifts \/ \E b : Hears(b),
         (\E res : Called(p, res)) \/ UNCHANGED <<hurt, meddled, chip>>
  PROVE  LinkInv'
<1>1. Exchange(p)'
  <2>1. Exchange(p)
    BY DEF LinkInv
  <2>2. QED
    BY <2>1 DEF Exchange, Shaped, Exchanging
<1>2. /\ meddled' = [q \in Procs |-> meddled'[q]]
      /\ \A q \in Procs \ {p} : hurt'[q] = hurt[q] /\ Undisturbed(q)
  <2>1. CASE UNCHANGED <<hurt, meddled, chip>>
    BY <2>1 DEF LinkInv, Undisturbed
  <2>2. QED
    BY <2>1, Noticed
<1>3. QED
  BY <1>1, <1>2, LinkFrame

LEMMA LinkCalls ==
  ASSUME LinkInv, NEW p \in Procs, DemoInv', Running(p),
         open_session(p) \/ ca_invoke(p) \/ close_session(p)
  PROVE  LinkInv'
<1>1. DemoInv
  BY DEF LinkInv
<1>2. ~Exchanging(p) /\ io' = io
  BY <1>1, CallsOutside DEF open_session, ca_invoke, close_session
<1>3. CASE open_session(p)
  BY <1>2, <1>3, IdleStep DEF open_session, TA_OpenSessionEntryPoint
<1>4. CASE close_session(p)
  BY <1>2, <1>4, IdleStep DEF close_session, TA_CloseSessionEntryPoint, DestroyInstance
<1>5. CASE ca_invoke(p)
  <2>1. PICK res : /\ TA_InvokeCommandEntryPoint(p, Now(p), res) \/ Dead(p, res)
                   /\ Called(p, res)
    BY <1>5 DEF ca_invoke
  <2>2. chip' = chip
    BY <2>1 DEF TA_InvokeCommandEntryPoint, spi_invoke, i2c_invoke, gpio_invoke, se_invoke,
                Dead, deviceVars
  <2>3. QED
    BY <1>2, <2>1, <2>2, IdleStep
<1>6. QED
  BY <1>3, <1>4, <1>5

LEMMA LinkStranger ==
  ASSUME LinkInv, NEW p \in Procs, DemoInv', AnyCommand(p)
  PROVE  LinkInv'
<1>1. ~Exchanging(p) /\ io' = io
  BY DEF LinkInv, DemoInv, Progress, AnyCommand
<1>2. \E res : Called(p, res)
  BY DEF AnyCommand
<1>3. chip' = chip \/ Shifts \/ \E b : Hears(b)
  BY DEF AnyCommand, TA_CloseSessionEntryPoint, DestroyInstance, TA_OpenSessionEntryPoint,
         TA_InvokeCommandEntryPoint, spi_invoke, i2c_invoke, gpio_invoke, se_invoke,
         ta_spi_send_bytes, ta_spi_receive_bytes, Malformed
<1>4. QED
  BY <1>1, <1>2, <1>3, IdleStep

LEMMA LinkExit ==
  ASSUME LinkInv, NEW p \in Procs, DemoInv', Exit(p)
  PROVE  LinkInv'
<1>1. chip' = chip /\ UNCHANGED <<hurt, meddled>>
  BY DEF Exit, TA_CloseSessionEntryPoint, DestroyInstance, deviceVars
<1>2. io' = [io EXCEPT ![p] = Quiet(Fresh)] /\ DOMAIN io = Procs
  BY DEF Exit, LinkInv, DemoInv
<1>3. Exchange(p)'
  BY <1>2 DEF Exchange, Shaped, Quiet
<1>4. QED
  BY <1>1, <1>2, <1>3, LinkFrame DEF LinkInv, Undisturbed
-----------------------------------------------------------------------------
LEMMA LinkSends ==
  ASSUME LinkInv, NEW p \in Procs, DemoInv', se_spi_send(p)
  PROVE  LinkInv'
<1>1. DOMAIN io = Procs /\ Exchange(p)
  BY DEF LinkInv, DemoInv
<1>2. UNCHANGED <<hurt, meddled, chip>> /\ io[p].stage = "idle"
  BY DEF se_spi_send
<1>3. PICK frame, crc : io' = [io EXCEPT ![p].stage = "send", ![p].frame = frame, ![p].crc = crc]
  BY DEF se_spi_send
<1>4. io'[p] = [io[p] EXCEPT !.stage = "send", !.frame = frame, !.crc = crc]
      /\ \A q \in Procs \ {p} : io'[q] = io[q]
  BY <1>1, <1>3
<1>5. Exchange(p)'
  BY <1>1, <1>2, <1>4 DEF Exchange, Shaped
<1>6. QED
  BY <1>2, <1>4, <1>5, LinkFrame DEF LinkInv, Undisturbed

(* The last byte of a request is heard if an answer comes of it.           *)
LEMMA LinkSendsByte ==
  ASSUME LinkInv, NEW p \in Procs, DemoInv', ca_spi_send_one_byte(p)
  PROVE  LinkInv'
<1>1. DOMAIN io = Procs /\ Exchange(p) /\ Line
  BY DEF LinkInv, DemoInv
<1>2. PICK res \in Results :
        /\ ta_spi_send_bytes(p, Head(io[p].frame), res) \/ Dead(p, res)
        /\ Called(p, res)
  BY DEF ca_spi_send_one_byte
<1>3. chip' = chip \/ Hears(Head(io[p].frame))
  BY <1>2 DEF ta_spi_send_bytes, Dead, deviceVars
<1> DEFINE rest == Tail(io[p].frame)
           stage == IF rest = <<>> THEN "hunt" ELSE "send"
           heard == chip.said # chip'.said \/ chip.out # chip'.out
<1>4. io' = [io EXCEPT ![p].frame = rest, ![p].stage = stage, ![p].heard = heard]
  BY DEF ca_spi_send_one_byte
<1>5. /\ stage \in {"hunt", "send"}
      /\ io'[p] = [io[p] EXCEPT !.frame = rest, !.stage = stage, !.heard = heard]
      /\ \A q \in Procs \ {p} : io'[q] = io[q]
  BY <1>1, <1>4
<1>6. io[p].n = 0
  BY <1>1 DEF ca_spi_send_one_byte, Exchange, Shaped
<1>7. ASSUME heard
      PROVE  Completes(0, chip'.out)
  <2>1. Hears(Head(io[p].frame))
    BY <1>3, <1>7
  <2>2. \A n : chip' # [chip EXCEPT !.heard = n]
    BY <1>1, <1>7 DEF Line
  <2>3. PICK data \in Said, left \in {<<>>, chip.out} :
          chip' = [heard |-> 0, out |-> left \o AnswerFrame(data),
                   said |-> chip.said \cup {data}]
    BY <2>1, <2>2 DEF Hears
  <2>4. Proper(left) /\ data \in Seq(Byte)
    BY <1>1, EmptyProper, KnownProper, DeviceAssumption DEF Line
  <2>5. QED
    BY <2>3, <2>4, AnswerHasHeader
<1>8. Exchange(p)'
  <2>1. io'[p].heard = heard /\ io'[p].stage = stage /\ io'[p].n = 0
    BY <1>1, <1>5, <1>6 DEF Exchange, Shaped
  <2> HIDE DEF rest, stage, heard
  <2>2. Shaped(io'[p])
    BY <1>1, <1>5 DEF Exchange, Shaped
  <2>3. QED
    BY <1>7, <2>1, <2>2 DEF Exchange, Shaped
<1>9. QED
  BY <1>2, <1>3, <1>5, <1>8, Noticed, LinkFrame

(* Outside the hunt nothing is said but that the record keeps its shape.   *)
LEMMA OtherBytes ==
  ASSUME LinkInv, NEW p \in Procs, NEW x,
         Header(p, x) \/ Data(p, x) \/ Check(p, x)
  PROVE  /\ Shaped(io'[p])
         /\ \/ io'[p].stage \notin {"hunt", "send", "idle"}
            \/ io'[p].stage = "idle" /\ io'[p].n = 0
<1>1. DOMAIN io = Procs /\ Shaped(io[p])
  BY DEF LinkInv, DemoInv, Exchange, Shaped
<1>2. CASE Rejects(p)
  BY <1>1, <1>2 DEF Rejects, Quiet, Shaped
<1>3. CASE Header(p, x) /\ ~Rejects(p)
  <2>1. CASE io' = [io EXCEPT ![p].stage = "high"]
    BY <1>1, <2>1 DEF Shaped
  <2>2. CASE \E m : io' = [io EXCEPT ![p].stage = "low", ![p].n = m]
    <3>1. PICK m : io' = [io EXCEPT ![p].stage = "low", ![p].n = m]
      BY <2>2
    <3>2. io'[p] = [io[p] EXCEPT !.stage = "low", !.n = m]
      BY <1>1, <3>1
    <3>3. QED
      BY <1>1, <3>2 DEF Shaped
  <2>3. CASE LET ex == [io[p] EXCEPT !.n = io[p].n + x, !.stage = "data"] IN
             io' = [io EXCEPT ![p] = IF ex.n = 0 THEN Summed(ex) ELSE ex]
    BY <1>1, <2>3 DEF Shaped, Summed
  <2>4. QED
    BY <1>3, <2>1, <2>2, <2>3 DEF Header
<1>4. CASE Data(p, x)
  <2>1. io[p].stage = "data"
    BY <1>4 DEF Data
  <2>2. LET ex == [io[p] EXCEPT !.buf = Append(io[p].buf, x)] IN
        io' = [io EXCEPT ![p] = IF Len(ex.buf) = ex.n THEN Summed(ex) ELSE ex]
    BY <1>4 DEF Data
  <2>3. QED
    BY <1>1, <2>1, <2>2 DEF Shaped, Summed
<1>5. CASE Check(p, x) /\ ~Rejects(p)
  <2>1. CASE \E m : io' = [io EXCEPT ![p].stage = "crc_low", ![p].n = m]
    <3>1. PICK m : io' = [io EXCEPT ![p].stage = "crc_low", ![p].n = m]
      BY <2>1
    <3>2. io'[p] = [io[p] EXCEPT !.stage = "crc_low", !.n = m]
      BY <1>1, <3>1
    <3>3. QED
      BY <1>1, <3>2 DEF Shaped
  <2>2. CASE io' = [io EXCEPT ![p] = [Quiet(io[p].crc) EXCEPT !.got = io[p].buf]]
    BY <1>1, <2>2 DEF Shaped, Quiet
  <2>3. QED
    BY <1>5, <2>1, <2>2 DEF Check
<1>6. QED
  BY <1>2, <1>3, <1>4, <1>5

LEMMA LinkReceives ==
  ASSUME LinkInv, NEW p \in Procs, DemoInv', se_spi_receive(p)
  PROVE  LinkInv'
<1>1. DOMAIN io = Procs /\ Exchange(p) /\ Line /\ DemoInv
  BY DEF LinkInv, DemoInv
<1>2. PICK x :
        /\ ca_spi_receive_one_byte(p, x)
        /\ Hunt(p, x) \/ Header(p, x) \/ Data(p, x) \/ Check(p, x)
  BY DEF se_spi_receive
<1>3. PICK res \in Results :
        /\ ta_spi_receive_bytes(p, res) \/ Dead(p, res)
        /\ x \in IF res = "OK" THEN {ShiftsOut} ELSE Garbage
        /\ Called(p, res)
  BY <1>2 DEF ca_spi_receive_one_byte
<1>4. chip' = chip \/ Shifts
  BY <1>3 DEF ta_spi_receive_bytes, Dead, deviceVars
<1>5. /\ ~meddled'[p] => ~meddled[p]
      /\ hurt'[p] = 0 => hurt[p] = 0 /\ res = "OK"
  BY <1>3, Noticed
<1>6. ASSUME Header(p, x) \/ Data(p, x) \/ Check(p, x)
      PROVE  Exchange(p)'
  BY <1>6, OtherBytes DEF Exchange, Shaped
<1>7. ASSUME Hunt(p, x)
      PROVE  Exchange(p)'
  <2> DEFINE n == IF x = Sync[io[p].n + 1] THEN io[p].n + 1 ELSE io[p].n
  <2>1. /\ io[p].stage = "hunt"
        /\ io' = [io EXCEPT ![p].n = n, ![p].stage = IF n = 5 THEN "zero" ELSE "hunt"]
    BY <1>7, SyncIs DEF Hunt, Hunts
  <2>2. n \in 0..5
    BY <1>1, <2>1 DEF Exchange, Shaped
  <2>3. /\ io'[p] = [io[p] EXCEPT !.n = n, !.stage = IF n = 5 THEN "zero" ELSE "hunt"]
    BY <1>1, <2>1
  <2>4. ASSUME io[p].heard, hurt'[p] = 0, ~meddled'[p], n # 5
        PROVE  Completes(n, chip'.out)
    <3>1. res = "OK" /\ hurt[p] = 0 /\ ~meddled[p]
      BY <1>5, <2>4
    <3>2. Shifts /\ x = ShiftsOut
      <4>1. ~Dead(p, res)
        BY <3>1 DEF Dead
      <4>2. QED
        BY <1>3, <3>1, <4>1 DEF ta_spi_receive_bytes
    <3>3. Completes(io[p].n, chip.out) /\ io[p].n \in 0..4 /\ Proper(chip.out)
      BY <1>1, <2>1, <2>4, <3>1 DEF Exchange, Shaped, Line
    <3>4. chip.out # <<>>
      BY <3>3, HuntGoesOn
    <3>5. x = Head(chip.out) /\ chip'.out = Tail(chip.out)
      BY <1>1, <3>2, <3>4 DEF Shifts, ShiftsOut, Line
    <3>6. QED
      BY <2>4, <3>3, <3>5, HuntGoesOn
  <2> HIDE DEF n
  <2>5. Shaped(io'[p]) /\ io'[p].n = n /\ io'[p].heard = io[p].heard
        /\ io'[p].stage = IF n = 5 THEN "zero" ELSE "hunt"
    BY <1>1, <2>3 DEF Exchange, Shaped
  <2>6. QED
    BY <2>2, <2>4, <2>5 DEF Exchange, Shaped
<1>8. Exchange(p)'
  BY <1>2, <1>6, <1>7
<1>9. \A q \in Procs \ {p} : io'[q] = io[q]
  BY <1>1, <1>2, Reads
<1>10. QED
  BY <1>3, <1>4, <1>8, <1>9, Noticed, LinkFrame

LEMMA InitLinkInv == DemoInit => LinkInv
<1>1. DemoInit => Line
  BY EmptyProper DEF DemoInit, Init, Line
<1>2. ASSUME DemoInit, NEW p \in Procs
      PROVE  Exchange(p)
  BY <1>2 DEF DemoInit, Quiet, Exchange, Shaped
<1>3. DemoInit => meddled = [q \in Procs |-> meddled[q]]
  BY DEF DemoInit
<1>4. QED
  BY <1>1, <1>2, <1>3, InitDemoInv DEF LinkInv

LEMMA NextLinkInv == LinkInv /\ [DemoNext]_demoVars => LinkInv'
<1>1. LinkInv /\ [DemoNext]_demoVars => DemoInv'
  BY NextDemoInv DEF LinkInv
<1>2. ASSUME LinkInv, UNCHANGED demoVars
      PROVE  LinkInv'
  <2>1. \A p \in Procs : Exchange(p)'
    BY <1>2 DEF LinkInv, demoVars, Exchange, Shaped
  <2>2. Line'
    BY <1>2 DEF LinkInv, demoVars, Line, Proper
  <2>3. QED
    BY <1>1, <1>2, <2>1, <2>2 DEF LinkInv, demoVars
<1>3. ASSUME LinkInv, DemoNext, NEW p \in Procs, Main(p) \/ Exit(p) \/ AnyCommand(p)
      PROVE  LinkInv'
  BY <1>1, <1>3, LinkCalls, LinkSends, LinkSendsByte, LinkReceives, LinkExit, LinkStranger
     DEF Main
<1>4. QED
  BY <1>2, <1>3 DEF DemoNext

(* The hunt for a header, which nothing in the code bounds, is never       *)
(* without an end: as long as no call fails and nobody else takes a byte   *)
(* off the line, what it misses of a header is still to come, whatever     *)
(* processes that were killed have left unread before the answer.          *)
THEOREM HuntsEnd == DemoSpec => []HuntEnds
<1>1. DemoSpec => []LinkInv
  BY InitLinkInv, NextLinkInv, PTL DEF DemoSpec
<1>2. LinkInv => HuntEnds
  BY DEF LinkInv, Exchange, Shaped, HuntEnds
<1>3. QED
  BY <1>1, <1>2, PTL
-----------------------------------------------------------------------------
(***************************************************************************)
(* What is on the line of the element: whole answers, behind the rest of   *)
(* one that has been read in part (Parses), and where the hunt is in it.   *)
(***************************************************************************)

LEMMA Joined ==
  ASSUME NEW T, NEW s \in Seq(T), NEW t \in Seq(T)
  PROVE  /\ s \o t \in Seq(T) /\ Len(s \o t) = Len(s) + Len(t)
         /\ \A i \in 1..Len(s) + Len(t) :
              (s \o t)[i] = IF i <= Len(s) THEN s[i] ELSE t[i - Len(s)]
BY ConcatProperties

(* What an answer consists of, byte by byte.                               *)
LEMMA AnswerIs ==
  ASSUME NEW data \in Seq(Byte)
  PROVE  LET f == AnswerFrame(data)
             n == Len(data)
         IN /\ n \in Nat /\ Len(f) = n + 10 /\ DOMAIN f = 1..(n + 10)
            /\ \A i \in 1..5 : f[i] = Sync[i]
            /\ f[6] = 0 /\ f[7] = n \div 256 /\ f[8] = n % 256
            /\ \A i \in 1..n : f[8 + i] = data[i]
            /\ f[9 + n] = Kermit(data) % 256
            /\ f[10 + n] = Kermit(data) \div 256
<1> DEFINE a == <<0, 0, 0, \hAA, \h55, 0>>
           b == <<Len(data) \div 256, Len(data) % 256>>
           c == <<Kermit(data) % 256, Kermit(data) \div 256>>
           T == Byte \cup {b[1], b[2], c[1], c[2]}
           n == Len(data)
<1>1. a \in Seq(T) /\ b \in Seq(T) /\ c \in Seq(T) /\ data \in Seq(T) /\ n \in Nat
  <2>1. a \in Seq(T)
    BY DEF Byte
  <2>2. b \in Seq(T) /\ c \in Seq(T) /\ data \in Seq(T) /\ n \in Nat
    OBVIOUS
  <2>3. QED
    BY <2>1, <2>2
<1>2. Len(a) = 6 /\ Len(b) = 2 /\ Len(c) = 2
  OBVIOUS
<1>3. /\ a[6] = 0 /\ \A i \in 1..5 : a[i] = Sync[i]
      /\ b[1] = n \div 256 /\ b[2] = n % 256
      /\ c[1] = Kermit(data) % 256 /\ c[2] = Kermit(data) \div 256
  BY DEF Sync
<1>0. AnswerFrame(data) = ((a \o b) \o data) \o c
  BY DEF AnswerFrame, Framed
<1> HIDE DEF a, b, c, T
<1> DEFINE u == a \o b
           v == u \o data
           w == v \o c
<1>4. /\ u \in Seq(T) /\ Len(u) = 8
      /\ \A i \in 1..8 : u[i] = IF i <= 6 THEN a[i] ELSE b[i - 6]
  <2>1. /\ u \in Seq(T) /\ Len(u) = Len(a) + Len(b)
        /\ \A i \in 1..Len(a) + Len(b) :
             u[i] = IF i <= Len(a) THEN a[i] ELSE b[i - Len(a)]
    BY <1>1, Joined
  <2> HIDE DEF u
  <2>2. QED
    BY <1>2, <2>1
<1> HIDE DEF u
<1>5. /\ v \in Seq(T) /\ Len(v) = 8 + n
      /\ \A i \in 1..8 + n : v[i] = IF i <= 8 THEN u[i] ELSE data[i - 8]
  <2>1. /\ v \in Seq(T) /\ Len(v) = Len(u) + Len(data)
        /\ \A i \in 1..Len(u) + Len(data) :
             v[i] = IF i <= Len(u) THEN u[i] ELSE data[i - Len(u)]
    BY <1>1, <1>4, Joined
  <2> HIDE DEF v
  <2>2. QED
    BY <1>4, <2>1
<1> HIDE DEF v
<1>6. /\ w \in Seq(T) /\ Len(w) = 10 + n
      /\ \A i \in 1..10 + n : w[i] = IF i <= 8 + n THEN v[i] ELSE c[i - (8 + n)]
  <2>1. /\ w \in Seq(T) /\ Len(w) = Len(v) + Len(c)
        /\ \A i \in 1..Len(v) + Len(c) :
             w[i] = IF i <= Len(v) THEN v[i] ELSE c[i - Len(v)]
    BY <1>1, <1>5, Joined
  <2>2. Len(v) + Len(c) = 10 + n
    BY <1>1, <1>2, <1>5
  <2> HIDE DEF w
  <2>3. QED
    BY <1>5, <2>1, <2>2
<1> HIDE DEF w
<1>7. DOMAIN w = 1..(n + 10)
  BY <1>1, <1>6
<1>8. \A i \in 1..8 : w[i] = IF i <= 6 THEN a[i] ELSE b[i - 6]
  <2>1. ASSUME NEW i \in 1..8
        PROVE  w[i] = u[i]
    <3>1. i \in 1..8 + n /\ i \in 1..10 + n /\ i <= 8 + n /\ i <= 8
      BY <1>1
    <3>2. QED
      BY <1>5, <1>6, <3>1
  <2>2. QED
    BY <1>4, <2>1
<1>9. ASSUME NEW i \in 1..n
      PROVE  w[8 + i] = data[i]
  <2>1. PICK j \in 1..8 + n : j = 8 + i /\ j > 8 /\ j - 8 = i
    BY <1>1
  <2>2. QED
    BY <1>1, <1>5, <1>6, <2>1
<1>10. w[9 + n] = c[1] /\ w[10 + n] = c[2]
  <2>1. PICK j \in 1..10 + n : j = 9 + n /\ ~(j <= 8 + n) /\ j - (8 + n) = 1
    BY <1>1
  <2>2. PICK k \in 1..10 + n : k = 10 + n /\ ~(k <= 8 + n) /\ k - (8 + n) = 2
    BY <1>1
  <2>3. QED
    BY <1>6, <2>1, <2>2
<1>11. w = AnswerFrame(data)
  BY <1>0 DEF u, v, w
<1>12. QED
  BY <1>1, <1>3, <1>6, <1>7, <1>8, <1>9, <1>10, <1>11, SMTT(30)
-----------------------------------------------------------------------------
(* All of an answer but its first j bytes is next on the line.             *)
Rest(j, data, out) ==
  LET f == AnswerFrame(data) IN
  /\ Len(f) - j <= Len(out)
  /\ \A i \in 1..Len(f) - j : out[i] = f[i + j]

LEMMA RestGoes ==
  ASSUME NEW out, Proper(out), NEW data \in Seq(Byte), NEW j \in 0..Len(data) + 9,
         Rest(j, data, out)
  PROVE  /\ out # <<>>
         /\ Head(out) = AnswerFrame(data)[j + 1]
         /\ Rest(j + 1, data, Tail(out))
<1>1. PICK T : out \in Seq(T)
  BY DEF Proper
<1> DEFINE f == AnswerFrame(data)
<1>2. Len(f) \in Nat /\ j \in Nat /\ j + 1 <= Len(f) /\ Len(out) \in Nat
  BY <1>1, AnswerIs
<1> HIDE DEF f
<1>3. Len(f) - j <= Len(out) /\ \A i \in 1..Len(f) - j : out[i] = f[i + j]
  BY DEF Rest, f
<1>4. out # <<>> /\ Head(out) = out[1] /\ 1 \in 1..Len(f) - j
  BY <1>1, <1>2, <1>3
<1>5. out[1] = f[1 + j] /\ 1 + j = j + 1
  BY <1>2, <1>3, <1>4
<1>6. /\ Len(Tail(out)) = Len(out) - 1
      /\ \A i \in 1..Len(out) - 1 : Tail(out)[i] = out[i + 1]
  BY <1>1, <1>4
<1>7. ASSUME NEW i \in 1..Len(f) - (j + 1)
      PROVE  Tail(out)[i] = f[i + (j + 1)]
  <2>1. PICK k \in 1..Len(f) - j : k = i + 1 /\ k + j = i + (j + 1)
    BY <1>2
  <2>2. i \in 1..Len(out) - 1
    BY <1>2, <1>3
  <2>3. QED
    BY <1>3, <1>6, <2>1, <2>2
<1>8. Rest(j + 1, data, Tail(out))
  BY <1>2, <1>3, <1>6, <1>7 DEF Rest, f
<1>9. QED
  BY <1>4, <1>5, <1>8 DEF f
-----------------------------------------------------------------------------
(* A whole answer stands at position i of the line.                        *)
Whole(i, data, out) ==
  LET f == AnswerFrame(data) IN
  /\ i + Len(f) <= Len(out) + 1
  /\ \A k \in 1..Len(f) : out[i + k - 1] = f[k]

(* From each position of S on the line holds whole answers.                *)
Tiled(S, D, out) ==
  /\ S \subseteq 1..Len(out)
  /\ \A i \in S : \E data \in D :
       Whole(i, data, out) /\ i + Len(AnswerFrame(data)) \in S \cup {Len(out) + 1}

(* A search with n bytes found would end before position m.                *)
Holds(n, out, m) ==
  \E f \in [(n + 1)..5 -> 1..(m - 1)] :
    /\ \A i \in (n + 1)..4 : f[i] < f[i + 1]
    /\ \A i \in (n + 1)..5 : out[f[i]] = Sync[i]

(* It ends in no other place than behind the header of an answer.          *)
Parses(n, D, out) ==
  \E S : /\ Tiled(S, D, out)
         /\ \E m \in S \cup {Len(out) + 1} : ~Holds(n, out, m)

LEMMA SyncBytes == Sync[1] = 0 /\ Sync[2] = 0 /\ Sync[3] = 0 /\ Sync[4] = 170 /\ Sync[5] = 85
BY DEF Sync

(* One byte further, what is left of a tiled line is tiled.                *)
LEMMA TiledGoes ==
  ASSUME NEW out, Proper(out), out # <<>>, NEW S, NEW D \in SUBSET Seq(Byte),
         Tiled(S, D, out)
  PROVE  LET R == {i \in 1..Len(out) - 1 : i + 1 \in S} IN
         /\ Tiled(R, D, Tail(out))
         /\ \A m \in S \cup {Len(out) + 1} :
              m # 1 => m - 1 \in R \cup {Len(Tail(out)) + 1}
<1> DEFINE R == {i \in 1..Len(out) - 1 : i + 1 \in S}
<1>1. PICK T : out \in Seq(T)
  BY DEF Proper
<1>2. /\ Len(Tail(out)) = Len(out) - 1 /\ Len(out) \in Nat /\ Len(out) > 0
      /\ \A i \in 1..Len(out) - 1 : Tail(out)[i] = out[i + 1]
  BY <1>1
<1>3. S \subseteq 1..Len(out)
  BY DEF Tiled
<1>4. \A m \in S \cup {Len(out) + 1} : m # 1 => m - 1 \in R \cup {Len(Tail(out)) + 1}
  BY <1>2, <1>3
<1>5. ASSUME NEW i \in R
      PROVE  \E data \in D : /\ Whole(i, data, Tail(out))
                             /\ i + Len(AnswerFrame(data)) \in R \cup {Len(Tail(out)) + 1}
  <2>1. PICK data \in D : /\ Whole(i + 1, data, out)
                          /\ i + 1 + Len(AnswerFrame(data)) \in S \cup {Len(out) + 1}
    BY DEF Tiled
  <2> DEFINE n == Len(AnswerFrame(data))
  <2>2. n \in Nat /\ n > 0
    BY AnswerIs
  <2> HIDE DEF n
  <2>3. /\ i + 1 + n <= Len(out) + 1
        /\ \A k \in 1..n : out[i + 1 + k - 1] = AnswerFrame(data)[k]
    BY <2>1 DEF Whole, n
  <2>4. ASSUME NEW k \in 1..n
        PROVE  Tail(out)[i + k - 1] = AnswerFrame(data)[k]
    <3>1. PICK j \in 1..Len(out) - 1 : j = i + k - 1 /\ j + 1 = i + 1 + k - 1
      BY <1>2, <2>2, <2>3
    <3>2. QED
      BY <1>2, <2>3, <3>1
  <2>5. Whole(i, data, Tail(out))
    BY <1>2, <2>2, <2>3, <2>4 DEF Whole, n
  <2>6. i + n \in R \cup {Len(Tail(out)) + 1}
    <3>1. PICK m \in S \cup {Len(out) + 1} : m = i + 1 + n
      BY <2>1 DEF n
    <3>2. m # 1 /\ m - 1 = i + n
      BY <2>2, <3>1
    <3>3. QED
      BY <1>4, <3>2
  <2>7. QED
    BY <2>5, <2>6 DEF n
<1>6. R \subseteq 1..Len(Tail(out))
  BY <1>2
<1>7. QED
  BY <1>4, <1>5, <1>6 DEF Tiled

(* A byte that goes takes no header with it that is not whole yet.         *)
LEMMA HoldsGoes ==
  ASSUME NEW out, Proper(out), NEW n \in 0..4, NEW m \in 2..Len(out) + 1,
         ~Holds(n, out, m)
  PROVE  /\ ~Holds(n, Tail(out), m - 1)
         /\ Head(out) = Sync[n + 1] =>
              n + 1 \in 0..4 /\ ~Holds(n + 1, Tail(out), m - 1)
<1>1. PICK T : out \in Seq(T)
  BY DEF Proper
<1>2. /\ Len(out) \in Nat /\ m \in Nat /\ m <= Len(out) + 1 /\ m >= 2
      /\ Head(out) = out[1]
      /\ \A i \in 1..Len(out) - 1 : Tail(out)[i] = out[i + 1]
  BY <1>1
<1>3. ASSUME Holds(n, Tail(out), m - 1)
      PROVE  FALSE
  <2>1. PICK f \in [(n + 1)..5 -> 1..(m - 2)] :
          /\ \A i \in (n + 1)..4 : f[i] < f[i + 1]
          /\ \A i \in (n + 1)..5 : Tail(out)[f[i]] = Sync[i]
    <3>1. m - 1 - 1 = m - 2
      BY <1>2
    <3>2. QED
      BY <1>3, <3>1 DEF Holds
  <2> DEFINE g == [i \in (n + 1)..5 |-> f[i] + 1]
  <2>2. g \in [(n + 1)..5 -> 1..(m - 1)]
    <3>1. \A i \in 1..(m - 2) : i + 1 \in 1..(m - 1)
      BY <1>2
    <3>2. \A i \in (n + 1)..5 : f[i] + 1 \in 1..(m - 1)
      BY <2>1, <3>1
    <3>3. QED
      BY <3>2
  <2>3. \A i \in (n + 1)..4 : g[i] < g[i + 1]
    BY <1>2, <2>1, SMTT(30)
  <2>4. ASSUME NEW i \in (n + 1)..5
        PROVE  out[g[i]] = Sync[i]
    <3>1. f[i] \in 1..Len(out) - 1
      BY <1>2, <2>1
    <3>2. QED
      BY <1>2, <2>1, <3>1
  <2>5. QED
    BY <2>2, <2>3, <2>4 DEF Holds
<1>4. ASSUME Head(out) = Sync[n + 1]
      PROVE  n # 4
  <2>1. SUFFICES ASSUME n = 4 PROVE FALSE
    OBVIOUS
  <2> DEFINE g == [i \in 5..5 |-> 1]
  <2>2. g \in [5..5 -> 1..(m - 1)]
    BY <1>2
  <2>3. \A i \in 5..4 : g[i] < g[i + 1]
    OBVIOUS
  <2>4. \A i \in 5..5 : out[g[i]] = Sync[i]
    BY <1>2, <1>4, <2>1
  <2>5. Holds(4, out, m)
    <3>1. 4 + 1 = 5
      OBVIOUS
    <3> HIDE DEF g
    <3>2. QED
      BY <2>2, <2>3, <2>4, <3>1 DEF Holds
  <2>6. QED
    BY <2>1, <2>5
<1>5. ASSUME Head(out) = Sync[n + 1], n # 4, Holds(n + 1, Tail(out), m - 1)
      PROVE  FALSE
  <2>1. PICK f \in [(n + 2)..5 -> 1..(m - 2)] :
          /\ \A i \in (n + 2)..4 : f[i] < f[i + 1]
          /\ \A i \in (n + 2)..5 : Tail(out)[f[i]] = Sync[i]
    <3>1. m - 1 - 1 = m - 2 /\ n + 1 + 1 = n + 2
      BY <1>2
    <3>2. QED
      BY <1>5, <3>1 DEF Holds
  <2> DEFINE g == [i \in (n + 1)..5 |-> IF i = n + 1 THEN 1 ELSE f[i] + 1]
  <2>2. g \in [(n + 1)..5 -> 1..(m - 1)]
    <3>1. 1 \in 1..(m - 1) /\ \A i \in 1..(m - 2) : i + 1 \in 1..(m - 1)
      BY <1>2
    <3>2. \A i \in (n + 1)..5 : i # n + 1 => i \in (n + 2)..5
      BY <1>2
    <3>3. \A i \in (n + 2)..5 : f[i] + 1 \in 1..(m - 1)
      BY <2>1, <3>1
    <3>4. \A i \in (n + 1)..5 : (IF i = n + 1 THEN 1 ELSE f[i] + 1) \in 1..(m - 1)
      BY <3>1, <3>2, <3>3
    <3>5. QED
      BY <3>4
  <2>3. ASSUME NEW i \in (n + 1)..4
        PROVE  g[i] < g[i + 1]
    <3>1. i + 1 \in (n + 2)..5 /\ i \in (n + 1)..5 /\ i + 1 \in (n + 1)..5 /\ i + 1 # n + 1
      BY <1>2
    <3>2. g[i + 1] = f[i + 1] + 1 /\ f[i + 1] \in Nat /\ f[i + 1] >= 1
      BY <1>2, <2>1, <3>1
    <3>3. CASE i = n + 1
      BY <3>1, <3>2, <3>3
    <3>4. CASE i # n + 1
      <4>1. i \in (n + 2)..4 /\ i \in (n + 2)..5
        BY <1>2, <3>4
      <4>2. g[i] = f[i] + 1 /\ f[i] \in Nat /\ f[i] < f[i + 1]
        BY <1>2, <2>1, <3>1, <3>4, <4>1
      <4>3. QED
        BY <3>2, <4>2, SMTT(30)
    <3>5. QED
      BY <3>3, <3>4
  <2>4. ASSUME NEW i \in (n + 1)..5
        PROVE  out[g[i]] = Sync[i]
    <3>1. CASE i = n + 1
      BY <1>2, <1>5, <3>1
    <3>2. CASE i # n + 1
      <4>1. i \in (n + 2)..5 /\ f[i] \in 1..Len(out) - 1
        BY <1>2, <2>1, <3>2, SMTT(30)
      <4>2. QED
        BY <1>2, <2>1, <3>2, <4>1
    <3>3. QED
      BY <3>1, <3>2
  <2>5. QED
    BY <2>2, <2>3, <2>4 DEF Holds
<1>6. QED
  BY <1>3, <1>4, <1>5

(* What is left of an answer of which a byte is gone holds no header.      *)
LEMMA NoEcho ==
  ASSUME NEW out, Proper(out), NEW data \in Seq(Byte), ~Echoes(data),
         Whole(1, data, out)
  PROVE  ~Holds(0, Tail(out), Len(AnswerFrame(data)))
<1> DEFINE f == AnswerFrame(data)
<1>1. PICK T : out \in Seq(T)
  BY DEF Proper
<1>2. Len(f) \in Nat /\ Len(f) >= 10 /\ f[6] = 0 /\ \A i \in 1..5 : f[i] = Sync[i]
  BY AnswerIs
<1>3. ~\E i \in 7..Len(f) : \E j \in i + 1..Len(f) : f[i] = 170 /\ f[j] = 85
  BY DEF Echoes
<1> HIDE DEF f
<1>4. 1 + Len(f) <= Len(out) + 1 /\ \A k \in 1..Len(f) : out[1 + k - 1] = f[k]
  BY DEF Whole, f
<1>5. ASSUME NEW i \in 1..Len(f) - 1
      PROVE  Tail(out)[i] = f[i + 1]
  <2>1. /\ i \in 1..Len(out) - 1 /\ i + 1 \in 1..Len(f)
        /\ 1 + (i + 1) - 1 = i + 1 /\ out # <<>>
    BY <1>1, <1>2, <1>4
  <2>2. Tail(out)[i] = out[i + 1]
    BY <1>1, <2>1
  <2>3. QED
    BY <1>4, <2>1, <2>2
<1>6. ASSUME NEW g \in [1..5 -> 1..Len(f) - 1],
             \A i \in 1..4 : g[i] < g[i + 1],
             \A i \in 1..5 : Tail(out)[g[i]] = Sync[i]
      PROVE  FALSE
  <2>1. /\ f[g[3] + 1] = 0 /\ f[g[4] + 1] = 170 /\ f[g[5] + 1] = 85
    <3>1. \A i \in 1..5 : g[i] \in 1..Len(f) - 1
      BY <1>6
    <3>2. \A i \in 1..5 : f[g[i] + 1] = Sync[i]
      BY <1>5, <1>6, <3>1
    <3>3. QED
      <4>1. 3 \in 1..5 /\ 4 \in 1..5 /\ 5 \in 1..5
        OBVIOUS
      <4>2. f[g[3] + 1] = Sync[3] /\ f[g[4] + 1] = Sync[4] /\ f[g[5] + 1] = Sync[5]
        BY <3>2, <4>1
      <4>3. QED
        BY <4>2, SyncBytes
  <2>2. /\ g[1] \in Nat /\ g[2] \in Nat /\ g[3] \in Nat /\ g[4] \in Nat /\ g[5] \in Nat
        /\ 1 <= g[1] /\ g[1] < g[2] /\ g[2] < g[3] /\ g[3] < g[4] /\ g[4] < g[5]
        /\ g[5] <= Len(f) - 1
    <3>1. /\ g[1] < g[1 + 1] /\ g[2] < g[2 + 1] /\ g[3] < g[3 + 1] /\ g[4] < g[4 + 1]
      BY <1>6
    <3>2. \A i \in 1..5 : g[i] \in Nat /\ 1 <= g[i] /\ g[i] <= Len(f) - 1
      <4>1. Len(f) \in Nat
        BY <1>2
      <4>2. \A i \in 1..5 : g[i] \in 1..Len(f) - 1
        BY <1>6
      <4>3. QED
        BY <4>1, <4>2
    <3>3. QED
      BY <3>1, <3>2
  <2>3. f[4] = 170 /\ f[5] = 85
    BY <1>2, SyncBytes, SMTT(30)
  <2>4. g[3] + 1 # 4 /\ g[3] + 1 # 5
    BY <2>1, <2>3, SMTT(30)
  <2>5. g[3] >= 5
    BY <2>2, <2>4
  <2>6. g[4] + 1 \in 7..Len(f) /\ g[5] + 1 \in (g[4] + 1) + 1..Len(f)
    <3>1. Len(f) \in Nat
      BY <1>2
    <3>2. QED
      BY <2>2, <2>5, <3>1, SMTT(30)
  <2> DEFINE a == g[4] + 1
             b == g[5] + 1
  <2>7. a \in 7..Len(f) /\ b \in a + 1..Len(f) /\ f[a] = 170 /\ f[b] = 85
    BY <2>1, <2>6
  <2> HIDE DEF a, b
  <2>8. QED
    BY <1>3, <2>7, SMTT(30)
<1>7. ~Holds(0, Tail(out), Len(f))
  <2>1. 0 + 1 = 1
    OBVIOUS
  <2>2. QED
    BY <1>6, <2>1 DEF Holds
<1>8. QED
  BY <1>7 DEF f

LEMMA NothingParses == \A D : Parses(0, D, <<>>)
<1>1. ASSUME NEW D
      PROVE  Tiled({}, D, <<>>)
  BY DEF Tiled
<1>2. ~Holds(0, <<>>, 1)
  <2>1. \A f : f \notin [1..5 -> 1..0]
    OBVIOUS
  <2>2. 0 + 1 = 1 /\ 1 - 1 = 0
    OBVIOUS
  <2>3. QED
    BY <2>1, <2>2 DEF Holds
<1>3. 1 \in {} \cup {Len(<<>>) + 1}
  OBVIOUS
<1>4. QED
  BY <1>1, <1>2, <1>3 DEF Parses

(* A byte is read by the process that is searching.                        *)
LEMMA SearchGoes ==
  ASSUME NEW out, Proper(out), out # <<>>, NEW n \in 0..4,
         NEW D \in SUBSET Seq(Byte), Parses(n, D, out)
  PROVE  LET n2 == IF Head(out) = Sync[n + 1] THEN n + 1 ELSE n IN
         \/ n2 \in 0..4 /\ Parses(n2, D, Tail(out))
         \/ \E data \in D : Rest(0, data, out)
<1>1. PICK S : /\ Tiled(S, D, out)
               /\ \E m \in S \cup {Len(out) + 1} : ~Holds(n, out, m)
  BY DEF Parses
<1>2. PICK m \in S \cup {Len(out) + 1} : ~Holds(n, out, m)
  BY <1>1
<1>3. Len(out) \in Nat /\ Len(out) > 0
  BY DEF Proper
<1>4. m \in 1..Len(out) + 1
  BY <1>1, <1>3 DEF Tiled
<1>5. CASE m = 1
  <2>1. PICK data \in D : Whole(1, data, out)
    BY <1>1, <1>3, <1>5 DEF Tiled
  <2> DEFINE f == AnswerFrame(data)
  <2>2. Len(f) \in Nat
    BY AnswerIs
  <2> HIDE DEF f
  <2>3. 1 + Len(f) <= Len(out) + 1 /\ \A k \in 1..Len(f) : out[1 + k - 1] = f[k]
    BY <2>1 DEF Whole, f
  <2>4. Len(f) - 0 = Len(f) /\ \A k \in 1..Len(f) : 1 + k - 1 = k /\ k + 0 = k
    BY <2>2
  <2>5. Rest(0, data, out)
    BY <1>3, <2>2, <2>3, <2>4 DEF Rest, f
  <2>6. QED
    BY <2>5
<1>6. CASE m # 1
  <2> DEFINE R == {i \in 1..Len(out) - 1 : i + 1 \in S}
  <2>1. Tiled(R, D, Tail(out)) /\ m - 1 \in R \cup {Len(Tail(out)) + 1}
    BY <1>1, <1>6, TiledGoes
  <2>2. m \in 2..Len(out) + 1
    BY <1>3, <1>4, <1>6
  <2>3. QED
    BY <1>2, <2>1, <2>2, HoldsGoes DEF Parses
<1>7. QED
  BY <1>5, <1>6

(* A byte goes, whoever takes it: the line stays as it is to be for the    *)
(* next search.                                                            *)
LEMMA LineGoes ==
  ASSUME NEW out, Proper(out), out # <<>>, NEW D \in SUBSET Seq(Byte),
         \A data \in D : ~Echoes(data), Parses(0, D, out)
  PROVE  Parses(0, D, Tail(out))
<1>1. PICK S : /\ Tiled(S, D, out)
               /\ \E m \in S \cup {Len(out) + 1} : ~Holds(0, out, m)
  BY DEF Parses
<1>2. PICK m \in S \cup {Len(out) + 1} : ~Holds(0, out, m)
  BY <1>1
<1>3. Len(out) \in Nat /\ Len(out) > 0
  BY DEF Proper
<1>4. m \in 1..Len(out) + 1
  BY <1>1, <1>3 DEF Tiled
<1> DEFINE R == {i \in 1..Len(out) - 1 : i + 1 \in S}
<1>5. /\ Tiled(R, D, Tail(out))
      /\ \A k \in S \cup {Len(out) + 1} : k # 1 => k - 1 \in R \cup {Len(Tail(out)) + 1}
  BY <1>1, TiledGoes
<1> HIDE DEF R
<1>6. CASE m = 1
  <2>1. PICK data \in D : /\ Whole(1, data, out)
                          /\ 1 + Len(AnswerFrame(data)) \in S \cup {Len(out) + 1}
    BY <1>1, <1>3, <1>6 DEF Tiled
  <2> DEFINE n == Len(AnswerFrame(data))
  <2>2. n \in Nat /\ n > 0
    BY AnswerIs
  <2>3. ~Holds(0, Tail(out), n)
    BY <2>1, NoEcho
  <2> HIDE DEF n
  <2>4. 1 + n # 1 /\ (1 + n) - 1 = n
    BY <2>2
  <2>5. n \in R \cup {Len(Tail(out)) + 1}
    BY <1>5, <2>1, <2>4 DEF n
  <2>6. QED
    BY <1>5, <2>3, <2>5 DEF Parses
<1>7. CASE m # 1
  <2>1. m \in 2..Len(out) + 1
    BY <1>3, <1>4, <1>7
  <2>2. ~Holds(0, Tail(out), m - 1)
    BY <1>2, <2>1, HoldsGoes
  <2>3. QED
    BY <1>5, <1>7, <2>2 DEF Parses
<1>8. QED
  BY <1>6, <1>7
-----------------------------------------------------------------------------
(***************************************************************************)
(* The checksum structure of the client.                                   *)
(***************************************************************************)

(* The client's checksum of some data and the element's are one number; it *)
(* travels with the low byte first.                                        *)
Agrees(data) ==
  Result(Checksum(Fresh, data)) = 256 * (Kermit(data) % 256) + Kermit(data) \div 256

Structure(c) ==
  c = [init |-> c.init, xor |-> c.xor, reverse_in |-> c.reverse_in,
       reverse_out |-> c.reverse_out, value |-> c.value, endian |-> c.endian, st |-> c.st]

LEMMA StructureKept ==
  ASSUME NEW c, Structure(c), NEW d, NEW v, NEW e, NEW s,
         \/ d = [c EXCEPT !.value = v, !.endian = e, !.st = s]
         \/ d = [c EXCEPT !.reverse_in = v, !.reverse_out = e]
         \/ d = [c EXCEPT !.endian = e]
         \/ d = [c EXCEPT !.value = v]
  PROVE  Structure(d)
<1>1. CASE d = [c EXCEPT !.value = v, !.endian = e, !.st = s]
  BY <1>1 DEF Structure
<1>2. CASE d = [c EXCEPT !.reverse_in = v, !.reverse_out = e]
  BY <1>2 DEF Structure
<1>3. CASE d = [c EXCEPT !.endian = e]
  BY <1>3 DEF Structure
<1>4. CASE d = [c EXCEPT !.value = v]
  BY <1>4 DEF Structure
<1>5. QED
  BY <1>1, <1>2, <1>3, <1>4

(* Initialised for KERMIT the structure is always the same, unless a       *)
(* custom setting was kept in it.                                          *)
LEMMA InitialisedAfresh ==
  ASSUME NEW c, c.st # "CUSTOM", NEW d, d = crc_ccit_init(c, "KERMIT", 1)
  PROVE  /\ Structure(d)
         /\ d.init = 0 /\ d.xor = 0 /\ d.reverse_in = TRUE /\ d.reverse_out = TRUE
         /\ d.value = 0 /\ d.endian = 1 /\ d.st = "INIT"
<1>1. PICK clean : clean = [Fresh EXCEPT !.value = c.value, !.endian = c.endian, !.st = "INIT"]
  OBVIOUS
<1>2. PICK big : big = [clean EXCEPT !.endian = 1]
  OBVIOUS
<1>3. PICK set : set = [big EXCEPT !.reverse_in = TRUE, !.reverse_out = TRUE]
  OBVIOUS
<1>4. Preset("KERMIT", big) = set
  BY <1>3 DEF Preset
<1>5. d = [set EXCEPT !.value = set.init]
  BY <1>1, <1>2, <1>4 DEF crc_ccit_init, Modes
<1>6. Structure(Fresh)
  BY DEF Structure, Fresh
<1>7. Fresh.init = 0 /\ Fresh.xor = 0
  BY DEF Fresh
<1>8. Structure(clean) /\ clean.init = 0 /\ clean.xor = 0 /\ clean.st = "INIT"
  <2>1. Structure(clean)
    BY <1>1, <1>6, StructureKept
  <2>2. QED
    BY <1>1, <1>6, <1>7, <2>1 DEF Structure
<1>9. Structure(big) /\ big.init = 0 /\ big.xor = 0 /\ big.st = "INIT" /\ big.endian = 1
  <2>1. Structure(big)
    BY <1>2, <1>8, StructureKept
  <2>2. QED
    BY <1>2, <1>8, <2>1 DEF Structure
<1>10. /\ Structure(set) /\ set.init = 0 /\ set.xor = 0 /\ set.st = "INIT" /\ set.endian = 1
       /\ set.reverse_in = TRUE /\ set.reverse_out = TRUE
  <2>1. Structure(set)
    BY <1>3, <1>9, StructureKept
  <2>2. QED
    BY <1>3, <1>9, <2>1 DEF Structure
<1>11. Structure(d)
  BY <1>5, <1>10, StructureKept
<1>12. QED
  BY <1>5, <1>10, <1>11 DEF Structure

(* So what the structure held does not enter a checksum.                   *)
LEMMA ChecksumAfresh ==
  ASSUME NEW c, c.st # "CUSTOM", NEW data
  PROVE  LET after == crc_ccit_get_result(Checksum(c, data)) IN
         after.st = "SUCCESS" /\ after.value = Result(Checksum(Fresh, data))
<1> DEFINE a == crc_ccit_init(c, "KERMIT", 1)
           b == crc_ccit_init(Fresh, "KERMIT", 1)
           after == crc_ccit_update(a, data)
<1>1. Fresh.st # "CUSTOM"
  BY DEF Fresh
<1> HIDE DEF a, b
<1>2. Structure(a) /\ Structure(b) /\ a.st = "INIT" /\ a = b
  <2>1. /\ Structure(a) /\ a.init = 0 /\ a.xor = 0 /\ a.reverse_in = TRUE
        /\ a.reverse_out = TRUE /\ a.value = 0 /\ a.endian = 1 /\ a.st = "INIT"
    BY InitialisedAfresh DEF a
  <2>2. /\ Structure(b) /\ b.init = 0 /\ b.xor = 0 /\ b.reverse_in = TRUE
        /\ b.reverse_out = TRUE /\ b.value = 0 /\ b.endian = 1 /\ b.st = "INIT"
    BY <1>1, InitialisedAfresh DEF b
  <2>3. QED
    BY <2>1, <2>2 DEF Structure
<1>3. Checksum(c, data) = after /\ Checksum(Fresh, data) = after
  BY <1>2 DEF Checksum, a, b
<1>4. PICK v : after = [a EXCEPT !.value = v, !.st = "UPDATE"]
  BY <1>2 DEF crc_ccit_update
<1>5. after.st = "UPDATE" /\ DOMAIN after = DOMAIN a /\ "st" \in DOMAIN after
  BY <1>2, <1>4 DEF Structure
<1> HIDE DEF after
<1>6. crc_ccit_get_result(after).st = "SUCCESS"
  BY <1>5 DEF crc_ccit_get_result
<1>7. QED
  BY <1>3, <1>5, <1>6 DEF Result

(* A new answer, behind what is left or in its place.                      *)
LEMMA LineGrows ==
  ASSUME NEW left, Proper(left), NEW D \in SUBSET Seq(Byte), Parses(0, D, left),
         NEW data \in Seq(Byte)
  PROVE  Parses(0, D \cup {data}, left \o AnswerFrame(data))
<1> DEFINE f == AnswerFrame(data)
           out == left \o f
           l == Len(left)
<1>1. PICK T : left \in Seq(T)
  BY DEF Proper
<1>2. PICK U : f \in Seq(U)
  BY AnswerStarts
<1>3. Len(f) \in Nat /\ Len(f) > 0
  BY AnswerIs
<1> HIDE DEF f
<1>4. left \in Seq(T \cup U) /\ f \in Seq(T \cup U) /\ l \in Nat
  BY <1>1, <1>2
<1>5. /\ Len(out) = l + Len(f)
      /\ \A i \in 1..l + Len(f) : out[i] = IF i <= l THEN left[i] ELSE f[i - l]
  BY <1>4, Joined
<1> HIDE DEF out, l
<1>6. PICK S : /\ Tiled(S, D, left)
               /\ \E m \in S \cup {l + 1} : ~Holds(0, left, m)
  BY DEF Parses, l
<1>7. PICK m \in S \cup {l + 1} : ~Holds(0, left, m)
  BY <1>6
<1>8. S \subseteq 1..l
  BY <1>6 DEF Tiled, l
<1> DEFINE R == S \cup {l + 1}
<1>9. R \subseteq 1..Len(out)
  BY <1>3, <1>4, <1>5, <1>8
<1>10. ASSUME NEW i \in S
       PROVE  \E d \in D \cup {data} :
                Whole(i, d, out) /\ i + Len(AnswerFrame(d)) \in R \cup {Len(out) + 1}
  <2>1. PICK d \in D : Whole(i, d, left) /\ i + Len(AnswerFrame(d)) \in S \cup {l + 1}
    BY <1>6 DEF Tiled, l
  <2> DEFINE g == AnswerFrame(d)
  <2>2. Len(g) \in Nat
    BY AnswerIs
  <2> HIDE DEF g
  <2>3. i + Len(g) <= l + 1 /\ \A k \in 1..Len(g) : left[i + k - 1] = g[k]
    BY <2>1 DEF Whole, g, l
  <2>4. ASSUME NEW k \in 1..Len(g)
        PROVE  out[i + k - 1] = g[k]
    <3>1. i \in 1..l /\ i + k - 1 \in 1..l + Len(f) /\ i + k - 1 <= l
      BY <1>3, <1>4, <1>8, <2>2, <2>3
    <3>2. QED
      BY <1>5, <2>3, <3>1
  <2>5. Whole(i, d, out)
    <3>1. i + Len(g) <= Len(out) + 1
      BY <1>3, <1>4, <1>5, <1>8, <2>2, <2>3
    <3>2. QED
      BY <2>4, <3>1 DEF Whole, g
  <2>6. QED
    BY <2>1, <2>5
<1>11. \E d \in D \cup {data} :
         Whole(l + 1, d, out) /\ l + 1 + Len(AnswerFrame(d)) \in R \cup {Len(out) + 1}
  <2>1. ASSUME NEW k \in 1..Len(f)
        PROVE  out[l + 1 + k - 1] = f[k]
    <3>1. PICK j \in 1..l + Len(f) : j = l + 1 + k - 1 /\ ~(j <= l) /\ j - l = k
      BY <1>3, <1>4
    <3>2. QED
      BY <1>5, <3>1
  <2>2. l + 1 + Len(f) = Len(out) + 1
    BY <1>3, <1>4, <1>5
  <2>3. Whole(l + 1, data, out)
    BY <1>3, <1>4, <1>5, <2>1, <2>2 DEF Whole, f
  <2>4. QED
    BY <2>2, <2>3 DEF f
<1>12. Tiled(R, D \cup {data}, out)
  BY <1>9, <1>10, <1>11 DEF Tiled
<1>13. ASSUME Holds(0, out, m)
       PROVE  FALSE
  <2>1. PICK g \in [(0 + 1)..5 -> 1..(m - 1)] :
          /\ \A i \in (0 + 1)..4 : g[i] < g[i + 1]
          /\ \A i \in (0 + 1)..5 : out[g[i]] = Sync[i]
    BY <1>13 DEF Holds
  <2>2. m \in 1..l + 1
    BY <1>4, <1>7, <1>8
  <2>3. \A j \in 1..(m - 1) : j \in 1..l + Len(f) /\ j <= l
    BY <1>3, <1>4, <2>2
  <2>4. \A j \in 1..(m - 1) : out[j] = left[j]
    BY <1>5, <2>3
  <2>5. \A i \in (0 + 1)..5 : left[g[i]] = Sync[i]
    BY <2>1, <2>4
  <2>6. Holds(0, left, m)
    BY <2>1, <2>5 DEF Holds
  <2>7. QED
    BY <1>7, <2>6
<1>14. Parses(0, D \cup {data}, out)
  BY <1>12, <1>13 DEF Parses
<1>15. QED
  BY <1>14 DEF out, f

(* A header of an answer brings the search, however far it is, to its end  *)
(* just there.                                                             *)
LEMMA HeaderGoes ==
  ASSUME NEW out, Proper(out), NEW data \in Seq(Byte), NEW n \in 0..4, NEW j \in 0..n,
         Rest(j, data, out)
  PROVE  LET n2 == IF Head(out) = Sync[n + 1] THEN n + 1 ELSE n IN
         /\ out # <<>> /\ Rest(j + 1, data, Tail(out))
         /\ \/ n2 = 5 /\ j = 4
            \/ n2 \in 0..4 /\ j + 1 \in 0..n2
<1>1. Len(data) \in Nat /\ j \in 0..Len(data) + 9
  BY AnswerIs
<1>2. out # <<>> /\ Head(out) = AnswerFrame(data)[j + 1] /\ Rest(j + 1, data, Tail(out))
  BY <1>1, RestGoes
<1>3. Head(out) = Sync[j + 1]
  <2>1. j + 1 \in 1..5
    OBVIOUS
  <2>2. QED
    BY <1>2, <2>1, AnswerIs, SMTT(30)
<1>4. Head(out) = Sync[n + 1] =>
        \/ n = 4 /\ j = 4
        \/ n + 1 \in 0..4 /\ j + 1 \in 0..n + 1
  <2>1. n = 4 => Sync[n + 1] = 85
    BY SyncBytes
  <2>2. j \in 0..3 => Sync[j + 1] # 85
    BY SyncBytes
  <2>3. QED
    BY <1>3, <2>1, <2>2
<1>5. Head(out) # Sync[n + 1] => j + 1 \in 0..n
  BY <1>3
<1>6. QED
  BY <1>2, <1>4, <1>5

Searches(n, D, out) ==
  Parses(n, D, out) \/ \E data \in D : \E j \in 0..n : Rest(j, data, out)

LEMMA SearchStep ==
  ASSUME NEW out, Proper(out), NEW n \in 0..4, NEW D \in SUBSET Seq(Byte),
         Searches(n, D, out)
  PROVE  LET x == IF out = <<>> THEN Idle ELSE Head(out)
             rest == IF out = <<>> THEN out ELSE Tail(out)
             n2 == IF x = Sync[n + 1] THEN n + 1 ELSE n
         IN \/ n2 \in 0..4 /\ Searches(n2, D, rest)
            \/ n2 = 5 /\ \E data \in D : Rest(5, data, rest)
<1>1. CASE \E data \in D : \E j \in 0..n : Rest(j, data, out)
  <2>1. PICK data \in D, j \in 0..n : Rest(j, data, out)
    BY <1>1
  <2>2. data \in Seq(Byte)
    OBVIOUS
  <2>3. QED
    BY <2>1, <2>2, HeaderGoes DEF Searches
<1>2. CASE out = <<>> /\ Parses(n, D, out)
  <2>1. Idle # Sync[n + 1]
    BY SyncBytes DEF Idle
  <2>2. QED
    BY <1>2, <2>1 DEF Searches
<1>3. CASE out # <<>> /\ Parses(n, D, out) /\ ~\E data \in D : Rest(0, data, out)
  BY <1>3, SearchGoes DEF Searches
<1>4. 0 \in 0..n
  OBVIOUS
<1>5. QED
  BY <1>1, <1>2, <1>3, <1>4 DEF Searches
-----------------------------------------------------------------------------
(***************************************************************************)
(* The checksum.  Numbers of 16 bits are known by their bits; shifting is  *)
(* linear over Xor; and the client, which shifts to the left what it       *)
(* reverses before and after, keeps the element's register reversed.       *)
(***************************************************************************)

(* Induction, for a set of numbers.                                        *)
LEMMA Least ==
  ASSUME NEW T, T \subseteq Nat, T # {}
  PROVE  \E n \in T : \A m \in T : ~(m < n)
<1>1. IsWellFoundedOn(OpToRel(<, Nat), Nat)
  BY NatLessThanWellFounded
<1>2. PICK n \in T : \A m \in T : <<m, n>> \notin OpToRel(<, Nat)
  BY <1>1, WFMin
<1>3. QED
  BY <1>2 DEF OpToRel

LEMMA Reached ==
  ASSUME NEW N \in Nat, NEW T, 0 \in T,
         \A n \in 0..N : n # N /\ n \in T => n + 1 \in T
  PROVE  \A n \in 0..N : n \in T
<1>1. SUFFICES ASSUME {n \in 0..N : n \notin T} # {}
               PROVE  FALSE
  OBVIOUS
<1>2. PICK n \in 0..N : n \notin T /\ \A m \in 0..N : m \notin T => ~(m < n)
  <2> DEFINE S == {n \in 0..N : n \notin T}
  <2>1. S \subseteq Nat /\ S # {}
    BY <1>1
  <2> HIDE DEF S
  <2>2. \E n \in S : \A m \in S : ~(m < n)
    BY <2>1, Least
  <2>3. QED
    BY <2>2 DEF S
<1>3. n # 0
  BY <1>2
<1>4. n - 1 \in 0..N /\ n - 1 < n /\ n - 1 # N /\ n - 1 + 1 = n
  BY <1>3
<1>5. QED
  BY <1>2, <1>4

(* What takes a value from step to step is a function: e[n] in step n.     *)
Unrolls(V, first, step, N, e) ==
  \E g \in [0..N -> V] :
    /\ g[0] = first
    /\ \A n \in 0..N : n # 0 => g[n] = step[g[n - 1]][e[n]]

LEMMA Recursion ==
  ASSUME NEW V, NEW E, NEW first \in V, NEW step \in [V -> [E -> V]],
         NEW N \in Nat, NEW e \in [1..N -> E]
  PROVE  Unrolls(V, first, step, N, e)
<1> DEFINE Made(g, k) ==
      /\ g[0] = first
      /\ \A n \in 0..k : n # 0 => g[n] = step[g[n - 1]][e[n]]
    T == {k \in 0..N : \E g \in [0..N -> V] : Made(g, k)}
<1>1. 0 \in T
  <2>1. Made([n \in 0..N |-> first], 0)
    OBVIOUS
  <2>2. [n \in 0..N |-> first] \in [0..N -> V]
    OBVIOUS
  <2>3. 0 \in 0..N
    OBVIOUS
  <2> HIDE DEF Made
  <2>4. QED
    BY <2>1, <2>2, <2>3
<1>2. ASSUME NEW k \in 0..N, k # N, k \in T
      PROVE  k + 1 \in T
  <2>1. PICK g \in [0..N -> V] : Made(g, k)
    BY <1>2
  <2> DEFINE h == [g EXCEPT ![k + 1] = step[g[k]][e[k + 1]]]
  <2>2. k + 1 \in 0..N /\ k + 1 \in 1..N /\ k + 1 # 0
    BY <1>2
  <2>3. h \in [0..N -> V]
    <3>1. g[k] \in V /\ e[k + 1] \in E
      BY <2>2
    <3>2. QED
      BY <2>2, <3>1
  <2>4. /\ h[k + 1] = step[g[k]][e[k + 1]]
        /\ \A n \in 0..k : h[n] = g[n]
    BY <2>2
  <2> HIDE DEF h
  <2>5. ASSUME NEW n \in 0..k + 1, n # 0
        PROVE  h[n] = step[h[n - 1]][e[n]]
    <3>1. CASE n = k + 1
      <4>1. n - 1 = k /\ k \in 0..k
        BY <3>1
      <4>2. QED
        BY <2>4, <3>1, <4>1
    <3>2. CASE n # k + 1
      <4>1. n \in 0..k /\ n - 1 \in 0..k
        BY <2>5, <3>2
      <4>2. QED
        BY <2>1, <2>4, <2>5, <4>1
    <3>3. QED
      BY <3>1, <3>2
  <2>6. Made(h, k + 1)
    <3>1. 0 \in 0..k
      OBVIOUS
    <3>2. QED
      BY <2>1, <2>4, <2>5, <3>1
  <2>7. QED
    BY <2>2, <2>3, <2>6
<1> HIDE DEF T
<1>3. \A n \in 0..N : n \in T
  BY <1>1, <1>2, Reached
<1>4. N \in T
  BY <1>3
<1>5. QED
  BY <1>4 DEF T, Unrolls
LEMMA Powers ==
  /\ 2^0 = 1 /\ 2^1 = 2 /\ 2^2 = 4 /\ 2^3 = 8 /\ 2^4 = 16 /\ 2^5 = 32 /\ 2^6 = 64
  /\ 2^7 = 128 /\ 2^8 = 256 /\ 2^9 = 512 /\ 2^10 = 1024 /\ 2^11 = 2048
  /\ 2^12 = 4096 /\ 2^13 = 8192 /\ 2^14 = 16384 /\ 2^15 = 32768 /\ 2^16 = 65536
OBVIOUS

LEMMA Double == \A i \in 0..15 : 2^i \in Nat \ {0} /\ 2^(i + 1) = 2 * 2^i
<1>1. /\ 2^(0 + 1) = 2 * 2^0
      /\ 2^(1 + 1) = 2 * 2^1
      /\ 2^(2 + 1) = 2 * 2^2
      /\ 2^(3 + 1) = 2 * 2^3
      /\ 2^(4 + 1) = 2 * 2^4
      /\ 2^(5 + 1) = 2 * 2^5
      /\ 2^(6 + 1) = 2 * 2^6
      /\ 2^(7 + 1) = 2 * 2^7
      /\ 2^(8 + 1) = 2 * 2^8
      /\ 2^(9 + 1) = 2 * 2^9
      /\ 2^(10 + 1) = 2 * 2^10
      /\ 2^(11 + 1) = 2 * 2^11
      /\ 2^(12 + 1) = 2 * 2^12
      /\ 2^(13 + 1) = 2 * 2^13
      /\ 2^(14 + 1) = 2 * 2^14
      /\ 2^(15 + 1) = 2 * 2^15
  BY Powers
<1>2. /\ 2^0 \in Nat \ {0}
      /\ 2^1 \in Nat \ {0}
      /\ 2^2 \in Nat \ {0}
      /\ 2^3 \in Nat \ {0}
      /\ 2^4 \in Nat \ {0}
      /\ 2^5 \in Nat \ {0}
      /\ 2^6 \in Nat \ {0}
      /\ 2^7 \in Nat \ {0}
      /\ 2^8 \in Nat \ {0}
      /\ 2^9 \in Nat \ {0}
      /\ 2^10 \in Nat \ {0}
      /\ 2^11 \in Nat \ {0}
      /\ 2^12 \in Nat \ {0}
      /\ 2^13 \in Nat \ {0}
      /\ 2^14 \in Nat \ {0}
      /\ 2^15 \in Nat \ {0}
  BY Powers
<1>3. \A i \in 0..15 : \/ i = 0 \/ i = 1 \/ i = 2 \/ i = 3 \/ i = 4 \/ i = 5
                        \/ i = 6 \/ i = 7 \/ i = 8 \/ i = 9 \/ i = 10 \/ i = 11
                        \/ i = 12 \/ i = 13 \/ i = 14 \/ i = 15
  OBVIOUS
<1>4. QED
  BY <1>1, <1>2, <1>3, Zenon

(* The numbers of 16 bits.                                                *)
Word == {a \in Nat : a < 65536}

(* What is left of a number above its lowest i bits.                       *)
Over(a, i) == a \div 2^i

LEMMA Quotient ==
  ASSUME NEW p \in Nat \ {0}, NEW l \in 0..p - 1, NEW q \in Nat
  PROVE  (p * q + l) \div p = q
OBVIOUS

LEMMA DivIs ==
  ASSUME NEW a \in Nat, NEW p \in Nat \ {0}
  PROVE  /\ a \div p \in Nat /\ a % p \in 0..p - 1
         /\ a = p * (a \div p) + (a % p)
OBVIOUS

LEMMA HalfIs ==
  ASSUME NEW a \in Nat
  PROVE  a % 2 \in {0, 1} /\ a \div 2 \in Nat /\ a = (a % 2) + 2 * (a \div 2)
OBVIOUS

LEMMA Digit ==
  ASSUME NEW x \in {0, 1}, NEW y \in {0, 1}, NEW a \in Nat, NEW b \in Nat,
         x + 2 * a = y + 2 * b
  PROVE  x = y /\ a = b
OBVIOUS

LEMMA DivTwice ==
  ASSUME NEW a \in Nat, NEW p \in Nat \ {0}
  PROVE  a \div (2 * p) = (a \div p) \div 2
<1>1. PICK q \in Nat, r \in 0..p - 1 : q = a \div p /\ a = p * q + r
  BY DivIs
<1>2. PICK s \in Nat, t \in {0, 1} : s = q \div 2 /\ q = 2 * s + t
  BY HalfIs
<1>3. PICK l \in 0..(2 * p) - 1 : l = p * t + r
  <2>1. CASE t = 0
    <3>1. p * t + r = r
      BY <2>1
    <3>2. QED
      BY <3>1
  <2>2. CASE t = 1
    <3>1. p * t + r = p + r
      BY <2>2
    <3>2. QED
      BY <3>1
  <2>3. QED
    BY <2>1, <2>2
<1>4. a = (2 * p) * s + l
  <2>1. p * (2 * s + t) = (2 * p) * s + p * t
    OBVIOUS
  <2>2. p * t \in Nat /\ (2 * p) * s \in Nat
    OBVIOUS
  <2>3. QED
    BY <1>1, <1>2, <1>3, <2>1, <2>2
<1>5. 2 * p \in Nat \ {0}
  OBVIOUS
<1>6. ((2 * p) * s + l) \div (2 * p) = s
  BY <1>5, Quotient
<1>7. QED
  BY <1>1, <1>2, <1>4, <1>6

LEMMA PowerIs ==
  ASSUME NEW i \in 0..16
  PROVE  2^i \in Nat \ {0}
<1>1. CASE i = 16
  BY <1>1, Powers
<1>2. CASE i # 16
  <2>1. i \in 0..15
    BY <1>2
  <2>2. QED
    BY <2>1, Double
<1>3. QED
  BY <1>1, <1>2

LEMMA OverIs ==
  ASSUME NEW a \in Nat, NEW i \in 0..16
  PROVE  Over(a, i) \in Nat
<1>1. PICK p \in Nat \ {0} : p = 2^i
  BY PowerIs
<1>2. a \div p \in Nat
  BY DivIs
<1>3. QED
  BY <1>1, <1>2 DEF Over

LEMMA OverGoes ==
  ASSUME NEW a \in Nat, NEW i \in 0..15
  PROVE  /\ Bit(a, i) \in {0, 1}
         /\ Over(a, i) = Bit(a, i) + 2 * Over(a, i + 1)
<1>1. PICK p \in Nat \ {0} : p = 2^i /\ 2^(i + 1) = 2 * p
  BY Double
<1>2. PICK q \in Nat : q = a \div p
  BY DivIs
<1>3. a \div (2 * p) = q \div 2
  BY <1>2, DivTwice
<1>4. Over(a, i) = q /\ Over(a, i + 1) = q \div 2 /\ Bit(a, i) = q % 2
  BY <1>1, <1>2, <1>3, Zenon DEF Over, Bit
<1>5. q % 2 \in {0, 1} /\ q = (q % 2) + 2 * (q \div 2)
  BY HalfIs
<1>6. QED
  BY <1>4, <1>5

LEMMA OverEnds ==
  ASSUME NEW a \in Nat
  PROVE  Over(a, 0) = a /\ Over(a, 8) = a \div 256 /\ Over(a, 16) = a \div 65536
<1>1. 2^0 = 1 /\ 2^8 = 256 /\ 2^16 = 65536 /\ a \div 1 = a
  BY Powers
<1>2. QED
  BY <1>1 DEF Over

LEMMA Small ==
  ASSUME NEW a \in Nat, NEW p \in Nat \ {0}
  PROVE  a < p <=> a \div p = 0
<1>1. PICK q \in Nat, r \in 0..p - 1 : q = a \div p /\ a = p * q + r
  BY DivIs
<1>2. CASE q = 0
  <2>1. p * q = 0
    BY <1>2
  <2>2. QED
    BY <1>1, <1>2, <2>1
<1>3. CASE q # 0
  <2>1. p * q >= p
    BY <1>3
  <2>2. QED
    BY <1>1, <1>3, <2>1
<1>4. QED
  BY <1>2, <1>3

LEMMA WordIs ==
  ASSUME NEW a \in Nat
  PROVE  a \in Word <=> a \div 65536 = 0
BY Small DEF Word

LEMMA WordNat ==
  ASSUME NEW a \in Word
  PROVE  a \in Nat /\ a < 65536
BY DEF Word

(* A number of 16 bits is known by its bits.                               *)
LEMMA SameBits ==
  ASSUME NEW a \in Word, NEW b \in Word, \A i \in 0..15 : Bit(a, i) = Bit(b, i)
  PROVE  a = b
<1> DEFINE T == {n \in 0..16 : Over(a, 16 - n) = Over(b, 16 - n)}
<1>1. a \in Nat /\ b \in Nat /\ a \div 65536 = 0 /\ b \div 65536 = 0
  <2>1. a \in Nat /\ b \in Nat
    BY WordNat
  <2>2. QED
    BY <2>1, WordIs
<1>2. 0 \in T
  <2>1. Over(a, 16) = 0 /\ Over(b, 16) = 0
    BY <1>1, OverEnds
  <2>2. 0 \in 0..16 /\ 16 - 0 = 16
    OBVIOUS
  <2>3. QED
    BY <2>1, <2>2
<1>3. ASSUME NEW n \in 0..16, n # 16, n \in T
      PROVE  n + 1 \in T
  <2>1. PICK i \in 0..15 : i = 16 - (n + 1) /\ i + 1 = 16 - n /\ n + 1 \in 0..16
    BY <1>3
  <2>2. Over(a, i + 1) = Over(b, i + 1)
    BY <1>3, <2>1
  <2>3. /\ Over(a, i) = Bit(a, i) + 2 * Over(a, i + 1)
        /\ Over(b, i) = Bit(b, i) + 2 * Over(b, i + 1)
    BY <1>1, OverGoes
  <2>4. Over(a, i) = Over(b, i)
    BY <2>2, <2>3
  <2>5. QED
    BY <2>1, <2>4
<1> HIDE DEF T
<1>4. 16 \in T
  BY <1>2, <1>3, Reached
<1>5. Over(a, 0) = Over(b, 0)
  BY <1>4 DEF T
<1>6. Over(a, 0) = a /\ Over(b, 0) = b
  BY <1>1, OverEnds
<1>7. QED
  BY <1>5, <1>6

(* The bits of a number made from bits.                                    *)
LEMMA NumberBits ==
  ASSUME NEW f \in [0..15 -> {0, 1}]
  PROVE  Number(f) \in Word /\ \A i \in 0..15 : Bit(Number(f), i) = f[i]
<1> DEFINE Unfolds(n) == n = [i \in 0..16 |-> IF i = 0 THEN 0 ELSE f[16 - i] + 2 * n[i - 1]]
<1>1. \E n : Unfolds(n) /\ n \in [0..16 -> Nat]
  <2> DEFINE step == [m \in Nat |-> [x \in {0, 1} |-> x + 2 * m]]
             e == [i \in 1..16 |-> f[16 - i]]
  <2>1. step \in [Nat -> [{0, 1} -> Nat]]
    OBVIOUS
  <2>2. e \in [1..16 -> {0, 1}]
    OBVIOUS
  <2> HIDE DEF step, e
  <2>3. PICK n \in [0..16 -> Nat] :
          /\ n[0] = 0
          /\ \A i \in 0..16 : i # 0 => n[i] = step[n[i - 1]][e[i]]
    <3>1. 0 \in Nat /\ 16 \in Nat
      OBVIOUS
    <3>2. Unrolls(Nat, 0, step, 16, e)
      BY <2>1, <2>2, <3>1, Recursion
    <3>3. QED
      BY <3>2 DEF Unrolls
  <2>4. ASSUME NEW i \in 0..16, i # 0
        PROVE  n[i] = f[16 - i] + 2 * n[i - 1]
    <3>1. i \in 1..16 /\ i - 1 \in 0..16 /\ 16 - i \in 0..15
      BY <2>4
    <3>2. n[i - 1] \in Nat /\ e[i] = f[16 - i] /\ e[i] \in {0, 1}
      BY <2>2, <3>1 DEF e
    <3>3. step[n[i - 1]][e[i]] = e[i] + 2 * n[i - 1]
      BY <3>2 DEF step
    <3>4. n[i] = step[n[i - 1]][e[i]]
      BY <2>3, <2>4
    <3>5. QED
      BY <3>2, <3>3, <3>4
  <2>5. Unfolds(n)
    BY <2>3, <2>4
  <2>6. QED
    BY <2>5
<1>2. PICK n \in [0..16 -> Nat] : Unfolds(n) /\ Number(f) = n[16]
  <2> DEFINE m == CHOOSE n : Unfolds(n)
  <2>1. Unfolds(m) /\ Number(f) = m[16]
    BY <1>1 DEF Number
  <2> HIDE DEF m
  <2> DEFINE T == {i \in 0..16 : m[i] \in Nat}
  <2>2. 0 \in T
    BY <2>1
  <2>3. ASSUME NEW i \in 0..16, i # 16, i \in T
        PROVE  i + 1 \in T
    <3>1. i + 1 \in 0..16 /\ i + 1 # 0 /\ (i + 1) - 1 = i /\ 16 - (i + 1) \in 0..15
      BY <2>3
    <3>2. m[i + 1] = f[16 - (i + 1)] + 2 * m[i]
      BY <2>1, <3>1
    <3>3. f[16 - (i + 1)] \in {0, 1} /\ m[i] \in Nat
      BY <2>3, <3>1
    <3>4. QED
      BY <3>1, <3>2, <3>3
  <2>4. \A i \in 0..16 : m[i] \in Nat
    <3> HIDE DEF T
    <3>1. \A i \in 0..16 : i \in T
      BY <2>2, <2>3, Reached
    <3>2. QED
      BY <3>1 DEF T
  <2>5. m \in [0..16 -> Nat]
    BY <2>1, <2>4
  <2>6. QED
    BY <2>1, <2>5
<1>3. PICK a \in Nat : a = Number(f)
  BY <1>2
<1>4. n[0] = 0 /\ n[16] = a /\ \A i \in 0..15 : n[16 - i] = f[i] + 2 * n[16 - (i + 1)]
  <2>1. ASSUME NEW i \in 0..15
        PROVE  n[16 - i] = f[i] + 2 * n[16 - (i + 1)]
    <3>1. 16 - i \in 0..16 /\ 16 - i # 0 /\ 16 - (16 - i) = i /\ (16 - i) - 1 = 16 - (i + 1)
      OBVIOUS
    <3>2. n[16 - i] = f[16 - (16 - i)] + 2 * n[(16 - i) - 1]
      BY <1>2, <3>1
    <3>3. QED
      BY <3>1, <3>2
  <2>2. n[0] = 0
    BY <1>2
  <2>3. QED
    BY <1>2, <1>3, <2>1, <2>2
<1> HIDE DEF Unfolds
<1> DEFINE T == {i \in 0..16 : Over(a, i) = n[16 - i]}
<1>5. ASSUME NEW i \in 0..15, i \in T
      PROVE  Bit(a, i) = f[i] /\ i + 1 \in T
  <2>1. /\ n[16 - i] = f[i] + 2 * n[16 - (i + 1)]
        /\ Over(a, i) = Bit(a, i) + 2 * Over(a, i + 1)
        /\ Over(a, i) = n[16 - i]
    BY <1>4, <1>5, OverGoes
  <2>2. f[i] \in {0, 1} /\ Bit(a, i) \in {0, 1} /\ i + 1 \in 0..16 /\ 16 - (i + 1) \in 0..16
    BY OverGoes
  <2>3. Over(a, i + 1) \in Nat /\ n[16 - (i + 1)] \in Nat
    BY <2>2, OverIs
  <2>4. Bit(a, i) = f[i] /\ Over(a, i + 1) = n[16 - (i + 1)]
    BY <2>1, <2>2, <2>3, Digit
  <2>5. QED
    BY <2>2, <2>4
<1>6. 0 \in T
  <2>1. Over(a, 0) = a
    BY OverEnds
  <2>2. 0 \in 0..16 /\ 16 - 0 = 16
    OBVIOUS
  <2>3. QED
    BY <1>4, <2>1, <2>2
<1>7. \A i \in 0..16 : i \in T
  <2>1. ASSUME NEW i \in 0..16, i # 16, i \in T
        PROVE  i + 1 \in T
    <3>1. i \in 0..15
      BY <2>1
    <3>2. QED
      BY <1>5, <2>1, <3>1
  <2> HIDE DEF T
  <2>2. QED
    BY <1>6, <2>1, Reached
<1>8. \A i \in 0..15 : Bit(a, i) = f[i]
  <2> HIDE DEF T
  <2>1. QED
    BY <1>5, <1>7
<1>9. a \in Word
  <2>1. Over(a, 16) = n[16 - 16]
    BY <1>7
  <2>2. a \div 65536 = 0
    <3>1. 16 - 16 = 0
      OBVIOUS
    <3>2. QED
      BY <1>4, <2>1, <3>1, OverEnds
  <2>3. QED
    BY <2>2, WordIs
<1>10. QED
  BY <1>3, <1>8, <1>9

LEMMA BitIs ==
  ASSUME NEW a, NEW i
  PROVE  Bit(a, i) = Over(a, i) % 2
BY DEF Bit, Over

LEMMA OverHalves ==
  ASSUME NEW a \in Nat, NEW i \in 0..15
  PROVE  Over(a, i + 1) = Over(a, i) \div 2
<1>1. PICK p \in Nat \ {0} : p = 2^i /\ 2^(i + 1) = 2 * p
  BY Double
<1>2. a \div (2 * p) = (a \div p) \div 2
  BY DivTwice
<1>3. QED
  BY <1>1, <1>2, Zenon DEF Over

(* The high bits of a number are the bits of its quotient.                 *)
LEMMA OverOver ==
  ASSUME NEW a \in Nat, NEW k \in 0..16
  PROVE  \A i \in 0..16 - k : Over(Over(a, k), i) = Over(a, k + i)
<1> DEFINE T == {i \in 0..16 - k : Over(Over(a, k), i) = Over(a, k + i)}
<1>1. PICK q \in Nat : q = Over(a, k)
  BY OverIs
<1>2. 0 \in T
  <2>1. Over(q, 0) = q /\ k + 0 = k /\ 0 \in 0..16 - k
    BY OverEnds
  <2>2. QED
    BY <1>1, <2>1
<1>3. ASSUME NEW i \in 0..16 - k, i # 16 - k, i \in T
      PROVE  i + 1 \in T
  <2>1. i \in 0..15 /\ k + i \in 0..15 /\ i + 1 \in 0..16 - k /\ k + (i + 1) = (k + i) + 1
    BY <1>3
  <2>2. Over(q, i + 1) = Over(q, i) \div 2
    BY <2>1, OverHalves
  <2>3. Over(a, (k + i) + 1) = Over(a, k + i) \div 2
    BY <2>1, OverHalves
  <2>4. Over(q, i) = Over(a, k + i)
    BY <1>1, <1>3
  <2>5. Over(q, i + 1) = Over(a, k + (i + 1))
    BY <2>1, <2>2, <2>3, <2>4
  <2>6. QED
    BY <1>1, <2>1, <2>5
<1> HIDE DEF T
<1>4. \A i \in 0..16 - k : i \in T
  <2>1. 16 - k \in Nat
    OBVIOUS
  <2>2. QED
    BY <1>2, <1>3, <2>1, Reached
<1>5. QED
  BY <1>4 DEF T

LEMMA HighBits ==
  ASSUME NEW a \in Nat, NEW k \in 0..16
  PROVE  \A i \in 0..16 - k : Bit(Over(a, k), i) = Bit(a, k + i)
BY OverOver, BitIs

(* The low bits of a sum with a multiple of 2^k are those of the rest.     *)
LEMMA Below ==
  ASSUME NEW m \in Nat, NEW q \in Nat, NEW k \in 0..16
  PROVE  \A i \in 0..k : i # k => Bit(m + 2^k * q, i) = Bit(m, i)
<1>0. 2^k \in Nat
  BY PowerIs
<1>1. PICK a \in Nat : a = m + 2^k * q
  <2>1. PICK p \in Nat : p = 2^k
    BY <1>0
  <2>2. m + p * q \in Nat
    OBVIOUS
  <2>3. QED
    BY <2>1, <2>2
<1> DEFINE T == {i \in 0..k : Over(a, i) = Over(m, i) + 2^(k - i) * q}
<1>2. 0 \in T
  <2>1. Over(a, 0) = a /\ Over(m, 0) = m /\ k - 0 = k /\ 0 \in 0..k
    BY OverEnds
  <2>2. QED
    BY <1>1, <2>1
<1>3. ASSUME NEW i \in 0..k, i # k, i \in T
      PROVE  Bit(a, i) = Bit(m, i) /\ i + 1 \in T
  <2>1. /\ i \in 0..15 /\ i + 1 \in 0..16 /\ i + 1 \in 0..k
        /\ k - (i + 1) \in 0..15 /\ (k - (i + 1)) + 1 = k - i
    BY <1>3
  <2>2. PICK p \in Nat : p = 2^(k - (i + 1)) /\ 2^(k - i) = 2 * p
    BY <2>1, Double
  <2>3. PICK w \in Nat : w = p * q /\ (2 * p) * q = 2 * w
    <3>1. p * q \in Nat /\ (2 * p) * q = 2 * (p * q)
      OBVIOUS
    <3>2. QED
      BY <3>1
  <2>4. Over(a, i) = Over(m, i) + 2 * w
    BY <1>3, <2>2, <2>3
  <2>5. /\ Bit(a, i) \in {0, 1} /\ Over(a, i) = Bit(a, i) + 2 * Over(a, i + 1)
        /\ Bit(m, i) \in {0, 1} /\ Over(m, i) = Bit(m, i) + 2 * Over(m, i + 1)
    BY <2>1, OverGoes
  <2>6. Over(a, i + 1) \in Nat /\ Over(m, i + 1) \in Nat
    BY <2>1, OverIs
  <2>7. Bit(a, i) + 2 * Over(a, i + 1) = Bit(m, i) + 2 * (Over(m, i + 1) + w)
    BY <2>4, <2>5, <2>6
  <2>8. Bit(a, i) = Bit(m, i) /\ Over(a, i + 1) = Over(m, i + 1) + w
    <3>1. Over(m, i + 1) + w \in Nat
      BY <2>6
    <3>2. QED
      BY <2>5, <2>6, <2>7, <3>1, Digit
  <2>9. Over(a, i + 1) = Over(m, i + 1) + 2^(k - (i + 1)) * q
    BY <2>2, <2>3, <2>8
  <2>10. QED
    BY <2>1, <2>8, <2>9
<1> HIDE DEF T
<1>4. \A i \in 0..k : i \in T
  BY <1>2, <1>3, Reached
<1>5. QED
  BY <1>1, <1>3, <1>4

(* The low 16, and the low 8, bits of a number.                            *)
LEMMA LowBits ==
  ASSUME NEW a \in Nat
  PROVE  /\ a % 65536 \in Word /\ \A i \in 0..15 : Bit(a % 65536, i) = Bit(a, i)
         /\ a % 256 \in Byte /\ \A i \in 0..7 : Bit(a % 256, i) = Bit(a, i)
<1>1. ASSUME NEW k \in 0..16, NEW p \in Nat \ {0}, p = 2^k
      PROVE  \A i \in 0..k : i # k => Bit(a % p, i) = Bit(a, i)
  <2>1. PICK q \in Nat, m \in Nat : m = a % p /\ a = m + p * q
    <3>1. a \div p \in Nat /\ a % p \in Nat /\ a = p * (a \div p) + (a % p)
      BY DivIs
    <3>2. PICK q \in Nat, m \in Nat : q = a \div p /\ m = a % p /\ a = p * q + m
      BY <3>1
    <3>3. p * q + m = m + p * q
      OBVIOUS
    <3>4. QED
      BY <3>2, <3>3
  <2>2. a = m + 2^k * q
    BY <1>1, <2>1
  <2>3. \A i \in 0..k : i # k => Bit(m + 2^k * q, i) = Bit(m, i)
    BY Below
  <2>4. QED
    BY <2>1, <2>2, <2>3
<1>2. \A i \in 0..15 : Bit(a % 65536, i) = Bit(a, i)
  <2>1. 65536 = 2^16 /\ 65536 \in Nat \ {0} /\ 16 \in 0..16
    BY Powers
  <2>2. \A i \in 0..16 : i # 16 => Bit(a % 65536, i) = Bit(a, i)
    BY <1>1, <2>1
  <2>3. QED
    BY <2>2
<1>3. \A i \in 0..7 : Bit(a % 256, i) = Bit(a, i)
  <2>1. 256 = 2^8 /\ 256 \in Nat \ {0} /\ 8 \in 0..16
    BY Powers
  <2>2. \A i \in 0..8 : i # 8 => Bit(a % 256, i) = Bit(a, i)
    BY <1>1, <2>1
  <2>3. QED
    BY <2>2
<1>4. a % 65536 \in Word
  <2>1. PICK p \in Nat \ {0} : p = 65536
    OBVIOUS
  <2>2. a % p \in 0..p - 1
    BY DivIs
  <2>3. a % p \in Nat /\ a % p < p
    BY <2>2
  <2>4. QED
    BY <2>1, <2>3 DEF Word
<1>5. a % 256 \in Byte
  BY DEF Byte
<1>6. QED
  BY <1>2, <1>3, <1>4, <1>5

LEMMA WordBit ==
  ASSUME NEW a \in Nat, NEW i \in 0..15
  PROVE  Bit(a, i) \in {0, 1}
BY OverGoes

LEMMA TopBit ==
  ASSUME NEW a \in Word
  PROVE  Over(a, 16) = 0
BY WordNat, WordIs, OverEnds

(* What doubling, halving and 256 do to the bits.                          *)
LEMMA HalvedBits ==
  ASSUME NEW a \in Word
  PROVE  /\ a \div 2 \in Word /\ Bit(a \div 2, 15) = 0
         /\ \A i \in 0..14 : Bit(a \div 2, i) = Bit(a, i + 1)
<1>1. a \in Nat /\ a < 65536
  BY WordNat
<1>2. PICK h \in Nat : h = a \div 2 /\ h <= a
  BY <1>1
<1>3. Over(a, 1) = h
  <2>1. 2^1 = 2
    BY Powers
  <2>2. QED
    BY <1>2, <2>1 DEF Over
<1>4. \A i \in 0..15 : Bit(h, i) = Bit(a, 1 + i)
  <2>1. 1 \in 0..16 /\ 16 - 1 = 15
    OBVIOUS
  <2>2. \A i \in 0..16 - 1 : Bit(Over(a, 1), i) = Bit(a, 1 + i)
    BY <1>1, <2>1, HighBits
  <2>3. QED
    BY <1>3, <2>1, <2>2
<1>5. \A i \in 0..14 : Bit(h, i) = Bit(a, i + 1)
  BY <1>4
<1>6. Bit(h, 15) = 0
  <2>1. Bit(a, 16) = 0
    BY TopBit, BitIs
  <2>2. QED
    BY <1>4, <2>1
<1>7. h \in Word
  BY <1>1, <1>2 DEF Word
<1>8. QED
  BY <1>2, <1>5, <1>6, <1>7

LEMMA FirstBit ==
  ASSUME NEW a \in Nat
  PROVE  Bit(a, 0) = a % 2
BY OverEnds, BitIs

LEMMA DoubledBits ==
  ASSUME NEW a \in Nat
  PROVE  /\ Bit(2 * a, 0) = 0
         /\ \A i \in 0..14 : Bit(2 * a, i + 1) = Bit(a, i)
<1>1. PICK d \in Nat : d = 2 * a /\ d \div 2 = a /\ d % 2 = 0
  OBVIOUS
<1>2. Over(d, 1) = a
  <2>1. 2^1 = 2
    BY Powers
  <2>2. QED
    BY <1>1, <2>1 DEF Over
<1>3. \A i \in 0..14 : Bit(a, i) = Bit(d, 1 + i)
  <2>1. 1 \in 0..16 /\ 16 - 1 = 15
    OBVIOUS
  <2>2. \A i \in 0..16 - 1 : Bit(Over(d, 1), i) = Bit(d, 1 + i)
    BY <2>1, HighBits
  <2>3. QED
    BY <1>2, <2>1, <2>2
<1>4. Bit(d, 0) = 0
  BY <1>1, FirstBit
<1>5. QED
  BY <1>1, <1>3, <1>4

LEMMA RaisedBits ==
  ASSUME NEW a \in Nat
  PROVE  \A i \in 0..15 : Bit(256 * a, i) = IF i < 8 THEN 0 ELSE Bit(a, i - 8)
<1>1. PICK u \in Nat : u = 256 * a
  OBVIOUS
<1>2. 2^8 = 256 /\ 8 \in 0..16 /\ 16 - 8 = 8
  BY Powers
<1>3. Over(u, 8) = a
  <2>1. 256 \in Nat \ {0} /\ 0 \in 0..256 - 1
    OBVIOUS
  <2>2. (256 * a + 0) \div 256 = a
    BY <2>1, Quotient
  <2>3. 256 * a + 0 = u
    BY <1>1
  <2>4. u \div 256 = a
    BY <2>2, <2>3
  <2>5. QED
    BY <2>4, OverEnds
<1>4. ASSUME NEW i \in 0..15, i < 8
      PROVE  Bit(u, i) = 0
  <2>1. \A j \in 0..8 : j # 8 => Bit(0 + 2^8 * a, j) = Bit(0, j)
    BY <1>2, Below
  <2>2. 0 + 2^8 * a = u
    BY <1>1, <1>2
  <2>3. i \in 0..8 /\ i # 8
    BY <1>4
  <2>4. Bit(u, i) = Bit(0, i)
    BY <2>1, <2>2, <2>3
  <2>5. Bit(0, i) = 0
    <3>1. i \in 0..16
      OBVIOUS
    <3>2. PICK p \in Nat \ {0} : p = 2^i
      BY <3>1, PowerIs
    <3>3. 0 \div p = 0
      OBVIOUS
    <3>4. QED
      BY <3>2, <3>3 DEF Bit
  <2>6. QED
    BY <2>4, <2>5
<1>5. ASSUME NEW i \in 0..15, ~(i < 8)
      PROVE  Bit(u, i) = Bit(a, i - 8)
  <2>1. i - 8 \in 0..8 /\ 8 + (i - 8) = i
    BY <1>5
  <2>2. \A j \in 0..8 : Bit(Over(u, 8), j) = Bit(u, 8 + j)
    BY <1>2, HighBits
  <2>3. QED
    BY <1>3, <2>1, <2>2
<1>6. QED
  BY <1>1, <1>4, <1>5

LEMMA LoweredBits ==
  ASSUME NEW a \in Word
  PROVE  a \div 256 \in Byte /\ \A i \in 0..7 : Bit(a \div 256, i) = Bit(a, i + 8)
<1>1. a \in Nat /\ a < 65536
  BY WordNat
<1>2. Over(a, 8) = a \div 256
  BY <1>1, OverEnds
<1>3. a \div 256 \in Byte
  <2>1. 256 \in Nat \ {0} /\ 256 - 1 = 255
    OBVIOUS
  <2>2. a \div 256 \in Nat /\ a % 256 \in Nat /\ a = 256 * (a \div 256) + (a % 256)
    BY <1>1
  <2>3. PICK q \in Nat, r \in Nat : q = a \div 256 /\ a = 256 * q + r
    BY <2>2
  <2>4. q < 256
    BY <1>1, <2>3
  <2>5. QED
    BY <2>3, <2>4 DEF Byte
<1>4. ASSUME NEW i \in 0..7
      PROVE  Bit(a \div 256, i) = Bit(a, i + 8)
  <2>1. 8 \in 0..16 /\ i \in 0..16 - 8 /\ 8 + i = i + 8
    OBVIOUS
  <2>2. \A j \in 0..16 - 8 : Bit(Over(a, 8), j) = Bit(a, 8 + j)
    BY <1>1, <2>1, HighBits
  <2>3. QED
    BY <1>2, <2>1, <2>2
<1>5. QED
  BY <1>3, <1>4

(* The bytes among the numbers of 16 bits.                                 *)
LEMMA ByteBits ==
  ASSUME NEW b \in Byte
  PROVE  b \in Word /\ \A i \in 0..15 : i >= 8 => Bit(b, i) = 0
<1>1. b \in Nat /\ b < 256
  BY DEF Byte
<1>2. b \in Word
  BY <1>1 DEF Word
<1>3. Over(b, 8) = 0
  <2>1. b \div 256 = 0
    BY <1>1
  <2>2. QED
    BY <1>1, <2>1, OverEnds
<1>4. ASSUME NEW i \in 0..15, i >= 8
      PROVE  Bit(b, i) = 0
  <2>1. 8 \in 0..16 /\ i - 8 \in 0..16 - 8 /\ 8 + (i - 8) = i /\ i - 8 \in 0..16
    BY <1>4
  <2>2. \A j \in 0..16 - 8 : Bit(Over(b, 8), j) = Bit(b, 8 + j)
    BY <1>1, <2>1, HighBits
  <2>3. Bit(b, i) = Bit(0, i - 8)
    BY <1>3, <2>1, <2>2
  <2>4. PICK p \in Nat \ {0} : p = 2^(i - 8)
    BY <2>1, PowerIs
  <2>5. 0 \div p = 0
    OBVIOUS
  <2>6. QED
    BY <2>3, <2>4, <2>5 DEF Bit
<1>5. QED
  BY <1>2, <1>4

LEMMA BitsByte ==
  ASSUME NEW b \in Word, \A i \in 0..15 : i >= 8 => Bit(b, i) = 0
  PROVE  b \in Byte
<1>1. b \in Nat
  BY WordNat
<1>2. \A i \in 0..15 : i >= 8 => Over(b, i) = 2 * Over(b, i + 1)
  <2>1. ASSUME NEW i \in 0..15, i >= 8
        PROVE  Over(b, i) = 2 * Over(b, i + 1)
    <3>1. i + 1 \in 0..16
      OBVIOUS
    <3>2. Over(b, i + 1) \in Nat
      BY <1>1, <3>1, OverIs
    <3>3. Over(b, i) = Bit(b, i) + 2 * Over(b, i + 1) /\ Bit(b, i) = 0
      BY <1>1, <2>1, OverGoes
    <3>4. QED
      BY <3>2, <3>3
  <2>2. QED
    BY <2>1
<1>3. Over(b, 16) = 0
  BY TopBit
<1>4. Over(b, 12) = 0
  <2>1. /\ Over(b, 15) = 2 * Over(b, 15 + 1) /\ Over(b, 14) = 2 * Over(b, 14 + 1)
        /\ Over(b, 13) = 2 * Over(b, 13 + 1) /\ Over(b, 12) = 2 * Over(b, 12 + 1)
    BY <1>2
  <2>2. QED
    BY <1>3, <2>1
<1>5. Over(b, 8) = 0
  <2>1. /\ Over(b, 11) = 2 * Over(b, 11 + 1) /\ Over(b, 10) = 2 * Over(b, 10 + 1)
        /\ Over(b, 9) = 2 * Over(b, 9 + 1) /\ Over(b, 8) = 2 * Over(b, 8 + 1)
    BY <1>2
  <2>2. QED
    BY <1>4, <2>1
<1>6. b \div 256 = 0
  BY <1>1, <1>5, OverEnds
<1>7. b < 256
  <2>1. b = 256 * (b \div 256) + (b % 256) /\ b % 256 < 256 /\ b % 256 \in Nat
    BY <1>1
  <2>2. QED
    BY <1>6, <2>1
<1>8. QED
  BY <1>1, <1>7 DEF Byte

(* The operators on 16 bits, bit by bit.                                   *)
Apart(x, y) == IF x = y THEN 0 ELSE 1

LEMMA XorBits ==
  ASSUME NEW a, NEW b
  PROVE  /\ Xor(a, b) \in Word
         /\ \A i \in 0..15 : Bit(Xor(a, b), i) = Apart(Bit(a, i), Bit(b, i))
<1> DEFINE f == [i \in 0..15 |-> IF Bit(a, i) = Bit(b, i) THEN 0 ELSE 1]
<1>1. f \in [0..15 -> {0, 1}]
  OBVIOUS
<1>2. Xor(a, b) = Number(f)
  BY DEF Xor
<1>3. \A i \in 0..15 : f[i] = Apart(Bit(a, i), Bit(b, i))
  BY DEF Apart
<1> HIDE DEF f
<1>4. QED
  BY <1>1, <1>2, <1>3, NumberBits

LEMMA ReversedBits ==
  ASSUME NEW a \in Nat
  PROVE  /\ u16_bit_reverse(a) \in Word
         /\ \A i \in 0..15 : Bit(u16_bit_reverse(a), i) = Bit(a, 15 - i)
         /\ u8_bit_reverse(a) \in Byte
         /\ \A i \in 0..15 : Bit(u8_bit_reverse(a), i)
                               = IF i < 8 THEN Bit(a, 7 - i) ELSE 0
<1> DEFINE f == [i \in 0..15 |-> Bit(a, 15 - i)]
           g == [i \in 0..15 |-> IF i < 8 THEN Bit(a, 7 - i) ELSE 0]
<1>1. f \in [0..15 -> {0, 1}]
  BY WordBit
<1>2. g \in [0..15 -> {0, 1}]
  BY WordBit
<1>3. u16_bit_reverse(a) = Number(f) /\ u8_bit_reverse(a) = Number(g)
  BY DEF u16_bit_reverse, u8_bit_reverse
<1>4. \A i \in 0..15 : f[i] = Bit(a, 15 - i)
  OBVIOUS
<1>5. \A i \in 0..15 : g[i] = IF i < 8 THEN Bit(a, 7 - i) ELSE 0
  OBVIOUS
<1> HIDE DEF f, g
<1>6. Number(f) \in Word /\ \A i \in 0..15 : Bit(Number(f), i) = Bit(a, 15 - i)
  BY <1>1, <1>4, NumberBits
<1>7. /\ Number(g) \in Word
      /\ \A i \in 0..15 : Bit(Number(g), i) = IF i < 8 THEN Bit(a, 7 - i) ELSE 0
  BY <1>2, <1>5, NumberBits
<1>8. Number(g) \in Byte
  <2>1. \A i \in 0..15 : i >= 8 => Bit(Number(g), i) = 0
    BY <1>7
  <2>2. QED
    BY <1>7, <2>1, BitsByte
<1>9. QED
  BY <1>3, <1>6, <1>7, <1>8

LEMMA Place == \A i \in 0..15 :
                 \/ i = 0 \/ i = 1 \/ i = 2 \/ i = 3 \/ i = 4 \/ i = 5 \/ i = 6
                 \/ i = 7 \/ i = 8 \/ i = 9 \/ i = 10 \/ i = 11 \/ i = 12 \/ i = 13
                 \/ i = 14 \/ i = 15
OBVIOUS

LEMMA Polynomial ==
  ASSUME NEW i \in 0..15
  PROVE  /\ Bit(\h1021, i) = IF i \in {0, 5, 12} THEN 1 ELSE 0
         /\ Bit(\h8408, i) = IF i \in {3, 10, 15} THEN 1 ELSE 0
<1>1. CASE i = 0
  <2>1. 2^i = 1
    BY <1>1, Powers
  <2>2. (\h1021 \div 1) % 2 = 1 /\ (\h8408 \div 1) % 2 = 0
    OBVIOUS
  <2>3. QED
    BY <1>1, <2>1, <2>2 DEF Bit
<1>2. CASE i = 1
  <2>1. 2^i = 2
    BY <1>2, Powers
  <2>2. (\h1021 \div 2) % 2 = 0 /\ (\h8408 \div 2) % 2 = 0
    OBVIOUS
  <2>3. QED
    BY <1>2, <2>1, <2>2 DEF Bit
<1>3. CASE i = 2
  <2>1. 2^i = 4
    BY <1>3, Powers
  <2>2. (\h1021 \div 4) % 2 = 0 /\ (\h8408 \div 4) % 2 = 0
    OBVIOUS
  <2>3. QED
    BY <1>3, <2>1, <2>2 DEF Bit
<1>4. CASE i = 3
  <2>1. 2^i = 8
    BY <1>4, Powers
  <2>2. (\h1021 \div 8) % 2 = 0 /\ (\h8408 \div 8) % 2 = 1
    OBVIOUS
  <2>3. QED
    BY <1>4, <2>1, <2>2 DEF Bit
<1>5. CASE i = 4
  <2>1. 2^i = 16
    BY <1>5, Powers
  <2>2. (\h1021 \div 16) % 2 = 0 /\ (\h8408 \div 16) % 2 = 0
    OBVIOUS
  <2>3. QED
    BY <1>5, <2>1, <2>2 DEF Bit
<1>6. CASE i = 5
  <2>1. 2^i = 32
    BY <1>6, Powers
  <2>2. (\h1021 \div 32) % 2 = 1 /\ (\h8408 \div 32) % 2 = 0
    OBVIOUS
  <2>3. QED
    BY <1>6, <2>1, <2>2 DEF Bit
<1>7. CASE i = 6
  <2>1. 2^i = 64
    BY <1>7, Powers
  <2>2. (\h1021 \div 64) % 2 = 0 /\ (\h8408 \div 64) % 2 = 0
    OBVIOUS
  <2>3. QED
    BY <1>7, <2>1, <2>2 DEF Bit
<1>8. CASE i = 7
  <2>1. 2^i = 128
    BY <1>8, Powers
  <2>2. (\h1021 \div 128) % 2 = 0 /\ (\h8408 \div 128) % 2 = 0
    OBVIOUS
  <2>3. QED
    BY <1>8, <2>1, <2>2 DEF Bit
<1>9. CASE i = 8
  <2>1. 2^i = 256
    BY <1>9, Powers
  <2>2. (\h1021 \div 256) % 2 = 0 /\ (\h8408 \div 256) % 2 = 0
    OBVIOUS
  <2>3. QED
    BY <1>9, <2>1, <2>2 DEF Bit
<1>10. CASE i = 9
  <2>1. 2^i = 512
    BY <1>10, Powers
  <2>2. (\h1021 \div 512) % 2 = 0 /\ (\h8408 \div 512) % 2 = 0
    OBVIOUS
  <2>3. QED
    BY <1>10, <2>1, <2>2 DEF Bit
<1>11. CASE i = 10
  <2>1. 2^i = 1024
    BY <1>11, Powers
  <2>2. (\h1021 \div 1024) % 2 = 0 /\ (\h8408 \div 1024) % 2 = 1
    OBVIOUS
  <2>3. QED
    BY <1>11, <2>1, <2>2 DEF Bit
<1>12. CASE i = 11
  <2>1. 2^i = 2048
    BY <1>12, Powers
  <2>2. (\h1021 \div 2048) % 2 = 0 /\ (\h8408 \div 2048) % 2 = 0
    OBVIOUS
  <2>3. QED
    BY <1>12, <2>1, <2>2 DEF Bit
<1>13. CASE i = 12
  <2>1. 2^i = 4096
    BY <1>13, Powers
  <2>2. (\h1021 \div 4096) % 2 = 1 /\ (\h8408 \div 4096) % 2 = 0
    OBVIOUS
  <2>3. QED
    BY <1>13, <2>1, <2>2 DEF Bit
<1>14. CASE i = 13
  <2>1. 2^i = 8192
    BY <1>14, Powers
  <2>2. (\h1021 \div 8192) % 2 = 0 /\ (\h8408 \div 8192) % 2 = 0
    OBVIOUS
  <2>3. QED
    BY <1>14, <2>1, <2>2 DEF Bit
<1>15. CASE i = 14
  <2>1. 2^i = 16384
    BY <1>15, Powers
  <2>2. (\h1021 \div 16384) % 2 = 0 /\ (\h8408 \div 16384) % 2 = 0
    OBVIOUS
  <2>3. QED
    BY <1>15, <2>1, <2>2 DEF Bit
<1>16. CASE i = 15
  <2>1. 2^i = 32768
    BY <1>16, Powers
  <2>2. (\h1021 \div 32768) % 2 = 0 /\ (\h8408 \div 32768) % 2 = 1
    OBVIOUS
  <2>3. QED
    BY <1>16, <2>1, <2>2 DEF Bit
<1>17. QED
  BY <1>1, <1>2, <1>3, <1>4, <1>5, <1>6, <1>7, <1>8, <1>9, <1>10, <1>11,
     <1>12, <1>13, <1>14, <1>15, <1>16, Place

(* A shift moves every bit by one place and applies the polynomial.        *)
LEMMA HalfBits ==
  ASSUME NEW r \in Word
  PROVE  /\ Half(r) \in Word
         /\ \A i \in 0..15 :
              Bit(Half(r), i) = Apart(IF i = 15 THEN 0 ELSE Bit(r, i + 1),
                                      IF i \in {3, 10, 15} THEN Bit(r, 0) ELSE 0)
<1>1. r \in Nat /\ Bit(r, 0) = r % 2 /\ Bit(r, 0) \in {0, 1}
  BY WordNat, FirstBit, WordBit
<1>2. r \div 2 \in Word
  BY HalvedBits
<1>3. \A i \in 0..15 : Bit(r \div 2, i) = IF i = 15 THEN 0 ELSE Bit(r, i + 1)
  <2>1. ASSUME NEW i \in 0..15
        PROVE  Bit(r \div 2, i) = IF i = 15 THEN 0 ELSE Bit(r, i + 1)
    <3>1. CASE i = 15
      BY <3>1, HalvedBits
    <3>2. CASE i # 15
      <4>1. i \in 0..14
        BY <3>2
      <4>2. QED
        BY <3>2, <4>1, HalvedBits
    <3>3. QED
      BY <3>1, <3>2
  <2>2. QED
    BY <2>1
<1>4. PICK h \in Word : h = r \div 2
  BY <1>2
<1>5. h \in Nat /\ \A i \in 0..15 : Bit(h, i) = IF i = 15 THEN 0 ELSE Bit(r, i + 1)
  BY <1>3, <1>4, WordNat
<1>6. CASE Bit(r, 0) = 1
  <2>1. Half(r) = Xor(h, \h8408)
    BY <1>1, <1>4, <1>6 DEF Half
  <2>2. \A i \in 0..15 : Bit(\h8408, i) = IF i \in {3, 10, 15} THEN 1 ELSE 0
    BY Polynomial
  <2>3. \A i \in 0..15 : Bit(Xor(h, \h8408), i) = Apart(Bit(h, i), Bit(\h8408, i))
    BY XorBits
  <2>4. Xor(h, \h8408) \in Word
    BY XorBits
  <2>5. QED
    BY <1>5, <1>6, <2>1, <2>2, <2>3, <2>4
<1>7. CASE Bit(r, 0) = 0
  <2>1. Half(r) = h
    BY <1>1, <1>4, <1>7 DEF Half
  <2>2. \A i \in 0..15 : Bit(h, i) \in {0, 1}
    BY <1>5, WordBit
  <2>3. \A i \in 0..15 : Bit(h, i) = Apart(Bit(h, i), 0)
    BY <2>2 DEF Apart
  <2>4. QED
    BY <1>4, <1>5, <1>7, <2>1, <2>3
<1>8. QED
  BY <1>1, <1>6, <1>7

LEMMA ShiftBits ==
  ASSUME NEW r \in Word
  PROVE  /\ Shift(r) \in Word
         /\ \A i \in 0..15 :
              Bit(Shift(r), i) = Apart(IF i = 0 THEN 0 ELSE Bit(r, i - 1),
                                       IF i \in {0, 5, 12} THEN Bit(r, 15) ELSE 0)
<1>1. r \in Nat /\ r < 65536 /\ Bit(r, 15) \in {0, 1}
  BY WordNat, WordBit
<1>2. PICK d \in Nat : d = 2 * r
  BY <1>1
<1>3. \A i \in 0..15 : Bit(d, i) = IF i = 0 THEN 0 ELSE Bit(r, i - 1)
  <2>1. ASSUME NEW i \in 0..15
        PROVE  Bit(d, i) = IF i = 0 THEN 0 ELSE Bit(r, i - 1)
    <3>1. CASE i = 0
      BY <1>1, <1>2, <3>1, DoubledBits
    <3>2. CASE i # 0
      <4>1. i - 1 \in 0..14 /\ (i - 1) + 1 = i
        BY <3>2
      <4>2. Bit(2 * r, (i - 1) + 1) = Bit(r, i - 1)
        BY <1>1, <4>1, DoubledBits
      <4>3. QED
        BY <1>2, <3>2, <4>1, <4>2
    <3>3. QED
      BY <3>1, <3>2
  <2>2. QED
    BY <2>1
<1>4. Bit(r, 15) = IF r < 32768 THEN 0 ELSE 1
  <2>1. Over(r, 15 + 1) = 0 /\ Over(r, 15) = Bit(r, 15) + 2 * Over(r, 15 + 1)
    BY <1>1, TopBit, OverGoes
  <2>2. Over(r, 15) = Bit(r, 15)
    BY <1>1, <2>1
  <2>3. 2^15 = 32768
    BY Powers
  <2>4. r \div 32768 = Bit(r, 15)
    BY <2>2, <2>3 DEF Over
  <2>5. r < 32768 <=> r \div 32768 = 0
    BY <1>1, Small
  <2>6. QED
    BY <1>1, <2>4, <2>5
<1>5. CASE r < 32768
  <2>1. Shift(r) = d
    BY <1>2, <1>5 DEF Shift
  <2>2. d \in Word
    BY <1>2, <1>5 DEF Word
  <2>3. \A i \in 0..15 : Bit(d, i) \in {0, 1}
    BY WordBit
  <2>4. \A i \in 0..15 : Bit(d, i) = Apart(Bit(d, i), 0)
    BY <2>3 DEF Apart
  <2>5. Bit(r, 15) = 0
    BY <1>4, <1>5
  <2>6. QED
    BY <1>3, <2>1, <2>2, <2>4, <2>5
<1>6. CASE ~(r < 32768)
  <2>1. PICK l \in Word : l = d % 65536 /\ \A i \in 0..15 : Bit(l, i) = Bit(d, i)
    BY LowBits
  <2>2. Shift(r) = Xor(l, \h1021)
    BY <1>2, <1>6, <2>1 DEF Shift
  <2>3. \A i \in 0..15 : Bit(\h1021, i) = IF i \in {0, 5, 12} THEN 1 ELSE 0
    BY Polynomial
  <2>4. \A i \in 0..15 : Bit(Xor(l, \h1021), i) = Apart(Bit(l, i), Bit(\h1021, i))
    BY XorBits
  <2>5. Xor(l, \h1021) \in Word
    BY XorBits
  <2>6. Bit(r, 15) = 1
    BY <1>4, <1>6
  <2>7. QED
    BY <1>3, <2>1, <2>2, <2>3, <2>4, <2>5, <2>6
<1>7. QED
  BY <1>5, <1>6

LEMMA ApartIs ==
  ASSUME NEW x \in {0, 1}, NEW y \in {0, 1}, NEW z \in {0, 1}
  PROVE  /\ Apart(x, y) \in {0, 1} /\ Apart(x, y) = Apart(y, x) /\ Apart(x, 0) = x
         /\ Apart(Apart(x, y), z) = Apart(x, Apart(y, z))
BY DEF Apart

LEMMA XorWord ==
  ASSUME NEW a, NEW b
  PROVE  Xor(a, b) \in Word
BY XorBits

LEMMA XorSame ==
  ASSUME NEW a \in Word, NEW b \in Word, NEW c \in Word
  PROVE  /\ Xor(a, b) = Xor(b, a)
         /\ Xor(Xor(a, b), c) = Xor(a, Xor(b, c))
<1>1. a \in Nat /\ b \in Nat /\ c \in Nat
  BY WordNat
<1>2. \A i \in 0..15 : Bit(Xor(a, b), i) = Bit(Xor(b, a), i)
  BY <1>1, XorBits, WordBit, ApartIs
<1>3. ASSUME NEW i \in 0..15
      PROVE  Bit(Xor(Xor(a, b), c), i) = Bit(Xor(a, Xor(b, c)), i)
  <2>1. /\ Bit(Xor(Xor(a, b), c), i) = Apart(Apart(Bit(a, i), Bit(b, i)), Bit(c, i))
        /\ Bit(Xor(a, Xor(b, c)), i) = Apart(Bit(a, i), Apart(Bit(b, i), Bit(c, i)))
    BY XorBits
  <2>2. Bit(a, i) \in {0, 1} /\ Bit(b, i) \in {0, 1} /\ Bit(c, i) \in {0, 1}
    BY <1>1, WordBit
  <2>3. QED
    BY <2>1, <2>2, ApartIs
<1>4. /\ Xor(a, b) \in Word /\ Xor(b, a) \in Word /\ Xor(Xor(a, b), c) \in Word
      /\ Xor(a, Xor(b, c)) \in Word
  BY XorWord
<1>5. Xor(a, b) = Xor(b, a)
  BY <1>2, <1>4, SameBits
<1>6. Xor(Xor(a, b), c) = Xor(a, Xor(b, c))
  BY <1>3, <1>4, SameBits
<1>7. QED
  BY <1>5, <1>6

LEMMA ZeroBits ==
  /\ 0 \in Word
  /\ \A i \in 0..15 : Bit(0, i) = 0
<1>1. 0 \in Byte
  BY DEF Byte
<1>2. 0 \in Word /\ \A i \in 0..15 : i >= 8 => Bit(0, i) = 0
  BY <1>1, ByteBits
<1>3. 256 * 0 = 0
  OBVIOUS
<1>4. \A i \in 0..15 : Bit(256 * 0, i) = IF i < 8 THEN 0 ELSE Bit(0, i - 8)
  BY RaisedBits
<1>5. ASSUME NEW i \in 0..15
      PROVE  Bit(0, i) = 0
  <2>1. CASE i < 8
    BY <1>3, <1>4, <2>1
  <2>2. CASE ~(i < 8)
    BY <1>2, <2>2
  <2>3. QED
    BY <2>1, <2>2
<1>6. QED
  BY <1>2, <1>5

LEMMA XorZero ==
  ASSUME NEW a \in Word
  PROVE  Xor(a, 0) = a
<1>1. \A i \in 0..15 : Bit(Xor(a, 0), i) = Bit(a, i)
  <2>1. a \in Nat
    BY WordNat
  <2>2. \A i \in 0..15 : Bit(a, i) \in {0, 1}
    BY <2>1, WordBit
  <2>3. \A i \in 0..15 : Bit(Xor(a, 0), i) = Apart(Bit(a, i), Bit(0, i))
    BY XorBits
  <2>4. QED
    BY <2>2, <2>3, ZeroBits DEF Apart
<1>2. QED
  BY <1>1, XorWord, SameBits

LEMMA ReversedZero == u16_bit_reverse(0) = 0
<1>1. \A i \in 0..15 : 15 - i \in 0..15
  OBVIOUS
<1>2. \A i \in 0..15 : Bit(u16_bit_reverse(0), i) = Bit(0, i)
  BY <1>1, ReversedBits, ZeroBits
<1>3. QED
  BY <1>2, ReversedBits, ZeroBits, SameBits

(* What is linear over Xor.                                                *)
LEMMA HalfLinear ==
  ASSUME NEW a \in Word, NEW b \in Word
  PROVE  Half(Xor(a, b)) = Xor(Half(a), Half(b))
<1>1. a \in Nat /\ b \in Nat /\ Xor(a, b) \in Word
  BY WordNat, XorWord
<1>2. ASSUME NEW i \in 0..15
      PROVE  Bit(Half(Xor(a, b)), i) = Bit(Xor(Half(a), Half(b)), i)
  <2> DEFINE Up(r) == IF i = 15 THEN 0 ELSE Bit(r, i + 1)
             Out(r) == IF i \in {3, 10, 15} THEN Bit(r, 0) ELSE 0
  <2>1. /\ Bit(Half(Xor(a, b)), i) = Apart(Up(Xor(a, b)), Out(Xor(a, b)))
        /\ Bit(Half(a), i) = Apart(Up(a), Out(a)) /\ Bit(Half(b), i) = Apart(Up(b), Out(b))
    BY <1>1, HalfBits
  <2>2. Bit(Xor(Half(a), Half(b)), i) = Apart(Bit(Half(a), i), Bit(Half(b), i))
    BY XorBits
  <2>3. Up(a) \in {0, 1} /\ Up(b) \in {0, 1} /\ Out(a) \in {0, 1} /\ Out(b) \in {0, 1}
    <3>1. i # 15 => i + 1 \in 0..15
      OBVIOUS
    <3>2. QED
      BY <1>1, <3>1, WordBit
  <2>4. Up(Xor(a, b)) = Apart(Up(a), Up(b))
    <3>1. CASE i = 15
      BY <3>1 DEF Apart
    <3>2. CASE i # 15
      <4>1. i + 1 \in 0..15
        BY <3>2
      <4>2. QED
        BY <3>2, <4>1, XorBits
    <3>3. QED
      BY <3>1, <3>2
  <2>5. Out(Xor(a, b)) = Apart(Out(a), Out(b))
    <3>1. CASE i \in {3, 10, 15}
      <4>1. Bit(Xor(a, b), 0) = Apart(Bit(a, 0), Bit(b, 0))
        BY XorBits
      <4>2. QED
        BY <3>1, <4>1
    <3>2. CASE i \notin {3, 10, 15}
      BY <3>2 DEF Apart
    <3>3. QED
      BY <3>1, <3>2
  <2> HIDE DEF Up, Out
  <2>6. Apart(Apart(Up(a), Up(b)), Apart(Out(a), Out(b)))
        = Apart(Apart(Up(a), Out(a)), Apart(Up(b), Out(b)))
    BY <2>3 DEF Apart
  <2>7. QED
    BY <2>1, <2>2, <2>4, <2>5, <2>6
<1>3. Half(Xor(a, b)) \in Word /\ Xor(Half(a), Half(b)) \in Word
  BY <1>1, HalfBits, XorWord
<1>4. QED
  BY <1>2, <1>3, SameBits

LEMMA ReverseLinear ==
  ASSUME NEW a \in Word, NEW b \in Word
  PROVE  /\ u16_bit_reverse(Xor(a, b)) = Xor(u16_bit_reverse(a), u16_bit_reverse(b))
         /\ u8_bit_reverse(Xor(a, b)) = Xor(u8_bit_reverse(a), u8_bit_reverse(b))
<1>1. a \in Nat /\ b \in Nat /\ Xor(a, b) \in Nat
  BY WordNat, XorWord
<1>2. PICK c \in Nat :
        /\ c = Xor(a, b)
        /\ \A i \in 0..15 : Bit(c, i) = Apart(Bit(a, i), Bit(b, i))
  BY <1>1, XorBits
<1>3. ASSUME NEW i \in 0..15
      PROVE  Bit(u16_bit_reverse(c), i) = Bit(Xor(u16_bit_reverse(a), u16_bit_reverse(b)), i)
  <2>1. 15 - i \in 0..15
    OBVIOUS
  <2>2. /\ Bit(u16_bit_reverse(c), i) = Bit(c, 15 - i)
        /\ Bit(u16_bit_reverse(a), i) = Bit(a, 15 - i)
        /\ Bit(u16_bit_reverse(b), i) = Bit(b, 15 - i)
    BY <1>1, ReversedBits
  <2>3. QED
    BY <1>2, <2>1, <2>2, XorBits
<1>4. ASSUME NEW i \in 0..15
      PROVE  Bit(u8_bit_reverse(c), i) = Bit(Xor(u8_bit_reverse(a), u8_bit_reverse(b)), i)
  <2>1. /\ Bit(u8_bit_reverse(c), i) = IF i < 8 THEN Bit(c, 7 - i) ELSE 0
        /\ Bit(u8_bit_reverse(a), i) = IF i < 8 THEN Bit(a, 7 - i) ELSE 0
        /\ Bit(u8_bit_reverse(b), i) = IF i < 8 THEN Bit(b, 7 - i) ELSE 0
    BY <1>1, ReversedBits
  <2>2. Bit(Xor(u8_bit_reverse(a), u8_bit_reverse(b)), i)
        = Apart(Bit(u8_bit_reverse(a), i), Bit(u8_bit_reverse(b), i))
    BY XorBits
  <2>3. CASE i < 8
    <3>1. 7 - i \in 0..15
      BY <2>3
    <3>2. QED
      BY <1>2, <2>1, <2>2, <2>3, <3>1
  <2>4. CASE ~(i < 8)
    BY <2>1, <2>2, <2>4 DEF Apart
  <2>5. QED
    BY <2>3, <2>4
<1>5. /\ u16_bit_reverse(c) \in Word /\ u8_bit_reverse(c) \in Word
      /\ Xor(u16_bit_reverse(a), u16_bit_reverse(b)) \in Word
      /\ Xor(u8_bit_reverse(a), u8_bit_reverse(b)) \in Word
  BY ReversedBits, ByteBits, XorWord
<1>6. QED
  BY <1>2, <1>3, <1>4, <1>5, SameBits

(* The two ways round: a shift to the left of the reversed bits is one to  *)
(* the right.                                                              *)
LEMMA Mirrored ==
  ASSUME NEW r \in Word
  PROVE  Half(u16_bit_reverse(r)) = u16_bit_reverse(Shift(r))
<1>1. r \in Nat /\ Shift(r) \in Word /\ Shift(r) \in Nat
  BY WordNat, ShiftBits
<1>2. PICK v \in Word :
        /\ v = u16_bit_reverse(r)
        /\ \A i \in 0..15 : Bit(v, i) = Bit(r, 15 - i)
  BY <1>1, ReversedBits
<1>3. ASSUME NEW i \in 0..15
      PROVE  Bit(Half(v), i) = Bit(u16_bit_reverse(Shift(r)), i)
  <2>1. 15 - i \in 0..15
    OBVIOUS
  <2>2. Bit(u16_bit_reverse(Shift(r)), i) = Bit(Shift(r), 15 - i)
    BY <1>1, ReversedBits
  <2>3. Bit(Shift(r), 15 - i) = Apart(IF 15 - i = 0 THEN 0 ELSE Bit(r, (15 - i) - 1),
                                      IF 15 - i \in {0, 5, 12} THEN Bit(r, 15) ELSE 0)
    BY <2>1, ShiftBits
  <2>4. Bit(Half(v), i) = Apart(IF i = 15 THEN 0 ELSE Bit(v, i + 1),
                                IF i \in {3, 10, 15} THEN Bit(v, 0) ELSE 0)
    BY HalfBits
  <2>5. Bit(v, 0) = Bit(r, 15)
    <3>1. 15 - 0 = 15
      OBVIOUS
    <3>2. QED
      BY <1>2, <3>1
  <2>6. i # 15 => Bit(v, i + 1) = Bit(r, (15 - i) - 1)
    <3>1. i # 15 => i + 1 \in 0..15 /\ 15 - (i + 1) = (15 - i) - 1
      OBVIOUS
    <3>2. QED
      BY <1>2, <3>1
  <2>7. (i = 15 <=> 15 - i = 0) /\ (i \in {3, 10, 15} <=> 15 - i \in {0, 5, 12})
    OBVIOUS
  <2>8. QED
    BY <2>2, <2>3, <2>4, <2>5, <2>6, <2>7
<1>4. Half(v) \in Word /\ u16_bit_reverse(Shift(r)) \in Word
  BY <1>1, HalfBits, ReversedBits
<1>5. QED
  BY <1>2, <1>3, <1>4, SameBits

(* The bits of a byte reversed twice, and those of a word by its bytes.    *)
LEMMA ReversedTwice ==
  ASSUME NEW b \in Byte
  PROVE  u8_bit_reverse(u8_bit_reverse(b)) = b
<1>1. b \in Word /\ b \in Nat /\ \A i \in 0..15 : i >= 8 => Bit(b, i) = 0
  BY ByteBits, WordNat
<1>2. PICK c \in Byte :
        /\ c = u8_bit_reverse(b)
        /\ \A i \in 0..15 : Bit(c, i) = IF i < 8 THEN Bit(b, 7 - i) ELSE 0
  BY <1>1, ReversedBits
<1>3. c \in Word /\ c \in Nat
  BY ByteBits, WordNat
<1>4. ASSUME NEW i \in 0..15
      PROVE  Bit(u8_bit_reverse(c), i) = Bit(b, i)
  <2>1. Bit(u8_bit_reverse(c), i) = IF i < 8 THEN Bit(c, 7 - i) ELSE 0
    BY <1>3, ReversedBits
  <2>2. CASE i < 8
    <3>1. 7 - i \in 0..15 /\ 7 - i < 8 /\ 7 - (7 - i) = i
      BY <2>2
    <3>2. QED
      BY <1>2, <2>1, <2>2, <3>1
  <2>3. CASE ~(i < 8)
    BY <1>1, <2>1, <2>3
  <2>4. QED
    BY <2>2, <2>3
<1>5. u8_bit_reverse(c) \in Word
  BY <1>3, ReversedBits, ByteBits
<1>6. QED
  BY <1>1, <1>2, <1>4, <1>5, SameBits

LEMMA ReversedRaised ==
  ASSUME NEW a \in Nat, NEW u \in Word,
         \A i \in 0..15 : Bit(u, i) = IF i < 8 THEN 0 ELSE Bit(a, i - 8)
  PROVE  u16_bit_reverse(u) = u8_bit_reverse(a)
<1>1. u \in Nat
  BY WordNat
<1>2. ASSUME NEW i \in 0..15
      PROVE  Bit(u16_bit_reverse(u), i) = Bit(u8_bit_reverse(a), i)
  <2>1. 15 - i \in 0..15 /\ (15 - i < 8 <=> ~(i < 8)) /\ (15 - i) - 8 = 7 - i
    OBVIOUS
  <2>2. Bit(u16_bit_reverse(u), i) = Bit(u, 15 - i)
    BY <1>1, ReversedBits
  <2>3. Bit(u8_bit_reverse(a), i) = IF i < 8 THEN Bit(a, 7 - i) ELSE 0
    BY ReversedBits
  <2>4. QED
    BY <2>1, <2>2, <2>3
<1>3. u16_bit_reverse(u) \in Word /\ u8_bit_reverse(a) \in Word
  BY <1>1, ReversedBits, ByteBits
<1>4. QED
  BY <1>2, <1>3, SameBits

(* The shifts one byte takes.                                              *)
Eight(r) == Half(Half(Half(Half(Half(Half(Half(Half(r))))))))

LEMMA HalfWord ==
  ASSUME NEW r \in Word
  PROVE  Half(r) \in Word
BY HalfBits

LEMMA EightIs ==
  ASSUME NEW a \in Word, NEW b \in Word
  PROVE  /\ Eight(a) \in Word
         /\ Eight(Xor(a, b)) = Xor(Eight(a), Eight(b))
<1> DEFINE H2(r) == Half(Half(r))
           H4(r) == H2(H2(r))
<1>1. \A x \in Word, y \in Word : H2(x) \in Word /\ H2(Xor(x, y)) = Xor(H2(x), H2(y))
  BY HalfWord, HalfLinear
<1> HIDE DEF H2
<1>2. \A x \in Word, y \in Word : H4(x) \in Word /\ H4(Xor(x, y)) = Xor(H4(x), H4(y))
  BY <1>1
<1> HIDE DEF H4
<1>3. H4(H4(a)) \in Word /\ H4(H4(Xor(a, b))) = Xor(H4(H4(a)), H4(H4(b)))
  BY <1>2
<1>4. \A r : Eight(r) = H4(H4(r))
  BY DEF Eight, H4, H2
<1>5. QED
  BY <1>3, <1>4

LEMMA HalfEven ==
  ASSUME NEW a \in Nat
  PROVE  Half(2 * a) = a
<1>1. (2 * a) % 2 = 0 /\ (2 * a) \div 2 = a
  OBVIOUS
<1>2. QED
  BY <1>1 DEF Half

LEMMA EightRaised ==
  ASSUME NEW a \in Nat
  PROVE  Eight(256 * a) = a
<1>1. /\ 256 * a = 2 * (128 * a) /\ 128 * a = 2 * (64 * a)
      /\ 64 * a = 2 * (32 * a) /\ 32 * a = 2 * (16 * a)
      /\ 16 * a = 2 * (8 * a) /\ 8 * a = 2 * (4 * a) /\ 4 * a = 2 * (2 * a)
  OBVIOUS
<1>2. /\ 128 * a \in Nat /\ 64 * a \in Nat /\ 32 * a \in Nat /\ 16 * a \in Nat
      /\ 8 * a \in Nat /\ 4 * a \in Nat /\ 2 * a \in Nat
  OBVIOUS
<1>3. /\ Half(256 * a) = 128 * a /\ Half(128 * a) = 64 * a
      /\ Half(64 * a) = 32 * a /\ Half(32 * a) = 16 * a
      /\ Half(16 * a) = 8 * a /\ Half(8 * a) = 4 * a /\ Half(4 * a) = 2 * a
      /\ Half(2 * a) = a
  <2>1. \A n \in Nat : Half(2 * n) = n
    BY HalfEven
  <2>2. QED
    BY <1>1, <1>2, <2>1
<1>4. QED
  BY <1>3 DEF Eight

LEMMA RaisedWord ==
  ASSUME NEW b \in Byte
  PROVE  256 * b \in Word
BY DEF Byte, Word

(* An entry of the table, reversed.                                        *)
LEMMA TableReversed ==
  ASSUME NEW t \in Byte
  PROVE  /\ crc_ccit_table[t] \in Word
         /\ u16_bit_reverse(crc_ccit_table[t]) = Eight(u8_bit_reverse(t))
<1>1. PICK u \in Word : u = 256 * t
  BY RaisedWord
<1>2. u16_bit_reverse(u) = u8_bit_reverse(t)
  <2>1. t \in Nat
    BY DEF Byte
  <2>2. \A i \in 0..15 : Bit(u, i) = IF i < 8 THEN 0 ELSE Bit(t, i - 8)
    BY <1>1, <2>1, RaisedBits
  <2>3. QED
    BY <2>1, <2>2, ReversedRaised
<1>3. crc_ccit_table[t] = Shift(Shift(Shift(Shift(Shift(Shift(Shift(Shift(u))))))))
  BY <1>1 DEF crc_ccit_table, Byte
<1> DEFINE R(r) == u16_bit_reverse(r)
           S2(r) == Shift(Shift(r))
           H2(r) == Half(Half(r))
           S4(r) == S2(S2(r))
           H4(r) == H2(H2(r))
<1>4. \A x \in Word : S2(x) \in Word /\ R(S2(x)) = H2(R(x))
  BY Mirrored, ShiftBits
<1> HIDE DEF R, S2, H2
<1>5. \A x \in Word : S4(x) \in Word /\ R(S4(x)) = H4(R(x))
  BY <1>4
<1> HIDE DEF S4, H4
<1>6. S4(S4(u)) \in Word /\ R(S4(S4(u))) = H4(H4(R(u)))
  BY <1>5
<1>7. S4(S4(u)) = crc_ccit_table[t] /\ H4(H4(R(u))) = Eight(R(u))
  BY <1>3 DEF S4, S2, H4, H2, Eight
<1>8. QED
  BY <1>2, <1>6, <1>7 DEF R

(* A word reversed, by its bytes.                                          *)
LEMMA ReversedBytes ==
  ASSUME NEW v \in Word
  PROVE  /\ u16_bit_reverse(v) = Xor(u8_bit_reverse(v \div 256),
                                     256 * u8_bit_reverse(v % 256))
         /\ (256 * v) % 65536 \in Word
         /\ u16_bit_reverse((256 * v) % 65536) = u8_bit_reverse(v % 256)
<1>1. v \in Nat
  BY WordNat
<1>2. PICK hi \in Byte : hi = v \div 256 /\ \A i \in 0..7 : Bit(hi, i) = Bit(v, i + 8)
  BY LoweredBits
<1>3. PICK lo \in Byte : lo = v % 256 /\ \A i \in 0..7 : Bit(lo, i) = Bit(v, i)
  BY <1>1, LowBits
<1>4. hi \in Nat /\ lo \in Nat
  BY DEF Byte
<1>5. PICK h \in Byte :
        /\ h = u8_bit_reverse(hi)
        /\ \A i \in 0..15 : Bit(h, i) = IF i < 8 THEN Bit(hi, 7 - i) ELSE 0
  BY <1>4, ReversedBits
<1>6. PICK l \in Byte :
        /\ l = u8_bit_reverse(lo)
        /\ \A i \in 0..15 : Bit(l, i) = IF i < 8 THEN Bit(lo, 7 - i) ELSE 0
  BY <1>4, ReversedBits
<1>7. l \in Nat /\ h \in Nat
  BY DEF Byte
<1>8. ASSUME NEW i \in 0..15
      PROVE  Bit(u16_bit_reverse(v), i) = Bit(Xor(h, 256 * l), i)
  <2>1. Bit(u16_bit_reverse(v), i) = Bit(v, 15 - i)
    BY <1>1, ReversedBits
  <2>2. Bit(Xor(h, 256 * l), i) = Apart(Bit(h, i), Bit(256 * l, i))
    BY XorBits
  <2>3. Bit(256 * l, i) = IF i < 8 THEN 0 ELSE Bit(l, i - 8)
    BY <1>7, RaisedBits
  <2>4. Bit(v, 15 - i) \in {0, 1}
    <3>1. 15 - i \in 0..15
      OBVIOUS
    <3>2. QED
      BY <1>1, <3>1, WordBit
  <2>5. CASE i < 8
    <3>1. 7 - i \in 0..7 /\ (7 - i) + 8 = 15 - i
      BY <2>5
    <3>2. Bit(h, i) = Bit(v, 15 - i)
      BY <1>2, <1>5, <2>5, <3>1
    <3>3. QED
      BY <2>1, <2>2, <2>3, <2>4, <2>5, <3>2 DEF Apart
  <2>6. CASE ~(i < 8)
    <3>1. i - 8 \in 0..15 /\ i - 8 < 8 /\ 7 - (i - 8) = 15 - i /\ 15 - i \in 0..7
      BY <2>6
    <3>2. Bit(l, i - 8) = Bit(v, 15 - i)
      BY <1>3, <1>6, <3>1
    <3>3. Bit(h, i) = 0
      BY <1>5, <2>6
    <3>4. QED
      BY <2>1, <2>2, <2>3, <2>4, <2>6, <3>2, <3>3 DEF Apart
  <2>7. QED
    BY <2>5, <2>6
<1>9. u16_bit_reverse(v) = Xor(h, 256 * l)
  <2>1. u16_bit_reverse(v) \in Word /\ Xor(h, 256 * l) \in Word
    BY <1>1, ReversedBits, XorWord
  <2>2. QED
    BY <1>8, <2>1, SameBits
<1>10. PICK w \in Nat : w = 256 * v
  BY <1>1
<1>11. PICK u \in Word : u = w % 65536 /\ \A i \in 0..15 : Bit(u, i) = Bit(w, i)
  BY LowBits
<1>12. ASSUME NEW i \in 0..15
       PROVE  Bit(u, i) = IF i < 8 THEN 0 ELSE Bit(lo, i - 8)
  <2>1. Bit(u, i) = IF i < 8 THEN 0 ELSE Bit(v, i - 8)
    BY <1>1, <1>10, <1>11, RaisedBits
  <2>2. CASE i < 8
    BY <2>1, <2>2
  <2>3. CASE ~(i < 8)
    <3>1. i - 8 \in 0..7
      BY <2>3
    <3>2. QED
      BY <1>3, <2>1, <2>3, <3>1
  <2>4. QED
    BY <2>2, <2>3
<1>13. u16_bit_reverse(u) = u8_bit_reverse(lo)
  BY <1>4, <1>12, ReversedRaised
<1>14. QED
  BY <1>2, <1>3, <1>5, <1>6, <1>9, <1>10, <1>11, <1>13

(* One byte more: main.c works on the reversed register and byte.          *)
LEMMA ByteAgrees ==
  ASSUME NEW v \in Word, NEW b \in Byte
  PROVE  LET c == Xor((256 * v) % 65536,
                      crc_ccit_table[Xor(v \div 256, u8_bit_reverse(b))])
         IN c \in Word /\ u16_bit_reverse(c) = Eight(Xor(u16_bit_reverse(v), b))
<1>1. PICK hi \in Byte, lo \in Byte : hi = v \div 256 /\ lo = v % 256
  BY LoweredBits, LowBits, WordNat
<1>2. b \in Word /\ hi \in Word /\ lo \in Word /\ b \in Nat /\ hi \in Nat /\ lo \in Nat
  BY ByteBits, WordNat
<1>3. PICK s \in Byte, h \in Byte, l \in Byte :
        s = u8_bit_reverse(b) /\ h = u8_bit_reverse(hi) /\ l = u8_bit_reverse(lo)
  BY <1>2, ReversedBits
<1>4. s \in Word /\ h \in Word /\ l \in Word /\ l \in Nat
  BY ByteBits, WordNat
<1>5. PICK t \in Byte : t = Xor(hi, s)
  <2>1. Xor(hi, s) \in Word /\ \A i \in 0..15 : Bit(Xor(hi, s), i) = Apart(Bit(hi, i), Bit(s, i))
    BY XorBits
  <2>2. \A i \in 0..15 : i >= 8 => Bit(Xor(hi, s), i) = 0
    BY <2>1, ByteBits DEF Apart
  <2>3. QED
    BY <2>1, <2>2, BitsByte
<1>6. u8_bit_reverse(t) = Xor(h, b)
  <2>1. u8_bit_reverse(s) = b
    BY <1>3, ReversedTwice
  <2>2. QED
    BY <1>2, <1>3, <1>4, <1>5, <2>1, ReverseLinear
<1>7. PICK e \in Word : e = crc_ccit_table[t] /\ u16_bit_reverse(e) = Eight(Xor(h, b))
  BY <1>6, TableReversed
<1>8. PICK u \in Word : u = (256 * v) % 65536 /\ u16_bit_reverse(u) = l
  BY <1>1, <1>3, ReversedBytes
<1>9. Xor(u, e) \in Word /\ u16_bit_reverse(Xor(u, e)) = Xor(l, Eight(Xor(h, b)))
  <2>1. Xor(u, e) \in Word
    BY XorWord
  <2>2. u16_bit_reverse(Xor(u, e)) = Xor(u16_bit_reverse(u), u16_bit_reverse(e))
    BY ReverseLinear
  <2>3. QED
    BY <1>7, <1>8, <2>1, <2>2
<1>10. PICK w \in Word : w = 256 * l /\ u16_bit_reverse(v) = Xor(h, w) /\ Eight(w) = l
  BY <1>1, <1>3, <1>4, RaisedWord, ReversedBytes, EightRaised
<1>11. Xor(Xor(h, w), b) = Xor(Xor(h, b), w)
  <2>1. Xor(Xor(h, w), b) = Xor(h, Xor(w, b)) /\ Xor(w, b) = Xor(b, w)
    BY <1>2, <1>4, XorSame
  <2>2. Xor(Xor(h, b), w) = Xor(h, Xor(b, w))
    BY <1>2, <1>4, XorSame
  <2>3. QED
    BY <2>1, <2>2
<1>12. Eight(Xor(Xor(h, b), w)) = Xor(Eight(Xor(h, b)), l)
  <2>1. PICK x \in Word : x = Xor(h, b)
    BY XorWord
  <2>2. Eight(Xor(x, w)) = Xor(Eight(x), Eight(w))
    BY EightIs
  <2>3. QED
    BY <1>10, <2>1, <2>2
<1>13. Xor(Eight(Xor(h, b)), l) = Xor(l, Eight(Xor(h, b)))
  BY <1>4, XorWord, EightIs, XorSame
<1>14. QED
  BY <1>1, <1>3, <1>5, <1>7, <1>8, <1>9, <1>10, <1>11, <1>12, <1>13

(* The recursions over the bytes of some data.                             *)
LEMMA RegistersGo ==
  ASSUME NEW data \in Seq(Byte)
  PROVE  /\ Registers(data)[0] = 0
         /\ \A n \in 1..Len(data) :
              Registers(data)[n] = Eight(Xor(Registers(data)[n - 1], data[n]))
<1> DEFINE N == Len(data)
           Unfolds(r) == r = [n \in 0..N |-> IF n = 0 THEN 0 ELSE Eight(Xor(r[n - 1], data[n]))]
<1>1. N \in Nat /\ data \in [1..N -> Byte]
  OBVIOUS
<1> HIDE DEF N
<1>2. \E r : Unfolds(r)
  <2> DEFINE step == [v \in Word |-> [b \in Byte |-> Eight(Xor(v, b))]]
  <2>1. step \in [Word -> [Byte -> Word]]
    BY XorWord, EightIs
  <2>2. \A v \in Word, b \in Byte : step[v][b] = Eight(Xor(v, b))
    OBVIOUS
  <2> HIDE DEF step
  <2>3. Unrolls(Word, 0, step, N, data)
    BY <1>1, <2>1, ZeroBits, Recursion
  <2>4. PICK r \in [0..N -> Word] :
          r[0] = 0 /\ \A n \in 0..N : n # 0 => r[n] = step[r[n - 1]][data[n]]
    BY <2>3 DEF Unrolls
  <2>5. ASSUME NEW n \in 0..N, n # 0
        PROVE  r[n] = Eight(Xor(r[n - 1], data[n]))
    <3>1. n - 1 \in 0..N /\ n \in 1..N
      BY <1>1, <2>5
    <3>2. r[n - 1] \in Word /\ data[n] \in Byte
      BY <1>1, <3>1
    <3>3. QED
      BY <2>2, <2>4, <2>5, <3>2
  <2>6. Unfolds(r)
    BY <2>4, <2>5
  <2>7. QED
    BY <2>6
<1>3. Unfolds(Registers(data))
  <2>1. Registers(data) = CHOOSE r : Unfolds(r)
    BY DEF Registers, Eight, N
  <2> HIDE DEF Unfolds
  <2>2. QED
    BY <1>2, <2>1
<1>4. QED
  <2>1. 0 \in 0..N /\ \A n \in 1..N : n \in 0..N /\ n # 0
    BY <1>1
  <2>2. QED
    BY <1>3, <2>1 DEF N

(* What one byte makes of the value when input and output are reversed.    *)
ByteIn(v, b) ==
  Xor((256 * v) % 65536, crc_ccit_table[Xor(v \div 256, u8_bit_reverse(b))])

LEMMA ValuesGo ==
  ASSUME NEW c, c.value = 0, c.reverse_in = TRUE, NEW data \in Seq(Byte)
  PROVE  /\ Values(c, data)[0] = 0
         /\ \A n \in 1..Len(data) :
              Values(c, data)[n] = ByteIn(Values(c, data)[n - 1], data[n])
<1> DEFINE N == Len(data)
           Taken(v, b) == Xor((256 * v) % 65536, crc_ccit_table[Xor(v \div 256, b)])
           in(b) == IF c.reverse_in THEN u8_bit_reverse(b) ELSE b
           Unfolds(r) == r = [n \in 0..N |-> IF n = 0 THEN c.value ELSE Taken(r[n - 1], in(data[n]))]
<1>1. N \in Nat /\ data \in [1..N -> Byte]
  OBVIOUS
<1> HIDE DEF N
<1>2. \E r : Unfolds(r)
  <2> DEFINE step == [v \in Word |-> [b \in Byte |-> Taken(v, in(b))]]
  <2>1. step \in [Word -> [Byte -> Word]]
    <3>1. \A v, b : Taken(v, in(b)) \in Word
      BY XorWord
    <3> HIDE DEF Taken, in
    <3>2. QED
      BY <3>1
  <2> HIDE DEF Taken, in
  <2>2. \A v \in Word, b \in Byte : step[v][b] = Taken(v, in(b))
    OBVIOUS
  <2> HIDE DEF step
  <2>3. Unrolls(Word, 0, step, N, data)
    BY <1>1, <2>1, ZeroBits, Recursion
  <2>4. PICK r \in [0..N -> Word] :
          r[0] = 0 /\ \A n \in 0..N : n # 0 => r[n] = step[r[n - 1]][data[n]]
    BY <2>3 DEF Unrolls
  <2>5. ASSUME NEW n \in 0..N, n # 0
        PROVE  r[n] = Taken(r[n - 1], in(data[n]))
    <3>1. n - 1 \in 0..N /\ n \in 1..N
      BY <1>1, <2>5
    <3>2. r[n - 1] \in Word /\ data[n] \in Byte
      BY <1>1, <3>1
    <3>3. QED
      BY <2>2, <2>4, <2>5, <3>2
  <2>6. Unfolds(r)
    BY <2>4, <2>5
  <2>7. QED
    BY <2>6
<1>3. Unfolds(Values(c, data))
  <2>1. Values(c, data) = CHOOSE r : Unfolds(r)
    BY DEF Values, N
  <2> HIDE DEF Unfolds
  <2>2. QED
    BY <1>2, <2>1
<1>4. QED
  <2>1. 0 \in 0..N /\ \A n \in 1..N : n \in 0..N /\ n # 0
    BY <1>1
  <2>2. \A v, b : Taken(v, in(b)) = ByteIn(v, b)
    BY DEF ByteIn
  <2> HIDE DEF Taken, in
  <2>3. QED
    BY <1>3, <2>1, <2>2 DEF N

(* After every byte the element's register is the client's, reversed.      *)
LEMMA RegistersAgree ==
  ASSUME NEW c, c.value = 0, c.reverse_in = TRUE, NEW data \in Seq(Byte)
  PROVE  /\ Values(c, data)[Len(data)] \in Word
         /\ Registers(data)[Len(data)] = u16_bit_reverse(Values(c, data)[Len(data)])
<1>1. PICK N \in Nat : N = Len(data) /\ \A n \in 1..N : data[n] \in Byte
  OBVIOUS
<1>2. PICK v : /\ v = Values(c, data) /\ v[0] = 0
               /\ \A n \in 1..N :
                    v[n] = ByteIn(v[n - 1], data[n])
  <2>1. 1..Len(data) = 1..N
    BY <1>1
  <2>2. /\ Values(c, data)[0] = 0
        /\ \A n \in 1..Len(data) :
             Values(c, data)[n] = ByteIn(Values(c, data)[n - 1], data[n])
    BY ValuesGo, Zenon
  <2>3. QED
    BY <2>1, <2>2
<1>3. PICK r : /\ r = Registers(data) /\ r[0] = 0
               /\ \A n \in 1..N : r[n] = Eight(Xor(r[n - 1], data[n]))
  BY <1>1, RegistersGo
<1> DEFINE T == {n \in 0..N : v[n] \in Word /\ r[n] = u16_bit_reverse(v[n])}
<1>4. 0 \in T
  BY <1>2, <1>3, ZeroBits, ReversedZero
<1>5. ASSUME NEW n \in 0..N, n # N, n \in T
      PROVE  n + 1 \in T
  <2>1. n + 1 \in 1..N /\ n + 1 \in 0..N /\ (n + 1) - 1 = n
    BY <1>5
  <2>2. PICK a \in Word, b \in Byte : a = v[n] /\ b = data[n + 1]
    BY <1>1, <1>5, <2>1
  <2>3. r[n + 1] = Eight(Xor(u16_bit_reverse(a), b))
    BY <1>3, <1>5, <2>1, <2>2
  <2>4. v[n + 1] = ByteIn(a, b)
    BY <1>2, <2>1, <2>2
  <2>5. v[n + 1] \in Word /\ u16_bit_reverse(v[n + 1]) = Eight(Xor(u16_bit_reverse(a), b))
    BY <2>4, ByteAgrees DEF ByteIn
  <2>6. QED
    BY <2>1, <2>3, <2>5
<1> HIDE DEF T
<1>6. N \in T
  <2>1. \A n \in 0..N : n \in T
    BY <1>4, <1>5, Reached
  <2>2. QED
    BY <2>1
<1>7. QED
  BY <1>1, <1>2, <1>3, <1>6 DEF T

(* The client's checksum of any data is the element's: table, reversed     *)
(* bytes and all, crc_ccit computes CRC-16/KERMIT.                         *)
THEOREM ChecksumsAgree == \A data \in Seq(Byte) : Agrees(data)
<1> SUFFICES ASSUME NEW data \in Seq(Byte)
             PROVE  Agrees(data)
  OBVIOUS
<1>1. Fresh.st # "CUSTOM"
  BY DEF Fresh
<1>2. PICK c : c = crc_ccit_init(Fresh, "KERMIT", 1)
  OBVIOUS
<1>3. /\ Structure(c)
      /\ c.init = 0 /\ c.xor = 0 /\ c.reverse_in = TRUE /\ c.reverse_out = TRUE
      /\ c.value = 0 /\ c.endian = 1 /\ c.st = "INIT"
  BY <1>1, <1>2, InitialisedAfresh
<1>4. PICK v \in Word : v = Values(c, data)[Len(data)] /\ Kermit(data) = u16_bit_reverse(v)
  BY <1>3, RegistersAgree DEF Kermit
<1>5. PICK d : d = [c EXCEPT !.value = v, !.st = "UPDATE"]
  OBVIOUS
<1>6. Checksum(Fresh, data) = d
  BY <1>2, <1>3, <1>4, <1>5 DEF Checksum, crc_ccit_update
<1>7. /\ d.xor = 0 /\ d.reverse_out = TRUE /\ d.value = v
      /\ d.endian = 1 /\ d.st = "UPDATE" /\ "value" \in DOMAIN d
  BY <1>3, <1>5 DEF Structure
<1>8. Xor(u16_bit_reverse(v), 0) = u16_bit_reverse(v)
  <2>1. u16_bit_reverse(v) \in Word
    BY WordNat, ReversedBits
  <2>2. QED
    BY <2>1, XorZero
<1>9. crc_ccit_get_result(d) = [d EXCEPT !.value = Swapped(u16_bit_reverse(v)), !.st = "SUCCESS"]
  BY <1>7, <1>8 DEF crc_ccit_get_result
<1>10. Result(d) = Swapped(u16_bit_reverse(v))
  BY <1>7, <1>9 DEF Result
<1>11. QED
  BY <1>4, <1>6, <1>10 DEF Agrees, Swapped
-----------------------------------------------------------------------------
(***************************************************************************)
(* What a client has of an answer (Took), and how far it is in it when     *)
(* nobody has disturbed it (InPlace): one byte after the other.            *)
(***************************************************************************)

(* What the client has of an answer, as far as it can be sure of it: bytes *)
(* that have been on the line.                                             *)
Sized(n, bytes) == n \in Pairs(bytes) /\ n <= BufSize

Took(ex, bytes) ==
  /\ ex.buf \in Seq(bytes)
  /\ ex.stage \in {"idle", "send", "hunt", "zero", "high", "low"} => ex.buf = <<>>
  /\ ex.stage \in {"low", "crc_low"} => \E a \in bytes : ex.n = 256 * a
  /\ ex.stage = "data" => Sized(ex.n, bytes)
  /\ ex.stage \in {"crc_high", "crc_low"} =>
       /\ Sized(Len(ex.buf), bytes)
       /\ ex.crc.value = Result(Checksum(Fresh, ex.buf))
  /\ ex.got # Null =>
       /\ ex.got \in Seq(bytes) /\ Sized(Len(ex.got), bytes)
       /\ Result(Checksum(Fresh, ex.got)) \in Pairs(bytes)

(* How far into the answer data it is, if nobody has disturbed it.         *)
Follows(ex, data, out) ==
  /\ ex.stage = "zero" => Rest(5, data, out)
  /\ ex.stage = "high" => Rest(6, data, out)
  /\ ex.stage = "low" => Rest(7, data, out) /\ ex.n = 256 * (Len(data) \div 256)
  /\ ex.stage = "data" =>
       /\ Rest(8 + Len(ex.buf), data, out)
       /\ ex.n = Len(data) /\ Len(ex.buf) < Len(data)
       /\ \A i \in 1..Len(ex.buf) : ex.buf[i] = data[i]
  /\ ex.stage = "crc_high" => Rest(8 + Len(data), data, out) /\ ex.buf = data
  /\ ex.stage = "crc_low" =>
       /\ Rest(9 + Len(data), data, out) /\ ex.buf = data
       /\ ex.n = 256 * (Kermit(data) % 256)

Reading == {"zero", "high", "low", "data", "crc_high", "crc_low"}

InPlace(ex, said, out) ==
  /\ ex.stage = "hunt" => Searches(ex.n, said, out)
  /\ ex.stage \in Reading => \E data \in said : Follows(ex, data, out)
  /\ ex.got # Null => ex.got \in said

Plain(said) == \A data \in said : ~Echoes(data)
Cause(said) == \E data \in said : Odd(data)

Heard ==
  /\ chip.said \subseteq Said
  /\ chip.out \in Seq(Spoken)
  /\ Plain(chip.said) => Parses(0, chip.said, chip.out)

Scans(p) ==
  /\ io[p].crc.st # "CUSTOM"
  /\ hurt[p] = 0 => Took(io[p], Spoken)
  /\ hurt[p] = 0 /\ ~meddled[p] /\ Plain(chip.said) =>
       InPlace(io[p], chip.said, chip.out)
  /\ at[p] = Failed /\ main[p] = "link" =>
       hurt[p] # 0 \/ meddled[p] \/ Cause(chip.said)

ScanInv ==
  /\ LinkInv
  /\ Heard
  /\ \A p \in Procs : Scans(p)
-----------------------------------------------------------------------------
LEMMA TookGrows ==
  ASSUME NEW B, NEW C, B \subseteq C, NEW ex, Took(ex, B)
  PROVE  Took(ex, C)
<1>1. Pairs(B) \subseteq Pairs(C)
  BY DEF Pairs
<1>2. \A s \in Seq(B) : s \in Seq(C)
  OBVIOUS
<1>3. QED
  BY <1>1, <1>2 DEF Took, Sized

LEMMA SaidGrows ==
  ASSUME chip.said \subseteq chip'.said
  PROVE  /\ Spoken \subseteq Spoken'
         /\ Plain(chip'.said) => Plain(chip.said)
         /\ Cause(chip.said) => Cause(chip'.said)
<1>1. Spoken \subseteq Spoken'
  BY DEF Spoken
<1>2. QED
  BY <1>1 DEF Plain, Cause

(* A byte read or an answer given.                                         *)
LEMMA HeardKept ==
  ASSUME Line, Heard, chip' = chip \/ Shifts \/ \E b : Hears(b)
  PROVE  Heard' /\ chip.said \subseteq chip'.said
<1>1. Proper(chip.out) /\ chip.said \subseteq Seq(Byte)
  BY DeviceAssumption DEF Line, Heard
<1>2. CASE Shifts
  <2>1. chip'.said = chip.said
        /\ chip'.out = IF chip.out = <<>> THEN chip.out ELSE Tail(chip.out)
    BY <1>2 DEF Shifts, Line
  <2>2. Spoken' = Spoken
    BY <2>1 DEF Spoken
  <2>3. chip'.out \in Seq(Spoken)
    BY <2>1 DEF Heard
  <2>4. ASSUME Plain(chip.said)
        PROVE  Parses(0, chip.said, chip'.out)
    BY <1>1, <2>1, <2>4, LineGoes DEF Heard, Plain
  <2>5. QED
    BY <2>1, <2>2, <2>3, <2>4 DEF Heard
<1>3. CASE \E n : chip' = [chip EXCEPT !.heard = n]
  <2>1. chip'.said = chip.said /\ chip'.out = chip.out
    BY <1>3 DEF Line
  <2>2. Spoken' = Spoken
    BY <2>1 DEF Spoken
  <2>3. QED
    BY <2>1, <2>2 DEF Heard
<1>4. CASE \E data \in Said, left \in {<<>>, chip.out} :
             chip' = [heard |-> 0, out |-> left \o AnswerFrame(data),
                      said |-> chip.said \cup {data}]
  <2>1. PICK data \in Said, left \in {<<>>, chip.out} :
          chip' = [heard |-> 0, out |-> left \o AnswerFrame(data),
                   said |-> chip.said \cup {data}]
    BY <1>4
  <2>2. /\ chip'.said = chip.said \cup {data} /\ chip'.out = left \o AnswerFrame(data)
        /\ data \in Seq(Byte)
    BY <2>1, DeviceAssumption
  <2>3. AnswerFrame(data) \in Seq(Spoken')
    <3>1. Proper(AnswerFrame(data))
      BY <2>2, AnswerStarts, KnownProper
    <3>2. Range(AnswerFrame(data)) \subseteq Spoken'
      BY <2>2 DEF Spoken
    <3>3. QED
      BY <3>1, <3>2 DEF Proper, Range
  <2>4. left \in Seq(Spoken')
    <3>1. Spoken \subseteq Spoken'
      BY <2>2, SaidGrows
    <3>2. left \in Seq(Spoken)
      <4>1. <<>> \in Seq(Spoken) /\ chip.out \in Seq(Spoken)
        BY DEF Heard
      <4>2. left = <<>> \/ left = chip.out
        BY <2>1
      <4>3. QED
        BY <4>1, <4>2
    <3>3. QED
      BY <3>1, <3>2
  <2>5. chip'.out \in Seq(Spoken')
    BY <2>2, <2>3, <2>4, Joined
  <2>6. ASSUME Plain(chip'.said)
        PROVE  Parses(0, chip'.said, chip'.out)
    <3>1. Plain(chip.said)
      BY <2>2, <2>6 DEF Plain
    <3>2. Proper(left) /\ Parses(0, chip.said, left)
      BY <1>1, <3>1, EmptyProper, NothingParses DEF Heard
    <3>3. QED
      BY <1>1, <2>2, <3>2, LineGrows
  <2>7. QED
    BY <2>2, <2>5, <2>6 DEF Heard
<1>5. CASE chip' = chip
  BY <1>5 DEF Heard, Spoken
<1>6. QED
  BY <1>2, <1>3, <1>4, <1>5 DEF Hears

(* Nobody else is moved.                                                   *)
Elsewhere(p) ==
  /\ main' = main
  /\ \A q \in Procs \ {p} :
       io'[q] = io[q] /\ at'[q] = at[q] /\ hurt'[q] = hurt[q] /\ Undisturbed(q)

LEMMA ScanFrame ==
  ASSUME ScanInv, NEW p \in Procs, LinkInv', Scans(p)',
         chip' = chip \/ Shifts \/ \E b : Hears(b), Elsewhere(p)
  PROVE  ScanInv'
<1>1. Heard' /\ chip.said \subseteq chip'.said
  BY HeardKept DEF ScanInv, LinkInv
<1>2. ASSUME NEW q \in Procs, q # p
      PROVE  Scans(q)'
  <2>1. Scans(q) /\ io'[q] = io[q] /\ at'[q] = at[q] /\ hurt'[q] = hurt[q] /\ main' = main
        /\ Undisturbed(q)
    BY <1>2 DEF ScanInv, Elsewhere
  <2>2. hurt[q] = 0 => Took(io'[q], Spoken')
    BY <1>1, <2>1, SaidGrows, TookGrows DEF Scans
  <2>3. ASSUME hurt[q] = 0, ~meddled'[q], Plain(chip'.said)
        PROVE  InPlace(io'[q], chip'.said, chip'.out)
    <3>1. ~meddled[q] /\ Plain(chip.said) /\ InPlace(io[q], chip.said, chip.out)
      BY <1>1, <2>1, <2>3, SaidGrows DEF Scans, Undisturbed
    <3>2. CASE chip' = chip
      BY <2>1, <3>1, <3>2
    <3>3. CASE ~Exchanging(q)
      BY <1>1, <2>1, <3>1, <3>3 DEF InPlace, Exchanging, Reading
    <3>4. QED
      BY <2>1, <2>3, <3>2, <3>3 DEF Undisturbed
  <2>4. meddled[q] => meddled'[q]
    BY <2>1 DEF Undisturbed
  <2>5. QED
    BY <1>1, <2>1, <2>2, <2>3, <2>4, SaidGrows DEF Scans
<1>3. QED
  BY <1>1, <1>2 DEF ScanInv

(* What a byte makes of the exchange.                                      *)
Is(ex, stage, n, buf, got, crc) ==
  ex.stage = stage /\ ex.n = n /\ ex.buf = buf /\ ex.got = got /\ ex.crc = crc

SumOf(crc, buf) == crc_ccit_get_result(Checksum(crc, buf))

LEMMA SummedIs ==
  ASSUME NEW ex, Shaped(ex)
  PROVE  Is(Summed(ex), "crc_high", ex.n, ex.buf, ex.got, SumOf(ex.crc, ex.buf))
<1>1. PICK c : c = SumOf(ex.crc, ex.buf)
  OBVIOUS
<1>2. Summed(ex) = [ex EXCEPT !.stage = "crc_high", !.crc = c]
  BY <1>1 DEF Summed, SumOf
<1>3. QED
  BY <1>1, <1>2 DEF Shaped, Is

LEMMA RejectsIs ==
  ASSUME NEW p \in DOMAIN io, Rejects(p)
  PROVE  Is(io'[p], "idle", 0, <<>>, Null, io[p].crc)
BY DEF Rejects, Quiet, Is

LEMMA HuntIs ==
  ASSUME NEW p \in DOMAIN io, Shaped(io[p]), NEW x, Hunt(p, x)
  PROVE  LET ex == io[p]
             n == IF x = Sync[ex.n + 1] THEN ex.n + 1 ELSE ex.n
         IN /\ ex.stage = "hunt"
            /\ Is(io'[p], IF n = 5 THEN "zero" ELSE "hunt", n, ex.buf, ex.got, ex.crc)
            /\ at' = at
<1> DEFINE n == IF x = Sync[io[p].n + 1] THEN io[p].n + 1 ELSE io[p].n
           s == IF n = 5 THEN "zero" ELSE "hunt"
<1>1. io' = [io EXCEPT ![p].n = n, ![p].stage = s]
  BY SyncIs DEF Hunt, Hunts
<1> HIDE DEF n, s
<1>2. io'[p] = [io[p] EXCEPT !.n = n, !.stage = s]
  BY <1>1
<1>3. Is(io'[p], s, n, io[p].buf, io[p].got, io[p].crc)
  BY <1>2 DEF Shaped, Is
<1>4. QED
  BY <1>3 DEF n, s, Hunt, Hunts

LEMMA HeaderIs ==
  ASSUME NEW p \in DOMAIN io, Shaped(io[p]), NEW x, Header(p, x)
  PROVE  LET ex == io[p]
             m == ex.n + x
         IN \/ /\ ex.stage = "zero" /\ x = 0 /\ at' = at
               /\ Is(io'[p], "high", ex.n, ex.buf, ex.got, ex.crc)
            \/ /\ ex.stage = "high" /\ at' = at
               /\ Is(io'[p], "low", 256 * x, ex.buf, ex.got, ex.crc)
            \/ /\ ex.stage = "low" /\ Fits(m) /\ m = 0 /\ at' = at
               /\ Is(io'[p], "crc_high", m, ex.buf, ex.got, SumOf(ex.crc, ex.buf))
            \/ /\ ex.stage = "low" /\ Fits(m) /\ m # 0 /\ at' = at
               /\ Is(io'[p], "data", m, ex.buf, ex.got, ex.crc)
            \/ /\ \/ ex.stage = "zero" /\ x # 0
                  \/ ex.stage = "low" /\ ~Fits(m)
               /\ Is(io'[p], "idle", 0, <<>>, Null, ex.crc)
<1>1. CASE io[p].stage = "zero" /\ x = 0 /\ io' = [io EXCEPT ![p].stage = "high"] /\ at' = at
  BY <1>1 DEF Shaped, Is
<1>2. CASE io[p].stage = "high" /\ at' = at /\ io' = [io EXCEPT ![p].stage = "low", ![p].n = 256 * x]
  <2>1. PICK m : m = 256 * x
    OBVIOUS
  <2>2. io'[p] = [io[p] EXCEPT !.stage = "low", !.n = m]
    BY <1>2, <2>1
  <2>3. QED
    BY <1>2, <2>1, <2>2, ZenonT(40) DEF Shaped, Is
<1>3. CASE /\ io[p].stage = "low" /\ Fits(io[p].n + x) /\ at' = at
           /\ LET ex == [io[p] EXCEPT !.n = io[p].n + x, !.stage = "data"] IN
              io' = [io EXCEPT ![p] = IF ex.n = 0 THEN Summed(ex) ELSE ex]
  <2>1. PICK m : m = io[p].n + x
    OBVIOUS
  <2>2. PICK ex : ex = [io[p] EXCEPT !.n = m, !.stage = "data"]
    OBVIOUS
  <2>3. Shaped(ex) /\ Is(ex, "data", m, io[p].buf, io[p].got, io[p].crc)
    BY <2>2 DEF Shaped, Is
  <2>4. io'[p] = IF m = 0 THEN Summed(ex) ELSE ex
    <3>1. ex = [io[p] EXCEPT !.n = io[p].n + x, !.stage = "data"]
      BY <2>1, <2>2
    <3>2. io' = [io EXCEPT ![p] = IF ex.n = 0 THEN Summed(ex) ELSE ex]
      BY <1>3, <3>1
    <3>3. QED
      BY <2>3, <3>2 DEF Is
  <2>5. Is(Summed(ex), "crc_high", m, io[p].buf, io[p].got, SumOf(io[p].crc, io[p].buf))
    BY <2>3, SummedIs DEF Is
  <2>6. QED
    BY <1>3, <2>1, <2>3, <2>4, <2>5
<1>4. CASE Rejects(p) /\ \/ io[p].stage = "zero" /\ x # 0
                         \/ io[p].stage = "low" /\ ~Fits(io[p].n + x)
  BY <1>4, RejectsIs
<1>5. QED
  BY <1>1, <1>2, <1>3, <1>4 DEF Header

LEMMA DataIs ==
  ASSUME NEW p \in DOMAIN io, Shaped(io[p]), NEW x, Data(p, x)
  PROVE  LET ex == io[p]
             buf == Append(ex.buf, x)
         IN /\ ex.stage = "data" /\ at' = at
            /\ \/ /\ Len(buf) = ex.n
                  /\ Is(io'[p], "crc_high", ex.n, buf, ex.got, SumOf(ex.crc, buf))
               \/ /\ Len(buf) # ex.n
                  /\ Is(io'[p], "data", ex.n, buf, ex.got, ex.crc)
<1>1. PICK buf : buf = Append(io[p].buf, x)
  OBVIOUS
<1>2. PICK ex : ex = [io[p] EXCEPT !.buf = buf]
  OBVIOUS
<1>3. Shaped(ex) /\ Is(ex, io[p].stage, io[p].n, buf, io[p].got, io[p].crc)
  BY <1>2 DEF Shaped, Is
<1>4. io'[p] = IF Len(buf) = io[p].n THEN Summed(ex) ELSE ex
  <2>1. ex = [io[p] EXCEPT !.buf = Append(io[p].buf, x)]
    BY <1>1, <1>2
  <2>2. io' = [io EXCEPT ![p] = IF Len(ex.buf) = ex.n THEN Summed(ex) ELSE ex]
    BY <2>1 DEF Data
  <2>3. QED
    BY <1>3, <2>2 DEF Is
<1>5. Is(Summed(ex), "crc_high", io[p].n, buf, io[p].got, SumOf(io[p].crc, buf))
  BY <1>3, SummedIs DEF Is
<1>6. io[p].stage = "data" /\ at' = at
  BY DEF Data
<1>7. QED
  BY <1>1, <1>3, <1>4, <1>5, <1>6

LEMMA CheckIs ==
  ASSUME NEW p \in DOMAIN io, Shaped(io[p]), NEW x, Check(p, x)
  PROVE  LET ex == io[p] IN
         \/ /\ ex.stage = "crc_high" /\ at' = at
            /\ Is(io'[p], "crc_low", 256 * x, ex.buf, ex.got, ex.crc)
         \/ /\ ex.stage = "crc_low" /\ ex.n + x = ex.crc.value
            /\ Is(io'[p], "idle", 0, <<>>, ex.buf, ex.crc)
            /\ Judge(p, ex.buf)
         \/ /\ ex.stage = "crc_low" /\ ex.n + x # ex.crc.value
            /\ Is(io'[p], "idle", 0, <<>>, Null, ex.crc)
<1>1. CASE /\ io[p].stage = "crc_high" /\ at' = at
           /\ io' = [io EXCEPT ![p].stage = "crc_low", ![p].n = 256 * x]
  <2>1. PICK m : m = 256 * x
    OBVIOUS
  <2>2. io'[p] = [io[p] EXCEPT !.stage = "crc_low", !.n = m]
    BY <1>1, <2>1
  <2>3. QED
    BY <1>1, <2>1, <2>2, ZenonT(40) DEF Shaped, Is
<1>2. CASE /\ io[p].stage = "crc_low" /\ io[p].n + x = io[p].crc.value
           /\ io' = [io EXCEPT ![p] = [Quiet(io[p].crc) EXCEPT !.got = io[p].buf]]
           /\ Judge(p, io[p].buf)
  <2>1. io'[p] = [Quiet(io[p].crc) EXCEPT !.got = io[p].buf]
    BY <1>2
  <2>2. Is(io'[p], "idle", 0, <<>>, io[p].buf, io[p].crc)
    BY <2>1 DEF Quiet, Is
  <2>3. QED
    BY <1>2, <2>2
<1>3. CASE io[p].stage = "crc_low" /\ io[p].n + x # io[p].crc.value /\ Rejects(p)
  BY <1>3, RejectsIs
<1>4. QED
  BY <1>1, <1>2, <1>3 DEF Check
-----------------------------------------------------------------------------
(* Whatever the byte is, if it has been on the line.                       *)
LEMMA TookByte ==
  ASSUME NEW p \in DOMAIN io, Shaped(io[p]), NEW bytes, NEW x \in bytes,
         Hunt(p, x) \/ Header(p, x) \/ Data(p, x) \/ Check(p, x),
         Took(io[p], bytes), io[p].crc.st # "CUSTOM"
  PROVE  Took(io'[p], bytes) /\ io'[p].crc.st # "CUSTOM"
<1> DEFINE ex == io[p]
<1>1. ASSUME NEW buf \in Seq(bytes), NEW crc, crc.st # "CUSTOM", crc = ex.crc
      PROVE  /\ SumOf(crc, buf).st # "CUSTOM"
             /\ SumOf(crc, buf).value = Result(Checksum(Fresh, buf))
  BY <1>1, ChecksumAfresh DEF SumOf
<1>2. \A a \in bytes : 256 * a + x \in Pairs(bytes)
  BY DEF Pairs
<1>3. CASE Hunt(p, x)
  BY <1>3, HuntIs DEF Took, Is
<1>4. CASE Header(p, x)
  <2>1. ASSUME ex.stage = "low", Fits(ex.n + x)
        PROVE  Sized(ex.n + x, bytes) /\ ex.buf = <<>>
    BY <1>2, <2>1 DEF Took, Sized, Fits
  <2>2. Len(<<>>) = 0 /\ <<>> \in Seq(bytes)
    OBVIOUS
  <2>3. CASE /\ ex.stage = "low" /\ Fits(ex.n + x) /\ ex.n + x = 0
             /\ Is(io'[p], "crc_high", ex.n + x, ex.buf, ex.got, SumOf(ex.crc, ex.buf))
    BY <1>1, <2>1, <2>2, <2>3 DEF Took, Is
  <2>4. CASE /\ ex.stage = "low" /\ Fits(ex.n + x)
             /\ Is(io'[p], "data", ex.n + x, ex.buf, ex.got, ex.crc)
    BY <2>1, <2>2, <2>4 DEF Took, Is
  <2>5. CASE Is(io'[p], "idle", 0, <<>>, Null, ex.crc)
    BY <2>2, <2>5 DEF Took, Is
  <2>6. CASE ex.stage = "high" /\ Is(io'[p], "low", 256 * x, ex.buf, ex.got, ex.crc)
    BY <2>6 DEF Took, Is
  <2>7. CASE ex.stage = "zero" /\ Is(io'[p], "high", ex.n, ex.buf, ex.got, ex.crc)
    BY <2>7 DEF Took, Is
  <2>8. QED
    BY <1>4, <2>3, <2>4, <2>5, <2>6, <2>7, HeaderIs
<1>5. CASE Data(p, x)
  <2> DEFINE buf == Append(ex.buf, x)
  <2>1. buf \in Seq(bytes)
    BY DEF Took
  <2> HIDE DEF buf
  <2>2. ex.stage = "data" /\ Sized(ex.n, bytes)
    BY <1>5, DataIs DEF Took
  <2>3. CASE /\ Len(buf) = ex.n
             /\ Is(io'[p], "crc_high", ex.n, buf, ex.got, SumOf(ex.crc, buf))
    BY <1>1, <2>1, <2>2, <2>3 DEF Took, Is
  <2>4. CASE Is(io'[p], "data", ex.n, buf, ex.got, ex.crc)
    BY <2>1, <2>2, <2>4 DEF Took, Is
  <2>5. QED
    BY <1>5, <2>3, <2>4, DataIs DEF buf
<1>6. CASE Check(p, x)
  <2>1. CASE /\ ex.stage = "crc_high"
             /\ Is(io'[p], "crc_low", 256 * x, ex.buf, ex.got, ex.crc)
    BY <2>1 DEF Took, Is
  <2>2. CASE /\ ex.stage = "crc_low" /\ ex.n + x = ex.crc.value
             /\ Is(io'[p], "idle", 0, <<>>, ex.buf, ex.crc)
    <3>1. <<>> \in Seq(bytes)
      OBVIOUS
    <3>2. Result(Checksum(Fresh, ex.buf)) \in Pairs(bytes)
      BY <1>2, <2>2 DEF Took
    <3>3. QED
      BY <2>2, <3>1, <3>2 DEF Took, Is
  <2>3. CASE Is(io'[p], "idle", 0, <<>>, Null, ex.crc)
    <3>1. <<>> \in Seq(bytes)
      OBVIOUS
    <3>2. QED
      BY <2>3, <3>1 DEF Took, Is
  <2>4. QED
    BY <1>6, <2>1, <2>2, <2>3, CheckIs
<1>7. QED
  BY <1>3, <1>4, <1>5, <1>6

(* A byte of an answer that is followed.                                   *)
LEMMA FollowedByte ==
  ASSUME NEW out, Proper(out), NEW data \in Seq(Byte), NEW ex,
         ex.stage \in Reading, NEW bytes, ex.buf \in Seq(bytes),
         ex.stage \in {"zero", "high", "low"} => ex.buf = <<>>,
         Follows(ex, data, out)
  PROVE  LET x == Head(out)
             rest == Tail(out)
             n == Len(data)
         IN /\ out # <<>> /\ n \in Nat
            /\ ex.stage = "zero" => x = 0 /\ Rest(6, data, rest)
            /\ ex.stage = "high" => x = n \div 256 /\ Rest(7, data, rest)
            /\ ex.stage = "low" => x = n % 256 /\ Rest(8, data, rest)
            /\ ex.stage = "data" =>
                 x = data[Len(ex.buf) + 1] /\ Rest(8 + Len(ex.buf) + 1, data, rest)
            /\ ex.stage = "crc_high" =>
                 x = Kermit(data) % 256 /\ Rest(9 + n, data, rest)
            /\ ex.stage = "crc_low" => x = Kermit(data) \div 256
<1> DEFINE f == AnswerFrame(data)
           n == Len(data)
<1>1. /\ n \in Nat
      /\ f[6] = 0 /\ f[7] = n \div 256 /\ f[8] = n % 256
      /\ \A i \in 1..n : f[8 + i] = data[i]
      /\ f[9 + n] = Kermit(data) % 256
      /\ f[10 + n] = Kermit(data) \div 256
  <2>1. n \in Nat /\ f[6] = 0 /\ f[7] = n \div 256 /\ f[8] = n % 256
    BY AnswerIs
  <2>2. \A i \in 1..n : f[8 + i] = data[i]
    BY AnswerIs
  <2>3. f[9 + n] = Kermit(data) % 256 /\ f[10 + n] = Kermit(data) \div 256
    BY AnswerIs
  <2>4. QED
    BY <2>1, <2>2, <2>3
<1>2. ASSUME NEW j \in 0..n + 9, Rest(j, data, out)
      PROVE  out # <<>> /\ Head(out) = f[j + 1] /\ Rest(j + 1, data, Tail(out))
  BY <1>2, RestGoes
<1> HIDE DEF f
<1>3. CASE ex.stage = "zero"
  <2>1. 5 \in 0..n + 9 /\ 5 + 1 = 6
    BY <1>1
  <2>2. QED
    BY <1>1, <1>2, <1>3, <2>1 DEF Follows
<1>4. CASE ex.stage = "high"
  <2>1. 6 \in 0..n + 9 /\ 6 + 1 = 7
    BY <1>1
  <2>2. QED
    BY <1>1, <1>2, <1>4, <2>1 DEF Follows
<1>5. CASE ex.stage = "low"
  <2>1. 7 \in 0..n + 9 /\ 7 + 1 = 8
    BY <1>1
  <2>2. QED
    BY <1>1, <1>2, <1>5, <2>1 DEF Follows
<1>6. CASE ex.stage = "data"
  <2>1. PICK k \in 0..n : k = Len(ex.buf) /\ k < n
    BY <1>1, <1>6 DEF Follows
  <2>2. 8 + k \in 0..n + 9 /\ 8 + k + 1 = 8 + (k + 1) /\ k + 1 \in 1..n
    BY <1>1, <2>1
  <2>3. Rest(8 + k, data, out)
    BY <1>6, <2>1 DEF Follows
  <2>4. /\ out # <<>> /\ Head(out) = f[8 + (k + 1)] /\ Rest(8 + k + 1, data, Tail(out))
    BY <1>2, <2>2, <2>3
  <2>5. QED
    BY <1>1, <1>6, <2>1, <2>2, <2>4
<1>7. CASE ex.stage = "crc_high"
  <2>1. 8 + n \in 0..n + 9 /\ 8 + n + 1 = 9 + n
    BY <1>1
  <2>2. QED
    BY <1>1, <1>2, <1>7, <2>1 DEF Follows
<1>8. CASE ex.stage = "crc_low"
  <2>1. 9 + n \in 0..n + 9 /\ 9 + n + 1 = 10 + n
    BY <1>1
  <2>2. QED
    BY <1>1, <1>2, <1>8, <2>1 DEF Follows
<1>9. QED
  BY <1>3, <1>4, <1>5, <1>6, <1>7, <1>8 DEF Reading

(* Two sequences of the same elements.                                     *)
LEMMA SameData ==
  ASSUME NEW S, NEW T, NEW s \in Seq(S), NEW t \in Seq(T), Len(s) = Len(t),
         \A i \in 1..Len(s) : s[i] = t[i]
  PROVE  s = t
<1>1. s \in Seq(S \cup T) /\ t \in Seq(S \cup T)
  OBVIOUS
<1>2. QED
  BY <1>1, SeqEqual

(* An answer the client has reason to refuse.                              *)
LEMMA Judged ==
  ASSUME DemoInv, NEW p \in Procs, Running(p), NEW data \in Seq(Byte),
         Judge(p, data), at'[p] = Failed
  PROVE  Odd(data)
<1>1. Len(data) \in Nat /\ BufSize \in Nat
  BY DemoAssumption
<1>2. SUFFICES ASSUME Len(data) \in 2..BufSize
               PROVE  Last(data) # 0 /\ data[Len(data) - 1] # 144
  BY DEF Odd
<1>3. ~(Len(data) < 2)
  BY <1>1, <1>2
<1>4. ~Onward(p)
  BY Advances
<1>5. QED
  BY <1>3, <1>4 DEF Judge

LEMMA PlacedByHunt ==
  ASSUME NEW p \in DOMAIN io, Shaped(io[p]), NEW out, Proper(out),
         NEW D \in SUBSET Seq(Byte), InPlace(io[p], D, out),
         io[p].n \in 0..4,
         NEW x, x = IF out = <<>> THEN Idle ELSE Head(out),
         NEW rest, rest = IF out = <<>> THEN out ELSE Tail(out),
         Hunt(p, x)
  PROVE  InPlace(io'[p], D, rest)
<1> DEFINE n == IF x = Sync[io[p].n + 1] THEN io[p].n + 1 ELSE io[p].n
<1>1. io[p].stage = "hunt" /\ io'[p].stage = (IF n = 5 THEN "zero" ELSE "hunt")
      /\ io'[p].n = n /\ io'[p].got = io[p].got
  BY HuntIs DEF Is
<1>2. Searches(io[p].n, D, out)
  BY <1>1 DEF InPlace
<1>3. \/ n \in 0..4 /\ Searches(n, D, rest)
      \/ n = 5 /\ \E data \in D : Rest(5, data, rest)
  BY <1>2, SearchStep
<1> HIDE DEF n
<1>4. QED
  BY <1>1, <1>3 DEF InPlace, Follows, Reading

LEMMA PlacedByHeader ==
  ASSUME NEW p \in DOMAIN io, Shaped(io[p]), NEW bytes, Took(io[p], bytes),
         NEW out, Proper(out), NEW D \in SUBSET Seq(Byte), InPlace(io[p], D, out),
         NEW x, x = IF out = <<>> THEN Idle ELSE Head(out),
         NEW rest, rest = IF out = <<>> THEN out ELSE Tail(out),
         Header(p, x), at[p] # Failed, DOMAIN at = Procs
  PROVE  InPlace(io'[p], D, rest) /\ (at'[p] = Failed => Cause(D))
<1> DEFINE ex == io[p]
           m == ex.n + x
<1>1. ex.stage \in {"zero", "high", "low"} /\ ex.buf = <<>> /\ ex.buf \in Seq(bytes)
  BY HeaderIs DEF Took
<1>2. PICK data \in D : Follows(ex, data, out)
  BY <1>1 DEF InPlace, Reading
<1>3. data \in Seq(Byte) /\ ex.stage \in Reading
  BY <1>1 DEF Reading
<1>4. /\ Len(data) \in Nat /\ x = Head(out) /\ rest = Tail(out)
      /\ ex.stage = "zero" => x = 0 /\ Rest(6, data, rest)
      /\ ex.stage = "high" => x = Len(data) \div 256 /\ Rest(7, data, rest)
      /\ ex.stage = "low" => m = Len(data) /\ Rest(8, data, rest)
  <2>1. /\ out # <<>> /\ Len(data) \in Nat
        /\ ex.stage = "zero" => Head(out) = 0 /\ Rest(6, data, Tail(out))
        /\ ex.stage = "high" => Head(out) = Len(data) \div 256 /\ Rest(7, data, Tail(out))
        /\ ex.stage = "low" =>
             ex.n + Head(out) = Len(data) /\ Rest(8, data, Tail(out))
    <3>1. ex.stage = "zero" \/ ex.stage = "high" \/ ex.stage = "low"
      BY <1>1
    <3>2. out # <<>> /\ Len(data) \in Nat
      BY <1>1, <1>2, <1>3, FollowedByte, ZenonT(40)
    <3>3. ex.stage = "zero" => Head(out) = 0 /\ Rest(6, data, Tail(out))
      BY <1>1, <1>2, <1>3, FollowedByte, ZenonT(40)
    <3>4. ex.stage = "high" => Head(out) = Len(data) \div 256 /\ Rest(7, data, Tail(out))
      BY <1>1, <1>2, <1>3, FollowedByte, ZenonT(40)
    <3>5. ex.stage = "low" => ex.n + Head(out) = Len(data) /\ Rest(8, data, Tail(out))
      <4>1. SUFFICES ASSUME ex.stage = "low"
                     PROVE  ex.n + Head(out) = Len(data) /\ Rest(8, data, Tail(out))
        OBVIOUS
      <4>2. Head(out) = Len(data) % 256 /\ Rest(8, data, Tail(out))
        BY <1>1, <1>2, <1>3, <4>1, FollowedByte, ZenonT(40)
      <4>3. ex.n = 256 * (Len(data) \div 256)
        BY <1>2, <4>1 DEF Follows
      <4>4. 256 * (Len(data) \div 256) + (Len(data) % 256) = Len(data)
        BY <3>2
      <4>5. QED
        BY <4>2, <4>3, <4>4
    <3>6. QED
      BY <3>2, <3>3, <3>4, <3>5
  <2>2. QED
    BY <2>1
<1>5. ex.got # Null => ex.got \in D
  BY DEF InPlace
<1>6. CASE ex.stage = "zero" /\ at' = at /\ Is(io'[p], "high", ex.n, ex.buf, ex.got, ex.crc)
  <2>1. Follows(io'[p], data, rest)
    BY <1>4, <1>6 DEF Follows, Is
  <2>2. QED
    BY <1>5, <1>6, <2>1 DEF InPlace, Is
<1>7. CASE ex.stage = "high" /\ at' = at /\ Is(io'[p], "low", 256 * x, ex.buf, ex.got, ex.crc)
  <2>1. Follows(io'[p], data, rest)
    BY <1>4, <1>7 DEF Follows, Is
  <2>2. QED
    BY <1>5, <1>7, <2>1 DEF InPlace, Is
<1>8. CASE /\ ex.stage = "low" /\ Fits(m) /\ m = 0 /\ at' = at
           /\ Is(io'[p], "crc_high", m, ex.buf, ex.got, SumOf(ex.crc, ex.buf))
  <2>1. data = <<>> /\ Len(data) = 0 /\ 8 + Len(data) = 8
    BY <1>3, <1>4, <1>8
  <2>2. Follows(io'[p], data, rest)
    BY <1>1, <1>4, <1>8, <2>1 DEF Follows, Is
  <2>3. QED
    BY <1>5, <1>8, <2>2 DEF InPlace, Is
<1>9. CASE /\ ex.stage = "low" /\ Fits(m) /\ m # 0 /\ at' = at
           /\ Is(io'[p], "data", m, ex.buf, ex.got, ex.crc)
  <2>1. Len(ex.buf) = 0 /\ 8 + Len(ex.buf) = 8 /\ Len(ex.buf) < Len(data)
    BY <1>1, <1>4, <1>9
  <2>2. Follows(io'[p], data, rest)
    BY <1>4, <1>9, <2>1 DEF Follows, Is
  <2>3. QED
    BY <1>5, <1>9, <2>2 DEF InPlace, Is
<1>10. CASE /\ \/ ex.stage = "zero" /\ x # 0
               \/ ex.stage = "low" /\ ~Fits(m)
            /\ Is(io'[p], "idle", 0, <<>>, Null, ex.crc)
  <2>1. Len(data) \notin 2..BufSize
    BY <1>4, <1>10 DEF Fits
  <2>2. Cause(D)
    BY <2>1 DEF Cause, Odd
  <2>3. QED
    BY <1>10, <2>2 DEF InPlace, Is, Reading
<1>11. QED
  BY <1>6, <1>7, <1>8, <1>9, <1>10, HeaderIs

LEMMA PlacedByData ==
  ASSUME NEW p \in DOMAIN io, Shaped(io[p]), NEW bytes, Took(io[p], bytes),
         NEW out, Proper(out), NEW D \in SUBSET Seq(Byte), InPlace(io[p], D, out),
         NEW x \in bytes, x = IF out = <<>> THEN Idle ELSE Head(out),
         NEW rest, rest = IF out = <<>> THEN out ELSE Tail(out),
         Data(p, x)
  PROVE  InPlace(io'[p], D, rest) /\ at' = at
<1> DEFINE ex == io[p]
           buf == Append(ex.buf, x)
<1>1. ex.stage = "data" /\ ex.buf \in Seq(bytes) /\ at' = at
  BY DataIs DEF Took
<1>2. PICK data \in D : Follows(ex, data, out)
  BY <1>1 DEF InPlace, Reading
<1>3. data \in Seq(Byte) /\ ex.stage \in Reading
  BY <1>1 DEF Reading
<1>4. /\ Len(data) \in Nat /\ x = Head(out) /\ rest = Tail(out)
      /\ x = data[Len(ex.buf) + 1] /\ Rest(8 + Len(ex.buf) + 1, data, rest)
  BY <1>1, <1>2, <1>3, FollowedByte
<1>5. /\ ex.n = Len(data) /\ Len(ex.buf) < Len(data) /\ Len(ex.buf) \in Nat
      /\ \A i \in 1..Len(ex.buf) : ex.buf[i] = data[i]
  BY <1>1, <1>2 DEF Follows
<1>6. buf \in Seq(bytes) /\ Len(buf) = Len(ex.buf) + 1
      /\ \A i \in 1..Len(buf) : buf[i] = IF i = Len(ex.buf) + 1 THEN x ELSE ex.buf[i]
  BY <1>1
<1> HIDE DEF buf
<1>7. \A i \in 1..Len(buf) : buf[i] = data[i]
  BY <1>4, <1>5, <1>6
<1>8. 8 + Len(buf) = 8 + Len(ex.buf) + 1
  BY <1>5, <1>6
<1>9. ex.got # Null => ex.got \in D
  BY DEF InPlace
<1>10. CASE /\ Len(buf) = ex.n
            /\ Is(io'[p], "crc_high", ex.n, buf, ex.got, SumOf(ex.crc, buf))
  <2>1. buf = data
    BY <1>3, <1>5, <1>6, <1>7, <1>10, SameData
  <2>2. Rest(8 + Len(data), data, rest)
    BY <1>4, <1>8, <2>1
  <2>3. Follows(io'[p], data, rest)
    BY <1>10, <2>1, <2>2 DEF Follows, Is
  <2>4. QED
    BY <1>1, <1>9, <1>10, <2>3 DEF InPlace, Is
<1>11. CASE Len(buf) # ex.n /\ Is(io'[p], "data", ex.n, buf, ex.got, ex.crc)
  <2>1. Len(buf) < Len(data)
    BY <1>5, <1>6, <1>11
  <2>2. Follows(io'[p], data, rest)
    BY <1>4, <1>5, <1>7, <1>8, <1>11, <2>1 DEF Follows, Is
  <2>3. QED
    BY <1>1, <1>9, <1>11, <2>2 DEF InPlace, Is
<1>12. QED
  BY <1>10, <1>11, DataIs DEF buf

LEMMA PlacedByCheck ==
  ASSUME DemoInv, NEW p \in Procs, Running(p), at[p] # Failed,
         Shaped(io[p]), NEW bytes, Took(io[p], bytes),
         NEW out, Proper(out), NEW D \in SUBSET Seq(Byte), InPlace(io[p], D, out),
         NEW x, x = IF out = <<>> THEN Idle ELSE Head(out),
         NEW rest, rest = IF out = <<>> THEN out ELSE Tail(out),
         Check(p, x)
  PROVE  InPlace(io'[p], D, rest) /\ (at'[p] = Failed => Cause(D))
<1> DEFINE ex == io[p]
<1>1. ex.stage \in {"crc_high", "crc_low"} /\ ex.buf \in Seq(bytes) /\ p \in DOMAIN io
  BY CheckIs DEF Took, DemoInv
<1>2. PICK data \in D : Follows(ex, data, out)
  BY <1>1 DEF InPlace, Reading
<1>3. data \in Seq(Byte) /\ ex.stage \in Reading /\ ex.buf = data
  BY <1>1, <1>2 DEF Reading, Follows
<1>4. /\ x = Head(out) /\ rest = Tail(out)
      /\ ex.stage = "crc_high" =>
           x = Kermit(data) % 256 /\ Rest(9 + Len(data), data, rest)
      /\ ex.stage = "crc_low" => x = Kermit(data) \div 256
  BY <1>1, <1>2, <1>3, FollowedByte
<1>5. ex.got # Null => ex.got \in D
  BY DEF InPlace
<1>6. CASE /\ ex.stage = "crc_high" /\ at' = at
           /\ Is(io'[p], "crc_low", 256 * x, ex.buf, ex.got, ex.crc)
  <2>1. Follows(io'[p], data, rest)
    BY <1>3, <1>4, <1>6 DEF Follows, Is
  <2>2. QED
    BY <1>5, <1>6, <2>1 DEF InPlace, Is
<1>7. CASE Is(io'[p], "idle", 0, <<>>, ex.buf, ex.crc) /\ Judge(p, ex.buf)
  <2>1. InPlace(io'[p], D, rest)
    BY <1>3, <1>7 DEF InPlace, Is, Reading
  <2>2. at'[p] = Failed => Odd(data)
    BY <1>3, <1>7, Judged
  <2>3. QED
    BY <2>1, <2>2 DEF Cause
<1>8. CASE /\ ex.stage = "crc_low" /\ ex.n + x # ex.crc.value
           /\ Is(io'[p], "idle", 0, <<>>, Null, ex.crc)
  <2>1. ex.n = 256 * (Kermit(data) % 256) /\ x = Kermit(data) \div 256
    BY <1>2, <1>4, <1>8 DEF Follows
  <2>2. ex.crc.value = Result(Checksum(Fresh, data))
    BY <1>3, <1>8 DEF Took
  <2>3. ex.n + x = ex.crc.value
    BY <1>3, <2>1, <2>2, ChecksumsAgree DEF Agrees
  <2>4. QED
    BY <1>8, <2>3
<1>9. QED
  BY <1>1, <1>6, <1>7, <1>8, CheckIs
-----------------------------------------------------------------------------
(***************************************************************************)
(* ScanInv, step by step.                                                  *)
(***************************************************************************)

(* A process outside an exchange: it fails there only if a call did.       *)
LEMMA ScanIdle ==
  ASSUME ScanInv, NEW p \in Procs, LinkInv', ~Exchanging(p), main' = main, io' = io,
         \A q \in Procs \ {p} : at'[q] = at[q],
         chip' = chip \/ Shifts \/ \E b : Hears(b),
         (\E res : Called(p, res)) \/ UNCHANGED <<hurt, meddled, chip>>,
         at'[p] = Failed /\ main[p] = "link" => hurt'[p] # 0
  PROVE  ScanInv'
<1>1. LinkInv /\ Scans(p)
  BY DEF ScanInv
<1>2. /\ \A q \in Procs \ {p} : hurt'[q] = hurt[q] /\ Undisturbed(q)
      /\ ~meddled'[p] => ~meddled[p]
      /\ hurt'[p] = 0 => hurt[p] = 0
  <2>1. CASE UNCHANGED <<hurt, meddled, chip>>
    BY <2>1 DEF Undisturbed
  <2>2. QED
    BY <1>1, <2>1, Noticed
<1>3. Heard' /\ chip.said \subseteq chip'.said
  BY HeardKept DEF ScanInv, LinkInv
<1>4. hurt'[p] = 0 => Took(io'[p], Spoken')
  BY <1>1, <1>2, <1>3, SaidGrows, TookGrows DEF Scans
<1>5. ASSUME hurt'[p] = 0, ~meddled'[p], Plain(chip'.said)
      PROVE  InPlace(io'[p], chip'.said, chip'.out)
  <2>1. InPlace(io[p], chip.said, chip.out)
    BY <1>1, <1>2, <1>3, <1>5, SaidGrows DEF Scans
  <2>2. QED
    BY <1>3, <2>1 DEF InPlace, Exchanging, Reading
<1>6. Scans(p)'
  BY <1>1, <1>4, <1>5 DEF Scans
<1>7. Elsewhere(p)
  BY <1>2 DEF Elsewhere
<1>8. QED
  BY <1>6, <1>7, ScanFrame

LEMMA ScanCalls ==
  ASSUME ScanInv, NEW p \in Procs, LinkInv', Running(p),
         open_session(p) \/ ca_invoke(p) \/ close_session(p)
  PROVE  ScanInv'
<1>1. LinkInv /\ DemoInv /\ DOMAIN at = Procs /\ at[p] # Failed
  BY Scripts DEF ScanInv, LinkInv, DemoInv, Running, Failed
<1>2. ~Exchanging(p) /\ io' = io
  BY <1>1, CallsOutside DEF open_session, ca_invoke, close_session
<1>3. CASE open_session(p)
  <2>1. PICK res \in Results :
          /\ TA_OpenSessionEntryPoint(p, FALSE, res)
          /\ IF res = "OK" THEN Onward(p) ELSE Goes(p, Failed)
          /\ Called(p, res)
    BY <1>3 DEF open_session
  <2>2. main' = main /\ (hurt'[p] = 0 => res = "OK")
    BY <1>1, <2>1, Counted
  <2>3. \A q \in Procs \ {p} : at'[q] = at[q]
    BY <1>1, <2>1 DEF Onward, Goes
  <2>4. at'[p] = Failed => hurt'[p] # 0
    BY <1>1, <2>1, <2>2, Advances
  <2>5. chip' = chip
    BY <2>1 DEF TA_OpenSessionEntryPoint
  <2>6. QED
    BY <1>2, <2>1, <2>2, <2>3, <2>4, <2>5, ScanIdle
<1>4. CASE close_session(p)
  <2>1. /\ Onward(p) /\ UNCHANGED <<main, hurt, meddled>> /\ chip' = chip
    BY <1>4 DEF close_session, TA_CloseSessionEntryPoint, DestroyInstance
  <2>2. \A q \in Procs \ {p} : at'[q] = at[q]
    BY <1>1, <2>1 DEF Onward, Goes
  <2>3. at'[p] # Failed
    BY <1>1, <2>1, Advances
  <2>4. QED
    BY <1>2, <2>1, <2>2, <2>3, ScanIdle
<1>5. CASE ca_invoke(p)
  <2>1. PICK res : /\ TA_InvokeCommandEntryPoint(p, Now(p), res) \/ Dead(p, res)
                   /\ Returns(p, res)
                   /\ Called(p, res)
    BY <1>5 DEF ca_invoke
  <2>2. chip' = chip
    BY <2>1 DEF TA_InvokeCommandEntryPoint, spi_invoke, i2c_invoke, gpio_invoke, se_invoke,
                Dead, deviceVars
  <2>3. main' = main
    BY <1>1, <2>1, Counted
  <2>4. \A q \in Procs \ {p} : at'[q] = at[q]
    BY <1>1, <2>1 DEF Returns, Onward, Goes
  <2>5. main[p] = "link" => at'[p] # Failed
    BY <1>1, <2>1, Advances DEF Returns
  <2>6. QED
    BY <1>2, <2>1, <2>2, <2>3, <2>4, <2>5, ScanIdle
<1>6. QED
  BY <1>3, <1>4, <1>5

LEMMA ScanStranger ==
  ASSUME ScanInv, NEW p \in Procs, LinkInv', AnyCommand(p)
  PROVE  ScanInv'
<1>1. ~Exchanging(p) /\ io' = io /\ at' = at /\ main[p] = "stranger"
  BY DEF ScanInv, LinkInv, DemoInv, Progress, AnyCommand
<1>2. PICK res : Called(p, res)
  BY DEF AnyCommand
<1>3. chip' = chip \/ Shifts \/ \E b : Hears(b)
  BY DEF AnyCommand, TA_CloseSessionEntryPoint, DestroyInstance, TA_OpenSessionEntryPoint,
         TA_InvokeCommandEntryPoint, spi_invoke, i2c_invoke, gpio_invoke, se_invoke,
         ta_spi_send_bytes, ta_spi_receive_bytes, Malformed
<1>4. main' = main
  BY <1>2 DEF Called
<1>5. QED
  BY <1>1, <1>2, <1>3, <1>4, ScanIdle

LEMMA QuietTook ==
  ASSUME NEW c, NEW bytes
  PROVE  Took(Quiet(c), bytes)
<1>1. <<>> \in Seq(bytes)
  OBVIOUS
<1>2. QED
  BY <1>1 DEF Took, Quiet

LEMMA ScanExit ==
  ASSUME ScanInv, NEW p \in Procs, LinkInv', Exit(p)
  PROVE  ScanInv'
<1>1. chip' = chip /\ UNCHANGED <<main, hurt, meddled>>
  BY DEF Exit, TA_CloseSessionEntryPoint, DestroyInstance, deviceVars
<1>2. /\ io' = [io EXCEPT ![p] = Quiet(Fresh)] /\ DOMAIN io = Procs
      /\ at' = [at EXCEPT ![p] = Gone] /\ DOMAIN at = Procs
  BY DEF Exit, Goes, ScanInv, LinkInv, DemoInv
<1>3. io'[p] = Quiet(Fresh) /\ at'[p] # Failed
  BY <1>2 DEF Gone, Failed
<1>4. Took(io'[p], Spoken')
  BY <1>3, QuietTook
<1>5. InPlace(io'[p], chip'.said, chip'.out) /\ io'[p].crc.st # "CUSTOM"
  BY <1>3 DEF InPlace, Quiet, Reading, Fresh
<1>6. Scans(p)'
  BY <1>3, <1>4, <1>5 DEF Scans
<1>7. Elsewhere(p)
  BY <1>1, <1>2 DEF Elsewhere, Undisturbed
<1>8. QED
  BY <1>1, <1>6, <1>7, ScanFrame

LEMMA ScanSends ==
  ASSUME ScanInv, NEW p \in Procs, LinkInv', se_spi_send(p)
  PROVE  ScanInv'
<1>1. /\ DOMAIN io = Procs /\ Shaped(io[p]) /\ Scans(p)
      /\ UNCHANGED <<hurt, meddled, chip, main, at>> /\ io[p].stage = "idle"
  BY DEF se_spi_send, ScanInv, LinkInv, DemoInv, Exchange
<1>2. PICK frame, crc : /\ io' = [io EXCEPT ![p].stage = "send", ![p].frame = frame, ![p].crc = crc]
                        /\ crc = SumOf(io[p].crc, command)
  BY DEF se_spi_send, SumOf
<1>3. crc.st # "CUSTOM"
  BY <1>1, <1>2, ChecksumAfresh DEF SumOf, Scans
<1>4. /\ io'[p] = [io[p] EXCEPT !.stage = "send", !.frame = frame, !.crc = crc]
      /\ \A q \in Procs \ {p} : io'[q] = io[q]
  BY <1>1, <1>2
<1>5. Is(io'[p], "send", io[p].n, io[p].buf, io[p].got, crc)
  BY <1>1, <1>4 DEF Is, Shaped
<1>6. Took(io[p], Spoken) => Took(io'[p], Spoken)
  BY <1>1, <1>5 DEF Took, Is
<1>7. InPlace(io[p], chip.said, chip.out) => InPlace(io'[p], chip.said, chip.out)
  BY <1>5 DEF InPlace, Is, Reading
<1>8. Spoken' = Spoken
  BY <1>1 DEF Spoken
<1>9. io'[p].crc.st # "CUSTOM"
  BY <1>3, <1>5 DEF Is
<1>10. Scans(p)'
  BY <1>1, <1>6, <1>7, <1>8, <1>9 DEF Scans
<1>11. Elsewhere(p)
  BY <1>1, <1>4 DEF Elsewhere, Undisturbed
<1>12. QED
  BY <1>1, <1>10, <1>11, ScanFrame

(* The last byte of the request: the search begins at a line of whole      *)
(* answers, if need be behind what is left of one.                         *)
LEMMA ScanSendsByte ==
  ASSUME ScanInv, NEW p \in Procs, LinkInv', ca_spi_send_one_byte(p)
  PROVE  ScanInv'
<1>1. /\ DOMAIN io = Procs /\ Exchange(p) /\ Scans(p) /\ LinkInv /\ DemoInv
      /\ io[p].stage = "send" /\ at' = at
  BY DEF ca_spi_send_one_byte, ScanInv, LinkInv, DemoInv
<1>2. Shaped(io[p]) /\ io[p].n = 0 /\ main[p] = "link" /\ at[p] = 3
  BY <1>1, TalkingIs DEF Exchange, Exchanging
<1>3. PICK res \in Results :
        /\ ta_spi_send_bytes(p, Head(io[p].frame), res) \/ Dead(p, res)
        /\ Called(p, res)
  BY DEF ca_spi_send_one_byte
<1>4. chip' = chip \/ Hears(Head(io[p].frame))
  BY <1>3 DEF ta_spi_send_bytes, Dead, deviceVars
<1>5. main' = main
  BY <1>3 DEF Called
<1>6. /\ \A q \in Procs \ {p} : hurt'[q] = hurt[q] /\ Undisturbed(q)
      /\ ~meddled'[p] => ~meddled[p]
      /\ hurt'[p] = 0 => hurt[p] = 0
  BY <1>1, <1>3, Noticed
<1>7. Heard' /\ chip.said \subseteq chip'.said
  BY <1>1, <1>4, HeardKept DEF ScanInv, LinkInv
<1> DEFINE rest == Tail(io[p].frame)
           stage == IF rest = <<>> THEN "hunt" ELSE "send"
           heard == chip.said # chip'.said \/ chip.out # chip'.out
<1>8. io' = [io EXCEPT ![p].frame = rest, ![p].stage = stage, ![p].heard = heard]
  BY DEF ca_spi_send_one_byte
<1>9. /\ stage \in {"hunt", "send"}
      /\ io'[p] = [io[p] EXCEPT !.frame = rest, !.stage = stage, !.heard = heard]
      /\ \A q \in Procs \ {p} : io'[q] = io[q]
  BY <1>1, <1>8
<1> HIDE DEF rest, stage, heard
<1>10. Is(io'[p], stage, 0, io[p].buf, io[p].got, io[p].crc)
  BY <1>2, <1>9 DEF Is, Shaped
<1>11. ASSUME hurt'[p] = 0
       PROVE  Took(io'[p], Spoken')
  <2>1. Took(io[p], Spoken')
    BY <1>1, <1>6, <1>7, <1>11, SaidGrows, TookGrows DEF Scans
  <2>2. QED
    BY <1>1, <1>9, <1>10, <2>1 DEF Took, Is
<1>12. ASSUME hurt'[p] = 0, ~meddled'[p], Plain(chip'.said)
       PROVE  InPlace(io'[p], chip'.said, chip'.out)
  <2>1. InPlace(io[p], chip.said, chip.out)
    BY <1>1, <1>6, <1>7, <1>12, SaidGrows DEF Scans
  <2>2. Searches(0, chip'.said, chip'.out)
    BY <1>7, <1>12 DEF Heard, Searches
  <2>3. QED
    BY <1>7, <1>9, <1>10, <2>1, <2>2 DEF InPlace, Is, Reading
<1>13. at'[p] # Failed
  BY <1>1, <1>2 DEF Failed
<1>14. Scans(p)'
  BY <1>1, <1>10, <1>11, <1>12, <1>13 DEF Scans, Is
<1>15. Elsewhere(p)
  BY <1>1, <1>5, <1>6, <1>9 DEF Elsewhere
<1>16. QED
  BY <1>4, <1>14, <1>15, ScanFrame

LEMMA ScanReceives ==
  ASSUME ScanInv, NEW p \in Procs, LinkInv', Running(p), se_spi_receive(p)
  PROVE  ScanInv'
<1>1. /\ DOMAIN io = Procs /\ DOMAIN at = Procs /\ Exchange(p) /\ Scans(p)
      /\ LinkInv /\ DemoInv /\ Line /\ Heard
  BY DEF ScanInv, LinkInv, DemoInv
<1>2. PICK x :
        /\ ca_spi_receive_one_byte(p, x)
        /\ Hunt(p, x) \/ Header(p, x) \/ Data(p, x) \/ Check(p, x)
  BY DEF se_spi_receive
<1>3. PICK res \in Results :
        /\ ta_spi_receive_bytes(p, res) \/ Dead(p, res)
        /\ x \in IF res = "OK" THEN {ShiftsOut} ELSE Garbage
        /\ Called(p, res)
  BY <1>2 DEF ca_spi_receive_one_byte
<1>4. chip' = chip \/ Shifts
  BY <1>3 DEF ta_spi_receive_bytes, Dead, deviceVars
<1>5. main' = main
  BY <1>3 DEF Called
<1>6. /\ \A q \in Procs \ {p} : hurt'[q] = hurt[q] /\ Undisturbed(q)
      /\ ~meddled'[p] => ~meddled[p]
      /\ hurt'[p] = 0 => hurt[p] = 0 /\ res = "OK"
  BY <1>1, <1>3, Noticed
<1>7. main[p] = "link" /\ at[p] = 3 /\ Exchanging(p)
  BY <1>1, <1>2, Reads, TalkingIs
<1>8. /\ \A q \in Procs \ {p} : io'[q] = io[q]
      /\ at' = at \/ Goes(p, Failed) \/ Onward(p)
  BY <1>1, <1>2, Reads
<1>9. \A q \in Procs \ {p} : at'[q] = at[q]
  BY <1>1, <1>8 DEF Goes, Onward
<1>10. chip'.said = chip.said /\ Spoken' = Spoken
  BY <1>1, <1>4 DEF Shifts, Spoken, Line
<1>11. ASSUME hurt'[p] = 0
       PROVE  /\ hurt[p] = 0 /\ x \in Spoken
              /\ x = IF chip.out = <<>> THEN Idle ELSE Head(chip.out)
              /\ chip'.out = IF chip.out = <<>> THEN chip.out ELSE Tail(chip.out)
              /\ Took(io'[p], Spoken)
  <2>1. hurt[p] = 0 /\ res = "OK" /\ ~Dead(p, res)
    BY <1>6, <1>11 DEF Dead
  <2>2. Shifts /\ x = ShiftsOut
    BY <1>3, <2>1 DEF ta_spi_receive_bytes
  <2>3. x = IF chip.out = <<>> THEN Idle ELSE Head(chip.out)
    BY <2>2 DEF ShiftsOut
  <2>4. chip'.out = IF chip.out = <<>> THEN chip.out ELSE Tail(chip.out)
    BY <1>1, <2>2 DEF Shifts, Line
  <2>5. x \in Spoken
    <3>1. Idle \in Spoken /\ chip.out \in Seq(Spoken)
      BY <1>1 DEF Spoken, Heard
    <3>2. QED
      BY <2>3, <3>1
  <2>6. Took(io'[p], Spoken)
    BY <1>1, <1>2, <2>1, <2>5, TookByte DEF Scans, Exchange
  <2>7. QED
    BY <2>1, <2>3, <2>4, <2>5, <2>6
<1>12. ASSUME hurt'[p] = 0, ~meddled'[p], Plain(chip.said)
       PROVE  InPlace(io'[p], chip.said, chip'.out) /\ (at'[p] = Failed => Cause(chip.said))
  <2>1. /\ InPlace(io[p], chip.said, chip.out) /\ Took(io[p], Spoken)
        /\ Proper(chip.out) /\ chip.said \in SUBSET Seq(Byte)
        /\ Shaped(io[p]) /\ p \in DOMAIN io /\ at[p] # Failed
    BY <1>1, <1>6, <1>7, <1>11, <1>12, DeviceAssumption
       DEF Scans, Line, Heard, Exchange, Failed
  <2>2. PICK D \in SUBSET Seq(Byte) : D = chip.said
    BY <2>1
  <2>3. PICK out : out = chip.out
    OBVIOUS
  <2>4. PICK rest : rest = chip'.out /\ rest = IF out = <<>> THEN out ELSE Tail(out)
    BY <1>11, <1>12, <2>3
  <2>5. /\ x \in Spoken /\ x = IF out = <<>> THEN Idle ELSE Head(out)
        /\ InPlace(io[p], D, out) /\ Proper(out)
    BY <1>11, <1>12, <2>1, <2>2, <2>3
  <2>6. CASE Hunt(p, x)
    <3>1. io[p].stage = "hunt" /\ at' = at
      BY <2>1, <2>6, HuntIs
    <3>2. io[p].n \in 0..4
      BY <1>1, <3>1 DEF Exchange
    <3>3. InPlace(io'[p], D, rest)
      BY <2>1, <2>4, <2>5, <2>6, <3>2, PlacedByHunt
    <3>4. QED
      BY <2>1, <2>2, <2>4, <3>1, <3>3
  <2>7. CASE Header(p, x)
    <3>1. InPlace(io'[p], D, rest) /\ (at'[p] = Failed => Cause(D))
      BY <1>1, <2>1, <2>4, <2>5, <2>7, PlacedByHeader
    <3>2. QED
      BY <2>2, <2>4, <3>1
  <2>8. CASE Data(p, x)
    <3>1. InPlace(io'[p], D, rest) /\ at' = at
      BY <2>1, <2>4, <2>5, <2>8, PlacedByData
    <3>2. QED
      BY <2>1, <2>2, <2>4, <3>1
  <2>9. CASE Check(p, x)
    <3>1. InPlace(io'[p], D, rest) /\ (at'[p] = Failed => Cause(D))
      BY <1>1, <2>1, <2>4, <2>5, <2>9, PlacedByCheck
    <3>2. QED
      BY <2>2, <2>4, <3>1
  <2>10. QED
    BY <1>2, <2>6, <2>7, <2>8, <2>9
<1>13. io'[p].crc.st # "CUSTOM"
  <2>1. Shaped(io[p]) /\ io[p].crc.st # "CUSTOM" /\ p \in DOMAIN io
    BY <1>1 DEF Scans, Exchange
  <2>2. ASSUME NEW buf
        PROVE  SumOf(io[p].crc, buf).st # "CUSTOM"
    BY <2>1, ChecksumAfresh DEF SumOf
  <2>3. Hunt(p, x) => io'[p].crc.st # "CUSTOM"
    BY <2>1, HuntIs DEF Is
  <2>4. Header(p, x) => io'[p].crc.st # "CUSTOM"
    BY <2>1, <2>2, HeaderIs DEF Is
  <2>5. Data(p, x) => io'[p].crc.st # "CUSTOM"
    BY <2>1, <2>2, DataIs DEF Is
  <2>6. Check(p, x) => io'[p].crc.st # "CUSTOM"
    BY <2>1, CheckIs DEF Is
  <2>7. QED
    BY <1>2, <2>3, <2>4, <2>5, <2>6
<1>14. ~Plain(chip.said) => Cause(chip.said)
  BY DEF Plain, Cause, Odd
<1>15. Scans(p)'
  BY <1>10, <1>11, <1>12, <1>13, <1>14 DEF Scans
<1>16. Elsewhere(p)
  BY <1>5, <1>6, <1>8, <1>9 DEF Elsewhere
<1>17. QED
  BY <1>4, <1>15, <1>16, ScanFrame

LEMMA InitScanInv == DemoInit => ScanInv
<1>1. SUFFICES ASSUME DemoInit
               PROVE  ScanInv
  OBVIOUS
<1>2. LinkInv
  BY <1>1, InitLinkInv
<1>3. chip.said = {} /\ chip.out = <<>>
  BY <1>1 DEF DemoInit, Init
<1>4. Heard
  <2>1. <<>> \in Seq(Spoken)
    OBVIOUS
  <2>2. QED
    BY <1>3, <2>1, NothingParses DEF Heard
<1>5. ASSUME NEW p \in Procs
      PROVE  Scans(p)
  <2>1. io[p] = Quiet(Fresh) /\ at[p] # Failed
    BY <1>1 DEF DemoInit, Failed
  <2>2. Took(io[p], Spoken)
    BY <2>1, QuietTook
  <2>3. InPlace(io[p], chip.said, chip.out) /\ io[p].crc.st # "CUSTOM"
    BY <2>1 DEF InPlace, Quiet, Reading, Fresh
  <2>4. QED
    BY <2>1, <2>2, <2>3 DEF Scans
<1>6. QED
  BY <1>2, <1>4, <1>5 DEF ScanInv

LEMMA NextScanInv == ScanInv /\ [DemoNext]_demoVars => ScanInv'
<1>1. ScanInv /\ [DemoNext]_demoVars => LinkInv'
  BY NextLinkInv DEF ScanInv
<1>2. ASSUME ScanInv, UNCHANGED demoVars
      PROVE  ScanInv'
  <2>1. Spoken' = Spoken
    BY <1>2 DEF demoVars, Spoken
  <2>2. Heard'
    BY <1>2, <2>1 DEF demoVars, ScanInv, Heard
  <2>3. ASSUME NEW p \in Procs
        PROVE  Scans(p)'
    BY <1>2, <2>1 DEF demoVars, ScanInv, Scans
  <2>4. QED
    BY <1>1, <1>2, <2>2, <2>3 DEF ScanInv
<1>3. ASSUME ScanInv, DemoNext, NEW p \in Procs, Main(p) \/ Exit(p) \/ AnyCommand(p)
      PROVE  ScanInv'
  BY <1>1, <1>3, ScanCalls, ScanSends, ScanSendsByte, ScanReceives, ScanExit, ScanStranger
     DEF Main
<1>4. QED
  BY <1>2, <1>3 DEF DemoNext

(* What se_spi_receive accepts as an answer consists of bytes the element  *)
(* sent, and so do its length and its checksum; if no other process took   *)
(* bytes off the line and no answer can be mistaken for two, it is an      *)
(* answer the element gave, whoever was killed halfway through another.    *)
THEOREM AnswersAreGenuine == DemoSpec => []AnswerGenuine
<1>1. DemoSpec => []ScanInv
  BY InitScanInv, NextScanInv, PTL DEF DemoSpec
<1>2. ASSUME ScanInv, NEW p \in Procs, io[p].got # Null, hurt[p] = 0
      PROVE  /\ Range(io[p].got) \subseteq Spoken
             /\ Len(io[p].got) <= BufSize
             /\ Len(io[p].got) \in Pairs(Spoken)
             /\ Result(Checksum(Fresh, io[p].got)) \in Pairs(Spoken)
             /\ \/ io[p].got \in chip.said
                \/ meddled[p] \/ \E data \in chip.said : Echoes(data)
  <2>1. Scans(p)
    BY <1>2 DEF ScanInv
  <2>2. Took(io[p], Spoken)
    BY <1>2, <2>1 DEF Scans
  <2>3. /\ io[p].got \in Seq(Spoken) /\ Sized(Len(io[p].got), Spoken)
        /\ Result(Checksum(Fresh, io[p].got)) \in Pairs(Spoken)
    BY <1>2, <2>2 DEF Took
  <2>4. \/ io[p].got \in chip.said
        \/ meddled[p] \/ \E data \in chip.said : Echoes(data)
    BY <1>2, <2>1 DEF Scans, InPlace, Plain
  <2>5. Range(io[p].got) \subseteq Spoken
    BY <2>3 DEF Range
  <2>6. QED
    BY <2>3, <2>4, <2>5 DEF Sized
<1>3. ScanInv => AnswerGenuine
  BY <1>2 DEF AnswerGenuine
<1>4. QED
  BY <1>1, <1>3, PTL

(* A scan of which no call failed and that had the line to itself fails    *)
(* only for an answer that is out of the ordinary: never for its checksum, *)
(* nor for what a reader that was killed has left on the line.             *)
THEOREM ScanFailureHasCause == DemoSpec => []ScanFailsForCause
<1>1. DemoSpec => []ScanInv
  BY InitScanInv, NextScanInv, PTL DEF DemoSpec
<1>2. ASSUME ScanInv, NEW p \in Procs, at[p] = Failed, main[p] = "link",
             hurt[p] = 0, ~meddled[p]
      PROVE  \E data \in chip.said : Odd(data)
  BY <1>2 DEF ScanInv, Scans, Cause, Heard
<1>3. ScanInv => \A p \in Procs : hurt[p] # 0 => hurt[p] > 0
  BY DEF ScanInv, LinkInv, DemoInv
<1>4. ScanInv => ScanFailsForCause
  BY <1>2, <1>3 DEF ScanFailsForCause
<1>5. QED
  BY <1>1, <1>4, PTL
=============================================================================
