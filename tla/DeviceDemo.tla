----------------------------- MODULE DeviceDemo ------------------------------
(***************************************************************************)
(* The client applications of the peripherals run against DeviceTA: the    *)
(* mains of demo/i2c/host, demo/gpio/host and demo/se/host, the flash scan *)
(* of demo/spi/host, and se_hsck2_scan of the same file, whose call its    *)
(* main has commented out and which speaks to the security element byte by *)
(* byte.  A process runs one of them once and may be killed on the way, or *)
(* is a stranger that issues any command.                                  *)
(*                                                                         *)
(* The functions of demo/se/host and demo/spi/host print a failure and     *)
(* return 0; those of the other two leave through errx.                    *)
(***************************************************************************)
EXTENDS DeviceTA, SeCrc

CONSTANTS
  Strangers,  \* processes that may be no main
  MaxHurt,    \* bound: calls of a process that fail with a device that is up
  BufSize     \* bound: the buffer of se_hsck2_scan_id, 64 bytes in the code

ASSUME DemoAssumption == Strangers \subseteq Procs /\ BufSize \in Nat /\ MaxHurt \in Nat \ {0}

VARIABLES
  main,     \* what each process runs
  at,       \* its position there, or how it ended
  io,       \* its exchange with the security element, its checksum structure
  hurt,     \* calls of the process that have failed
  meddled   \* another used the element's line during its exchange

demoVars == <<ta, hd, adrift, chip, main, at, io, hurt, meddled>>

Mains == {"flash", "link", "i2c", "gpio", "se", "stranger"}

Scan == <<"open", "init", "send_then_receive", "uninit", "close">>

(* A slip that breaks Released: the EEPROM scan forgets to uninitialise.   *)
LeavesBusOn(p) ==
  CASE main[p] = "flash" -> Scan \o Scan
    [] main[p] = "link" -> <<"open", "init", "transmit", "close">>
    [] main[p] = "i2c" -> <<"open", "init", "master_send", "master_receive",
                            "close">>
    [] main[p] \in {"gpio", "se", "stranger"} -> <<>>

Script(p) ==
  CASE main[p] = "flash" -> Scan \o Scan
    [] main[p] = "link" -> <<"open", "init", "transmit", "close">>
    [] main[p] = "i2c" -> <<"open", "init", "master_send", "master_receive",
                            "uninit", "close">>
    [] main[p] = "gpio" -> <<"open", "request", "get_direction",
         "set_direction", "get_direction", "get_value", "toggle_value",
         "get_value", "close">>
    [] main[p] = "se" -> <<"open", "init", "atr", "channel_open", "transmit",
         "transmit", "transmit", "reset", "mutual_auth", "get_status",
         "channel_close", "uninit", "close">>
    [] main[p] = "stranger" -> <<>>

Failed == 0
Passing == 20
Gone == 21

Running(p) == at[p] \in DOMAIN Script(p)
Now(p) == Script(p)[at[p]]
Goes(p, next) == at' = [at EXCEPT ![p] = next]
Onward(p) == Goes(p, IF at[p] = Len(Script(p)) THEN Passing ELSE at[p] + 1)

(* The wrappers of SPI and SE return 0 whatever the answer.                *)
Returns(p, res) ==
  IF res # "OK" /\ main[p] \in {"i2c", "gpio"}
  THEN Goes(p, Failed) ELSE Onward(p)

(* No exchange under way, with the checksum structure as the last left it. *)
Quiet(crc) == [stage |-> "idle", frame |-> <<>>, n |-> 0, heard |-> FALSE,
               buf |-> <<>>, got |-> Null, crc |-> crc]

Exchanging(p) == io[p].stage # "idle"

(* The one call of the link that is many to the TA.                        *)
Talks(p) == main[p] = "link" /\ Now(p) = "transmit"

(* After a call of p that returned res.                                    *)
Called(p, res) ==
  /\ res = "FAIL" /\ hd[p] = "ready" => hurt[p] < MaxHurt
  /\ hurt' = [hurt EXCEPT ![p] = IF res # "OK" /\ @ < MaxHurt
                                 THEN @ + 1 ELSE @]
  /\ meddled' = [q \in Procs |->
       meddled[q] \/ (q # p /\ Exchanging(q) /\ chip' # chip)]
  /\ UNCHANGED main
-----------------------------------------------------------------------------
DemoInit ==
  /\ Init
  /\ main \in [Procs -> Mains]
  /\ \A p \in Procs :
       /\ main[p] = "stranger" => p \in Strangers
       /\ main[p] \in {"flash", "link"} => ta[p] = "spi"
       /\ main[p] \in {"i2c", "gpio", "se"} => ta[p] = main[p]
  /\ at = [p \in Procs |-> 1]
  /\ io = [p \in Procs |-> Quiet(Fresh)]
  /\ hurt = [p \in Procs |-> 0]
  /\ meddled = [p \in Procs |-> FALSE]

open_session(p) ==
  /\ Now(p) = "open"
  /\ \E res \in Results :
       /\ TA_OpenSessionEntryPoint(p, FALSE, res)
       /\ IF res = "OK" THEN Onward(p) ELSE Goes(p, Failed)
       /\ Called(p, res) /\ UNCHANGED io

(* TEEC_CloseSession; an instance that is dead has no entry point to call. *)
close_session(p) ==
  /\ Now(p) = "close"
  /\ TA_CloseSessionEntryPoint(p) \/ DestroyInstance(p)
  /\ Onward(p)
  /\ UNCHANGED <<main, io, hurt, meddled>>

(* A call to a dead instance: the client is told, and nothing happens.     *)
Dead(p, res) ==
  /\ hd[p] = "dead" /\ res = "TARGET_DEAD"
  /\ UNCHANGED deviceVars

ca_invoke(p) ==
  /\ Now(p) \notin {"open", "close"} /\ ~Talks(p)
  /\ \E res \in Results :
       /\ TA_InvokeCommandEntryPoint(p, Now(p), res) \/ Dead(p, res)
       /\ Returns(p, res)
       /\ Called(p, res) /\ UNCHANGED io
-----------------------------------------------------------------------------
(* se_spi_transmit of se_hsck2_scan_id                                     *)

command == <<0, \hBC, 0, 0, 0>>

(* The frame and its checksum are made, then go out one call per byte.     *)
se_spi_send(p) ==
  LET sum == Checksum(io[p].crc, command)
      frame == <<0, 0, 0, \h55, \hAA, 0, 0, Len(command)>> \o command
               \o <<Result(sum) \div 256, Result(sum) % 256>>
  IN /\ Talks(p) /\ io[p].stage = "idle"
     /\ io' = [io EXCEPT ![p].stage = "send", ![p].frame = frame,
                         ![p].crc = crc_ccit_get_result(sum)]
     /\ UNCHANGED <<ta, hd, adrift, chip, main, at, hurt, meddled>>

(* That a byte could not be sent is not looked at.                         *)
ca_spi_send_one_byte(p) ==
  LET rest == Tail(io[p].frame) IN
  /\ io[p].stage = "send"
  /\ \E res \in Results :
       /\ ta_spi_send_bytes(p, Head(io[p].frame), res) \/ Dead(p, res)
       /\ Called(p, res)
  /\ io' = [io EXCEPT ![p].frame = rest,
                      ![p].stage = IF rest = <<>> THEN "hunt" ELSE "send",
                      ![p].heard = chip.said # chip'.said \/ chip.out # chip'.out]
  /\ UNCHANGED at

(* Receives x; a byte that could not be received is what the stack held.   *)
ca_spi_receive_one_byte(p, x) ==
  \E res \in Results :
    /\ ta_spi_receive_bytes(p, res) \/ Dead(p, res)
    /\ x \in IF res = "OK" THEN {ShiftsOut} ELSE Garbage
    /\ Called(p, res)

Sync == <<0, 0, 0, \hAA, \h55>>

(* Five loops, each until its byte comes.                                  *)
Hunts(p, x, sync) ==
  LET n == IF x = sync[io[p].n + 1] THEN io[p].n + 1 ELSE io[p].n IN
  /\ io[p].stage = "hunt"
  /\ io' = [io EXCEPT ![p].n = n,
                      ![p].stage = IF n = Len(sync) THEN "zero" ELSE "hunt"]
  /\ UNCHANGED at

(* se_hsck2_scan leaves through errx: what is still unread stays so.       *)
Rejects(p) ==
  /\ io' = [io EXCEPT ![p] = Quiet(@.crc)]
  /\ Goes(p, Failed)

(* A slip that breaks ScanFailsForCause: a full buffer is refused.         *)
FitsShort(len) == len < BufSize

Fits(len) == len <= BufSize

(* The data is there: its checksum is taken before the element's is read.  *)
Summed(ex) == [ex EXCEPT !.stage = "crc_high",
                 !.crc = crc_ccit_get_result(Checksum(ex.crc, ex.buf))]

(* A zero, then the length.                                                *)
Header(p, x) ==
  \/ /\ io[p].stage = "zero" /\ x = 0
     /\ io' = [io EXCEPT ![p].stage = "high"]
     /\ UNCHANGED at
  \/ /\ io[p].stage = "high"
     /\ io' = [io EXCEPT ![p].stage = "low", ![p].n = 256 * x]
     /\ UNCHANGED at
  \/ /\ io[p].stage = "low" /\ Fits(io[p].n + x)
     /\ LET ex == [io[p] EXCEPT !.n = @ + x, !.stage = "data"] IN
        io' = [io EXCEPT ![p] = IF ex.n = 0 THEN Summed(ex) ELSE ex]
     /\ UNCHANGED at
  \/ /\ \/ io[p].stage = "zero" /\ x # 0
        \/ io[p].stage = "low" /\ ~Fits(io[p].n + x)
     /\ Rejects(p)

Data(p, x) ==
  /\ io[p].stage = "data"
  /\ LET ex == [io[p] EXCEPT !.buf = Append(@, x)] IN
     io' = [io EXCEPT ![p] = IF Len(ex.buf) = ex.n THEN Summed(ex) ELSE ex]
  /\ UNCHANGED at

(* se_hsck2_scan_id: either byte of the status word suffices.  An answer   *)
(* of one byte ends the process whatever the byte before its buffer is: it *)
(* is refused, or else printed over len - 2 bytes, which is no length.     *)
Judge(p, data) ==
  IF Len(data) < 2 \/ (data[Len(data) - 1] # \h90 /\ Last(data) # 0)
  THEN Goes(p, Failed) ELSE Onward(p)
-----------------------------------------------------------------------------
(* Steps with one line wrong; DemoNext takes none of them.                 *)

(* AnswerGenuine: the checksum is read but not compared.                   *)
TakesUnchecked(p, x) ==
  \/ /\ io[p].stage = "crc_high"
     /\ io' = [io EXCEPT ![p].stage = "crc_low"]
     /\ UNCHANGED at
  \/ /\ io[p].stage = "crc_low"
     /\ io' = [io EXCEPT ![p] = [Quiet(Fresh) EXCEPT !.got = io[p].buf]]
     /\ Judge(p, io[p].buf)

(* HuntEnds: the client waits for the header of a request.                 *)
HuntsRequest(p, x) == Hunts(p, x, <<0, 0, 0, \h55, \hAA>>)
-----------------------------------------------------------------------------
Hunt(p, x) == Hunts(p, x, Sync)

(* The second byte of the checksum is the last of the answer; what the     *)
(* structure holds is the result that was taken of the data.               *)
Check(p, x) ==
  \/ /\ io[p].stage = "crc_high"
     /\ io' = [io EXCEPT ![p].stage = "crc_low", ![p].n = 256 * x]
     /\ UNCHANGED at
  \/ /\ io[p].stage = "crc_low"
     /\ IF io[p].n + x = io[p].crc.value
        THEN /\ io' = [io EXCEPT ![p] = [Quiet(@.crc) EXCEPT !.got = io[p].buf]]
             /\ Judge(p, io[p].buf)
        ELSE Rejects(p)

se_spi_receive(p) ==
  \E x \in Garbage \cup {ShiftsOut} :
    /\ ca_spi_receive_one_byte(p, x)
    /\ Hunt(p, x) \/ Header(p, x) \/ Data(p, x) \/ Check(p, x)
-----------------------------------------------------------------------------
(* A process that left through errx, or was killed wherever it was: the    *)
(* driver closes its session.                                              *)
Exit(p) ==
  /\ Running(p) \/ at[p] = Failed
  /\ \/ TA_CloseSessionEntryPoint(p)
     \/ DestroyInstance(p)
     \/ hd[p] = "none" /\ UNCHANGED deviceVars
  /\ Goes(p, Gone)
  /\ io' = [io EXCEPT ![p] = Quiet(Fresh)]
  /\ UNCHANGED <<main, hurt, meddled>>

Main(p) ==
  /\ Running(p)
  /\ \/ open_session(p)
     \/ ca_invoke(p)
     \/ close_session(p)
     \/ se_spi_send(p)
     \/ ca_spi_send_one_byte(p)
     \/ se_spi_receive(p)

AnyCommand(p) ==
  /\ main[p] = "stranger"
  /\ \/ /\ TA_CloseSessionEntryPoint(p) \/ DestroyInstance(p)
        /\ Called(p, "OK")
     \/ \E res \in Results :
          /\ \/ \E b \in BOOLEAN : TA_OpenSessionEntryPoint(p, b, res)
             \/ \E cmd \in UNION Range(Commands) :
                  TA_InvokeCommandEntryPoint(p, cmd, res)
             \/ \E b \in Garbage : ta_spi_send_bytes(p, b, res)
             \/ ta_spi_receive_bytes(p, res)
             \/ Malformed(p, res)
          /\ Called(p, res)
  /\ UNCHANGED <<at, io>>

DemoNext == \E p \in Procs : Main(p) \/ Exit(p) \/ AnyCommand(p)

DemoSpec == DemoInit /\ [][DemoNext]_demoVars
-----------------------------------------------------------------------------
(* The header is followed, in this order, by the last two bytes of another *)
(* one: when the reader of such an answer is killed, the next takes what   *)
(* is left of it for an answer.                                            *)
Echoes(data) ==
  LET frame == AnswerFrame(data) IN
  \E i \in 7..Len(frame) : \E j \in i + 1..Len(frame) :
    frame[i] = \hAA /\ frame[j] = \h55

(* What can be read off the line, and the numbers of two such bytes.       *)
Spoken ==
  {Idle} \cup UNION {Range(AnswerFrame(data)) : data \in chip.said}
Pairs(bytes) == {256 * a + b : a \in bytes, b \in bytes}

(* An answer that se_spi_receive accepts is one that the element gave,     *)
(* whatever processes that were killed have left of others, unless another *)
(* process took bytes off the line meanwhile or a byte could not be        *)
(* received.  If one did, all that is sure is that the bytes are the       *)
(* element's, that there is room for them, and that their number and their *)
(* checksum, taken afresh whatever the structure held, were read as well.  *)
AnswerGenuine ==
  \A p \in Procs :
    io[p].got # Null /\ hurt[p] = 0 =>
      /\ Range(io[p].got) \subseteq Spoken
      /\ Len(io[p].got) <= BufSize
      /\ Len(io[p].got) \in Pairs(Spoken)
      /\ Result(Checksum(Fresh, io[p].got)) \in Pairs(Spoken)
      /\ \/ io[p].got \in chip.said
         \/ meddled[p] \/ \E data \in chip.said : Echoes(data)

(* An answer the scan has reason to refuse: no room, no status, a bad one, *)
(* or one that is mistaken for two.                                        *)
Odd(data) ==
  \/ Len(data) \notin 2..BufSize
  \/ Last(data) # 0 /\ data[Len(data) - 1] # \h90
  \/ Echoes(data)

(* The scan fails only when a call did, when another process used the line *)
(* meanwhile or when the element gave an answer out of the ordinary: never *)
(* for its own framing and checksum, nor for what a process that was       *)
(* killed has left unread.                                                 *)
ScanFailsForCause ==
  \A p \in Procs :
    at[p] = Failed /\ main[p] = "link" =>
      hurt[p] > 0 \/ meddled[p] \/ \E data \in chip.said : Odd(data)

(* out holds in one piece what the search for a header still misses after  *)
(* n of its bytes: it ends at the latest there.                            *)
Completes(n, out) ==
  \E k \in 0..Len(out) :
    \A i \in (n + 1)..Len(Sync) :
      k + i - n <= Len(out) /\ out[k + i - n] = Sync[i]

(* The search has no bound of its own, but it ends: once the element has   *)
(* taken the request, what it has to say still holds the rest of a header. *)
HuntEnds ==
  \A p \in Procs :
    io[p].stage = "hunt" /\ io[p].heard /\ hurt[p] = 0 /\ ~meddled[p] =>
      Completes(io[p].n, chip.out)

(* A main that gets through has uninitialised its device, or a call of it  *)
(* failed and it went on regardless, as those of I2C and GPIO never do.    *)
(* se_hsck2_scan does not uninitialise, and GPIO leaves it to the close.   *)
Released ==
  \A p \in Procs :
    at[p] = Passing =>
      /\ main[p] \in {"i2c", "gpio"} => hurt[p] = 0
      /\ p \in adrift => hurt[p] > 0 \/ main[p] \in {"link", "gpio"}
=============================================================================
