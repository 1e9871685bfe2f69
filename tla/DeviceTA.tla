------------------------------ MODULE DeviceTA -------------------------------
(***************************************************************************)
(* The trusted applications of the peripherals: demo/spi/ta, demo/i2c/ta,  *)
(* demo/gpio/ta and demo/se/ta.  Each keeps one thing per session, the     *)
(* handle its driver gave it, and hands every command on to the driver.    *)
(* The csi drivers are prebuilt libraries and external: a call may fail,   *)
(* and does when the handle is not in the state it needs.                  *)
(*                                                                         *)
(* On the SPI bus sits the security element, external too: it answers a    *)
(* request that reached it whole, and shifts out what it has to say byte   *)
(* by byte, whoever reads.                                                 *)
(***************************************************************************)
EXTENDS Naturals, Sequences, FiniteSets, SequencesExt, Bits

CONSTANTS
  Procs,    \* client processes, each with one session at a time
  Null,     \* no answer yet
  Faults,   \* of {"open", "driver"}: calls that may fail
  Garbage,  \* bound: what a byte nobody has written may hold
  Said,     \* bound: what the security element answers
  MaxLeft   \* bound: unread bytes the element keeps behind a new request

Byte == 0..255

ASSUME DeviceAssumption ==
  /\ Faults \subseteq {"open", "driver"}
  /\ Garbage \subseteq Byte /\ Garbage # {}
  /\ Said \subseteq Seq(Byte)
  /\ MaxLeft \in Nat

VARIABLES
  ta,      \* the trusted application each process talks to
  hd,      \* the driver handle behind the session of each process
  adrift,  \* processes whose session was closed with the device initialised
  chip     \* the security element: request bytes heard, bytes to shift out

deviceVars == <<ta, hd, adrift, chip>>

(* What an entry point returns; res below.                                 *)
Results == {"OK", "FAIL", "BAD_PARAMETERS", "TARGET_DEAD"}

TAs == {"spi", "i2c", "gpio", "se"}

Commands ==
  [spi  |-> {"init", "uninit", "send_then_receive", "send", "receive"},
   i2c  |-> {"init", "uninit", "master_send", "master_receive"},
   gpio |-> {"request", "set_value", "toggle_value", "get_value",
             "set_direction", "get_direction"},
   se   |-> {"init", "uninit", "atr", "channel_open", "channel_close",
             "transmit", "reset", "mutual_auth", "get_status"}]

-----------------------------------------------------------------------------
(* The security element.  The checksum is that of CRC-16/KERMIT, bit by    *)
(* bit; it travels with its low byte first, a length with its high byte    *)
(* first.  The header of an answer has AA 55 where a request has 55 AA.    *)

Half(r) == IF r % 2 = 1 THEN Xor(r \div 2, \h8408) ELSE r \div 2
Registers(data) ==
  LET register[n \in 0..Len(data)] ==
        IF n = 0 THEN 0
        ELSE Half(Half(Half(Half(Half(Half(Half(Half(
               Xor(register[n - 1], data[n])))))))))
  IN register
Kermit(data) == Registers(data)[Len(data)]

Framed(header, data) ==
  header \o <<Len(data) \div 256, Len(data) % 256>> \o data
         \o <<Kermit(data) % 256, Kermit(data) \div 256>>

GetVersion == <<0, \hBC, 0, 0, 0>>
RequestFrame == Framed(<<0, 0, 0, \h55, \hAA, 0>>, GetVersion)
AnswerFrame(data) == Framed(<<0, 0, 0, \hAA, \h55, 0>>, data)
Idle == 255

(* A byte that does not fit makes the element wait for a request afresh;   *)
(* a new answer follows what is left of the old ones, or replaces it.      *)
Hears(b) ==
  LET heard == IF b = RequestFrame[chip.heard + 1] THEN chip.heard + 1
               ELSE IF b = 0 THEN 1 ELSE 0
  IN IF heard < Len(RequestFrame) THEN chip' = [chip EXCEPT !.heard = heard]
     ELSE \E data \in Said, left \in {<<>>, chip.out} :
            /\ Len(left) <= MaxLeft
            /\ chip' = [heard |-> 0, out |-> left \o AnswerFrame(data),
                        said |-> chip.said \cup {data}]

ShiftsOut == IF chip.out = <<>> THEN Idle ELSE Head(chip.out)
Shifts == chip' = [chip EXCEPT !.out = IF @ = <<>> THEN @ ELSE Tail(@)]
-----------------------------------------------------------------------------
Init ==
  /\ ta \in [Procs -> TAs]
  /\ hd = [p \in Procs |-> "none"]
  /\ adrift = {}
  /\ chip = [heard |-> 0, out |-> <<>>, said |-> {}]

(* The SPI TA drops the result of csi_spi_open: the session opens with     *)
(* whatever its handle variable held.                                      *)
TA_OpenSessionEntryPoint(p, parameters, res) ==
  /\ hd[p] = "none"
  /\ \/ /\ ~parameters /\ res = "OK"
        /\ hd' = [hd EXCEPT ![p] = "open"]
     \/ /\ ~parameters /\ "open" \in Faults
        /\ IF ta[p] = "spi"
           THEN hd' = [hd EXCEPT ![p] = "unset"] /\ res = "OK"
           ELSE UNCHANGED hd /\ res = "FAIL"
     \/ /\ parameters /\ res = "BAD_PARAMETERS"
        /\ UNCHANGED hd
  /\ UNCHANGED <<ta, adrift, chip>>

(* Only GPIO gives its handle back, and only logs it when that fails.      *)
TA_CloseSessionEntryPoint(p) ==
  /\ hd[p] \in {"unset", "open", "ready"}
  /\ hd' = [hd EXCEPT ![p] = "none"]
  /\ \/ /\ hd[p] = "ready"
        /\ ta[p] # "gpio" \/ "driver" \in Faults
        /\ adrift' = adrift \cup {p}
     \/ /\ ta[p] = "gpio" \/ hd[p] # "ready"
        /\ UNCHANGED adrift
  /\ UNCHANGED <<ta, chip>>

(* Commands of the SE client with a buffer it sets no size for.            *)
Sizeless == {"transmit", "mutual_auth", "get_status"}

(* The driver's work on a handle: it needs one that was opened to          *)
(* initialise, and one initialised for the rest.  With a handle nobody set *)
(* or a buffer of size 0 it may also bring the instance down.              *)
Driver(p, cmd, res) ==
  LET starts == cmd \in {"init", "request"}
      fits == hd[p] = "ready" \/ (starts /\ hd[p] = "open")
  IN /\ \/ /\ fits /\ res = "OK"
           /\ hd' = [hd EXCEPT ![p] = IF starts THEN "ready"
                                      ELSE IF cmd = "uninit" THEN "open" ELSE @]
        \/ /\ ~fits \/ "driver" \in Faults
           /\ res = "FAIL"
           /\ UNCHANGED hd
        \/ /\ hd[p] = "unset" \/ cmd \in Sizeless
           /\ res = "TARGET_DEAD"
           /\ hd' = [hd EXCEPT ![p] = "dead"]
     /\ UNCHANGED <<ta, adrift>>

Serves(p, name, cmd) ==
  hd[p] \in {"unset", "open", "ready"} /\ ta[p] = name /\ cmd \in Commands[name]

ta_spi_send_bytes(p, b, res) ==
  /\ Serves(p, "spi", "send")
  /\ Driver(p, "send", res)
  /\ IF res = "OK" THEN Hears(b) ELSE UNCHANGED chip

ta_spi_receive_bytes(p, res) ==
  /\ Serves(p, "spi", "receive")
  /\ Driver(p, "receive", res)
  /\ IF res = "OK" THEN Shifts ELSE UNCHANGED chip

spi_invoke(p, cmd, res) ==
  /\ Serves(p, "spi", cmd) /\ cmd \notin {"send", "receive"}
  /\ Driver(p, cmd, res) /\ UNCHANGED chip

i2c_invoke(p, cmd, res) ==
  Serves(p, "i2c", cmd) /\ Driver(p, cmd, res) /\ UNCHANGED chip

gpio_invoke(p, cmd, res) ==
  Serves(p, "gpio", cmd) /\ Driver(p, cmd, res) /\ UNCHANGED chip

se_invoke(p, cmd, res) ==
  Serves(p, "se", cmd) /\ Driver(p, cmd, res) /\ UNCHANGED chip

TA_InvokeCommandEntryPoint(p, cmd, res) ==
  \/ spi_invoke(p, cmd, res)
  \/ i2c_invoke(p, cmd, res)
  \/ gpio_invoke(p, cmd, res)
  \/ se_invoke(p, cmd, res)

(* A command the TA does not know, or with parameters it does not expect.  *)
Malformed(p, res) ==
  /\ hd[p] \in {"unset", "open", "ready"}
  /\ res = "BAD_PARAMETERS"
  /\ UNCHANGED <<ta, hd, adrift, chip>>

DestroyInstance(p) ==
  /\ hd[p] = "dead"
  /\ hd' = [hd EXCEPT ![p] = "none"]
  /\ UNCHANGED <<ta, adrift, chip>>
=============================================================================
