-------------------------------- MODULE SeCrc --------------------------------
(***************************************************************************)
(* The CRC-16 of demo/spi/host/main.c, behind the table of functions g_crc *)
(* that se_crc.h declares.  Its state is one global structure; here each   *)
(* function takes the structure and returns the new one.  Bytes and the    *)
(* checksum are numbers of 8 and 16 bits.                                  *)
(***************************************************************************)
EXTENDS Naturals, Sequences, Bits

Modes == {"CUSTOM", "KERMIT", "XMODEM", "FALSE", "GENIBUS", "X_25", "MCRF4XX",
          "AUG_CCITT", "TMS37157", "RIELLO", "CRC_A"}

(* The static structure when a process starts; st is CRC_ST_*.             *)
Fresh == [init |-> 0, xor |-> 0, reverse_in |-> FALSE, reverse_out |-> FALSE,
          value |-> 0, endian |-> 0, st |-> "SUCCESS"]

u16_bit_reverse(data) == Number([i \in 0..15 |-> Bit(data, 15 - i)])
u8_bit_reverse(data) ==
  Number([i \in 0..15 |-> IF i < 8 THEN Bit(data, 7 - i) ELSE 0])

(* The 256 entries are what eight shifts through x^16 + x^12 + x^5 + 1 make *)
(* of each byte.                                                           *)
Shift(r) ==
  IF r < 32768 THEN 2 * r ELSE Xor((2 * r) % 65536, \h1021)
crc_ccit_table ==
  [b \in 0..255 |->
     Shift(Shift(Shift(Shift(Shift(Shift(Shift(Shift(256 * b))))))))]

(* What the switch over the mode writes over the structure; a mode that    *)
(* names no field here leaves it as it is.                                 *)
Preset(mode, c) ==
  CASE mode = "KERMIT" -> [c EXCEPT !.reverse_in = TRUE, !.reverse_out = TRUE]
    [] mode \in {"XMODEM", "CUSTOM"} -> c
    [] mode \in {"FALSE", "MCRF4XX"} -> [c EXCEPT !.init = \hFFFF]
    [] mode = "GENIBUS" -> [c EXCEPT !.init = \hFFFF, !.xor = \hFFFF]
    [] mode = "X_25" -> [c EXCEPT !.init = \hFFFF, !.xor = \hFFFF,
                                  !.reverse_in = TRUE, !.reverse_out = TRUE]
    [] mode = "AUG_CCITT" -> [c EXCEPT !.init = \h1D0F]
    [] mode \in {"TMS37157", "RIELLO", "CRC_A"} ->
         [c EXCEPT !.init = CASE mode = "TMS37157" -> \h89EC
                              [] mode = "RIELLO" -> \hB2AA
                              [] mode = "CRC_A" -> \hC6C6,
                   !.reverse_in = TRUE, !.reverse_out = TRUE]

crc_ccit_custom(c, init, xor, rin, rout) ==
  [c EXCEPT !.init = init, !.xor = xor, !.reverse_in = rin,
            !.reverse_out = rout, !.st = "CUSTOM"]

(* A custom setting not used up is kept, and so is its state, whatever the *)
(* mode: update then refuses.                                              *)
crc_ccit_init(c, mode, endian) ==
  LET kept == c.st = "CUSTOM"
      clean == IF kept THEN c
               ELSE [Fresh EXCEPT !.value = c.value, !.endian = c.endian,
                                  !.st = "INIT"]
      set == Preset(mode, [clean EXCEPT !.endian = endian])
  IN CASE endian \notin {0, 1} -> [clean EXCEPT !.st = "ERR"]
       [] endian \in {0, 1} /\ mode \notin Modes ->
            [clean EXCEPT !.endian = endian, !.value = 0, !.st = "ERR"]
       [] endian \in {0, 1} /\ mode = "CUSTOM" ->
            IF kept THEN [set EXCEPT !.value = set.init, !.st = "INIT"]
            ELSE [set EXCEPT !.value = 0, !.st = "ERR"]
       [] OTHER -> [set EXCEPT !.value = set.init]

(* The value after each byte of data.                                      *)
Values(c, data) ==
  LET in(b) == IF c.reverse_in THEN u8_bit_reverse(b) ELSE b
      value[n \in 0..Len(data)] ==
        IF n = 0 THEN c.value
        ELSE Xor((256 * value[n - 1]) % 65536,
                 crc_ccit_table[Xor(value[n - 1] \div 256, in(data[n]))])
  IN value

crc_ccit_update(c, data) ==
  IF c.st \notin {"INIT", "UPDATE"} THEN [c EXCEPT !.st = "ERR"]
  ELSE [c EXCEPT !.value = Values(c, data)[Len(data)], !.st = "UPDATE"]

Swapped(value) == 256 * (value % 256) + value \div 256

(* The structure after the call; the result is its value, and 0 when the   *)
(* state is not UPDATE, which leaves it as it was.                         *)
crc_ccit_get_result(c) ==
  IF c.st # "UPDATE" THEN c
  ELSE LET out == Xor(IF c.reverse_out THEN u16_bit_reverse(c.value)
                      ELSE c.value, c.xor)
       IN [c EXCEPT !.value = IF c.endian = 1 THEN Swapped(out) ELSE out,
                    !.st = "SUCCESS"]

Result(c) == IF c.st = "UPDATE" THEN crc_ccit_get_result(c).value ELSE 0

(* The checksum as main.c takes it, of data in one piece: the structure    *)
(* when update has run.                                                    *)
Checksum(c, data) == crc_ccit_update(crc_ccit_init(c, "KERMIT", 1), data)
=============================================================================
