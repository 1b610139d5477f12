----------------------------- MODULE CartHeader -----------------------------
(***************************************************************************)
(* The header of a cartridge file as parse_nes_cart_file reads it: iNES,   *)
(* iNES with something in bytes that should be 0, or NES 2.0.  A header is *)
(* a record of the bytes that count; tag says whether it begins with       *)
(* "NES\x1A" and disk_dude whether a tool of that name signed it from byte *)
(* 7 on.  Sizes are in bytes.                                              *)
(***************************************************************************)
EXTENDS Naturals

CONSTANT Headers   \* the headers that files may have

KiB == 1024
Byte == 0..255

Header ==
  [ tag : BOOLEAN, disk_dude : BOOLEAN, prg : Byte, chr : Byte, flags : Byte, mapper : Byte,
    byte8 : Byte, byte9 : Byte, byte10 : Byte, byte11 : Byte, byte12 : Byte ]

(* An exponent of 64 and more shifts an int beyond its width.              *)
ShiftDefined(h) ==
  /\ h.byte9 % 16 = 15 => h.prg < 64
  /\ h.byte9 \div 16 = 15 => h.chr < 64

ASSUME HeadersAssumption == \A h \in Headers : h \in Header /\ ShiftDefined(h)

Flag(byte, weight) == (byte \div weight) % 2 = 1

Format(h) ==
  CASE ~h.tag -> "HEADERLESS"
    [] h.tag /\ (h.mapper \div 4) % 4 = 2 -> "NES_2"
    [] h.tag /\ (h.mapper \div 4) % 4 # 2 /\ h.byte9 > 1 -> "BAD_INES"
    [] OTHER -> "INES"

(* The signature is taken out after the format was told.                   *)
Cleaned(h) ==
  IF h.disk_dude
    THEN [h EXCEPT !.mapper = 0, !.byte8 = 0, !.byte9 = 0, !.byte10 = 0, !.byte11 = 0, !.byte12 = 0]
    ELSE h

Mirroring(h) ==
  CASE Flag(h.flags, 8) -> "FOUR_SCREEN"
    [] ~Flag(h.flags, 8) /\ Flag(h.flags, 1) -> "VERTICAL"
    [] OTHER -> "HORIZONTAL"

(* What both formats say in the same place.                                *)
Common(h) ==
  [ mapper_number |-> (16 * (h.mapper \div 16)) + (h.flags \div 16),
    mirroring |-> Mirroring(h),
    non_volatile |-> Flag(h.flags, 2),
    trainer |-> IF Flag(h.flags, 4) THEN 512 ELSE 0 ]

Ines(h) ==
  [ prg_rom |-> 16 * KiB * h.prg,
    chr_rom |-> 8 * KiB * h.chr,
    chr_ram |-> IF h.chr = 0 THEN 8 * KiB ELSE 0,
    prg_ram |-> IF h.byte8 = 0 THEN 8 * KiB ELSE 8 * KiB * h.byte8,
    video_mode |-> IF Flag(h.byte9, 1) THEN "PAL" ELSE "NTSC" ]

(* The exponent is masked but not shifted, so that only 0 is defined, and  *)
(* the upper bits of the size of CHR ROM stay in the upper half of a byte. *)
Multiplied(byte) == (2 * (byte % 4)) + 1
Shifted(shift_count) == IF shift_count = 0 THEN 0 ELSE 64 * 2 ^ shift_count

Nes2(h) ==
  LET prg_msb == h.byte9 % 16
      chr_msb == 16 * (h.byte9 \div 16)
  IN [ prg_rom |-> IF prg_msb = 15 THEN Multiplied(h.prg) ELSE 16 * KiB * ((256 * prg_msb) + h.prg),
       chr_rom |-> IF chr_msb = 240 THEN Multiplied(h.chr) ELSE 8 * KiB * ((256 * chr_msb) + h.chr),
       prg_ram |-> Shifted(h.byte10 % 16),
       chr_ram |-> Shifted(h.byte11 % 16),
       video_mode |-> IF h.byte12 % 4 = 1 THEN "PAL" ELSE "NTSC" ]

(* What a file with header h makes of the cartridge, the mapper's number   *)
(* and the mirroring.                                                      *)
Parsed(h) ==
  LET clean == Cleaned(h)
      common == Common(clean)
      sizes == IF Format(h) = "NES_2" THEN Nes2(clean) ELSE Ines(clean)
  IN [ header |-> Format(h), prg_rom |-> sizes.prg_rom, chr_rom |-> sizes.chr_rom,
       prg_ram |-> sizes.prg_ram, chr_ram |-> sizes.chr_ram, trainer |-> common.trainer,
       non_volatile_mem |-> common.non_volatile, video_mode |-> sizes.video_mode,
       mapper_number |-> common.mapper_number
         + (IF Format(h) = "NES_2" THEN 256 * (clean.byte8 % 16) ELSE 0),
       mirroring |-> common.mirroring ]

(* cart_init.                                                              *)
cart_init ==
  [ header |-> "HEADERLESS", prg_rom |-> 0, chr_rom |-> 0, prg_ram |-> 0, chr_ram |-> 0,
    trainer |-> 0, non_volatile_mem |-> FALSE, video_mode |-> "NTSC", mapper_number |-> 0,
    mirroring |-> "unset" ]
=============================================================================
