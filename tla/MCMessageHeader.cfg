\* High halves: zero, legacy (top bit clear), 0x8000, VERSION_1's 0x8001,
\* 0x8002, 0xFFFF.  Low halves: every nibble 0..17, and type bytes that
\* differ from a valid type only above the nibble (0x11, 0x0101, 0xFFF1).
CONSTANTS
  HighHalves = {0, 1, 32767, 32768, 32769, 32770, 65535}
  LowHalves = {0, 1, 2, 3, 4, 5, 6, 7, 8, 9, 10, 11, 12, 13, 14, 15, 16, 17, 257, 65521}

SPECIFICATION Spec

INVARIANT
  HeaderDecodeMatchesSpec

\* One header is decoded per behaviour; nothing follows the decode.
CHECK_DEADLOCK FALSE
