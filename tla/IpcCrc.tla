------------------------------- MODULE IpcCrc -------------------------------
(***************************************************************************)
(* ipc_p1_crc(): the table-driven checksum of a payload, and the bit by    *)
(* bit definition of CRC-16/MODBUS it has to agree with.                   *)
(***************************************************************************)
EXTENDS Integers, Sequences, SequencesExt, Bitwise

\* The two tables of 256 bytes are linear: an entry is the exclusive or of the
\* entries at the powers of two its index is made of.  These are the entries at
\* 1, 2, 4, ..., 128, from which each power doubles the table.
HiAtPowers == << 193, 129, 1, 1, 1, 1, 1, 1 >>
LoAtPowers == << 192, 193, 195, 198, 204, 216, 240, 160 >>

Table(atPowers) ==
    LET upTo[k \in 0 .. Len(atPowers)] ==
          IF k = 0 THEN << 0 >>
          ELSE LET t == upTo[k - 1]
               IN  t \o [i \in DOMAIN t |-> t[i] ^^ atPowers[k]]
    IN  upTo[Len(atPowers)]

ts_ipc_p1_aucCRCHi == Table(HiAtPowers)
ts_ipc_p1_aucCRCLo == Table(LoAtPowers)

U8Pair == [hi : 0 .. 255, lo : 0 .. 255]

\* Mutant: the two tables change places.
SwappedStep == [c \in U8Pair, b \in 0 .. 255 |->
    [lo |-> c.hi ^^ ts_ipc_p1_aucCRCLo[1 + (c.lo ^^ b)], hi |-> ts_ipc_p1_aucCRCHi[1 + (c.lo ^^ b)]]]

\* One pass of the loop: ucCRCHi and ucCRCLo after one more byte.  (A function,
\* since TLC evaluates the argument of an operator at each of its uses.)
CrcStep == [c \in U8Pair, b \in 0 .. 255 |->
    [lo |-> c.hi ^^ ts_ipc_p1_aucCRCHi[1 + (c.lo ^^ b)], hi |-> ts_ipc_p1_aucCRCLo[1 + (c.lo ^^ b)]]]

ipc_p1_crc(p) ==
    LET c == FoldLeft(LAMBDA s, b : CrcStep[s, b], [hi |-> 255, lo |-> 255], p)
    IN  256 * c.hi + c.lo

\* The definition: eight shifts per byte, the polynomial being 16#A001.
Shift == [r \in 0 .. 65535 |-> IF r % 2 = 1 THEN (r \div 2) ^^ 40961 ELSE r \div 2]
EightShifts(r) == Shift[Shift[Shift[Shift[Shift[Shift[Shift[Shift[r]]]]]]]]
BitSerial(p) == FoldLeft(LAMBDA r, b : EightShifts(r ^^ b), 65535, p)

=============================================================================
