------------------------------ MODULE MCIpcRx ------------------------------
(***************************************************************************)
(* A small instance of IpcRx: payloads of up to three bytes over nine byte *)
(* values that spell the start and stop bytes, the identifiers and         *)
(* commands of the dispatcher, and lengths that are zero, legal, too long. *)
(***************************************************************************)
EXTENDS IpcRx

\* 0x00 0x01 0x03 0x04 0x05 0x14 0x50 0x55 0xAA
MCByte == {0, 1, 3, 4, 5, 20, 80, 85, 170}

\* A checksum that both depends on the payload and stays in MCByte.
MCCrc(p) == p[Len(p)] + 256 * p[1]

=============================================================================
