----------------------------- MODULE IpcFraming -----------------------------
(***************************************************************************)
(* What the receiving side of the IPC protocol promises, without its state *)
(* machine: the bytes since the last start byte are kept for as long as    *)
(* they can still become a frame, and a payload is handed over exactly     *)
(* when they have become one.  A frame is                                  *)
(*                                                                         *)
(*    START  length (2 bytes, low first)  payload  CRC (2 bytes)  STOP     *)
(***************************************************************************)
EXTENDS Integers, Sequences

CONSTANTS
    Byte,         \* the byte values
    StartByte,    \* IPC_P1_START_BYTE
    StopByte,     \* IPC_P1_STOP_BYTE
    MaxPayload,   \* IPC_P1_MAX_PAYLOAD_SIZE
    Crc(_)        \* ipc_p1_crc()

VARIABLES
    acc,      \* the bytes of the frame under way
    got,      \* the payload the last byte handed over, <<>> if none
    broken    \* the receiver is gone

absVars == <<acc, got, broken>>

Declared(s) == s[2] + 256 * s[3]
PayloadOf(s) == SubSeq(s, 4, 3 + Declared(s))
Complete(s) == Len(s) > 3 /\ Len(s) = Declared(s) + 6
WellFormed(s) ==
    /\ Complete(s)
    /\ s[Len(s)] = StopByte
    /\ s[Len(s) - 2] + 256 * s[Len(s) - 1] = Crc(PayloadOf(s))

\* s can still become a frame.
Viable(s) ==
    /\ s # <<>> => s[1] = StartByte
    /\ Len(s) >= 3 => Declared(s) <= MaxPayload /\ ~Complete(s)

AbsInit == acc = <<>> /\ got = <<>> /\ broken = FALSE

\* One more byte.
Take(b) ==
    LET s == Append(acc, b)
    IN  /\ ~(Len(acc) = 3 /\ Declared(acc) = 0)
        /\ acc' = IF Viable(s) THEN s ELSE <<>>
        /\ got' = IF WellFormed(s) THEN PayloadOf(s) ELSE <<>>
        /\ UNCHANGED broken

\* No memory for the payload: the frame is given up after its length.
GiveUp(b) ==
    /\ Len(acc) = 2 /\ Viable(Append(acc, b))
    /\ acc' = <<>> /\ got' = <<>> /\ UNCHANGED broken

\* A frame that declares an empty payload ends the receiver.
Break ==
    /\ Len(acc) = 3 /\ Declared(acc) = 0
    /\ broken' = TRUE /\ got' = <<>> /\ UNCHANGED acc

AbsNext == ~broken /\ ((\E b \in Byte : Take(b) \/ GiveUp(b)) \/ Break)

AbsSpec == AbsInit /\ [][AbsNext]_absVars

=============================================================================
