------------------------------- MODULE IpcRx -------------------------------
(***************************************************************************)
(* The receiving side of the IPC protocol: ipc_p1_frame_handler(), which   *)
(* main() feeds with the bytes of the serial port one after the other, and *)
(* ipc_p1_payload_handler() with the handlers it dispatches to.  The       *)
(* action of a byte is the whole pass of the loop for that byte.           *)
(***************************************************************************)
EXTENDS Integers, Sequences

CONSTANTS
    Byte,           \* the byte values the line can carry
    StartByte,      \* IPC_P1_START_BYTE
    StopByte,       \* IPC_P1_STOP_BYTE
    MaxPayload,     \* IPC_P1_MAX_PAYLOAD_SIZE
    RecSize,        \* bytes of one voice call record: index, CTX, Call_Time
    AppSize,        \* bytes the callback copies out of an application packet
    Crc(_),         \* ipc_p1_crc()
    MallocMayFail   \* pmalloc() may return NULL

U8 == {n \in Nat : n <= 255}          \* uint8_t
U16 == {n \in Nat : n <= 65535}       \* uint16_t

ASSUME ByteAssumption ==
    /\ Byte \subseteq U8
    /\ StartByte \in Byte /\ StopByte \in Byte
ASSUME SizeAssumption ==
    /\ MaxPayload \in U16 \ {0} /\ RecSize \in Nat \ {0} /\ AppSize \in Nat
ASSUME MallocAssumption == MallocMayFail \in BOOLEAN

VARIABLES
    inited,   \* phdle->Init = 1
    st,       \* OState.Current_State
    len,      \* OState.PayloadLength
    cap,      \* size of the block at OState.pPayload, 0 when it is NULL
    buf,      \* the bytes stored there, so that Len(buf) is PayloadIndex
    crc,      \* OState.Crc
    live,     \* history: payload blocks allocated and not yet freed
    fault,    \* the process died of a store through NULL
    got,      \* the payload the last byte completed, <<>> if none
    out       \* the event callbacks the last byte raised

vars == <<inited, st, len, cap, buf, crc, live, fault, got, out>>

States == {"IDLE", "LEN1", "LEN2", "PAYLOAD", "CRC1", "CRC2", "STOP"}

Init ==
    /\ inited \in BOOLEAN
    /\ st = "IDLE" /\ len = 0 /\ cap = 0 /\ buf = <<>> /\ crc = 0
    /\ live = 0 /\ fault = FALSE /\ got = <<>> /\ out = <<>>

-----------------------------------------------------------------------------
(* Payloads: identifier in 12 bits, command in the upper 4 of the second   *)
(* byte, data behind them.                                                 *)

VOICE_CALL_DATA == 1104      \* EIPC_P1_ID_VOICE_CALL_DATA, 0x450
APP_PKT_DATA == 1280         \* EIPC_P1_ID_APP_PKT_DATA, 0x500
EVENT == 0                   \* EIPC_P1_EVENT

\* x is the second byte of the payload; a one-byte payload has none and the
\* code reads what lies behind the block.
Identifier(p, x) == p[1] + 256 * (x % 16)
Command(x) == x \div 16
SecondByte(p) == IF Len(p) > 1 THEN {p[2]} ELSE Byte

\* ipc_p1_voice_call_hdlr(): one callback per record, as long as the index is
\* inside the payload; the last record may reach beyond it.
VoiceRecords(p) == (Len(p) - 2 + RecSize - 1) \div RecSize
VoiceEvents(p) ==
    [i \in 1 .. VoiceRecords(p) |->
        [kind |-> "VOICE_CALL_RXD", whole |-> 2 + i * RecSize <= Len(p)]]

\* ipc_p1_app_data_hdlr(): one callback with what follows the index byte.
AppEvents(p) == << [kind |-> "APP_DATA", whole |-> 3 + AppSize <= Len(p)] >>

\* ipc_p1_payload_handler() in master mode.  Commands and responses end in
\* INVALID_CMD in every handler, so no response frame is sent; the response
\* buffer a command allocates is freed again before it returns.
Events(p, x) ==
    IF Command(x) # EVENT THEN <<>>
    ELSE IF Identifier(p, x) = VOICE_CALL_DATA THEN VoiceEvents(p)
    ELSE IF Identifier(p, x) = APP_PKT_DATA THEN AppEvents(p)
    ELSE <<>>

-----------------------------------------------------------------------------
(* ipc_p1_frame_handler(), one action per state and byte.                  *)

Quiet == got' = <<>> /\ out' = <<>> /\ UNCHANGED <<inited, fault>>
KeepBuffer == UNCHANGED <<cap, buf, live>>

Idle(b) ==
    /\ st = "IDLE"
    /\ IF b = StartByte THEN st' = "LEN1" /\ len' = 0 ELSE UNCHANGED <<st, len>>
    /\ Quiet /\ KeepBuffer /\ UNCHANGED crc

Len1(b) ==
    /\ st = "LEN1"
    /\ len' = b /\ st' = "LEN2"
    /\ Quiet /\ KeepBuffer /\ UNCHANGED crc

TooLong(b) ==
    /\ st = "LEN2" /\ len + 256 * b > MaxPayload
    /\ len' = len + 256 * b /\ st' = "IDLE"
    /\ Quiet /\ KeepBuffer /\ UNCHANGED crc

\* Mutant: the limit is taken as exclusive.
AllocateOneMore(b) ==
    /\ st = "LEN2" /\ len + 256 * b \in 1 .. MaxPayload + 1
    /\ len' = len + 256 * b
    /\ st' = "PAYLOAD" /\ cap' = len' /\ live' = live + 1 /\ buf' = <<>>
    /\ Quiet /\ UNCHANGED crc

\* Mutant: the result of pmalloc() is not looked at.
AllocateUnchecked(b) ==
    /\ st = "LEN2" /\ len + 256 * b \in 1 .. MaxPayload
    /\ len' = len + 256 * b
    /\ \/ cap' = len' /\ live' = live + 1
       \/ MallocMayFail /\ cap' = 0 /\ UNCHANGED live
    /\ st' = "PAYLOAD" /\ buf' = <<>>
    /\ Quiet /\ UNCHANGED crc

Allocate(b) ==
    /\ st = "LEN2" /\ len + 256 * b \in 1 .. MaxPayload
    /\ len' = len + 256 * b
    /\ \/ st' = "PAYLOAD" /\ cap' = len' /\ live' = live + 1
       \/ MallocMayFail /\ st' = "IDLE" /\ cap' = 0 /\ UNCHANGED live
    /\ buf' = <<>>
    /\ Quiet /\ UNCHANGED crc

\* A declared length of 0 skips the allocation and goes on to the payload.
SkipAllocation(b) ==
    /\ st = "LEN2" /\ len + 256 * b = 0
    /\ len' = 0 /\ st' = "PAYLOAD" /\ buf' = <<>>
    /\ Quiet /\ UNCHANGED <<cap, live, crc>>

\* Mutant: the index is compared before it is advanced.
StoreOneMore(b) ==
    /\ st = "PAYLOAD" /\ cap # 0
    /\ buf' = Append(buf, b)
    /\ IF Len(buf) = len THEN st' = "CRC1" /\ crc' = 0 ELSE UNCHANGED <<st, crc>>
    /\ Quiet /\ UNCHANGED <<len, cap, live>>

Store(b) ==
    /\ st = "PAYLOAD" /\ cap # 0
    /\ buf' = Append(buf, b)
    /\ IF Len(buf') = len THEN st' = "CRC1" /\ crc' = 0 ELSE UNCHANGED <<st, crc>>
    /\ Quiet /\ UNCHANGED <<len, cap, live>>

StoreThroughNull ==
    /\ st = "PAYLOAD" /\ cap = 0
    /\ fault' = TRUE /\ got' = <<>> /\ out' = <<>>
    /\ UNCHANGED <<inited, st, len, cap, buf, crc, live>>

\* Mutant: no change of state.
Crc1Stays(b) ==
    /\ st = "CRC1"
    /\ crc' = b /\ UNCHANGED st
    /\ Quiet /\ KeepBuffer /\ UNCHANGED len

Crc1(b) ==
    /\ st = "CRC1"
    /\ crc' = b /\ st' = "CRC2"
    /\ Quiet /\ KeepBuffer /\ UNCHANGED len

Crc2(b) ==
    /\ st = "CRC2"
    /\ crc' = crc + 256 * b /\ st' = "STOP"
    /\ Quiet /\ KeepBuffer /\ UNCHANGED len

\* Mutant: a frame with a wrong stop byte is dropped without freeing its block.
StopLeaks(b) ==
    /\ st = "STOP" /\ st' = "IDLE"
    /\ IF b = StopByte
       THEN /\ IF crc = Crc(buf)
               THEN got' = buf /\ \E x \in SecondByte(buf) : out' = Events(buf, x)
               ELSE got' = <<>> /\ out' = <<>>
            /\ cap' = 0 /\ buf' = <<>> /\ live' = live - 1
       ELSE got' = <<>> /\ out' = <<>> /\ KeepBuffer
    /\ UNCHANGED <<inited, len, crc, fault>>

\* Mutant: the checksum is not compared.
StopUnchecked(b) ==
    /\ st = "STOP"
    /\ IF b = StopByte
       THEN got' = buf /\ \E x \in SecondByte(buf) : out' = Events(buf, x)
       ELSE got' = <<>> /\ out' = <<>>
    /\ st' = "IDLE" /\ cap' = 0 /\ buf' = <<>> /\ live' = live - 1
    /\ UNCHANGED <<inited, len, crc, fault>>

\* Mutant: after a bad frame the machine takes itself to be behind a start byte.
StopHunts(b) ==
    /\ st = "STOP"
    /\ IF b = StopByte /\ crc = Crc(buf)
       THEN st' = "IDLE" /\ got' = buf /\ \E x \in SecondByte(buf) : out' = Events(buf, x)
       ELSE st' = "LEN1" /\ got' = <<>> /\ out' = <<>>
    /\ cap' = 0 /\ buf' = <<>> /\ live' = live - 1
    /\ UNCHANGED <<inited, len, crc, fault>>

\* A wrong stop byte or checksum drops the frame; either way the block goes.
Stop(b) ==
    /\ st = "STOP"
    /\ IF b = StopByte /\ crc = Crc(buf)
       THEN got' = buf /\ \E x \in SecondByte(buf) : out' = Events(buf, x)
       ELSE got' = <<>> /\ out' = <<>>
    /\ st' = "IDLE" /\ cap' = 0 /\ buf' = <<>> /\ live' = live - 1
    /\ UNCHANGED <<inited, len, crc, fault>>

\* One pass of the loop; the handler returns at once when not initialised.
Feed(b) ==
    /\ inited /\ ~fault
    /\ \/ Idle(b) \/ Len1(b) \/ TooLong(b) \/ Allocate(b) \/ SkipAllocation(b)
       \/ Store(b) \/ StoreThroughNull \/ Crc1(b) \/ Crc2(b) \/ Stop(b)

Next == \E b \in Byte : Feed(b)

Spec == Init /\ [][Next]_vars

\* The peer keeps sending bytes, whatever they are.
LineSpec == Spec /\ WF_vars(Next)

-----------------------------------------------------------------------------
(* Properties.                                                             *)

\* The state has the shape of SIPC_P1_State.
TypeOK ==
    /\ inited \in BOOLEAN /\ fault \in BOOLEAN
    /\ st \in States
    /\ len \in U16 /\ crc \in U16
    /\ cap \in 0 .. MaxPayload /\ live \in Int
    /\ buf \in Seq(Byte) /\ got \in Seq(Byte)
    /\ out \in Seq([kind : {"VOICE_CALL_RXD", "APP_DATA"}, whole : BOOLEAN])

\* No store goes outside the allocated block, and the payload handler only
\* ever sees a block that the frame has filled to its declared length,
\* whatever bytes the line delivers.
StoresInBounds ==
    /\ Len(buf) <= cap
    /\ st = "PAYLOAD" /\ cap # 0 => Len(buf) < cap /\ cap = len
    /\ st \in {"CRC1", "CRC2", "STOP"} => cap = len /\ Len(buf) = cap /\ cap > 0

\* Exactly the block pPayload points to is allocated, so that no abandoned or
\* rejected frame leaks its block and none is freed twice.
NoLeak ==
    /\ live = IF cap = 0 THEN 0 ELSE 1
    /\ cap # 0 => st \in {"PAYLOAD", "CRC1", "CRC2", "STOP"}

\* The only way the receiver can die is a frame that declares no payload.
FaultOnlyOnEmptyFrame == fault => st = "PAYLOAD" /\ len = 0

\* While bytes keep coming the receiver comes back to hunting for a start
\* byte, from wherever lost or damaged bytes have left it.
ReturnsToIdle == inited ~> (st = "IDLE" \/ fault)

\* The bytes the state machine is holding, as the wire sent them.
Header == << StartByte, len % 256, len \div 256 >>
Held ==
    CASE st = "IDLE" -> <<>>
      [] st = "LEN1" -> << StartByte >>
      [] st = "LEN2" -> << StartByte, len >>
      [] st \in {"PAYLOAD", "CRC1"} -> Header \o buf
      [] st = "CRC2" -> Header \o buf \o << crc >>
      [] st = "STOP" -> Header \o buf \o << crc % 256, crc \div 256 >>

Framing == INSTANCE IpcFraming WITH acc <- Held, broken <- fault

\* The state machine hands over exactly the payloads of the well-formed frames
\* on the line: it implements IpcFraming.
ImplementsFraming == Framing!AbsSpec

=============================================================================
