------------------------------ MODULE IpcLink ------------------------------
(***************************************************************************)
(* One direction of the serial line, end to end: threads that build frames *)
(* and write() them to the same non-blocking descriptor, the line, and the *)
(* loop that read()s bytes and feeds them to the receiver of IpcRx.  Of    *)
(* each direction one end is the unit and the other the companion          *)
(* processor, which is taken to run the same library.                      *)
(***************************************************************************)
EXTENDS Integers, Sequences, SequencesExt

CONSTANTS
    Thread,        \* the threads that send
    Traffics,      \* the possible [Thread -> sequences of payloads to send]
    CountRange,    \* values of rd_cnt, a uint8_t: 256
    MaxPayload,    \* IPC_P1_MAX_PAYLOAD_SIZE
    RecSize,       \* bytes of a call record
    AppSize,       \* bytes the callback reads of an application packet
    Crc(_),        \* ipc_p1_crc()
    MaxFaults,     \* bound on frames cut short, late reads, and bytes damaged or lost
    Garbled(_)     \* the bytes a damaged byte may arrive as

Bytes == 0 .. 255      \* uint8_t
Word == 0 .. 65535     \* uint16_t

ASSUME CountAssumption == CountRange \in Nat /\ CountRange >= 2
ASSUME SizeAssumption ==
    MaxPayload \in 1 .. 65535 /\ RecSize \in Nat \ {0} /\ AppSize \in Nat
ASSUME FaultAssumption ==
    MaxFaults \in Nat /\ \A b \in Bytes : Garbled(b) \subseteq Bytes

\* The payloads are bytes, at least one and not more than the receiver accepts.
ASSUME TrafficAssumption ==
    \A tr \in Traffics, t \in Thread :
        /\ tr[t] \in Seq(Seq(Bytes))
        /\ \A i \in DOMAIN tr[t] :
              Len(tr[t][i]) \in 1 .. MaxPayload /\ Crc(tr[t][i]) \in Word

VARIABLES
    todo,        \* the payloads each thread still has to send, and their frames
    written,     \* history: the frames given to write(), where each starts on the
                 \* line, and the bytes write() took of it
    wire,        \* bytes in the kernel's buffers and on the line
    chunk,       \* bytes of the last read() not yet handled
    damage,      \* history: frames cut short, reads too long for rd_cnt, noise
    handed,      \* the payloads the receiver handed over
    inited, st, len, cap, buf, crc, live, fault, got, out    \* of IpcRx

rxVars == << inited, st, len, cap, buf, crc, live, fault, got, out >>
vars == << todo, written, wire, chunk, damage, handed, rxVars >>

StartByte == 170
StopByte == 85

\* A header put together from the start byte of the frame of p, cut short there, and
\* the first two bytes of the next frame, or from the first two and the next start
\* byte, announces more than the receiver accepts.
Marked(p) == StartByte + 256 * (Len(p) % 256) > MaxPayload

\* So it is with the payloads of the senders, which have 4 to 255 bytes.
ASSUME MixedHeaderAssumption ==
    /\ MaxPayload < 256 * StartByte
    /\ \A tr \in Traffics, t \in Thread : \A i \in DOMAIN tr[t] : Marked(tr[t][i])

Rx == INSTANCE IpcRx WITH Byte <- 0 .. 255, MallocMayFail <- FALSE

-----------------------------------------------------------------------------
(* The payloads of ts_ipc_p1_cmd.c: identifier, command, index, data.      *)

\* A 32-bit length as memcpy() leaves it; data is shorter than 256 bytes.
Bytes32(n) == << n, 0, 0, 0 >>

ipc_p1_event_app_pkt(data) == << 0, 5, 0 >> \o Bytes32(Len(data)) \o data
ipc_p1_event_voice_call_response(response) == << 80, 4, 1, response >>
ipc_p1_event_voice_call(ctx, time) ==
    << 80, 4, 0 >> \o [i \in 1 .. 12 |-> ctx] \o [i \in 1 .. 32 |-> time]

\* ipc_p1_send_frame(): the frame around a payload.
\* Mutant: the checksum is taken over the header as well.
FrameHeaderSummed(p) ==
    LET hd == << StartByte, Len(p) % 256, Len(p) \div 256 >>
        c == Crc(hd \o p)
    IN  hd \o p \o << c % 256, c \div 256, StopByte >>

Frame(p) ==
    << StartByte, Len(p) % 256, Len(p) \div 256 >> \o p
        \o << Crc(p) % 256, Crc(p) \div 256, StopByte >>

Packet(p) == [payload |-> p, frame |-> Frame(p)]

-----------------------------------------------------------------------------
Init ==
    /\ todo \in { [t \in Thread |-> [i \in DOMAIN tr[t] |-> Packet(tr[t][i])]] : tr \in Traffics }
    /\ written = <<>> /\ wire = <<>> /\ chunk = <<>> /\ handed = <<>>
    /\ damage = [cut |-> 0, late |-> 0, noise |-> 0]
    /\ Rx!Init /\ inited

Whole(w) == w.count = Len(w.frame)
End(i) == IF i = 0 THEN 0 ELSE written[i].start + written[i].count
Log(c, n) == Append(written, [payload |-> c.payload, frame |-> c.frame, count |-> n,
                              start |-> End(Len(written))])
Faults == damage.cut + damage.late + damage.noise
Hit(kind) == Faults < MaxFaults /\ damage' = [damage EXCEPT ![kind] = @ + 1]

\* One write() of a whole frame.  The kernel serialises the calls of two threads,
\* but a full buffer cuts one short, and nobody sends the rest.
Write(t) ==
    /\ todo[t] # <<>>
    /\ LET c == Head(todo[t])
           f == c.frame
       IN  \E n \in 1 .. Len(f) :
             /\ IF n < Len(f) THEN Hit("cut") ELSE UNCHANGED damage
             /\ wire' = wire \o SubSeq(f, 1, n)
             /\ written' = Log(c, n)
    /\ todo' = [todo EXCEPT ![t] = Tail(@)]
    /\ UNCHANGED << chunk, handed, rxVars >>

\* No memory for the frame, or write() returned -1: the callers go on.
NotSent(t) ==
    /\ MaxFaults > 0 /\ todo[t] # <<>>
    /\ todo' = [todo EXCEPT ![t] = Tail(@)]
    /\ UNCHANGED << written, wire, chunk, damage, handed, rxVars >>

\* read() returns the n bytes there are.  A count of 255 is also what -1 becomes,
\* and is ignored like 0; of 256 and more bytes the first n % 256 are handled.
Read(n) ==
    /\ chunk = <<>> /\ ~fault /\ n \in 1 .. Len(wire)
    /\ LET rd_cnt == n % CountRange
       IN  chunk' = IF rd_cnt = CountRange - 1 THEN <<>> ELSE SubSeq(wire, 1, rd_cnt)
    /\ IF n >= CountRange - 1 THEN Hit("late") ELSE UNCHANGED damage
    /\ wire' = SubSeq(wire, n + 1, Len(wire))
    /\ UNCHANGED << todo, written, handed, rxVars >>

\* Mutant: the byte that ends a frame is looked at again.
HandleAgain(b) ==
    /\ Rx!Feed(b)
    /\ chunk' = IF st' = "IDLE" THEN chunk ELSE Tail(chunk)
    /\ handed' = IF got' = <<>> THEN handed ELSE Append(handed, got')
    /\ UNCHANGED << todo, written, wire >>

\* The frame handler takes the next byte of the chunk, as b.
Handle(b) ==
    /\ Rx!Feed(b)
    /\ chunk' = Tail(chunk)
    /\ handed' = IF got' = <<>> THEN handed ELSE Append(handed, got')
    /\ UNCHANGED << todo, written, wire >>

Receive == chunk # <<>> /\ Handle(Head(chunk)) /\ UNCHANGED damage

\* The line has damaged the byte, or lost it.
ReceiveGarbled ==
    /\ chunk # <<>> /\ Hit("noise")
    /\ \E b \in Garbled(Head(chunk)) : Handle(b)

LoseByte ==
    /\ chunk # <<>> /\ Hit("noise")
    /\ chunk' = Tail(chunk)
    /\ UNCHANGED << todo, written, wire, handed, rxVars >>

ReadSome == \E n \in 1 .. Len(wire) : Read(n)
Next ==
    \/ \E t \in Thread : Write(t) \/ NotSent(t)
    \/ ReadSome \/ Receive \/ ReceiveGarbled \/ LoseByte

\* The reception loop runs; nothing is assumed of the senders or of the line.
Spec == Init /\ [][Next]_vars /\ WF_vars(ReadSome) /\ WF_vars(Receive)

-----------------------------------------------------------------------------
(* Properties.                                                             *)

Payloads(ws) == [i \in DOMAIN ws |-> ws[i].payload]
Drained == wire = <<>> /\ chunk = <<>>
Undamaged == damage.late = 0 /\ damage.noise = 0

\* A frame in which a receiver that is out of step can see another frame.
HasStartByte(w) == Contains(Tail(w.frame), StartByte)
HasEmptyHeader(w) ==
    \E i \in 2 .. Len(w.frame) - 2 : SubSeq(w.frame, i, i + 2) = << StartByte, 0, 0 >>

\* What the receiver hands over was sent, in this order and once, whatever was
\* cut short by write(), dropped by the eight-bit count or damaged on the line:
\* m gives the frame of each payload, and these frames are whole.
NothingInvented ==
    \E m \in [1 .. Len(handed) -> 1 .. Len(written)] :
        /\ \A j, k \in 1 .. Len(handed) : j < k => m[j] < m[k]
        /\ \A j \in 1 .. Len(handed) :
              Whole(written[m[j]]) /\ written[m[j]].payload = handed[j]

\* While every write() takes its whole frame and no read() exceeds the count,
\* frames of two threads arrive in the order written, with no gap, and all of
\* them once the line is empty, however read() cuts them into pieces.
CleanLineInOrder ==
    Faults = 0 =>
        /\ IsPrefix(handed, Payloads(written))
           /\ Drained => handed = Payloads(written)

\* Truncated frames alone cannot make the receiver store through NULL: it takes
\* a payload that contains a start byte followed by two zeros, or lost bytes.
SurvivesShortWrites ==
    fault /\ Undamaged => \E i \in DOMAIN written : HasEmptyHeader(written[i])

\* How far the header of frame i claims to reach.
Extent(i) == written[i].start + Len(written[i].frame)

\* Frame i is whole, it lies behind the claims of the truncated frames before it,
\* and no frame before it contains a start byte.
Owed(i) ==
    /\ Whole(written[i])
    /\ \A k \in 1 .. i - 1 :
        /\ ~HasStartByte(written[k])
        /\ Whole(written[k]) \/ Extent(k) <= written[i].start

\* The loss after a truncated frame is bounded: it swallows the frames that start
\* within the length it announced, and every later one has arrived once the line
\* is empty, although the receiver has no timeout and nothing is sent again.
BoundedLoss ==
    Drained /\ Undamaged =>
        \A i \in DOMAIN written : Owed(i) => Contains(handed, written[i].payload)

\* The reception loop empties the line again and again, whatever it carries and
\* however late it comes, unless a frame has killed it.
LineDrains == []<>(Drained \/ fault)

=============================================================================
