--------------------------- MODULE IpcLink_proofs ---------------------------
(***************************************************************************)
(* Proofs about the serial line of IpcLink, for any number of threads and  *)
(* frames, any payloads the assumptions admit, any checksum and any number *)
(* of faults.                                                              *)
(*                                                                         *)
(* The history variable written is a log of the line: it says which byte   *)
(* is at which position.  On an undamaged line the kernel's bytes, the     *)
(* chunk and the bytes the receiver holds are those of consecutive         *)
(* positions (Streamed).  Of the receiver nothing is used but that it      *)
(* implements IpcFraming and what it holds (HeldInv).  From this follow    *)
(* that it is never out of step on a clean line (InStep), that it dies of  *)
(* nothing but what looks like an empty frame (SurvivesShortWrites), that  *)
(* it is back in step at every frame that is owed (Caught), and that it    *)
(* takes each payload from a stretch of the line of its own                *)
(* (HandedAsFramed).                                                       *)
(***************************************************************************)
EXTENDS IpcLink, SequenceTheorems, TLAPS

\* The receiver, with the theorems about it.
RxP == INSTANCE IpcRx_refinement WITH Byte <- 0 .. 255, MallocMayFail <- FALSE

\* The bytes of the frame that is coming in.
held == RxP!Held

\* The assumptions of the receiver hold of the line.
LEMMA RxAssumptions ==
    /\ 0 .. 255 \subseteq RxP!U8 /\ StartByte \in 0 .. 255 /\ StopByte \in 0 .. 255
    /\ MaxPayload \in RxP!U16 \ {0} /\ RecSize \in Nat \ {0} /\ AppSize \in Nat
    /\ FALSE \in BOOLEAN
  BY SizeAssumption DEF RxP!U8, RxP!U16, StartByte, StopByte

\* The receiver of the link is the one those theorems are about.
LEMMA SameReceiver ==
    /\ Rx!Init <=> RxP!Init
    /\ \A b : Rx!Feed(b) <=> RxP!Feed(b)
  BY DEF Rx!Init, RxP!Init, Rx!Feed, RxP!Feed, Rx!Idle, RxP!Idle, Rx!Len1, RxP!Len1,
         Rx!TooLong, RxP!TooLong, Rx!Allocate, RxP!Allocate, Rx!SkipAllocation, RxP!SkipAllocation,
         Rx!Store, RxP!Store, Rx!StoreThroughNull, RxP!StoreThroughNull, Rx!Crc1, RxP!Crc1,
         Rx!Crc2, RxP!Crc2, Rx!Stop, RxP!Stop, Rx!Quiet, RxP!Quiet, Rx!KeepBuffer, RxP!KeepBuffer,
         Rx!SecondByte, RxP!SecondByte, Rx!Events, RxP!Events, Rx!Command, RxP!Command,
         Rx!EVENT, RxP!EVENT, Rx!Identifier, RxP!Identifier, Rx!VOICE_CALL_DATA, RxP!VOICE_CALL_DATA,
         Rx!APP_PKT_DATA, RxP!APP_PKT_DATA, Rx!VoiceEvents, RxP!VoiceEvents, Rx!VoiceRecords,
         RxP!VoiceRecords, Rx!AppEvents, RxP!AppEvents

\* A byte keeps the receiver's invariant, and is taken as IpcFraming takes it.
LEMMA FeedByte ==
    ASSUME RxP!IInv, NEW b \in 0 .. 255, Rx!Feed(b)
    PROVE  /\ RxP!IInv' /\ ~fault
           /\ RxP!Framing!Take(b) \/ RxP!Framing!Break
<1>1. RxP!Feed(b)
  BY SameReceiver
<1>2. RxP!IInv'
  BY <1>1, RxAssumptions, RxP!FeedInv
<1>3. ~fault /\ (RxP!Framed(b) \/ RxP!Framing!Break)
  BY <1>1, RxAssumptions, RxP!FeedIsFramed
<1> QED
  BY <1>2, <1>3 DEF RxP!Framed

-----------------------------------------------------------------------------
(* Frames.                                                                 *)

\* What the senders put into frames.
Payload ==
    { p \in Seq(Bytes) : Len(p) \in 1 .. MaxPayload /\ Crc(p) \in Word /\ Marked(p) }

\* A payload and its checksum fit into the two-byte fields of a frame.
LEMMA PayloadSize ==
    ASSUME NEW p \in Payload
    PROVE  /\ p \in Seq(Bytes) /\ Len(p) \in Nat /\ Len(p) >= 1 /\ Len(p) <= MaxPayload
           /\ Len(p) <= 65535 /\ Crc(p) \in Nat /\ Crc(p) <= 65535
<1>1. p \in Seq(Bytes) /\ Len(p) \in 1 .. MaxPayload /\ Crc(p) \in Word
  BY Zenon DEF Payload
<1>3. MaxPayload \in Nat /\ MaxPayload <= 65535
  BY SizeAssumption
<1>4. Len(p) \in Nat /\ Len(p) >= 1 /\ Len(p) <= MaxPayload /\ Len(p) <= 65535
  <2>1. PICK n \in 1 .. MaxPayload : n = Len(p)
    BY <1>1
  <2>2. n \in Nat /\ n >= 1 /\ n <= MaxPayload /\ n <= 65535
    BY ONLY <1>3, <2>1
  <2> QED
    BY ONLY <2>1, <2>2
<1>5. Crc(p) \in Nat /\ Crc(p) <= 65535
  <2>1. \A n \in Word : n \in Nat /\ n <= 65535
    BY ONLY DEF Word
  <2> QED
    BY ONLY <1>1, <2>1
<1> QED
  BY <1>1, <1>4, <1>5

\* One sequence behind another.
LEMMA Joined ==
    ASSUME NEW S, NEW s \in Seq(S), NEW t \in Seq(S)
    PROVE  /\ s \o t \in Seq(S) /\ Len(s \o t) = Len(s) + Len(t)
           /\ \A i \in 1 .. Len(s) : (s \o t)[i] = s[i]
           /\ \A i \in 1 .. Len(t) : (s \o t)[Len(s) + i] = t[i]
<1>1. /\ s \o t \in Seq(S) /\ Len(s \o t) = Len(s) + Len(t)
      /\ \A i \in 1 .. Len(s) + Len(t) :
            (s \o t)[i] = IF i <= Len(s) THEN s[i] ELSE t[i - Len(s)]
  BY ONLY ConcatProperties, Zenon
<1>2. PICK u : u = s \o t
  OBVIOUS
<1>3. PICK m \in Nat, n \in Nat : m = Len(s) /\ n = Len(t)
  BY LenProperties
<1>4. \A i \in 1 .. m + n : u[i] = IF i <= m THEN s[i] ELSE t[i - m]
  BY ONLY <1>1, <1>2, <1>3
<1>5. \A i \in 1 .. m : u[i] = s[i]
  BY ONLY <1>3, <1>4
<1>6. \A i \in 1 .. n : u[m + i] = t[i]
  <2>1. TAKE i \in 1 .. n
  <2>2. PICK j \in 1 .. m + n : j = m + i /\ j > m /\ j - m = i
    BY ONLY <1>3
  <2>3. u[j] = t[j - m]
    BY ONLY <1>4, <2>2
  <2> QED
    BY ONLY <2>2, <2>3
<1> QED
  BY ONLY <1>1, <1>2, <1>3, <1>5, <1>6, Zenon

\* The two bytes of a 16-bit field.
LEMMA Halves ==
    ASSUME NEW n \in Nat, n <= 65535
    PROVE  /\ n % 256 \in Bytes /\ n \div 256 \in Bytes
           /\ (n % 256) + 256 * (n \div 256) = n
  BY DEF Bytes

\* What ipc_p1_send_frame() puts where.
LEMMA FrameLayout ==
    ASSUME NEW p \in Payload
    PROVE  /\ Frame(p) \in Seq(Bytes) /\ Len(p) \in Nat /\ Len(Frame(p)) = Len(p) + 6
           /\ Frame(p)[1] = StartByte
           /\ Frame(p)[2] = Len(p) % 256 /\ Frame(p)[3] = Len(p) \div 256
           /\ \A i \in 1 .. Len(p) : Frame(p)[3 + i] = p[i]
           /\ Frame(p)[Len(p) + 4] = Crc(p) % 256
           /\ Frame(p)[Len(p) + 5] = Crc(p) \div 256
           /\ Frame(p)[Len(p) + 6] = StopByte
<1> DEFINE h == << StartByte, Len(p) % 256, Len(p) \div 256 >>
           c == << Crc(p) % 256, Crc(p) \div 256, StopByte >>
<1>1. p \in Seq(Bytes) /\ Len(p) \in Nat /\ Len(p) <= 65535 /\ Crc(p) \in Nat /\ Crc(p) <= 65535
  BY PayloadSize
<1>2. /\ Len(p) % 256 \in Bytes /\ Len(p) \div 256 \in Bytes
      /\ Crc(p) % 256 \in Bytes /\ Crc(p) \div 256 \in Bytes
      /\ StartByte \in Bytes /\ StopByte \in Bytes
  <2>1. \A n \in Nat : n <= 65535 => n % 256 \in Bytes /\ n \div 256 \in Bytes
    BY Halves
  <2>2. StartByte \in Bytes /\ StopByte \in Bytes
    BY ONLY DEF Bytes, StartByte, StopByte
  <2> QED
    BY ONLY <1>1, <2>1, <2>2
<1>3. /\ h \in Seq(Bytes) /\ Len(h) = 3
      /\ h[1] = StartByte /\ h[2] = Len(p) % 256 /\ h[3] = Len(p) \div 256
  BY <1>2
<1>4. /\ c \in Seq(Bytes) /\ Len(c) = 3
      /\ c[1] = Crc(p) % 256 /\ c[2] = Crc(p) \div 256 /\ c[3] = StopByte
  BY <1>2
<1>5. Frame(p) = (h \o p) \o c
  BY DEF Frame
<1> HIDE DEF h, c
<1>6. /\ h \o p \in Seq(Bytes) /\ Len(h \o p) = Len(h) + Len(p)
      /\ \A i \in 1 .. Len(h) : (h \o p)[i] = h[i]
      /\ \A i \in 1 .. Len(p) : (h \o p)[Len(h) + i] = p[i]
  <2>1. h \in Seq(Bytes) /\ p \in Seq(Bytes)
    BY ONLY <1>1, <1>3
  <2> QED
    BY ONLY <2>1, Joined
<1>7. PICK q \in Seq(Bytes) : q = h \o p
  BY ONLY <1>6
<1>8. /\ q \o c \in Seq(Bytes) /\ Len(q \o c) = Len(q) + Len(c)
      /\ \A i \in 1 .. Len(q) : (q \o c)[i] = q[i]
      /\ \A i \in 1 .. Len(c) : (q \o c)[Len(q) + i] = c[i]
  <2>1. q \in Seq(Bytes) /\ c \in Seq(Bytes)
    BY ONLY <1>4, <1>7
  <2> QED
    BY ONLY <2>1, Joined
<1>9. PICK f \in Seq(Bytes) : f = Frame(p)
  BY ONLY <1>5, <1>7, <1>8
<1>10. /\ Len(q) = Len(p) + 3 /\ Len(f) = Len(p) + 6
       /\ \A i \in 1 .. Len(q) : f[i] = q[i]
       /\ \A i \in 1 .. 3 : f[Len(q) + i] = c[i]
       /\ \A i \in 1 .. 3 : q[i] = h[i]
       /\ \A i \in 1 .. Len(p) : q[3 + i] = p[i]
  <2>1. PICK l \in Nat : l = Len(p)
    BY ONLY <1>1
  <2>2. PICK k \in Nat : k = Len(h) /\ k = 3
    BY ONLY <1>3
  <2>3. Len(q) = k + l /\ \A i \in 1 .. k : q[i] = h[i]
    BY ONLY <1>6, <1>7, <2>1, <2>2
  <2>4. \A i \in 1 .. l : q[k + i] = p[i]
    BY ONLY <1>6, <1>7, <2>1, <2>2
  <2>5. PICK m \in Nat : m = Len(q) /\ m = l + 3
    BY ONLY <2>1, <2>2, <2>3
  <2>6. Len(f) = m + 3 /\ \A i \in 1 .. m : f[i] = q[i]
    BY ONLY <1>4, <1>5, <1>7, <1>8, <1>9, <2>5
  <2>7. \A i \in 1 .. 3 : f[m + i] = c[i]
    BY ONLY <1>4, <1>5, <1>7, <1>8, <1>9, <2>5
  <2> QED
    BY ONLY <2>1, <2>2, <2>3, <2>4, <2>5, <2>6, <2>7
<1>11. f[1] = h[1] /\ f[2] = h[2] /\ f[3] = h[3]
  BY ONLY <1>1, <1>10
<1>12. \A i \in 1 .. Len(p) : f[3 + i] = p[i]
  BY ONLY <1>1, <1>10
<1>13. f[Len(p) + 4] = c[1] /\ f[Len(p) + 5] = c[2] /\ f[Len(p) + 6] = c[3]
  BY ONLY <1>1, <1>10
<1> QED
  BY ONLY <1>1, <1>3, <1>4, <1>9, <1>10, <1>11, <1>12, <1>13

-----------------------------------------------------------------------------
(* The receiver and the bytes it holds.                                    *)

Declared(s) == s[2] + 256 * s[3]

\* What is held starts with a start byte, and from the third byte on announces a
\* payload that is accepted and has not come whole.
HeldInv ==
    /\ held \in Seq(Bytes)
    /\ Len(held) >= 1 => held[1] = StartByte
    /\ Len(held) >= 3 => Declared(held) <= MaxPayload /\ Len(held) < Declared(held) + 6

\* s is what has come of frame f.
Begins(s, f) == Len(s) <= Len(f) /\ \A k \in 1 .. Len(s) : s[k] = f[k]

\* A byte behind the bytes held: it is kept, or it ends or breaks off what is held,
\* or it is stored through NULL.
LEMMA ByteHeld ==
    ASSUME RxP!IInv, HeldInv, NEW b \in Bytes, Rx!Feed(b)
    PROVE  /\ HeldInv' /\ ~fault
           /\ \/ ~fault' /\ held' \in {<<>>, Append(held, b)}
                 /\ ~(Len(held) = 3 /\ Declared(held) = 0)
              \/ fault' /\ held' = held /\ got' = <<>> /\ Len(held) = 3 /\ Declared(held) = 0
<1>1. ~fault /\ (RxP!Framing!Take(b) \/ RxP!Framing!Break)
  BY FeedByte DEF Bytes
<1>2. CASE RxP!Framing!Take(b)
  <2> DEFINE s == Append(held, b)
  <2>1. /\ ~fault' /\ ~(Len(held) = 3 /\ Declared(held) = 0)
        /\ held' = IF RxP!Framing!Viable(s) THEN s ELSE <<>>
    BY <1>1, <1>2 DEF RxP!Framing!Take, RxP!Framing!Declared, Declared, held
  <2>2. /\ s \in Seq(Bytes) /\ Len(s) = Len(held) + 1 /\ s[Len(held) + 1] = b
        /\ \A i \in 1 .. Len(held) : s[i] = held[i]
    BY AppendProperties DEF HeldInv
  <2>3. CASE ~ RxP!Framing!Viable(s)
    BY <1>1, <2>1, <2>3 DEF HeldInv
  <2>4. CASE RxP!Framing!Viable(s)
    <3>1. held' = s /\ Len(held) \in Nat
      BY <2>1, <2>4 DEF HeldInv
    <3>2. Len(s) >= 1 /\ s # <<>>
      BY <2>2, <3>1
    <3>3. s[1] = StartByte
      BY <2>4, <3>2 DEF RxP!Framing!Viable
    <3>4. ASSUME Len(s) >= 3
          PROVE  Declared(s) <= MaxPayload /\ Len(s) < Declared(s) + 6
      <4>1. Declared(s) <= MaxPayload /\ ~(Len(s) > 3 /\ Len(s) = Declared(s) + 6)
        BY <2>4, <3>4 DEF RxP!Framing!Viable, RxP!Framing!Declared, RxP!Framing!Complete, Declared
      <4>2. s[2] \in Bytes /\ s[3] \in Bytes
        BY <2>2, <3>1, <3>4
      <4>3. Declared(s) \in Nat
        <5>1. \A x \in Bytes, y \in Bytes : x + 256 * y \in Nat
          BY ONLY DEF Bytes
        <5> QED
          BY ONLY <4>2, <5>1, Zenon DEF Declared
      <4>4. CASE Len(s) = 3
        BY <4>1, <4>3, <4>4
      <4>5. CASE Len(s) > 3
        <5>1. Len(held) >= 3 /\ s[2] = held[2] /\ s[3] = held[3]
          BY <2>2, <3>1, <4>5
        <5>2. Len(held) < Declared(s) + 6
          BY <5>1 DEF HeldInv, Declared
        <5> QED
          BY <2>2, <3>1, <4>1, <4>3, <4>5, <5>2
      <4> QED
        BY <2>2, <3>1, <3>4, <4>4, <4>5
    <3>5. HeldInv'
      BY <2>2, <3>1, <3>3, <3>4 DEF HeldInv, Declared
    <3> QED
      BY <1>1, <2>1, <3>5
  <2> QED
    BY <2>3, <2>4
<1>3. CASE RxP!Framing!Break
  <2>1. fault' /\ held' = held /\ got' = <<>> /\ Len(held) = 3 /\ Declared(held) = 0
    BY <1>3 DEF RxP!Framing!Break, RxP!Framing!Declared, Declared, held
  <2> QED
    BY <1>1, <2>1 DEF HeldInv, Declared
<1> QED
  BY <1>1, <1>2, <1>3

\* The bytes of a frame one after the other: each but the last is kept, and the last
\* one hands the payload over.
LEMMA FrameByte ==
    ASSUME RxP!IInv, HeldInv, NEW p \in Payload,
           Begins(held, Frame(p)), Len(held) < Len(Frame(p)),
           NEW b, b = Frame(p)[Len(held) + 1], Rx!Feed(b)
    PROVE  /\ ~fault'
           /\ Len(held) + 1 < Len(Frame(p)) => held' = Append(held, b) /\ got' = <<>>
           /\ Len(held) + 1 = Len(Frame(p)) => held' = <<>> /\ got' = p
<1> DEFINE s == Append(held, b)
<1>1. PICK l \in Nat : l = Len(p) /\ l >= 1 /\ l <= MaxPayload /\ l <= 65535
  BY PayloadSize
<1>2. PICK n \in Nat : n = Len(held)
  BY DEF HeldInv
<1>3. PICK f \in Seq(Bytes) : f = Frame(p)
  BY FrameLayout
<1>4. /\ Len(f) = l + 6 /\ f[1] = StartByte
      /\ f[2] = l % 256 /\ f[3] = l \div 256
      /\ \A i \in 1 .. l : f[3 + i] = p[i]
      /\ f[l + 4] = Crc(p) % 256 /\ f[l + 5] = Crc(p) \div 256
      /\ f[l + 6] = StopByte
  BY ONLY FrameLayout, <1>1, <1>3
<1>5. f[2] + 256 * f[3] = l
  BY ONLY Halves, <1>1, <1>4
<1>6. b \in Bytes /\ b = f[n + 1] /\ n < l + 6 /\ \A k \in 1 .. n : held[k] = f[k]
  <2>1. b = f[n + 1] /\ n < l + 6 /\ \A k \in 1 .. n : held[k] = f[k]
    BY ONLY <1>2, <1>3, <1>4, Begins(held, Frame(p)), Len(held) < Len(Frame(p)),
            b = Frame(p)[Len(held) + 1] DEF Begins
  <2>2. n + 1 \in 1 .. Len(f)
    BY ONLY <1>1, <1>2, <1>4, <2>1
  <2> QED
    BY ONLY <2>1, <2>2, <1>3, ElementOfSeq
<1>7. /\ s \in Seq(Bytes) /\ Len(s) = n + 1
      /\ \A k \in 1 .. n + 1 : s[k] = f[k]
  <2>1. /\ s \in Seq(Bytes) /\ Len(s) = n + 1 /\ s[n + 1] = b
        /\ \A k \in 1 .. n : s[k] = held[k]
    BY <1>2, <1>6, AppendProperties DEF HeldInv
  <2> HIDE DEF s
  <2> QED
    BY ONLY <2>1, <1>2, <1>6
<1>8. ~ (n = 3 /\ Declared(held) = 0)
  BY ONLY <1>1, <1>5, <1>6 DEF Declared
<1>9. RxP!Framing!Take(b)
  <2>1. RxP!Framing!Take(b) \/ RxP!Framing!Break
    BY <1>6, FeedByte DEF Bytes
  <2>2. ~ RxP!Framing!Break
    BY <1>2, <1>8 DEF RxP!Framing!Break, RxP!Framing!Declared, Declared, held
  <2> QED
    BY <2>1, <2>2
<1>10. /\ fault' = fault
       /\ held' = IF RxP!Framing!Viable(s) THEN s ELSE <<>>
       /\ got' = IF RxP!Framing!WellFormed(s) THEN RxP!Framing!PayloadOf(s) ELSE <<>>
  BY <1>9 DEF RxP!Framing!Take, held
<1>11. ~ fault
  BY <1>6, FeedByte DEF Bytes
<1> HIDE DEF s
<1>12. n + 1 >= 3 => RxP!Framing!Declared(s) = l
  BY ONLY <1>2, <1>5, <1>7 DEF RxP!Framing!Declared
<1>13. CASE n + 1 < l + 6
  <2>1. ~ RxP!Framing!Complete(s)
    BY ONLY <1>1, <1>2, <1>7, <1>12, <1>13 DEF RxP!Framing!Complete
  <2>2. s[1] = StartByte
    BY ONLY <1>2, <1>4, <1>7
  <2>3. RxP!Framing!Viable(s) /\ ~ RxP!Framing!WellFormed(s)
    BY ONLY <1>1, <1>2, <1>7, <1>12, <2>1, <2>2
    DEF RxP!Framing!Viable, RxP!Framing!WellFormed
  <2> QED
    BY <1>1, <1>2, <1>3, <1>4, <1>10, <1>11, <1>13, <2>3 DEF s
<1>14. CASE n + 1 = l + 6
  <2>1. RxP!Framing!Complete(s) /\ ~ RxP!Framing!Viable(s)
    BY ONLY <1>1, <1>2, <1>7, <1>12, <1>14
    DEF RxP!Framing!Complete, RxP!Framing!Viable
  <2>2. RxP!Framing!PayloadOf(s) = p
    <3>1. \A i \in 1 .. l : s[3 + i] = p[i]
      BY ONLY <1>1, <1>2, <1>4, <1>7, <1>14
    <3>2. \A i \in 4 .. 3 + l : s[i] \in Bytes
      <4>1. \A i \in 4 .. 3 + l : i \in 1 .. Len(s)
        BY ONLY <1>1, <1>2, <1>7, <1>14
      <4> QED
        BY ONLY <1>7, <4>1, ElementOfSeq
    <3>3. /\ SubSeq(s, 4, 3 + l) \in Seq(Bytes) /\ Len(SubSeq(s, 4, 3 + l)) = l
          /\ \A i \in 1 .. l : SubSeq(s, 4, 3 + l)[i] = s[3 + i]
      BY <1>1, <3>2, SubSeqProperties
    <3>4. SubSeq(s, 4, 3 + l) = p
      <4>1. PICK u \in Seq(Bytes) : u = SubSeq(s, 4, 3 + l)
        BY ONLY <3>3
      <4>2. Len(u) = Len(p) /\ \A i \in 1 .. Len(u) : u[i] = p[i]
        BY ONLY <1>1, <3>1, <3>3, <4>1
      <4>3. p \in Seq(Bytes)
        BY PayloadSize
      <4> QED
        BY ONLY <4>1, <4>2, <4>3, SeqEqual
    <3>5. RxP!Framing!Declared(s) = l
      BY ONLY <1>1, <1>2, <1>12, <1>14
    <3> QED
      BY ONLY <3>4, <3>5 DEF RxP!Framing!PayloadOf
  <2>3. s[Len(s)] = StopByte
    BY ONLY <1>1, <1>2, <1>4, <1>7, <1>14
  <2>4. s[Len(s) - 2] + 256 * s[Len(s) - 1] = Crc(p)
    <3>1. Len(s) - 2 = l + 4 /\ Len(s) - 1 = l + 5
      BY ONLY <1>1, <1>2, <1>7, <1>14
    <3>2. s[l + 4] = f[l + 4] /\ s[l + 5] = f[l + 5]
      BY ONLY <1>1, <1>2, <1>7, <1>14
    <3>3. Crc(p) \in Nat /\ Crc(p) <= 65535
      BY PayloadSize
    <3>4. (Crc(p) % 256) + 256 * (Crc(p) \div 256) = Crc(p)
      BY ONLY <3>3, Halves
    <3> QED
      BY ONLY <1>4, <3>1, <3>2, <3>4
  <2>5. RxP!Framing!WellFormed(s)
    BY ONLY <2>1, <2>2, <2>3, <2>4 DEF RxP!Framing!WellFormed
  <2> QED
    BY <1>1, <1>2, <1>3, <1>4, <1>10, <1>11, <1>14, <2>1, <2>2, <2>5
<1> QED
  BY ONLY <1>1, <1>2, <1>3, <1>4, <1>6, <1>13, <1>14

-----------------------------------------------------------------------------
(* What is on the line: w is the log of the frames written.                *)

\* A frame written: count of its bytes are on the line, from start on.
Slots == [payload : Payload, frame : Seq(Bytes), count : Nat, start : Nat]

\* The position of the last byte of frame i.
EndAt(w, i) == IF i = 0 THEN 0 ELSE w[i].start + w[i].count

\* The frames follow one another without gap or overlap.
IsLog(w) ==
    /\ w \in Seq(Slots)
    /\ \A i \in 1 .. Len(w) :
        /\ w[i].frame = Frame(w[i].payload)
        /\ w[i].count \in 1 .. Len(w[i].frame)
        /\ w[i].start = EndAt(w, i - 1)
        /\ EndAt(w, i) <= EndAt(w, Len(w))
    /\ \A i, j \in 1 .. Len(w) : i < j => EndAt(w, i) <= w[j].start

\* b is the byte at position x of the line.
Carries(w, x, b) ==
    \E i \in 1 .. Len(w) :
        w[i].start < x /\ x <= EndAt(w, i) /\ b = w[i].frame[x - w[i].start]

\* What is known of a frame of the log.
LEMMA SlotFacts ==
    ASSUME NEW w, IsLog(w), NEW i \in 1 .. Len(w)
    PROVE  /\ w[i].payload \in Payload /\ w[i].frame = Frame(w[i].payload)
           /\ w[i].frame \in Seq(Bytes)
           /\ Len(w[i].frame) \in Nat /\ Len(w[i].frame) >= 7
           /\ w[i].start \in Nat /\ w[i].count \in Nat
           /\ w[i].count >= 1 /\ w[i].count <= Len(w[i].frame)
           /\ EndAt(w, i) = w[i].start + w[i].count /\ EndAt(w, i) \in Nat
           /\ EndAt(w, i) <= EndAt(w, Len(w))
<1>1. w \in Seq(Slots)
  BY DEF IsLog
<1>2. w[i] \in Slots
  BY <1>1, ElementOfSeq
<1>3. /\ w[i].payload \in Payload /\ w[i].frame \in Seq(Bytes)
      /\ w[i].start \in Nat /\ w[i].count \in Nat
  BY <1>2 DEF Slots
<1>4. /\ w[i].frame = Frame(w[i].payload) /\ w[i].count \in 1 .. Len(w[i].frame)
      /\ EndAt(w, i) <= EndAt(w, Len(w))
  BY DEF IsLog
<1>5. Len(w[i].frame) \in Nat /\ Len(w[i].frame) >= 7
  <2>1. PICK p \in Payload : p = w[i].payload
    BY <1>3
  <2>2. PICK l \in Nat : l = Len(p) /\ l >= 1
    BY PayloadSize
  <2>3. Len(Frame(p)) = l + 6
    BY <2>2, FrameLayout
  <2> QED
    BY ONLY <1>4, <2>1, <2>2, <2>3
<1>6. w[i].count >= 1 /\ w[i].count <= Len(w[i].frame)
  BY ONLY <1>3, <1>4, <1>5
<1>7. i # 0
  OBVIOUS
<1>8. EndAt(w, i) = w[i].start + w[i].count /\ EndAt(w, i) \in Nat
  BY ONLY <1>3, <1>7 DEF EndAt
<1> QED
  BY ONLY <1>3, <1>4, <1>5, <1>6, <1>8

\* f is the frame of a payload p of l bytes.
Headed(f, p, l, lo, hi) ==
    /\ l = Len(p) /\ l >= 1 /\ l = lo + 256 * hi
    /\ Len(f) = l + 6 /\ f[1] = StartByte /\ f[2] = lo /\ f[3] = hi
    /\ StartByte + 256 * lo > MaxPayload

\* Every frame of the log has such a header.
LEMMA FrameFacts ==
    ASSUME NEW w, IsLog(w), NEW i \in 1 .. Len(w)
    PROVE  \E l \in Nat, lo \in Nat, hi \in Nat :
              Headed(w[i].frame, w[i].payload, l, lo, hi)
<1>1. PICK p \in Payload : p = w[i].payload /\ w[i].frame = Frame(p)
  BY SlotFacts
<1>2. PICK l \in Nat : l = Len(p) /\ l >= 1 /\ l <= 65535
  BY PayloadSize
<1>3. PICK f : f = Frame(p)
  OBVIOUS
<1>4. /\ Len(f) = l + 6 /\ f[1] = StartByte
      /\ f[2] = l % 256 /\ f[3] = l \div 256
  BY ONLY FrameLayout, <1>2, <1>3
<1>5. PICK lo \in Nat, hi \in Nat : lo = l % 256 /\ hi = l \div 256
  BY ONLY <1>2
<1>6. l = lo + 256 * hi
  BY ONLY Halves, <1>2, <1>5
<1>7. StartByte + 256 * lo > MaxPayload
  <2>1. Marked(p)
    BY Zenon DEF Payload
  <2> QED
    BY ONLY <2>1, <1>2, <1>5 DEF Marked
<1>8. Len(f) = l + 6 /\ f[1] = StartByte /\ f[2] = lo /\ f[3] = hi
  BY ONLY <1>4, <1>5
<1>9. f = w[i].frame /\ l = Len(w[i].payload) /\ l >= 1
  BY ONLY <1>1, <1>2, <1>3
<1>10. l \in Nat /\ lo \in Nat /\ hi \in Nat
  BY ONLY <1>2, <1>5
<1>11. PICK g : g = w[i].frame
  OBVIOUS
<1>12. PICK q : q = w[i].payload
  OBVIOUS
<1>13. /\ l = Len(q) /\ l >= 1 /\ l = lo + 256 * hi /\ Len(g) = l + 6
       /\ g[1] = StartByte /\ g[2] = lo /\ g[3] = hi
       /\ StartByte + 256 * lo > MaxPayload
  BY ONLY <1>6, <1>7, <1>8, <1>9, <1>11, <1>12
<1>14. Headed(g, q, l, lo, hi)
  BY ONLY <1>13 DEF Headed
<1> QED
  BY ONLY <1>10, <1>11, <1>12, <1>14

\* The positions are numbers.
LEMMA EndIsNat ==
    ASSUME NEW w, IsLog(w)
    PROVE  Len(w) \in Nat /\ \A i \in 0 .. Len(w) : EndAt(w, i) \in Nat
<1>1. Len(w) \in Nat
  BY LenProperties DEF IsLog
<1>2. ASSUME NEW i \in 0 .. Len(w) PROVE EndAt(w, i) \in Nat
  <2>1. CASE i = 0
    BY <2>1 DEF EndAt
  <2>2. CASE i # 0
    BY <1>1, <2>2, SlotFacts
  <2> QED
    BY <2>1, <2>2
<1> QED
  BY <1>1, <1>2

\* A position belongs to one frame.
LEMMA OneFrame ==
    ASSUME NEW w, IsLog(w), NEW i \in 1 .. Len(w), NEW j \in 1 .. Len(w), NEW x \in Int,
           w[i].start < x, x <= EndAt(w, i), w[j].start < x, x <= EndAt(w, j)
    PROVE  i = j
<1>1. /\ w[i].start \in Nat /\ w[j].start \in Nat
      /\ EndAt(w, i) \in Nat /\ EndAt(w, j) \in Nat
  BY SlotFacts
<1>2. (i < j => EndAt(w, i) <= w[j].start) /\ (j < i => EndAt(w, j) <= w[i].start)
  BY DEF IsLog
<1>3. i \in Nat /\ j \in Nat
  BY EndIsNat
<1> QED
  BY <1>1, <1>2, <1>3

\* What is carried within frame i is its byte there.
LEMMA Inside ==
    ASSUME NEW w, IsLog(w), NEW i \in 1 .. Len(w), NEW x \in Int, NEW b,
           w[i].start < x, x <= EndAt(w, i), Carries(w, x, b)
    PROVE  b = w[i].frame[x - w[i].start]
<1>1. PICK j \in 1 .. Len(w) :
         w[j].start < x /\ x <= EndAt(w, j) /\ b = w[j].frame[x - w[j].start]
  BY DEF Carries
<1>2. i = j
  BY <1>1, OneFrame
<1> QED
  BY <1>1, <1>2

\* Behind a byte of a frame comes the next one of it, or the first of another frame.
LEMMA Following ==
    ASSUME NEW w, IsLog(w), NEW i \in 1 .. Len(w), NEW x \in Int, NEW y \in Int, y = x + 1,
           NEW b, w[i].start < x, x <= EndAt(w, i), Carries(w, y, b)
    PROVE  \/ y <= EndAt(w, i) /\ b = w[i].frame[y - w[i].start]
           \/ /\ x = EndAt(w, i) /\ b = StartByte
              /\ \E j \in 1 .. Len(w) : w[j].start = x
<1>1. PICK j \in 1 .. Len(w) :
         w[j].start < y /\ y <= EndAt(w, j) /\ b = w[j].frame[y - w[j].start]
  BY DEF Carries
<1>2. /\ w[i].start \in Nat /\ w[j].start \in Nat
      /\ EndAt(w, i) \in Nat /\ EndAt(w, j) \in Nat
  BY SlotFacts
<1>3. (i < j => EndAt(w, i) <= w[j].start) /\ (j < i => EndAt(w, j) <= w[i].start)
  BY DEF IsLog
<1>4. i \in Nat /\ j \in Nat
  BY EndIsNat
<1>5. CASE i = j
  BY <1>1, <1>5
<1>6. CASE i # j
  <2>1. i < j /\ w[j].start = x /\ x = EndAt(w, i)
    BY <1>1, <1>2, <1>3, <1>4, <1>6
  <2>2. y - w[j].start = 1
    BY <2>1
  <2>3. w[j].frame[1] = StartByte
    BY FrameFacts DEF Headed
  <2> QED
    BY <1>1, <2>1, <2>2, <2>3
<1> QED
  BY <1>5, <1>6

\* Three bytes of the line that a receiver could take for the header of an empty frame
\* lie within one frame, behind its first byte.
LEMMA EmptyHeader ==
    ASSUME NEW w, IsLog(w), NEW x \in Int, NEW s,
           \A m \in 1 .. 3 : Carries(w, x + m, s[m]),
           s[1] = StartByte, s[2] = 0, s[3] = 0
    PROVE  \E i \in 1 .. Len(w) : HasEmptyHeader(w[i])
<1>1. StartByte # 0
  BY DEF StartByte
<1>2. PICK y \in Int, z \in Int, u \in Int : y = x + 1 /\ z = y + 1 /\ u = z + 1
  OBVIOUS
<1>3. Carries(w, y, StartByte) /\ Carries(w, z, 0) /\ Carries(w, u, 0)
  <2>1. Carries(w, x + 1, s[1]) /\ Carries(w, x + 2, s[2]) /\ Carries(w, x + 3, s[3])
    OBVIOUS
  <2>2. y = x + 1 /\ z = x + 2 /\ u = x + 3
    BY ONLY <1>2
  <2> QED
    BY ONLY <2>1, <2>2, s[1] = StartByte, s[2] = 0, s[3] = 0
<1>4. PICK i \in 1 .. Len(w) :
         w[i].start < y /\ y <= EndAt(w, i) /\ StartByte = w[i].frame[y - w[i].start]
  BY <1>3 DEF Carries
<1>5. PICK a \in Int, e \in Int, f \in Seq(Bytes), n \in Nat :
         a = w[i].start /\ e = EndAt(w, i) /\ f = w[i].frame /\ n = Len(f)
  <2>1. /\ w[i].start \in Nat /\ EndAt(w, i) \in Nat
        /\ w[i].frame \in Seq(Bytes) /\ Len(w[i].frame) \in Nat
    BY SlotFacts
  <2> QED
    BY ONLY <2>1
<1>6. e <= a + n /\ a < y
  <2>1. /\ EndAt(w, i) = w[i].start + w[i].count /\ w[i].count <= Len(w[i].frame)
        /\ w[i].count \in Nat
    BY SlotFacts
  <2> QED
    BY ONLY <1>2, <1>4, <1>5, <2>1
<1>7. z <= e /\ f[z - a] = 0
  <2>1. \/ z <= EndAt(w, i) /\ 0 = w[i].frame[z - w[i].start]
        \/ 0 = StartByte
    BY ONLY IsLog(w), <1>2, <1>3, <1>4, Following
  <2> QED
    BY ONLY <1>1, <1>5, <2>1
<1>8. u <= e /\ f[u - a] = 0
  <2>1. w[i].start < z /\ z <= EndAt(w, i)
    BY ONLY <1>2, <1>5, <1>6, <1>7
  <2>2. \/ u <= EndAt(w, i) /\ 0 = w[i].frame[u - w[i].start]
        \/ 0 = StartByte
    <3>1. IsLog(w) /\ i \in 1 .. Len(w) /\ u \in Int /\ z \in Int /\ u = z + 1
      BY <1>2
    <3> QED
      BY ONLY <1>3, <2>1, <3>1, Following
  <2> QED
    BY ONLY <1>1, <1>5, <2>2
<1>9. PICK o \in Int : o = y - a /\ z - a = o + 1 /\ u - a = o + 2
  BY ONLY <1>2
<1>10. o >= 1 /\ o + 2 <= n
  BY ONLY <1>2, <1>6, <1>8, <1>9
<1>11. f[o] = StartByte /\ f[o + 1] = 0 /\ f[o + 2] = 0
  BY ONLY <1>4, <1>5, <1>7, <1>8, <1>9
<1>12. o # 1
  <2>1. PICK l \in Nat, lo \in Nat, hi \in Nat :
           Headed(w[i].frame, w[i].payload, l, lo, hi)
    BY FrameFacts
  <2>2. l >= 1 /\ l = lo + 256 * hi /\ f[2] = lo /\ f[3] = hi
    BY ONLY <1>5, <2>1 DEF Headed
  <2> QED
    BY ONLY <1>11, <2>1, <2>2
<1>13. SubSeq(f, o, o + 2) = << StartByte, 0, 0 >>
  <2>1. \A k \in o .. o + 2 : f[k] \in Bytes
    <3>1. \A k \in o .. o + 2 : k \in 1 .. Len(f)
      BY ONLY <1>5, <1>10
    <3> QED
      BY ONLY <1>5, <3>1, ElementOfSeq
  <2>2. /\ SubSeq(f, o, o + 2) \in Seq(Bytes)
        /\ Len(SubSeq(f, o, o + 2)) = IF o <= o + 2 THEN ((o + 2) - o) + 1 ELSE 0
        /\ \A k \in 1 .. ((o + 2) - o) + 1 : SubSeq(f, o, o + 2)[k] = f[(o + k) - 1]
    BY <2>1, SubSeqProperties
  <2>3. PICK v \in Seq(Bytes) : v = SubSeq(f, o, o + 2)
    BY ONLY <2>2
  <2>4. Len(v) = 3 /\ \A k \in 1 .. 3 : v[k] = f[(o + k) - 1]
    BY ONLY <2>2, <2>3
  <2>5. v[1] = StartByte /\ v[2] = 0 /\ v[3] = 0
    BY ONLY <1>11, <2>4
  <2>6. StartByte \in Bytes /\ 0 \in Bytes
    BY DEF Bytes, StartByte
  <2> DEFINE t == << StartByte, 0, 0 >>
  <2>7. t \in Seq(Bytes) /\ Len(t) = 3 /\ t[1] = StartByte /\ t[2] = 0 /\ t[3] = 0
    BY ONLY <2>6
  <2> HIDE DEF t
  <2>8. Len(v) = Len(t) /\ \A k \in 1 .. Len(v) : v[k] = t[k]
    BY ONLY <2>4, <2>5, <2>7
  <2> QED
    BY ONLY <2>3, <2>7, <2>8, SeqEqual DEF t
<1>14. o \in 2 .. n - 2
  BY ONLY <1>10, <1>12
<1> QED
  BY ONLY <1>5, <1>13, <1>14 DEF HasEmptyHeader

\* A receiver that starts at the first byte of a frame reads the length of that frame,
\* or, where the frame was cut short within its header, one beyond the limit.
LEMMA HeaderRead ==
    ASSUME NEW w, IsLog(w), NEW i \in 1 .. Len(w), NEW s,
           \A m \in 1 .. 3 : Carries(w, w[i].start + m, s[m])
    PROVE  Declared(s) = Len(w[i].payload) \/ Declared(s) > MaxPayload
<1>0. PICK f : f = w[i].frame
  OBVIOUS
<1>1. PICK a \in Int, e \in Int :
         a = w[i].start /\ e = EndAt(w, i) /\ f = w[i].frame /\ a < e
  <2>1. /\ w[i].start \in Nat /\ EndAt(w, i) \in Nat
        /\ EndAt(w, i) = w[i].start + w[i].count
        /\ w[i].count \in Nat /\ w[i].count >= 1
    BY SlotFacts
  <2>2. PICK a \in Nat, e \in Nat, n \in Nat :
           a = w[i].start /\ e = EndAt(w, i) /\ e = a + n /\ n >= 1
    BY ONLY <2>1
  <2>3. a \in Int /\ e \in Int /\ a < e
    BY ONLY <2>2
  <2> QED
    BY ONLY <1>0, <2>2, <2>3, Zenon
<1>2. PICK x \in Int, y \in Int, z \in Int :
         /\ x = a + 1 /\ y = x + 1 /\ z = y + 1 /\ y = a + 2 /\ z = a + 3
         /\ a < x /\ x <= e
  <2>1. a \in Int /\ e \in Int /\ a < e
    BY ONLY <1>1
  <2> QED
    BY ONLY <2>1
<1>3. Carries(w, x, s[1]) /\ Carries(w, y, s[2]) /\ Carries(w, z, s[3])
  <2>1. /\ Carries(w, w[i].start + 1, s[1]) /\ Carries(w, w[i].start + 2, s[2])
        /\ Carries(w, w[i].start + 3, s[3])
    OBVIOUS
  <2> QED
    BY ONLY <1>1, <1>2, <2>1
<1>4. PICK l \in Nat, lo \in Nat, hi \in Nat :
         /\ l = Len(w[i].payload) /\ l = lo + 256 * hi
         /\ f[2] = lo /\ f[3] = hi /\ StartByte + 256 * lo > MaxPayload
  <2>1. PICK l \in Nat, lo \in Nat, hi \in Nat :
           Headed(w[i].frame, w[i].payload, l, lo, hi)
    BY FrameFacts
  <2>2. /\ l = Len(w[i].payload) /\ l = lo + 256 * hi
        /\ f[2] = lo /\ f[3] = hi /\ StartByte + 256 * lo > MaxPayload
    BY ONLY <1>1, <2>1 DEF Headed
  <2> QED
    BY ONLY <2>1, <2>2
<1>5. MaxPayload \in Nat /\ MaxPayload < 256 * StartByte /\ StartByte = 170
  <2>1. MaxPayload \in Nat
    BY ONLY SizeAssumption
  <2>2. MaxPayload < 256 * StartByte
    BY ONLY MixedHeaderAssumption
  <2> QED
    BY ONLY <2>1, <2>2 DEF StartByte
<1>6. \/ y <= e /\ s[2] = f[2]
      \/ y = e + 1 /\ s[2] = StartByte /\ \E j \in 1 .. Len(w) : w[j].start = x
  <2>1. w[i].start < x /\ x <= EndAt(w, i)
    BY ONLY <1>1, <1>2
  <2>2. \/ y <= EndAt(w, i) /\ s[2] = w[i].frame[y - w[i].start]
        \/ x = EndAt(w, i) /\ s[2] = StartByte /\ \E j \in 1 .. Len(w) : w[j].start = x
    <3>1. IsLog(w) /\ i \in 1 .. Len(w) /\ x \in Int /\ y \in Int /\ y = x + 1
      BY <1>2
    <3> QED
      BY ONLY <1>3, <2>1, <3>1, Following
  <2>3. y - a = 2
    BY ONLY <1>1, <1>2
  <2>4. ASSUME y <= EndAt(w, i), s[2] = w[i].frame[y - w[i].start]
        PROVE  y <= e /\ s[2] = f[2]
    BY ONLY <1>1, <2>3, <2>4
  <2>5. x = EndAt(w, i) => y = e + 1
    BY ONLY <1>1, <1>2
  <2> QED
    BY ONLY <2>2, <2>4, <2>5
<1>7. CASE y <= e /\ s[2] = f[2]
  <2>1. w[i].start < y /\ y <= EndAt(w, i)
    <3>1. a < y
      <4>1. a \in Int /\ y = a + 2
        BY ONLY <1>1, <1>2
      <4> QED
        BY ONLY <4>1
    <3> QED
      BY ONLY <1>1, <1>7, <3>1
  <2>2. \/ z <= EndAt(w, i) /\ s[3] = w[i].frame[z - w[i].start]
        \/ s[3] = StartByte
    <3>1. IsLog(w) /\ i \in 1 .. Len(w) /\ y \in Int /\ z \in Int /\ z = y + 1
      BY <1>2
    <3> QED
      BY ONLY <1>3, <2>1, <3>1, Following
  <2>3. z - a = 3
    BY ONLY <1>1, <1>2
  <2>4. s[2] = lo /\ (s[3] = hi \/ s[3] = StartByte)
    BY ONLY <1>1, <1>4, <1>7, <2>2, <2>3
  <2> QED
    <3>1. l \in Nat /\ lo \in Nat /\ hi \in Nat /\ l = lo + 256 * hi
      BY ONLY <1>4
    <3>2. PICK m \in Nat : m = MaxPayload /\ m < 256 * 170 /\ StartByte = 170
      BY ONLY <1>5
    <3>3. lo + 256 * 170 > m
      BY ONLY <3>1, <3>2
    <3>4. Declared(s) = l \/ Declared(s) = lo + 256 * 170
      BY ONLY <2>4, <3>1, <3>2 DEF Declared
    <3> QED
      BY ONLY <1>4, <3>2, <3>3, <3>4
<1>8. ASSUME s[2] = StartByte, NEW j \in 1 .. Len(w), w[j].start = x
      PROVE  Declared(s) > MaxPayload
  <2>1. w[j].start < y /\ y <= EndAt(w, j)
    <3>1. EndAt(w, j) = w[j].start + w[j].count /\ w[j].count \in Nat /\ w[j].count >= 1
      BY ONLY IsLog(w), j \in 1 .. Len(w), SlotFacts
    <3> QED
      BY ONLY <1>2, <1>8, <3>1
  <2>2. \/ s[3] = w[j].frame[z - w[j].start]
        \/ s[3] = StartByte
    <3>1. IsLog(w) /\ j \in 1 .. Len(w) /\ y \in Int /\ z \in Int /\ z = y + 1
      BY <1>2
    <3> QED
      BY ONLY <1>3, <2>1, <3>1, Following
  <2>3. z - w[j].start = 2
    BY ONLY <1>1, <1>2, <1>8
  <2>4. PICK d \in Nat, k \in Nat, h \in Nat :
           Headed(w[j].frame, w[j].payload, d, k, h)
    BY FrameFacts
  <2>5. s[3] = k \/ s[3] = StartByte
    BY ONLY <2>2, <2>3, <2>4 DEF Headed
  <2>6. StartByte + 256 * k > MaxPayload
    BY ONLY <2>4 DEF Headed
  <2> QED
    <3>1. PICK m \in Nat : m = MaxPayload /\ m < 256 * 170 /\ StartByte = 170
      BY ONLY <1>5
    <3>2. k \in Nat /\ 170 + 256 * k > m
      BY ONLY <2>4, <2>6, <3>1
    <3>3. 170 + 256 * 170 > m
      BY ONLY <3>1
    <3>4. Declared(s) = 170 + 256 * k \/ Declared(s) = 170 + 256 * 170
      BY ONLY <1>8, <2>5, <3>1 DEF Declared
    <3> QED
      BY ONLY <3>1, <3>2, <3>3, <3>4
<1> QED
  BY <1>4, <1>6, <1>7, <1>8

\* v is the log w with one more frame, of which write() took n bytes.
Grown(w, v, p, n) ==
    /\ Len(v) = Len(w) + 1
    /\ \A i \in 1 .. Len(w) : v[i] = w[i]
    /\ \A i \in 0 .. Len(w) : EndAt(v, i) = EndAt(w, i)
    /\ v[Len(w) + 1] = [payload |-> p, frame |-> Frame(p), count |-> n,
                        start |-> EndAt(w, Len(w))]
    /\ EndAt(v, Len(w) + 1) = EndAt(w, Len(w)) + n

\* The log stays one when write() takes the first n bytes of a frame.
LEMMA LogGrows ==
    ASSUME NEW w, IsLog(w), NEW p \in Payload, NEW n \in 1 .. Len(Frame(p)), NEW v,
           v = Append(w, [payload |-> p, frame |-> Frame(p), count |-> n,
                          start |-> EndAt(w, Len(w))])
    PROVE  IsLog(v) /\ Grown(w, v, p, n)
<1>1. PICK m \in Nat, e \in Nat : m = Len(w) /\ e = EndAt(w, Len(w))
  <2>1. Len(w) \in Nat /\ EndAt(w, Len(w)) \in Nat
    BY EndIsNat
  <2> QED
    BY ONLY <2>1
<1>2. PICK f \in Seq(Bytes) : f = Frame(p)
  BY FrameLayout
<1>3. n \in Nat /\ n >= 1
  <2>1. PICK k \in Nat : k = Len(f)
    BY ONLY <1>2
  <2> QED
    BY <1>2, <2>1
<1>4. PICK r \in Slots :
         /\ r = [payload |-> p, frame |-> f, count |-> n, start |-> e]
         /\ r.payload = p /\ r.frame = f /\ r.count = n /\ r.start = e
  <2>1. [payload |-> p, frame |-> f, count |-> n, start |-> e] \in Slots
    BY <1>1, <1>2, <1>3 DEF Slots
  <2> QED
    BY ONLY <2>1
<1>5. /\ v \in Seq(Slots) /\ Len(v) = m + 1 /\ v[m + 1] = r
      /\ \A i \in 1 .. m : v[i] = w[i]
  <2>1. w \in Seq(Slots)
    BY DEF IsLog
  <2>2. v = Append(w, r)
    BY <1>1, <1>2, <1>4
  <2>3. /\ Append(w, r) \in Seq(Slots) /\ Len(Append(w, r)) = Len(w) + 1
        /\ Append(w, r)[Len(w) + 1] = r
        /\ \A i \in 1 .. Len(w) : Append(w, r)[i] = w[i]
    BY ONLY <1>4, <2>1, AppendProperties
  <2> QED
    BY ONLY <1>1, <2>2, <2>3
<1>6. \A i \in 0 .. m : EndAt(v, i) = EndAt(w, i)
  BY ONLY <1>1, <1>5 DEF EndAt
<1>7. EndAt(v, m + 1) = e + n
  BY ONLY <1>1, <1>4, <1>5 DEF EndAt
<1>8. Grown(w, v, p, n)
  BY ONLY <1>1, <1>2, <1>4, <1>5, <1>6, <1>7 DEF Grown
<1>9. ASSUME NEW i \in 1 .. m + 1
      PROVE  /\ v[i].frame = Frame(v[i].payload)
             /\ v[i].count \in 1 .. Len(v[i].frame)
             /\ v[i].start = EndAt(v, i - 1)
             /\ EndAt(v, i) <= EndAt(v, m + 1)
  <2>1. CASE i = m + 1
    <3>1. i - 1 = m
      BY ONLY <1>1, <2>1
    <3>2. EndAt(v, i - 1) = e
      BY ONLY <1>1, <1>6, <3>1
    <3>3. EndAt(v, i) <= EndAt(v, m + 1)
      BY ONLY <1>1, <1>3, <1>7, <2>1
    <3>4. n \in 1 .. Len(f)
      BY <1>2
    <3> QED
      BY ONLY <1>2, <1>4, <1>5, <2>1, <3>2, <3>3, <3>4
  <2>2. CASE i # m + 1
    <3>1. i \in 1 .. m /\ i \in 0 .. m /\ i - 1 \in 0 .. m
      BY ONLY <1>1, <1>9, <2>2
    <3>2. /\ w[i].frame = Frame(w[i].payload)
          /\ w[i].count \in 1 .. Len(w[i].frame)
          /\ w[i].start = EndAt(w, i - 1)
          /\ EndAt(w, i) <= e
      BY ONLY IsLog(w), <1>1, <3>1 DEF IsLog
    <3>3. EndAt(v, i) = EndAt(w, i) /\ EndAt(v, i - 1) = EndAt(w, i - 1) /\ v[i] = w[i]
      BY ONLY <1>5, <1>6, <3>1
    <3>4. EndAt(w, i) \in Nat
      BY ONLY IsLog(w), <1>1, <3>1, EndIsNat
    <3>5. EndAt(v, i) <= EndAt(v, m + 1)
      BY ONLY <1>1, <1>3, <1>7, <3>2, <3>3, <3>4
    <3> QED
      BY ONLY <3>2, <3>3, <3>5
  <2> QED
    BY <2>1, <2>2
<1>10. ASSUME NEW i \in 1 .. m + 1, NEW j \in 1 .. m + 1, i < j
       PROVE  EndAt(v, i) <= v[j].start
  <2>1. i \in 1 .. m /\ i \in 0 .. m
    BY ONLY <1>1, <1>10
  <2>2. EndAt(v, i) = EndAt(w, i)
    BY ONLY <1>6, <2>1
  <2>3. CASE j = m + 1
    <3>1. EndAt(w, i) <= e
      BY ONLY IsLog(w), <1>1, <2>1 DEF IsLog
    <3> QED
      BY ONLY <1>4, <1>5, <2>2, <2>3, <3>1
  <2>4. CASE j # m + 1
    <3>1. j \in 1 .. m
      BY ONLY <1>1, <1>10, <2>4
    <3>2. EndAt(w, i) <= w[j].start
      BY ONLY IsLog(w), <1>1, <1>10, <2>1, <3>1 DEF IsLog
    <3> QED
      BY ONLY <1>5, <2>2, <3>1, <3>2
  <2> QED
    BY <2>3, <2>4
<1>11. IsLog(v)
  BY ONLY <1>5, <1>9, <1>10 DEF IsLog
<1> QED
  BY <1>8, <1>11

\* The bytes that were on the line keep their places, and those of the new frame are
\* behind them.
LEMMA GrownCarries ==
    ASSUME NEW w, IsLog(w), NEW v, IsLog(v), NEW p \in Payload, NEW n \in Nat,
           Grown(w, v, p, n)
    PROVE  /\ \A x, b : Carries(w, x, b) => Carries(v, x, b)
           /\ \A k \in 1 .. n : Carries(v, EndAt(w, Len(w)) + k, Frame(p)[k])
<1>1. PICK m \in Nat, e \in Nat : m = Len(w) /\ e = EndAt(w, Len(w))
  <2>1. Len(w) \in Nat /\ EndAt(w, Len(w)) \in Nat
    BY EndIsNat
  <2> QED
    BY ONLY <2>1
<1>2. /\ Len(v) = m + 1 /\ \A i \in 1 .. m : v[i] = w[i]
      /\ \A i \in 0 .. m : EndAt(v, i) = EndAt(w, i)
      /\ v[m + 1].frame = Frame(p) /\ v[m + 1].start = e
      /\ EndAt(v, m + 1) = e + n
  BY ONLY Grown(w, v, p, n), <1>1 DEF Grown
<1>3. ASSUME NEW x, NEW b, Carries(w, x, b) PROVE Carries(v, x, b)
  <2>1. PICK i \in 1 .. m :
           w[i].start < x /\ x <= EndAt(w, i) /\ b = w[i].frame[x - w[i].start]
    BY ONLY <1>1, <1>3 DEF Carries
  <2>2. i \in 1 .. Len(v) /\ i \in 0 .. m
    BY ONLY <1>1, <1>2, <2>1
  <2>3. v[i].start < x /\ x <= EndAt(v, i) /\ b = v[i].frame[x - v[i].start]
    BY ONLY <1>2, <2>1, <2>2
  <2> QED
    BY ONLY <2>2, <2>3 DEF Carries
<1>4. ASSUME NEW k \in 1 .. n PROVE Carries(v, e + k, Frame(p)[k])
  <2>1. /\ m + 1 \in 1 .. Len(v)
        /\ e < e + k /\ e + k <= e + n /\ (e + k) - e = k
    BY ONLY <1>1, <1>2, <1>4
  <2>2. PICK x \in Int : x = e + k
    BY ONLY <1>1, <1>4
  <2>3. /\ v[m + 1].start < x /\ x <= EndAt(v, m + 1)
        /\ Frame(p)[k] = v[m + 1].frame[x - v[m + 1].start]
    BY ONLY <1>2, <2>1, <2>2
  <2>4. Carries(v, x, Frame(p)[k])
    BY ONLY <2>1, <2>3 DEF Carries
  <2> QED
    BY ONLY <2>2, <2>4
<1> QED
  BY <1>1, <1>3, <1>4

\* Owed(i), of a log.
OwedIn(w, i) ==
    /\ Whole(w[i])
    /\ \A k \in 1 .. i - 1 :
        /\ ~HasStartByte(w[k])
        /\ Whole(w[k]) \/ w[k].start + Len(w[k].frame) <= w[i].start

\* A new frame makes no earlier one owed.
LEMMA GrownOwed ==
    ASSUME NEW w, IsLog(w), NEW v, NEW p, NEW n, Grown(w, v, p, n),
           NEW i \in 1 .. Len(w), OwedIn(v, i)
    PROVE  OwedIn(w, i)
<1>1. PICK m \in Nat : m = Len(w)
  BY EndIsNat
<1>2. \A k \in 1 .. m : v[k] = w[k]
  BY <1>1 DEF Grown
<1>3. i \in 1 .. m /\ \A k \in 1 .. i - 1 : k \in 1 .. m
  BY ONLY <1>1, i \in 1 .. Len(w)
<1> QED
  BY ONLY OwedIn(v, i), <1>2, <1>3 DEF OwedIn

-----------------------------------------------------------------------------
(* The invariant.                                                          *)

\* The members of the threads' queues.
Packets == { Packet(p) : p \in Payload }

\* The type invariant, but for the receiver's variables.
Types ==
    /\ todo \in [Thread -> Seq(Packets)]
    /\ wire \in Seq(Bytes) /\ chunk \in Seq(Bytes) /\ handed \in Seq(Seq(Bytes))
    /\ damage \in [cut : Nat, late : Nat, noise : Nat]

\* What holds whatever the line does to the bytes.
Base == Types /\ RxP!IInv /\ HeldInv /\ IsLog(written)

\* How many bytes have been put on the line, and how many the receiver has had.
Sent == EndAt(written, Len(written))
Taken == Sent - Len(wire) - Len(chunk)

\* On an undamaged line what is on the way and what the receiver holds are the bytes
\* written, each at its place.
Streamed ==
    Undamaged =>
        /\ \A k \in 1 .. Len(wire) : Carries(written, (Taken + Len(chunk)) + k, wire[k])
        /\ \A k \in 1 .. Len(chunk) : Carries(written, Taken + k, chunk[k])
        /\ ~fault => \A k \in 1 .. Len(held) :
                        Carries(written, (Taken - Len(held)) + k, held[k])

\* Without faults the receiver is at the frame behind those it has handed over.
InStep ==
    Faults = 0 =>
        /\ ~fault /\ Len(handed) <= Len(written)
        /\ \A i \in 1 .. Len(written) : Whole(written[i])
        /\ \A i \in 1 .. Len(handed) : handed[i] = written[i].payload
        /\ EndAt(written, Len(handed)) + Len(held) = Taken
        /\ Len(handed) = Len(written) => held = <<>>
        /\ Len(handed) < Len(written) =>
                Len(held) < Len(written[Len(handed) + 1].frame)

\* A frame owed is held from its first byte on until it has come, and then it has
\* been handed over.
Caught ==
    Undamaged =>
        \A i \in 1 .. Len(written) : OwedIn(written, i) =>
            /\ Taken >= EndAt(written, i) => Contains(handed, written[i].payload)
            /\ written[i].start < Taken /\ Taken < EndAt(written, i) =>
                    ~fault /\ Len(held) = Taken - written[i].start

\* The inductive invariant.
IInv == Base /\ Streamed /\ InStep /\ SurvivesShortWrites /\ Caught

\* The positions add up.
LEMMA Positions ==
    ASSUME Base
    PROVE  /\ Len(written) \in Nat /\ Sent \in Nat
           /\ Len(wire) \in Nat /\ Len(chunk) \in Nat /\ Len(held) \in Nat
           /\ Taken \in Int /\ Sent = Taken + Len(chunk) + Len(wire)
<1>1. Len(written) \in Nat /\ Sent \in Nat
  BY EndIsNat DEF Base, Sent
<1>2. Len(wire) \in Nat /\ Len(chunk) \in Nat /\ Len(held) \in Nat
  <2>1. wire \in Seq(Bytes) /\ chunk \in Seq(Bytes) /\ held \in Seq(Bytes)
    BY DEF Base, Types, HeldInv
  <2> QED
    BY ONLY <2>1, LenProperties
<1> QED
  BY ONLY <1>1, <1>2 DEF Taken

\* The rest of the chunk, and where it is on the line.
LEMMA NextOfChunk ==
    ASSUME Base, chunk # <<>>
    PROVE  /\ Head(chunk) \in Bytes /\ Head(chunk) = chunk[1]
           /\ Tail(chunk) \in Seq(Bytes) /\ Len(chunk) >= 1
           /\ Len(Tail(chunk)) = Len(chunk) - 1
           /\ \A k \in 1 .. Len(Tail(chunk)) : Tail(chunk)[k] = chunk[k + 1]
<1>1. chunk \in Seq(Bytes)
  BY DEF Base, Types
<1>2. /\ Head(chunk) \in Bytes /\ Tail(chunk) \in Seq(Bytes)
      /\ Len(Tail(chunk)) = Len(chunk) - 1
      /\ \A k \in 1 .. Len(Tail(chunk)) : Tail(chunk)[k] = chunk[k + 1]
  BY ONLY <1>1, chunk # <<>>, HeadTailProperties
<1>3. Head(chunk) = chunk[1]
  BY <1>1
<1>4. Len(chunk) >= 1
  BY <1>1, EmptySeq
<1> QED
  BY ONLY <1>2, <1>3, <1>4

\* A byte handed to the receiver, damaged or not.
LEMMA HandleBase ==
    ASSUME Base, chunk # <<>>, NEW b \in Bytes, Handle(b),
           damage' \in [cut : Nat, late : Nat, noise : Nat]
    PROVE  Base'
<1>1. Rx!Feed(b) /\ b \in 0 .. 255
  BY DEF Handle, Bytes
<1>2. RxP!IInv'
  BY <1>1, FeedByte DEF Base
<1>3. HeldInv'
  BY <1>1, ByteHeld DEF Base
<1>4. handed' \in Seq(Seq(Bytes))
  <2>1. got' \in Seq(Bytes)
    BY <1>2 DEF RxP!IInv, RxP!Shape, Bytes
  <2>2. handed \in Seq(Seq(Bytes))
    BY DEF Base, Types
  <2>3. Append(handed, got') \in Seq(Seq(Bytes))
    BY ONLY <2>1, <2>2, AppendProperties
  <2> QED
    BY <2>2, <2>3 DEF Handle
<1>5. chunk' \in Seq(Bytes)
  BY NextOfChunk DEF Handle
<1>6. Types'
  BY <1>4, <1>5 DEF Base, Types, Handle
<1>7. IsLog(written)'
  BY DEF Base, Handle
<1> QED
  BY <1>2, <1>3, <1>6, <1>7 DEF Base

\* What is said of an undamaged line is lost with the first byte damaged.
LEMMA AfterDamage ==
    ASSUME Base', ~Undamaged'
    PROVE  IInv'
<1>1. Faults' # 0
  BY DEF Base, Types, Undamaged, Faults
<1> QED
  BY <1>1 DEF IInv, Streamed, InStep, SurvivesShortWrites, Caught

-----------------------------------------------------------------------------
(* A byte of an undamaged line.                                            *)

\* Where a receiver that hunts or reads is, after the byte.
LEMMA ReceiveMoves ==
    ASSUME Base, Receive
    PROVE  /\ ~fault /\ Rx!Feed(Head(chunk)) /\ Head(chunk) \in Bytes
           /\ written' = written /\ wire' = wire /\ damage' = damage
           /\ Len(chunk') = Len(chunk) - 1 /\ Taken' = Taken + 1 /\ Sent' = Sent
           /\ \A k \in 1 .. Len(chunk') : chunk'[k] = chunk[k + 1]
           /\ handed' = IF got' = <<>> THEN handed ELSE Append(handed, got')
<1>1. /\ chunk # <<>> /\ Rx!Feed(Head(chunk)) /\ chunk' = Tail(chunk)
      /\ written' = written /\ wire' = wire /\ damage' = damage
      /\ handed' = IF got' = <<>> THEN handed ELSE Append(handed, got')
  BY DEF Receive, Handle
<1>2. /\ Len(chunk') = Len(chunk) - 1 /\ Head(chunk) \in Bytes
      /\ \A k \in 1 .. Len(chunk') : chunk'[k] = chunk[k + 1]
  BY <1>1, NextOfChunk
<1>3. Sent' = Sent
  BY <1>1 DEF Sent
<1>4. Sent \in Nat /\ Len(chunk) \in Nat /\ Len(wire) \in Nat
  BY Positions
<1>5. Taken' = Taken + 1
  BY ONLY <1>1, <1>2, <1>3, <1>4 DEF Taken
<1>6. ~fault
  BY <1>1, <1>2, FeedByte DEF Base, Bytes
<1> QED
  BY ONLY <1>1, <1>2, <1>3, <1>5, <1>6

\* The receiver keeps the byte, drops what it holds, or dies.
LEMMA ReceiveHeld ==
    ASSUME Base, Receive
    PROVE  \/ ~fault' /\ held' = <<>>
           \/ ~fault' /\ held' = Append(held, Head(chunk))
           \/ fault' /\ held' = held /\ got' = <<>> /\ Len(held) = 3 /\ Declared(held) = 0
<1>1. Rx!Feed(Head(chunk)) /\ Head(chunk) \in Bytes /\ RxP!IInv /\ HeldInv
  BY ReceiveMoves DEF Base
<1> QED
  BY ONLY <1>1, ByteHeld

\* The bytes stay in their places.
LEMMA ReceiveStreamed ==
    ASSUME Base, Streamed, Receive
    PROVE  Streamed'
<1> SUFFICES ASSUME Undamaged'
             PROVE  /\ \A k \in 1 .. Len(wire') :
                          Carries(written', (Taken' + Len(chunk')) + k, wire'[k])
                    /\ \A k \in 1 .. Len(chunk') : Carries(written', Taken' + k, chunk'[k])
                    /\ ~fault' => \A k \in 1 .. Len(held') :
                                     Carries(written', (Taken' - Len(held')) + k, held'[k])
  BY DEF Streamed
<1>1. Undamaged
  BY ReceiveMoves DEF Undamaged
<1>2. /\ \A k \in 1 .. Len(wire) : Carries(written, (Taken + Len(chunk)) + k, wire[k])
      /\ \A k \in 1 .. Len(chunk) : Carries(written, Taken + k, chunk[k])
      /\ \A k \in 1 .. Len(held) : Carries(written, (Taken - Len(held)) + k, held[k])
  BY <1>1, ReceiveMoves DEF Streamed
<1>3. /\ written' = written /\ wire' = wire /\ Len(chunk') = Len(chunk) - 1
      /\ Taken' = Taken + 1 /\ \A k \in 1 .. Len(chunk') : chunk'[k] = chunk[k + 1]
      /\ Head(chunk) \in Bytes /\ Head(chunk) = chunk[1] /\ Len(chunk) >= 1
  BY ReceiveMoves, NextOfChunk DEF Receive
<1>4. PICK c \in Nat, h \in Nat, t \in Int : c = Len(chunk) /\ h = Len(held) /\ t = Taken
  BY Positions
<1>5. Taken' + Len(chunk') = Taken + Len(chunk)
  BY ONLY <1>3, <1>4
<1>6. ASSUME NEW k \in 1 .. Len(chunk') PROVE Carries(written', Taken' + k, chunk'[k])
  <2>1. PICK j \in 1 .. c : j = k + 1 /\ Taken' + k = t + j
    BY ONLY <1>3, <1>4, <1>6
  <2>2. Carries(written, t + j, chunk[j])
    BY ONLY <1>2, <1>4, <2>1
  <2>3. chunk'[k] = chunk[j]
    BY ONLY <1>3, <1>6, <2>1
  <2> QED
    BY ONLY <1>3, <2>1, <2>2, <2>3
<1>7. ASSUME ~fault', NEW k \in 1 .. Len(held')
      PROVE  Carries(written', (Taken' - Len(held')) + k, held'[k])
  <2>1. held' # <<>>
    BY <1>7, EmptySeq
  <2>2. held' = Append(held, Head(chunk))
    BY <1>7, <2>1, ReceiveHeld
  <2>3. held \in Seq(Bytes)
    BY DEF Base, HeldInv
  <2>4. /\ Len(Append(held, Head(chunk))) = Len(held) + 1
        /\ \A i \in 1 .. Len(held) : Append(held, Head(chunk))[i] = held[i]
        /\ Append(held, Head(chunk))[Len(held) + 1] = Head(chunk)
    BY ONLY <1>3, <2>3, AppendProperties
  <2>5. /\ Len(held') = h + 1 /\ held'[h + 1] = chunk[1]
        /\ \A i \in 1 .. h : held'[i] = held[i]
    BY ONLY <1>3, <1>4, <2>2, <2>4
  <2>6. CASE k = h + 1
    <3>1. (Taken' - Len(held')) + k = t + 1 /\ 1 \in 1 .. c
      BY ONLY <1>3, <1>4, <2>5, <2>6
    <3>2. Carries(written, t + 1, chunk[1])
      BY ONLY <1>2, <1>4, <3>1
    <3> QED
      BY ONLY <1>3, <2>5, <2>6, <3>1, <3>2
  <2>7. CASE k # h + 1
    <3>1. k \in 1 .. h /\ (Taken' - Len(held')) + k = (t - h) + k
      BY ONLY <1>3, <1>4, <1>7, <2>5, <2>7
    <3>2. Carries(written, (t - h) + k, held[k])
      BY ONLY <1>2, <1>4, <3>1
    <3> QED
      BY ONLY <1>3, <2>5, <3>1, <3>2
  <2> QED
    BY <2>6, <2>7
<1>8. ASSUME NEW k \in 1 .. Len(wire')
      PROVE  Carries(written', (Taken' + Len(chunk')) + k, wire'[k])
  BY ONLY <1>2, <1>3, <1>5, <1>8
<1> QED
  BY ONLY <1>6, <1>7, <1>8

\* The receiver dies only of what looks like an empty frame.
LEMMA ReceiveSurvives ==
    ASSUME Base, Streamed, Receive
    PROVE  SurvivesShortWrites'
<1> SUFFICES ASSUME fault', Undamaged'
             PROVE  \E i \in DOMAIN written' : HasEmptyHeader(written'[i])
  BY DEF SurvivesShortWrites
<1>1. written' = written /\ Undamaged /\ ~fault
  BY ReceiveMoves DEF Undamaged
<1>2. Len(held) = 3 /\ Declared(held) = 0
  BY ONLY Base, Receive, fault', ReceiveHeld, Zenon
<1>3. held \in Seq(Bytes) /\ held[1] = StartByte
  BY <1>2 DEF Base, HeldInv
<1>4. held[2] \in Bytes /\ held[3] \in Bytes
  <2>1. 2 \in 1 .. Len(held) /\ 3 \in 1 .. Len(held)
    BY ONLY <1>2
  <2> QED
    BY ONLY <1>3, <2>1, ElementOfSeq
<1>5. held[2] = 0 /\ held[3] = 0
  <2>1. \A x \in Bytes, y \in Bytes : x + 256 * y = 0 => x = 0 /\ y = 0
    BY ONLY DEF Bytes
  <2> QED
    BY ONLY <1>2, <1>4, <2>1 DEF Declared
<1>6. \A k \in 1 .. 3 : Carries(written, (Taken - 3) + k, held[k])
  BY <1>1, <1>2 DEF Streamed
<1>7. IsLog(written)
  BY DEF Base
<1>8. PICK x \in Int : x = Taken - 3
  BY Positions
<1>9. \E i \in 1 .. Len(written) : HasEmptyHeader(written[i])
  BY ONLY <1>3, <1>5, <1>6, <1>7, <1>8, EmptyHeader
<1>10. DOMAIN written = 1 .. Len(written)
  BY <1>7, LenProperties DEF IsLog
<1> QED
  BY ONLY <1>1, <1>9, <1>10

\* Where the receiver holds what has come of frame i, the next byte of it is taken for
\* what it is.
LEMMA ByteOfFrame ==
    ASSUME Base, Streamed, Undamaged, Receive, NEW i \in 1 .. Len(written),
           written[i].start + Len(held) = Taken, Taken < EndAt(written, i)
    PROVE  LET f == written[i].frame
           IN  /\ ~fault'
               /\ Len(held) + 1 < Len(f) =>
                      got' = <<>> /\ Len(held') = Len(held) + 1
               /\ Len(held) + 1 = Len(f) =>
                      got' = written[i].payload /\ got' # <<>> /\ held' = <<>>
<1>1. IsLog(written)
  BY DEF Base
<1>2. PICK q \in Payload, f \in Seq(Bytes), n \in Nat, a \in Nat, c \in Nat, e \in Nat :
         /\ q = written[i].payload /\ f = written[i].frame /\ n = Len(f)
         /\ a = written[i].start /\ c = written[i].count /\ e = EndAt(written, i)
         /\ e = a + c /\ c <= n
  BY <1>1, SlotFacts
<1>3. f = Frame(q)
  BY ONLY IsLog(written), i \in 1 .. Len(written), <1>2, SlotFacts
<1>4. a \in Nat /\ e \in Nat /\ n \in Nat /\ e <= a + n
  BY ONLY <1>2
<1>5. PICK h \in Nat, t \in Int : h = Len(held) /\ t = Taken /\ a + h = t /\ t < e
  BY <1>2, Positions
<1>6. h < n
  BY ONLY <1>4, <1>5
<1>7. /\ \A k \in 1 .. Len(chunk) : Carries(written, t + k, chunk[k])
      /\ \A k \in 1 .. h : Carries(written, (t - h) + k, held[k])
  BY <1>5, ReceiveMoves DEF Streamed
<1>8. PICK b \in Bytes : b = Head(chunk) /\ b = chunk[1] /\ Len(chunk) >= 1 /\ Rx!Feed(b)
  BY ReceiveMoves, NextOfChunk DEF Receive
<1>9. b = f[h + 1]
  <2>1. PICK x \in Int : x = t + 1 /\ x - a = h + 1 /\ a < x /\ x <= e
    BY ONLY <1>4, <1>5
  <2>2. Carries(written, t + 1, b)
    <3>1. PICK d \in Nat : d = Len(chunk)
      BY Positions
    <3>2. 1 \in 1 .. d
      BY ONLY <1>8, <3>1
    <3> QED
      BY ONLY <1>7, <1>8, <3>1, <3>2
  <2>3. b = written[i].frame[x - written[i].start]
    BY ONLY IsLog(written), i \in 1 .. Len(written), <1>2, <2>1, <2>2, Inside
  <2> QED
    BY ONLY <1>2, <2>1, <2>3
<1>10. ASSUME NEW k \in 1 .. h PROVE held[k] = f[k]
  <2>1. PICK x \in Int : x = (t - h) + k /\ x - a = k /\ a < x /\ x <= e
    BY ONLY <1>4, <1>5, <1>10
  <2>2. Carries(written, (t - h) + k, held[k])
    BY ONLY <1>7, <1>10
  <2>3. held[k] = written[i].frame[x - written[i].start]
    BY ONLY IsLog(written), i \in 1 .. Len(written), <1>2, <2>1, <2>2, Inside
  <2> QED
    BY ONLY <1>2, <2>1, <2>3
<1>11. Begins(held, Frame(q)) /\ Len(held) < Len(Frame(q)) /\ b = Frame(q)[Len(held) + 1]
  <2>1. n = Len(f) /\ h = Len(held)
    BY ONLY <1>2, <1>5
  <2>2. Begins(held, f)
    BY ONLY <1>4, <1>5, <1>6, <1>10, <2>1 DEF Begins
  <2> QED
    BY ONLY <1>3, <1>6, <1>9, <2>1, <2>2
<1>12. RxP!IInv /\ HeldInv
  BY DEF Base
<1>13. /\ ~fault'
       /\ Len(held) + 1 < Len(Frame(q)) => held' = Append(held, b) /\ got' = <<>>
       /\ Len(held) + 1 = Len(Frame(q)) => held' = <<>> /\ got' = q
  BY ONLY <1>8, <1>11, <1>12, FrameByte
<1>14. Len(Append(held, b)) = Len(held) + 1
  <2>1. held \in Seq(Bytes)
    BY DEF Base, HeldInv
  <2> QED
    BY ONLY <1>8, <2>1, AppendProperties
<1>15. q # <<>>
  <2>1. q \in Seq(Bytes) /\ Len(q) >= 1 /\ Len(q) \in Nat
    BY PayloadSize
  <2> QED
    BY ONLY <2>1
<1> QED
  BY ONLY <1>2, <1>3, <1>5, <1>13, <1>14, <1>15

\* When a frame that is owed begins, the receiver holds nothing: it has dropped the
\* frames before it, for they announced no more than has come.
LEMMA Ready ==
    ASSUME Base, Streamed, Undamaged, ~fault, NEW i \in 1 .. Len(written),
           OwedIn(written, i), Taken = written[i].start
    PROVE  held = <<>>
<1>1. IsLog(written) /\ HeldInv
  BY DEF Base
<1>2. PICK h \in Nat, t \in Int : h = Len(held) /\ t = Taken
  BY Positions
<1>3. SUFFICES ASSUME h >= 1 PROVE FALSE
  <2>1. held \in Seq(Bytes)
    BY <1>1 DEF HeldInv
  <2> QED
    BY ONLY <1>2, <1>3, <2>1, EmptySeq
<1>4. \A k \in 1 .. h : Carries(written, (t - h) + k, held[k])
  BY <1>2 DEF Streamed
<1>5. held[1] = StartByte
  BY ONLY <1>1, <1>2, <1>3 DEF HeldInv
<1>6. PICK x \in Int : x = (t - h) + 1 /\ Carries(written, x, StartByte)
  <2>1. 1 \in 1 .. h
    BY ONLY <1>3
  <2> QED
    BY ONLY <1>2, <1>4, <1>5, <2>1
<1>7. PICK k \in 1 .. Len(written) :
         /\ written[k].start < x /\ x <= EndAt(written, k)
         /\ StartByte = written[k].frame[x - written[k].start]
  BY ONLY <1>6 DEF Carries
<1>8. PICK a \in Nat, e \in Nat, c \in Nat, f \in Seq(Bytes), n \in Nat :
         /\ a = written[k].start /\ e = EndAt(written, k) /\ f = written[k].frame
         /\ c = written[k].count /\ n = Len(f) /\ e = a + c /\ c <= n
  BY <1>1, SlotFacts
<1>9. PICK d \in Nat, g \in Nat :
         d = written[i].start /\ g = EndAt(written, i) /\ t = d /\ d <= g
  <2>1. /\ written[i].start \in Nat /\ EndAt(written, i) \in Nat
        /\ EndAt(written, i) = written[i].start + written[i].count
        /\ written[i].count \in Nat
    BY <1>1, SlotFacts
  <2> QED
    BY <1>2, <2>1
<1>10. i \in Nat /\ k \in Nat /\ k < i
  <2>1. Len(written) \in Nat
    BY Positions
  <2>2. i < k => g <= a
    BY ONLY <1>1, <1>7, <1>8, <1>9, i \in 1 .. Len(written) DEF IsLog
  <2>3. x <= d /\ a < x
    BY ONLY <1>3, <1>6, <1>7, <1>8, <1>9, <1>2
  <2>4. k # i
    BY ONLY <1>8, <1>9, <2>3
  <2> QED
    BY ONLY <1>7, <1>8, <1>9, <2>1, <2>2, <2>3, <2>4, i \in 1 .. Len(written)
<1>11. /\ ~HasStartByte(written[k])
       /\ Whole(written[k]) \/ a + n <= d
  <2>1. k \in 1 .. i - 1
    BY ONLY <1>7, <1>10
  <2>2. /\ ~HasStartByte(written[k])
        /\ Whole(written[k])
              \/ written[k].start + Len(written[k].frame) <= written[i].start
    BY ONLY OwedIn(written, i), <2>1 DEF OwedIn
  <2> QED
    BY ONLY <1>8, <1>9, <2>2
<1>12. a + n <= t
  <2>1. e <= d
    BY ONLY <1>1, <1>7, <1>8, <1>9, <1>10, i \in 1 .. Len(written) DEF IsLog
  <2>2. Whole(written[k]) => c = n
    BY ONLY <1>8 DEF Whole
  <2> QED
    BY ONLY <1>8, <1>9, <1>11, <2>1, <2>2
<1>13. x = a + 1
  <2>1. PICK o \in Int : o = x - a /\ o >= 1 /\ o <= n /\ f[o] = StartByte
    <3>1. a < x /\ x <= e /\ StartByte = f[x - a]
      BY ONLY <1>7, <1>8
    <3>2. x \in Int /\ a \in Nat /\ c \in Nat /\ n \in Nat /\ e = a + c /\ c <= n
      BY ONLY <1>6, <1>8
    <3>3. PICK o \in Int : o = x - a
      BY ONLY <3>2
    <3>4. o >= 1 /\ o <= n
      BY ONLY <3>1, <3>2, <3>3
    <3> QED
      BY ONLY <3>1, <3>3, <3>4
  <2>2. ASSUME o # 1 PROVE FALSE
    <3>1. f # <<>>
      BY ONLY <1>8, <2>1, EmptySeq
    <3>2. /\ Len(Tail(f)) = Len(f) - 1
          /\ \A j \in 1 .. Len(Tail(f)) : Tail(f)[j] = f[j + 1]
      <4>1. f \in Seq(Bytes)
        BY ONLY <1>8
      <4> QED
        BY ONLY <3>1, <4>1, HeadTailProperties
    <3>3. PICK j \in 1 .. Len(Tail(f)) : j + 1 = o
      <4>1. PICK m \in Nat : m = Len(f) /\ o <= m
        BY ONLY <1>8, <2>1
      <4>2. PICK j \in 1 .. m - 1 : j + 1 = o
        BY ONLY <2>1, <2>2, <4>1
      <4> QED
        BY ONLY <3>2, <4>1, <4>2
    <3>4. Tail(f)[j] = StartByte
      BY ONLY <2>1, <3>2, <3>3
    <3>5. Contains(Tail(f), StartByte)
      BY ONLY <3>3, <3>4 DEF Contains
    <3> QED
      BY ONLY <1>8, <1>11, <3>5 DEF HasStartByte
  <2>3. x \in Int /\ a \in Nat /\ o \in Int /\ o = x - a
    BY ONLY <1>6, <1>8, <2>1
  <2>4. o = 1
    BY ONLY <2>2
  <2> QED
    BY ONLY <2>3, <2>4
<1>14. t - h = a /\ h >= n
  <2>1. t \in Int /\ h \in Nat /\ a \in Nat /\ n \in Nat /\ x \in Int
    BY ONLY <1>2, <1>6, <1>8
  <2>2. x = (t - h) + 1 /\ x = a + 1 /\ a + n <= t
    BY ONLY <1>6, <1>12, <1>13
  <2> QED
    BY ONLY <2>1, <2>2
<1>15. PICK l \in Nat, lo \in Nat, hi \in Nat :
          Headed(written[k].frame, written[k].payload, l, lo, hi)
  BY <1>1, FrameFacts
<1>16. l = Len(written[k].payload) /\ n = l + 6
  BY ONLY <1>8, <1>15 DEF Headed
<1>17. Declared(held) = l \/ Declared(held) > MaxPayload
  <2>1. \A m \in 1 .. 3 : Carries(written, written[k].start + m, held[m])
    <3>1. \A m \in 1 .. 3 : m \in 1 .. h
      BY ONLY <1>14, <1>15, <1>16
    <3> QED
      BY ONLY <1>4, <1>8, <1>14, <3>1
  <2> QED
    BY ONLY <1>1, <1>7, <1>16, <2>1, HeaderRead
<1>18. Declared(held) <= MaxPayload /\ h < Declared(held) + 6
  <2>1. Len(held) >= 3
    BY ONLY <1>2, <1>14, <1>15, <1>16
  <2> QED
    BY ONLY <1>1, <1>2, <2>1 DEF HeldInv
<1>19. Declared(held) \in Nat /\ MaxPayload \in Nat
  <2>1. held[2] \in Bytes /\ held[3] \in Bytes
    BY ONLY <1>1, <1>2, <1>14, <1>15, <1>16 DEF HeldInv
  <2>2. \A y \in Bytes, z \in Bytes : y + 256 * z \in Nat
    BY ONLY DEF Bytes
  <2>3. MaxPayload \in Nat
    BY ONLY SizeAssumption
  <2> QED
    BY ONLY <2>1, <2>2, <2>3, Zenon DEF Declared
<1> QED
  BY ONLY <1>14, <1>15, <1>16, <1>17, <1>18, <1>19

\* On a clean line the byte belongs to the frame behind those handed over.
LEMMA ReceiveInStep ==
    ASSUME Base, Streamed, InStep, Receive
    PROVE  InStep'
<1> SUFFICES ASSUME Faults' = 0
             PROVE  /\ ~fault' /\ Len(handed') <= Len(written')
                    /\ \A i \in 1 .. Len(written') : Whole(written'[i])
                    /\ \A i \in 1 .. Len(handed') : handed'[i] = written'[i].payload
                    /\ EndAt(written', Len(handed')) + Len(held') = Taken'
                    /\ Len(handed') = Len(written') => held' = <<>>
                    /\ Len(handed') < Len(written') =>
                            Len(held') < Len(written'[Len(handed') + 1].frame)
  BY DEF InStep
<1>1. Faults = 0 /\ Undamaged
  <2>1. Faults = 0
    BY ReceiveMoves DEF Faults
  <2> QED
    BY <2>1 DEF Base, Types, Faults, Undamaged
<1>2. PICK m \in Nat, n \in Nat, h \in Nat, t \in Int :
         /\ m = Len(written) /\ n = Len(handed) /\ h = Len(held) /\ t = Taken
         /\ n <= m
  <2>1. handed \in Seq(Seq(Bytes)) /\ Len(handed) <= Len(written)
    BY <1>1 DEF Base, Types, InStep
  <2>2. Len(handed) \in Nat
    BY ONLY <2>1, LenProperties
  <2> QED
    BY <2>1, <2>2, Positions
<1>3. /\ \A i \in 1 .. m : Whole(written[i])
      /\ \A i \in 1 .. n : handed[i] = written[i].payload
      /\ EndAt(written, n) + h = t
      /\ n = m => held = <<>>
      /\ n < m => h < Len(written[n + 1].frame)
  BY <1>1, <1>2 DEF InStep
<1>4. IsLog(written)
  BY DEF Base
<1>5. t < Sent
  <2>1. Len(chunk) >= 1 /\ Sent = Taken + Len(chunk) + Len(wire)
        /\ Len(chunk) \in Nat /\ Len(wire) \in Nat
    BY Positions, NextOfChunk DEF Receive
  <2> QED
    BY ONLY <1>2, <2>1
<1>6. n # m
  <2>1. ASSUME n = m PROVE FALSE
    <3>1. h = 0
      BY ONLY <1>2, <1>3, <2>1, EmptySeq
    <3>2. EndAt(written, n) = Sent /\ Sent \in Nat
      BY <1>2, <2>1, Positions DEF Sent
    <3> QED
      BY ONLY <1>2, <1>3, <1>5, <3>1, <3>2
  <2> QED
    BY <2>1
<1>7. PICK i \in 1 .. m : i = n + 1 /\ i - 1 = n
  BY ONLY <1>2, <1>6
<1>8. PICK a \in Nat, e \in Nat, k \in Nat :
         /\ a = written[i].start /\ e = EndAt(written, i) /\ k = Len(written[i].frame)
         /\ e = a + k /\ k >= 7
  <2>1. /\ written[i].start \in Nat /\ EndAt(written, i) \in Nat
        /\ Len(written[i].frame) \in Nat /\ Len(written[i].frame) >= 7
        /\ EndAt(written, i) = written[i].start + written[i].count
    BY ONLY <1>2, <1>4, <1>7, SlotFacts
  <2>2. written[i].count = Len(written[i].frame)
    BY ONLY <1>3, <1>7 DEF Whole
  <2> QED
    BY ONLY <2>1, <2>2
<1>9. a + h = t /\ h < k /\ t < e
  <2>1. a = EndAt(written, n)
    BY ONLY <1>2, <1>4, <1>7, <1>8 DEF IsLog
  <2>2. h < k
    BY ONLY <1>2, <1>3, <1>6, <1>7, <1>8
  <2>3. a + h = t
    BY ONLY <1>3, <2>1
  <2>4. a \in Nat /\ e \in Nat /\ k \in Nat /\ e = a + k /\ h \in Nat /\ t \in Int
    BY ONLY <1>2, <1>8
  <2> QED
    BY ONLY <2>2, <2>3, <2>4
<1>10. /\ ~fault'
       /\ h + 1 < k => got' = <<>> /\ Len(held') = h + 1
       /\ h + 1 = k => got' = written[i].payload /\ got' # <<>> /\ held' = <<>>
  <2>1. /\ i \in 1 .. Len(written) /\ written[i].start + Len(held) = Taken
        /\ Taken < EndAt(written, i)
    BY ONLY <1>2, <1>7, <1>8, <1>9
  <2>2. LET f == written[i].frame
        IN  /\ ~fault'
            /\ Len(held) + 1 < Len(f) =>
                   got' = <<>> /\ Len(held') = Len(held) + 1
            /\ Len(held) + 1 = Len(f) =>
                   got' = written[i].payload /\ got' # <<>> /\ held' = <<>>
    BY ONLY Base, Streamed, Receive, <1>1, <2>1, ByteOfFrame
  <2> QED
    BY ONLY <1>2, <1>8, <2>2
<1>11. /\ written' = written /\ Taken' = t + 1
       /\ handed' = IF got' = <<>> THEN handed ELSE Append(handed, got')
  BY <1>2, ReceiveMoves
<1>12. CASE h + 1 < k
  <2>1. handed' = handed /\ Len(held') = h + 1
    BY ONLY <1>10, <1>11, <1>12
  <2>2. EndAt(written, n) + (h + 1) = t + 1
    <3>1. EndAt(written, n) = a
      BY ONLY <1>2, <1>4, <1>7, <1>8 DEF IsLog
    <3>2. a \in Nat /\ h \in Nat /\ t \in Int
      BY ONLY <1>2, <1>8
    <3> QED
      BY ONLY <1>9, <3>1, <3>2
  <2>3. h + 1 < Len(written[n + 1].frame)
    BY ONLY <1>7, <1>8, <1>12
  <2> QED
    BY ONLY <1>2, <1>3, <1>6, <1>10, <1>11, <2>1, <2>2, <2>3
<1>13. CASE h + 1 = k
  <2>1. held' = <<>> /\ got' = written[i].payload /\ handed' = Append(handed, got')
    BY ONLY <1>10, <1>11, <1>13
  <2>2. Len(held') = 0
    BY ONLY <2>1, EmptySeq
  <2>3. /\ Len(handed') = n + 1 /\ handed'[n + 1] = written[i].payload
        /\ \A j \in 1 .. n : handed'[j] = handed[j]
    <3>1. got' \in Seq(Bytes) /\ handed \in Seq(Seq(Bytes))
      <4>1. written[i].payload \in Payload
        BY ONLY <1>2, <1>4, <1>7, SlotFacts
      <4>2. \A q \in Payload : q \in Seq(Bytes)
        BY PayloadSize
      <4>3. handed \in Seq(Seq(Bytes))
        BY DEF Base, Types
      <4> QED
        BY ONLY <2>1, <4>1, <4>2, <4>3
    <3> QED
      BY ONLY <1>2, <2>1, <3>1, AppendProperties
  <2>4. \A j \in 1 .. n + 1 : handed'[j] = written[j].payload
    <3>1. TAKE j \in 1 .. n + 1
    <3>2. j = i \/ j \in 1 .. n
      BY ONLY <1>2, <1>7
    <3> QED
      BY ONLY <1>3, <1>7, <2>3, <3>2
  <2>5. EndAt(written, n + 1) + 0 = t + 1
    <3>1. EndAt(written, n + 1) = e
      BY ONLY <1>7, <1>8
    <3>2. a \in Nat /\ h \in Nat /\ t \in Int /\ e = a + k /\ e \in Nat
      BY ONLY <1>2, <1>8
    <3> QED
      BY ONLY <1>9, <1>13, <3>1, <3>2
  <2>6. n + 1 < m => 0 < Len(written[(n + 1) + 1].frame)
    <3>1. SUFFICES ASSUME n + 1 < m PROVE 0 < Len(written[(n + 1) + 1].frame)
      OBVIOUS
    <3>2. PICK j \in 1 .. m : j = (n + 1) + 1
      BY ONLY <1>2, <3>1
    <3>3. Len(written[j].frame) \in Nat /\ Len(written[j].frame) >= 7
      BY ONLY <1>2, <1>4, <3>2, SlotFacts
    <3> QED
      BY ONLY <3>2, <3>3
  <2>7. n + 1 <= m
    BY ONLY <1>2, <1>6
  <2> QED
    BY ONLY <1>2, <1>3, <1>10, <1>11, <2>1, <2>2, <2>3, <2>4, <2>5, <2>6, <2>7
<1>14. h + 1 < k \/ h + 1 = k
  <2>1. h \in Nat /\ k \in Nat /\ h < k
    BY ONLY <1>2, <1>8, <1>9
  <2> QED
    BY ONLY <2>1
<1> QED
  BY ONLY <1>12, <1>13, <1>14

\* The payload of a frame owed is handed over with its last byte.
LEMMA ReceiveCaught ==
    ASSUME Base, Streamed, Caught, Receive
    PROVE  Caught'
<1> SUFFICES ASSUME Undamaged', NEW i \in 1 .. Len(written'), OwedIn(written', i)
             PROVE  /\ Taken' >= EndAt(written', i) =>
                            Contains(handed', written'[i].payload)
                    /\ written'[i].start < Taken' /\ Taken' < EndAt(written', i) =>
                            ~fault' /\ Len(held') = Taken' - written'[i].start
  BY DEF Caught
<1>1. /\ written' = written /\ Undamaged /\ ~fault
      /\ handed' = IF got' = <<>> THEN handed ELSE Append(handed, got')
  BY ReceiveMoves DEF Undamaged
<1>2. i \in 1 .. Len(written) /\ OwedIn(written, i)
  BY <1>1
<1>3. PICK a \in Nat, e \in Nat, n \in Nat, t \in Int, h \in Nat :
         /\ a = written[i].start /\ e = EndAt(written, i) /\ n = Len(written[i].frame)
         /\ e = a + n /\ n >= 7 /\ t = Taken /\ h = Len(held)
  <2>1. /\ written[i].start \in Nat /\ EndAt(written, i) \in Nat
        /\ Len(written[i].frame) \in Nat /\ Len(written[i].frame) >= 7
        /\ EndAt(written, i) = written[i].start + written[i].count
    BY <1>2, SlotFacts DEF Base
  <2>2. written[i].count = Len(written[i].frame)
    BY ONLY <1>2 DEF OwedIn, Whole
  <2>3. Taken \in Int /\ Len(held) \in Nat
    BY Positions
  <2> QED
    BY ONLY <2>1, <2>2, <2>3
<1>4. Taken' = t + 1
  BY <1>3, ReceiveMoves
<1>5. /\ t >= e => Contains(handed, written[i].payload)
      /\ a < t /\ t < e => h = t - a
  BY <1>1, <1>2, <1>3 DEF Caught
<1>6. PICK s : s = handed' /\ handed \in Seq(Seq(Bytes)) /\ got' \in Seq(Bytes)
  <2>1. got' \in Seq(Bytes)
    <3>1. RxP!IInv'
      BY ReceiveMoves, FeedByte DEF Base, Bytes
    <3> QED
      BY <3>1 DEF RxP!IInv, RxP!Shape, Bytes
  <2> QED
    BY <2>1 DEF Base, Types
<1>7. got' # <<>> =>
         /\ Len(s) = Len(handed) + 1 /\ s[Len(handed) + 1] = got'
         /\ \A j \in 1 .. Len(handed) : s[j] = handed[j]
  BY ONLY <1>1, <1>6, AppendProperties
<1>8. PICK k \in Nat : k = Len(handed)
  BY ONLY <1>6, LenProperties
<1>9. ASSUME Contains(handed, written[i].payload) PROVE Contains(s, written[i].payload)
  <2>1. PICK q : q = written[i].payload
    OBVIOUS
  <2>2. \E j \in 1 .. Len(handed) : handed[j] = q
    BY ONLY <1>9, <2>1 DEF Contains
  <2>3. PICK j \in 1 .. k : handed[j] = q
    BY ONLY <1>8, <2>2
  <2>4. CASE got' = <<>>
    BY ONLY <1>1, <1>6, <1>9, <2>4
  <2>5. CASE got' # <<>>
    <3>1. Len(s) = k + 1 /\ s[j] = q
      BY ONLY <1>7, <1>8, <2>3, <2>5
    <3>2. j \in 1 .. Len(s)
      BY ONLY <1>8, <2>3, <3>1
    <3>3. Contains(s, q)
      BY ONLY <3>1, <3>2 DEF Contains
    <3> QED
      BY ONLY <2>1, <3>3
  <2> QED
    BY <2>4, <2>5
<1>10. ASSUME got' = written[i].payload, got' # <<>>
       PROVE  Contains(s, written[i].payload)
  <2>1. PICK q : q = written[i].payload
    OBVIOUS
  <2>2. Len(s) = k + 1 /\ s[k + 1] = q
    BY ONLY <1>7, <1>8, <1>10, <2>1
  <2>3. k + 1 \in 1 .. Len(s)
    BY ONLY <1>8, <2>2
  <2>4. Contains(s, q)
    BY ONLY <2>2, <2>3 DEF Contains
  <2> QED
    BY ONLY <2>1, <2>4
<1>11. ASSUME a + h = t, t < e
       PROVE  /\ ~fault'
              /\ h + 1 < n => Len(held') = h + 1
              /\ h + 1 = n => Contains(s, written[i].payload)
  <2>1. /\ written[i].start + Len(held) = Taken /\ Taken < EndAt(written, i)
    BY ONLY <1>3, <1>11
  <2>2. LET f == written[i].frame
        IN  /\ ~fault'
            /\ Len(held) + 1 < Len(f) =>
                   got' = <<>> /\ Len(held') = Len(held) + 1
            /\ Len(held) + 1 = Len(f) =>
                   got' = written[i].payload /\ got' # <<>> /\ held' = <<>>
    BY ONLY Base, Streamed, Receive, <1>1, <1>2, <2>1, ByteOfFrame
  <2> QED
    BY ONLY <1>3, <1>10, <2>2
<1>12. t = a => h = 0
  <2>1. SUFFICES ASSUME t = a PROVE h = 0
    OBVIOUS
  <2>2. held = <<>>
    BY ONLY Base, Streamed, <1>1, <1>2, <1>3, <2>1, Ready
  <2> QED
    BY ONLY <1>3, <2>2, EmptySeq
<1>13. /\ t + 1 >= e => Contains(s, written[i].payload)
       /\ a < t + 1 /\ t + 1 < e => ~fault' /\ Len(held') = (t + 1) - a
  <2>1. /\ a \in Nat /\ e \in Nat /\ n \in Nat /\ t \in Int /\ h \in Nat
        /\ e = a + n /\ n >= 7
    BY ONLY <1>3
  <2>2. CASE t >= e
    BY ONLY <1>5, <1>9, <2>1, <2>2
  <2>3. CASE a <= t /\ t < e
    <3>1. a + h = t
      BY ONLY <1>5, <1>12, <2>1, <2>3
    <3>2. /\ h + 1 < n <=> t + 1 < e
          /\ h + 1 = n <=> t + 1 >= e
          /\ (t + 1) - a = h + 1
      BY ONLY <2>1, <2>3, <3>1
    <3> QED
      BY ONLY <1>11, <2>3, <3>1, <3>2
  <2>4. CASE t < a
    BY ONLY <2>1, <2>4
  <2> QED
    BY ONLY <2>1, <2>2, <2>3, <2>4
<1> QED
  BY ONLY <1>1, <1>3, <1>4, <1>6, <1>13

-----------------------------------------------------------------------------
(* The steps.                                                              *)

\* The handler takes a byte.
LEMMA ReceiveStep == IInv /\ Receive => IInv'
<1> SUFFICES ASSUME IInv, Receive PROVE IInv'
  OBVIOUS
<1>1. Base /\ Streamed /\ InStep /\ Caught
  BY DEF IInv
<1>2. Base'
  <2>1. damage' = damage /\ chunk # <<>> /\ Handle(Head(chunk))
    BY DEF Receive
  <2>2. Head(chunk) \in Bytes /\ damage \in [cut : Nat, late : Nat, noise : Nat]
    BY <1>1, <2>1, NextOfChunk DEF Base, Types
  <2> QED
    BY <1>1, <2>1, <2>2, HandleBase
<1> QED
  BY <1>1, <1>2, ReceiveStreamed, ReceiveInStep, ReceiveSurvives, ReceiveCaught DEF IInv

\* What a fault of the line or of the programs at its ends does to the counters.
LEMMA HitCounts ==
    ASSUME Types, NEW kind \in {"cut", "late", "noise"}, Hit(kind)
    PROVE  /\ damage' \in [cut : Nat, late : Nat, noise : Nat] /\ Faults' # 0
           /\ kind # "cut" => ~Undamaged'
           /\ kind = "cut" => damage'.late = damage.late /\ damage'.noise = damage.noise
<1>1. damage \in [cut : Nat, late : Nat, noise : Nat]
  BY DEF Types
<1>2. damage' = [damage EXCEPT ![kind] = @ + 1]
  BY DEF Hit
<1>3. CASE kind = "cut"
  BY <1>1, <1>2, <1>3 DEF Faults, Undamaged
<1>4. CASE kind = "late"
  BY <1>1, <1>2, <1>4 DEF Faults, Undamaged
<1>5. CASE kind = "noise"
  BY <1>1, <1>2, <1>5 DEF Faults, Undamaged
<1> QED
  BY <1>3, <1>4, <1>5

\* The handler takes a byte the line has damaged.
LEMMA ReceiveGarbledStep == IInv /\ ReceiveGarbled => IInv'
<1> SUFFICES ASSUME IInv, ReceiveGarbled PROVE IInv'
  OBVIOUS
<1>1. Base /\ Types
  BY DEF IInv, Base
<1>2. PICK b \in Garbled(Head(chunk)) : Handle(b)
  BY DEF ReceiveGarbled
<1>3. chunk # <<>> /\ Hit("noise")
  BY DEF ReceiveGarbled
<1>4. b \in Bytes
  <2>1. Head(chunk) \in Bytes
    BY <1>1, <1>3, NextOfChunk
  <2> QED
    BY <1>2, <2>1, FaultAssumption DEF Bytes
<1>5. damage' \in [cut : Nat, late : Nat, noise : Nat] /\ ~Undamaged'
  BY <1>1, <1>3, HitCounts
<1>6. Base'
  BY <1>1, <1>2, <1>3, <1>4, <1>5, HandleBase
<1> QED
  BY <1>5, <1>6, AfterDamage

\* A step that leaves the receiver alone leaves it as it should be.
LEMMA ReceiverRests ==
    ASSUME RxP!IInv, HeldInv, UNCHANGED rxVars
    PROVE  RxP!IInv' /\ HeldInv' /\ held' = held /\ fault' = fault
<1>1. held' = held
  BY DEF rxVars, held, RxP!Held, RxP!Header
<1>2. RxP!IInv'
  BY DEF rxVars, RxP!IInv, RxP!Shape, RxP!FieldInv, RxP!StoresInBounds, RxP!NoLeak,
         RxP!FaultOnlyOnEmptyFrame
<1>3. HeldInv'
  BY <1>1 DEF HeldInv, Declared
<1> QED
  BY <1>1, <1>2, <1>3 DEF rxVars

\* The line loses a byte.
LEMMA LoseByteStep == IInv /\ LoseByte => IInv'
<1> SUFFICES ASSUME IInv, LoseByte PROVE IInv'
  OBVIOUS
<1>1. Base /\ Types
  BY DEF IInv, Base
<1>2. /\ chunk # <<>> /\ Hit("noise") /\ chunk' = Tail(chunk)
      /\ UNCHANGED << todo, written, wire, handed, rxVars >>
  BY DEF LoseByte
<1>3. damage' \in [cut : Nat, late : Nat, noise : Nat] /\ ~Undamaged'
  BY <1>1, <1>2, HitCounts
<1>4. chunk' \in Seq(Bytes)
  BY <1>1, <1>2, NextOfChunk
<1>5. RxP!IInv' /\ HeldInv'
  BY <1>1, <1>2, ReceiverRests DEF Base
<1>6. Base'
  BY <1>1, <1>2, <1>3, <1>4, <1>5 DEF Base, Types
<1> QED
  BY <1>3, <1>6, AfterDamage

\* A frame is not written at all.
LEMMA NotSentStep == ASSUME NEW t \in Thread PROVE IInv /\ NotSent(t) => IInv'
<1> SUFFICES ASSUME IInv, NotSent(t) PROVE IInv'
  OBVIOUS
<1>1. Base /\ Types
  BY DEF IInv, Base
<1>2. /\ todo[t] # <<>> /\ todo' = [todo EXCEPT ![t] = Tail(@)]
      /\ UNCHANGED << written, wire, chunk, damage, handed, rxVars >>
  BY DEF NotSent
<1>3. todo' \in [Thread -> Seq(Packets)]
  <2>1. todo[t] \in Seq(Packets)
    BY <1>1 DEF Types
  <2>2. Tail(todo[t]) \in Seq(Packets)
    BY <1>2, <2>1, HeadTailProperties
  <2> QED
    BY <1>1, <1>2, <2>2 DEF Types
<1>4. RxP!IInv' /\ HeldInv' /\ held' = held /\ fault' = fault
  BY <1>1, <1>2, ReceiverRests DEF Base
<1>5. Base'
  BY <1>1, <1>2, <1>3, <1>4 DEF Base, Types
<1>6. Sent' = Sent /\ Taken' = Taken /\ Faults' = Faults /\ Undamaged' = Undamaged
  BY <1>2 DEF Sent, Taken, Faults, Undamaged
<1>7. Streamed' /\ InStep' /\ SurvivesShortWrites' /\ Caught'
  BY <1>2, <1>4, <1>6 DEF IInv, Streamed, InStep, SurvivesShortWrites, Caught
<1> QED
  BY <1>5, <1>7 DEF IInv

\* Nothing happens.
LEMMA StutterStep == IInv /\ UNCHANGED vars => IInv'
<1> SUFFICES ASSUME IInv, UNCHANGED vars PROVE IInv'
  OBVIOUS
<1>1. /\ UNCHANGED << todo, written, wire, chunk, damage, handed, rxVars >>
  BY DEF vars
<1>2. RxP!IInv' /\ HeldInv' /\ held' = held /\ fault' = fault
  BY <1>1, ReceiverRests DEF IInv, Base
<1>3. Base'
  BY <1>1, <1>2 DEF IInv, Base, Types
<1>4. Sent' = Sent /\ Taken' = Taken /\ Faults' = Faults /\ Undamaged' = Undamaged
  BY <1>1 DEF Sent, Taken, Faults, Undamaged
<1>5. Streamed' /\ InStep' /\ SurvivesShortWrites' /\ Caught'
  BY <1>1, <1>2, <1>4 DEF IInv, Streamed, InStep, SurvivesShortWrites, Caught
<1> QED
  BY <1>3, <1>5 DEF IInv

\* What the eight-bit count makes of n bytes.
LEMMA Counted ==
    ASSUME NEW n \in Nat
    PROVE  /\ n % CountRange \in Nat /\ n % CountRange < CountRange
           /\ n < CountRange => n % CountRange = n
<1>1. PICK c \in Nat : c = CountRange /\ c >= 2
  BY CountAssumption
<1>2. n % c \in Nat /\ n % c < c
  BY ONLY <1>1
<1>3. n < c => n % c = n
  BY ONLY <1>1
<1> QED
  BY ONLY <1>1, <1>2, <1>3

\* The two pieces a sequence is cut into.
LEMMA Pieces ==
    ASSUME NEW S, NEW s \in Seq(S), NEW m \in 0 .. Len(s), NEW n \in 0 .. Len(s)
    PROVE  /\ SubSeq(s, 1, m) \in Seq(S) /\ Len(SubSeq(s, 1, m)) = m
           /\ \A i \in 1 .. m : SubSeq(s, 1, m)[i] = s[i]
           /\ SubSeq(s, n + 1, Len(s)) \in Seq(S)
           /\ Len(SubSeq(s, n + 1, Len(s))) = Len(s) - n
           /\ \A i \in 1 .. Len(s) - n : SubSeq(s, n + 1, Len(s))[i] = s[n + i]
<1>1. PICK l \in Nat : l = Len(s)
  BY LenProperties
<1>2. m \in Nat /\ m <= l /\ n \in Nat /\ n <= l
  BY ONLY <1>1, m \in 0 .. Len(s), n \in 0 .. Len(s)
<1>3. \A i \in 1 .. l : s[i] \in S
  BY <1>1, ElementOfSeq
<1>4. /\ SubSeq(s, 1, m) \in Seq(S) /\ Len(SubSeq(s, 1, m)) = m
      /\ \A i \in 1 .. m : SubSeq(s, 1, m)[i] = s[i]
  <2>1. \A i \in 1 .. m : s[i] \in S
    BY ONLY <1>2, <1>3
  <2>2. /\ SubSeq(s, 1, m) \in Seq(S)
        /\ Len(SubSeq(s, 1, m)) = IF 1 <= m THEN m - 1 + 1 ELSE 0
        /\ \A i \in 1 .. m - 1 + 1 : SubSeq(s, 1, m)[i] = s[1 + i - 1]
    BY <1>2, <2>1, SubSeqProperties
  <2>3. PICK u \in Seq(S) : u = SubSeq(s, 1, m)
    BY ONLY <2>2
  <2>4. Len(u) = m
    BY ONLY <1>2, <2>2, <2>3
  <2>5. \A i \in 1 .. m : u[i] = s[i]
    BY ONLY <1>2, <2>2, <2>3
  <2> QED
    BY ONLY <2>3, <2>4, <2>5
<1>5. /\ SubSeq(s, n + 1, l) \in Seq(S) /\ Len(SubSeq(s, n + 1, l)) = l - n
      /\ \A i \in 1 .. l - n : SubSeq(s, n + 1, l)[i] = s[n + i]
  <2>1. PICK a \in Nat : a = n + 1
    BY ONLY <1>2
  <2>2. \A i \in a .. l : s[i] \in S
    BY ONLY <1>2, <1>3, <2>1
  <2>3. /\ SubSeq(s, a, l) \in Seq(S)
        /\ Len(SubSeq(s, a, l)) = IF a <= l THEN l - a + 1 ELSE 0
        /\ \A i \in 1 .. l - a + 1 : SubSeq(s, a, l)[i] = s[a + i - 1]
    BY <1>1, <2>1, <2>2, SubSeqProperties
  <2>4. PICK u \in Seq(S) : u = SubSeq(s, a, l)
    BY ONLY <2>3
  <2>5. Len(u) = l - n
    BY ONLY <1>1, <1>2, <2>1, <2>3, <2>4
  <2>6. \A i \in 1 .. l - n : u[i] = s[n + i]
    <3>1. TAKE i \in 1 .. l - n
    <3>2. i \in 1 .. l - a + 1 /\ a + i - 1 = n + i
      BY ONLY <1>1, <1>2, <2>1
    <3> QED
      BY ONLY <2>3, <2>4, <3>2
  <2> QED
    BY ONLY <2>1, <2>4, <2>5, <2>6
<1> QED
  BY ONLY <1>1, <1>4, <1>5

\* read() moves bytes from the kernel into the chunk; a late one is damage.
LEMMA ReadStep == ASSUME NEW n \in 1 .. Len(wire) PROVE IInv /\ Read(n) => IInv'
<1> SUFFICES ASSUME IInv, Read(n) PROVE IInv'
  OBVIOUS
<1>1. Base /\ Types /\ wire \in Seq(Bytes)
  BY DEF IInv, Base, Types
<1>2. /\ chunk = <<>> /\ ~fault
      /\ chunk' = IF n % CountRange = CountRange - 1
                  THEN <<>> ELSE SubSeq(wire, 1, n % CountRange)
      /\ IF n >= CountRange - 1 THEN Hit("late") ELSE UNCHANGED damage
      /\ wire' = SubSeq(wire, n + 1, Len(wire))
      /\ UNCHANGED << todo, written, handed, rxVars >>
  BY DEF Read
<1>3. PICK l \in Nat, r \in Nat, c \in Nat :
         /\ l = Len(wire) /\ r = n % CountRange /\ c = CountRange /\ c >= 2
         /\ n \in Nat /\ n >= 1 /\ n <= l /\ r < c /\ (n < c => r = n)
  <2>1. Len(wire) \in Nat
    BY <1>1, Positions
  <2>2. n \in Nat /\ n >= 1 /\ n <= Len(wire)
    BY ONLY <2>1, n \in 1 .. Len(wire)
  <2>3. CountRange \in Nat /\ CountRange >= 2
    BY ONLY CountAssumption
  <2> QED
    BY ONLY <2>1, <2>2, <2>3, Counted
<1>4. r <= n /\ r \in 0 .. l /\ n \in 0 .. l
  BY ONLY <1>3
<1>5. /\ SubSeq(wire, 1, r) \in Seq(Bytes) /\ Len(SubSeq(wire, 1, r)) = r
      /\ \A i \in 1 .. r : SubSeq(wire, 1, r)[i] = wire[i]
      /\ wire' \in Seq(Bytes) /\ Len(wire') = l - n
      /\ \A i \in 1 .. l - n : wire'[i] = wire[n + i]
  BY ONLY <1>1, <1>2, <1>3, <1>4, Pieces
<1>6. chunk' \in Seq(Bytes)
  BY ONLY <1>2, <1>3, <1>5, EmptySeq
<1>7. RxP!IInv' /\ HeldInv' /\ held' = held /\ fault' = fault
  BY <1>1, <1>2, ReceiverRests DEF Base
<1>8. ASSUME damage' \in [cut : Nat, late : Nat, noise : Nat] PROVE Base'
  BY <1>1, <1>2, <1>5, <1>6, <1>7, <1>8 DEF Base, Types
<1>9. CASE n >= c - 1
  <2>1. damage' \in [cut : Nat, late : Nat, noise : Nat] /\ ~Undamaged'
    BY <1>1, <1>2, <1>3, <1>9, HitCounts
  <2> QED
    BY <1>8, <2>1, AfterDamage
<1>10. CASE n < c - 1
  <2>1. damage' = damage
    BY <1>2, <1>3, <1>10
  <2>2. r = n /\ r # c - 1
    BY ONLY <1>3, <1>10
  <2>3. chunk' = SubSeq(wire, 1, r)
    BY ONLY <1>2, <1>3, <2>2
  <2>4. Len(chunk') = n /\ \A i \in 1 .. n : chunk'[i] = wire[i]
    BY ONLY <1>5, <2>2, <2>3
  <2>5. Base'
    BY <1>1, <1>8, <2>1 DEF Types
  <2>6. Sent' = Sent /\ Len(chunk) = 0
    BY <1>2 DEF Sent
  <2>7. Taken' = Taken /\ Taken \in Int /\ Taken' + Len(chunk') = Taken + n
    <3>1. Sent \in Nat
      BY <1>1, Positions
    <3> QED
      BY ONLY <1>3, <1>5, <2>4, <2>6, <3>1 DEF Taken
  <2>8. Faults' = Faults /\ (Undamaged' <=> Undamaged)
    BY <2>1 DEF Faults, Undamaged
  <2>9. Streamed'
    <3> SUFFICES ASSUME Undamaged'
                 PROVE  /\ \A k \in 1 .. Len(wire') :
                              Carries(written', (Taken' + Len(chunk')) + k, wire'[k])
                        /\ \A k \in 1 .. Len(chunk') : Carries(written', Taken' + k, chunk'[k])
                        /\ ~fault' => \A k \in 1 .. Len(held') :
                                         Carries(written', (Taken' - Len(held')) + k, held'[k])
      BY DEF Streamed
    <3>1. /\ \A k \in 1 .. l : Carries(written, (Taken + 0) + k, wire[k])
          /\ \A k \in 1 .. Len(held) : Carries(written, (Taken - Len(held)) + k, held[k])
          /\ written' = written
      <4>1. Undamaged /\ Streamed /\ ~fault /\ written' = written
        BY <1>2, <2>8 DEF IInv
      <4>2. /\ \A k \in 1 .. Len(wire) : Carries(written, (Taken + Len(chunk)) + k, wire[k])
            /\ \A k \in 1 .. Len(held) : Carries(written, (Taken - Len(held)) + k, held[k])
        BY ONLY <4>1 DEF Streamed
      <4> QED
        BY ONLY <1>3, <2>6, <4>1, <4>2
    <3>2. PICK t \in Int : t = Taken
      BY ONLY <2>7
    <3>3. ASSUME NEW k \in 1 .. n PROVE Carries(written, t + k, chunk'[k])
      <4>1. k \in 1 .. l /\ (t + 0) + k = t + k
        BY ONLY <1>3, <3>2, <3>3
      <4>2. Carries(written, (t + 0) + k, wire[k])
        BY ONLY <3>1, <3>2, <4>1
      <4>3. chunk'[k] = wire[k]
        BY ONLY <2>4, <3>3
      <4> QED
        BY ONLY <4>1, <4>2, <4>3
    <3>4. ASSUME NEW k \in 1 .. l - n PROVE Carries(written, (t + n) + k, wire'[k])
      <4>1. PICK j \in 1 .. l : j = n + k /\ (t + 0) + j = (t + n) + k
        BY ONLY <1>3, <3>2, <3>4
      <4>2. Carries(written, (t + 0) + j, wire[j])
        BY ONLY <3>1, <3>2, <4>1
      <4>3. wire'[k] = wire[j]
        BY ONLY <1>5, <3>4, <4>1
      <4> QED
        BY ONLY <4>1, <4>2, <4>3
    <3> QED
      BY ONLY <1>5, <1>7, <2>4, <2>7, <3>1, <3>2, <3>3, <3>4
  <2>10. InStep' /\ SurvivesShortWrites' /\ Caught'
    BY <1>2, <1>7, <2>7, <2>8 DEF IInv, InStep, SurvivesShortWrites, Caught
  <2> QED
    BY <2>5, <2>9, <2>10 DEF IInv
<1> QED
  BY ONLY <1>3, <1>9, <1>10

\* What a thread takes from its queue is a payload in its frame.
LEMMA WriteFacts ==
    ASSUME Types, NEW t \in Thread, todo[t] # <<>>
    PROVE  \E p \in Payload :
              Head(todo[t]).payload = p /\ Head(todo[t]).frame = Frame(p)
<1>1. todo[t] \in Seq(Packets)
  BY DEF Types
<1>2. Head(todo[t]) \in Packets
  BY <1>1, HeadTailProperties
<1>3. PICK p \in Payload : Head(todo[t]) = Packet(p)
  BY <1>2 DEF Packets
<1> QED
  BY <1>3 DEF Packet

\* The log after a frame, and the bytes of it.
LEMMA WriteLog ==
    ASSUME Base, NEW p \in Payload, NEW c, c.payload = p, c.frame = Frame(p),
           NEW n \in 1 .. Len(Frame(p)), written' = Log(c, n),
           wire' = wire \o SubSeq(Frame(p), 1, n), chunk' = chunk
    PROVE  /\ IsLog(written)' /\ Grown(written, written', p, n)
           /\ wire' \in Seq(Bytes) /\ Len(wire') = Len(wire) + n
           /\ \A k \in 1 .. Len(wire) : wire'[k] = wire[k]
           /\ \A k \in 1 .. n : wire'[Len(wire) + k] = Frame(p)[k]
           /\ n \in Nat /\ n >= 1 /\ Sent' = Sent + n /\ Taken' = Taken
<1>1. /\ IsLog(written) /\ wire \in Seq(Bytes) /\ Len(wire) \in Nat
      /\ Len(written) \in Nat /\ Sent \in Nat /\ Len(chunk) \in Nat
  BY Positions DEF Base, Types
<1>2. written' = Append(written, [payload |-> p, frame |-> Frame(p), count |-> n,
                                  start |-> EndAt(written, Len(written))])
  BY DEF Log, End, EndAt
<1>3. IsLog(written') /\ Grown(written, written', p, n)
  BY ONLY <1>1, <1>2, p \in Payload, n \in 1 .. Len(Frame(p)), LogGrows
<1>4. PICK f \in Seq(Bytes), m \in Nat : f = Frame(p) /\ m = Len(f)
  BY FrameLayout
<1>5. n \in Nat /\ n >= 1 /\ n \in 0 .. m
  BY ONLY <1>4, n \in 1 .. Len(Frame(p))
<1>6. /\ SubSeq(f, 1, n) \in Seq(Bytes) /\ Len(SubSeq(f, 1, n)) = n
      /\ \A i \in 1 .. n : SubSeq(f, 1, n)[i] = f[i]
  <2>1. n \in 0 .. Len(f)
    BY ONLY <1>4, <1>5
  <2> QED
    BY ONLY <1>4, <2>1, Pieces
<1>7. PICK u \in Seq(Bytes) : u = SubSeq(f, 1, n)
  BY ONLY <1>6
<1>8. wire' = wire \o u
  BY ONLY <1>4, <1>7, wire' = wire \o SubSeq(Frame(p), 1, n)
<1>9. /\ wire \o u \in Seq(Bytes) /\ Len(wire \o u) = Len(wire) + Len(u)
      /\ \A i \in 1 .. Len(wire) : (wire \o u)[i] = wire[i]
      /\ \A i \in 1 .. Len(u) : (wire \o u)[Len(wire) + i] = u[i]
  BY ONLY <1>1, <1>7, Joined
<1>10. /\ wire' \in Seq(Bytes) /\ Len(wire') = Len(wire) + n
       /\ \A i \in 1 .. Len(wire) : wire'[i] = wire[i]
       /\ \A i \in 1 .. n : wire'[Len(wire) + i] = Frame(p)[i]
  BY ONLY <1>4, <1>6, <1>7, <1>8, <1>9
<1>11. Sent' = Sent + n
  <2>1. EndAt(written', Len(written')) = EndAt(written, Len(written)) + n
    BY ONLY <1>3 DEF Grown
  <2> QED
    BY <2>1 DEF Sent
<1>12. Taken' = Taken
  BY ONLY <1>1, <1>5, <1>10, <1>11, chunk' = chunk DEF Taken
<1> QED
  BY ONLY <1>3, <1>5, <1>10, <1>11, <1>12

\* The facts of the step in which t writes the first n bytes of the frame of p.
Writes(p, n) ==
    /\ IsLog(written)' /\ Grown(written, written', p, n)
    /\ wire' \in Seq(Bytes) /\ Len(wire') = Len(wire) + n
    /\ \A k \in 1 .. Len(wire) : wire'[k] = wire[k]
    /\ \A k \in 1 .. n : wire'[Len(wire) + k] = Frame(p)[k]
    /\ n \in Nat /\ n >= 1 /\ Sent' = Sent + n /\ Taken' = Taken
    /\ UNCHANGED << chunk, handed, rxVars >>
    /\ damage' \in [cut : Nat, late : Nat, noise : Nat]
    /\ Undamaged' = Undamaged
    /\ Faults' = 0 => Faults = 0 /\ n = Len(Frame(p))

\* The whole step of a thread.
LEMMA WriteWrites ==
    ASSUME Base, NEW t \in Thread, Write(t)
    PROVE  Base' /\ \E p \in Payload, n \in Nat : Writes(p, n)
<1>1. Types
  BY DEF Base
<1>2. /\ todo[t] # <<>> /\ todo' = [todo EXCEPT ![t] = Tail(@)]
      /\ UNCHANGED << chunk, handed, rxVars >>
  BY DEF Write
<1>3. PICK c : c = Head(todo[t])
  OBVIOUS
<1>4. PICK p \in Payload : c.payload = p /\ c.frame = Frame(p)
  BY <1>1, <1>2, <1>3, WriteFacts
<1>5. PICK n \in 1 .. Len(Frame(p)) :
         /\ IF n < Len(Frame(p)) THEN Hit("cut") ELSE UNCHANGED damage
         /\ wire' = wire \o SubSeq(Frame(p), 1, n)
         /\ written' = Log(c, n)
  BY <1>3, <1>4 DEF Write
<1>6. /\ IsLog(written)' /\ Grown(written, written', p, n)
      /\ wire' \in Seq(Bytes) /\ Len(wire') = Len(wire) + n
      /\ \A k \in 1 .. Len(wire) : wire'[k] = wire[k]
      /\ \A k \in 1 .. n : wire'[Len(wire) + k] = Frame(p)[k]
      /\ n \in Nat /\ n >= 1 /\ Sent' = Sent + n /\ Taken' = Taken
  BY <1>2, <1>4, <1>5, WriteLog
<1>7. PICK m \in Nat : m = Len(Frame(p)) /\ n <= m
  <2>1. Len(Frame(p)) \in Nat
    BY FrameLayout
  <2> QED
    BY ONLY <2>1, n \in 1 .. Len(Frame(p))
<1>8. /\ damage' \in [cut : Nat, late : Nat, noise : Nat]
      /\ Undamaged' = Undamaged
      /\ Faults' = 0 => Faults = 0 /\ n = Len(Frame(p))
  <2>1. CASE n < m
    <3>1. Hit("cut")
      BY <1>5, <1>7, <2>1
    <3>2. /\ damage' \in [cut : Nat, late : Nat, noise : Nat] /\ Faults' # 0
          /\ damage'.late = damage.late /\ damage'.noise = damage.noise
      BY <1>1, <3>1, HitCounts
    <3> QED
      BY <3>2 DEF Undamaged
  <2>2. CASE n >= m
    <3>1. damage' = damage /\ n = m
      BY <1>5, <1>6, <1>7, <2>2
    <3> QED
      BY <1>1, <1>7, <3>1 DEF Types, Undamaged, Faults
  <2> QED
    BY <1>6, <1>7, <2>1, <2>2
<1>9. Writes(p, n)
  BY <1>2, <1>6, <1>8 DEF Writes
<1>10. todo' \in [Thread -> Seq(Packets)]
  <2>1. todo[t] \in Seq(Packets)
    BY <1>1 DEF Types
  <2>2. Tail(todo[t]) \in Seq(Packets)
    BY <1>2, <2>1, HeadTailProperties
  <2> QED
    BY <1>1, <1>2, <2>2 DEF Types
<1>11. RxP!IInv' /\ HeldInv'
  BY <1>2, ReceiverRests DEF Base
<1>12. Base'
  BY <1>1, <1>2, <1>6, <1>8, <1>10, <1>11 DEF Base, Types
<1> QED
  BY <1>6, <1>9, <1>12

\* The names of the numbers such a step is about.
LEMMA WritesPositions ==
    ASSUME Base, NEW p \in Payload, NEW n \in Nat, Writes(p, n)
    PROVE  /\ held' = held /\ fault' = fault /\ handed' = handed /\ chunk' = chunk
           /\ Taken' = Taken /\ Len(written') = Len(written) + 1
           /\ \A i \in 1 .. Len(written) : written'[i] = written[i]
           /\ \A i \in 0 .. Len(written) : EndAt(written', i) = EndAt(written, i)
           /\ written'[Len(written) + 1].frame = Frame(p)
           /\ written'[Len(written) + 1].count = n
           /\ written'[Len(written) + 1].start = Sent
           /\ EndAt(written', Len(written) + 1) = Sent + n
<1>1. held' = held /\ fault' = fault
  BY ReceiverRests DEF Base, Writes
<1>2. handed' = handed /\ chunk' = chunk /\ Taken' = Taken
  BY DEF Writes
<1>3. Grown(written, written', p, n)
  BY DEF Writes
<1>4. /\ Len(written') = Len(written) + 1
      /\ \A i \in 1 .. Len(written) : written'[i] = written[i]
      /\ \A i \in 0 .. Len(written) : EndAt(written', i) = EndAt(written, i)
      /\ written'[Len(written) + 1].frame = Frame(p)
      /\ written'[Len(written) + 1].count = n
      /\ written'[Len(written) + 1].start = EndAt(written, Len(written))
      /\ EndAt(written', Len(written) + 1) = EndAt(written, Len(written)) + n
  BY ONLY <1>3 DEF Grown
<1> QED
  BY <1>1, <1>2, <1>4 DEF Sent

\* The new bytes are behind all others.
LEMMA WritesStreamed ==
    ASSUME Base, Streamed, NEW p \in Payload, NEW n \in Nat, Writes(p, n)
    PROVE  Streamed'
<1> SUFFICES ASSUME Undamaged'
             PROVE  /\ \A k \in 1 .. Len(wire') :
                          Carries(written', (Taken' + Len(chunk')) + k, wire'[k])
                    /\ \A k \in 1 .. Len(chunk') : Carries(written', Taken' + k, chunk'[k])
                    /\ ~fault' => \A k \in 1 .. Len(held') :
                                     Carries(written', (Taken' - Len(held')) + k, held'[k])
  BY DEF Streamed
<1>1. Undamaged
  BY Zenon DEF Writes
<1>2. /\ \A k \in 1 .. Len(wire) : Carries(written, (Taken + Len(chunk)) + k, wire[k])
      /\ \A k \in 1 .. Len(chunk) : Carries(written, Taken + k, chunk[k])
      /\ ~fault => \A k \in 1 .. Len(held) :
                      Carries(written, (Taken - Len(held)) + k, held[k])
  BY ONLY Streamed, <1>1 DEF Streamed
<1>3. /\ \A x, b : Carries(written, x, b) => Carries(written', x, b)
      /\ \A k \in 1 .. n : Carries(written', EndAt(written, Len(written)) + k, Frame(p)[k])
  <2>1. IsLog(written) /\ IsLog(written') /\ Grown(written, written', p, n)
    BY DEF Base, Writes
  <2> QED
    BY ONLY <2>1, p \in Payload, n \in Nat, GrownCarries
<1>4. held' = held /\ fault' = fault /\ chunk' = chunk /\ Taken' = Taken
  BY WritesPositions
<1>5. PICK l \in Nat, c \in Nat, t \in Int, s \in Nat :
         l = Len(wire) /\ c = Len(chunk) /\ t = Taken /\ s = Sent /\ s = t + c + l
  BY Positions
<1>6. /\ Len(wire') = l + n
      /\ \A k \in 1 .. l : wire'[k] = wire[k]
      /\ \A k \in 1 .. n : wire'[l + k] = Frame(p)[k]
  BY ONLY Writes(p, n), <1>5 DEF Writes
<1>7. ASSUME NEW k \in 1 .. Len(wire') PROVE Carries(written', (t + c) + k, wire'[k])
  <2>1. CASE k \in 1 .. l
    BY ONLY <1>2, <1>3, <1>5, <1>6, <2>1
  <2>2. CASE k \notin 1 .. l
    <3>1. PICK j \in 1 .. n : k = l + j /\ s + j = (t + c) + k
      <4>1. PICK u \in Int : u = k /\ u >= 1 /\ u <= l + n /\ u > l
        BY ONLY <1>5, <1>6, <1>7, <2>2, n \in Nat
      <4>2. PICK j \in Int : j = u - l /\ j >= 1 /\ j <= n
        BY ONLY <1>5, <4>1, n \in Nat
      <4>3. u = l + j /\ s + j = (t + c) + u
        BY ONLY <1>5, <4>1, <4>2
      <4>4. j \in 1 .. n
        BY ONLY <4>2, n \in Nat
      <4> QED
        BY ONLY <4>1, <4>3, <4>4
    <3>2. Carries(written', s + j, Frame(p)[j])
      <4>1. s = EndAt(written, Len(written))
        BY <1>5 DEF Sent
      <4> QED
        BY ONLY <1>3, <3>1, <4>1
    <3>3. wire'[k] = Frame(p)[j]
      BY ONLY <1>6, <3>1
    <3> QED
      BY ONLY <3>1, <3>2, <3>3
  <2> QED
    BY <2>1, <2>2
<1> QED
  BY ONLY <1>2, <1>3, <1>4, <1>5, <1>7

\* A whole frame more does not bring the receiver out of step.
LEMMA WritesInStep ==
    ASSUME Base, InStep, NEW p \in Payload, NEW n \in Nat, Writes(p, n)
    PROVE  InStep'
<1> SUFFICES ASSUME Faults' = 0
             PROVE  /\ ~fault' /\ Len(handed') <= Len(written')
                    /\ \A i \in 1 .. Len(written') : Whole(written'[i])
                    /\ \A i \in 1 .. Len(handed') : handed'[i] = written'[i].payload
                    /\ EndAt(written', Len(handed')) + Len(held') = Taken'
                    /\ Len(handed') = Len(written') => held' = <<>>
                    /\ Len(handed') < Len(written') =>
                            Len(held') < Len(written'[Len(handed') + 1].frame)
  BY DEF InStep
<1>1. Faults = 0 /\ n = Len(Frame(p))
  BY DEF Writes
<1>2. PICK m \in Nat, d \in Nat : m = Len(written) /\ d = Len(handed) /\ d <= m
  <2>1. handed \in Seq(Seq(Bytes)) /\ Len(handed) <= Len(written)
    BY <1>1 DEF Base, Types, InStep
  <2>2. Len(handed) \in Nat
    BY ONLY <2>1, LenProperties
  <2> QED
    BY <2>1, <2>2, Positions
<1>3. /\ ~fault
      /\ \A i \in 1 .. m : Whole(written[i])
      /\ \A i \in 1 .. d : handed[i] = written[i].payload
      /\ EndAt(written, d) + Len(held) = Taken
      /\ d = m => held = <<>>
      /\ d < m => Len(held) < Len(written[d + 1].frame)
  BY <1>1, <1>2 DEF InStep
<1>4. /\ held' = held /\ fault' = fault /\ handed' = handed /\ Taken' = Taken
      /\ Len(written') = m + 1
      /\ \A i \in 1 .. m : written'[i] = written[i]
      /\ \A i \in 0 .. m : EndAt(written', i) = EndAt(written, i)
      /\ written'[m + 1].frame = Frame(p) /\ written'[m + 1].count = n
  BY <1>2, WritesPositions
<1>5. \A i \in 1 .. m + 1 : Whole(written'[i])
  <2>1. TAKE i \in 1 .. m + 1
  <2>2. i = m + 1 \/ i \in 1 .. m
    BY ONLY <1>2
  <2> QED
    BY ONLY <1>1, <1>3, <1>4, <2>2 DEF Whole
<1>6. \A i \in 1 .. d : handed'[i] = written'[i].payload
  BY ONLY <1>2, <1>3, <1>4
<1>7. EndAt(written', d) + Len(held') = Taken'
  <2>1. d \in 0 .. m
    BY ONLY <1>2
  <2> QED
    BY ONLY <1>3, <1>4, <2>1
<1>8. Len(held') < Len(written'[d + 1].frame)
  <2>1. CASE d = m
    <3>1. Len(held') = 0
      BY ONLY <1>3, <1>4, <2>1, EmptySeq
    <3>2. Len(Frame(p)) = Len(p) + 6 /\ Len(p) \in Nat
      BY FrameLayout
    <3> QED
      BY ONLY <1>4, <2>1, <3>1, <3>2
  <2>2. CASE d # m
    <3>1. d < m /\ d + 1 \in 1 .. m
      BY ONLY <1>2, <2>2
    <3> QED
      BY ONLY <1>3, <1>4, <3>1
  <2> QED
    BY <2>1, <2>2
<1>9. d <= m + 1 /\ d # m + 1
  BY ONLY <1>2
<1> QED
  BY ONLY <1>2, <1>3, <1>4, <1>5, <1>6, <1>7, <1>8, <1>9

\* The frame the receiver died of is still in the log.
LEMMA WritesSurvives ==
    ASSUME Base, SurvivesShortWrites, NEW p \in Payload, NEW n \in Nat, Writes(p, n)
    PROVE  SurvivesShortWrites'
<1> SUFFICES ASSUME fault', Undamaged'
             PROVE  \E i \in DOMAIN written' : HasEmptyHeader(written'[i])
  BY DEF SurvivesShortWrites
<1>1. Undamaged
  BY Zenon DEF Writes
<1>2. fault' = fault
  BY WritesPositions
<1>3. PICK i \in DOMAIN written : HasEmptyHeader(written[i])
  BY <1>1, <1>2 DEF SurvivesShortWrites
<1>4. PICK m \in Nat : m = Len(written)
  BY Positions
<1>5. /\ DOMAIN written = 1 .. m /\ DOMAIN written' = 1 .. Len(written')
  <2>1. written \in Seq(Slots) /\ written' \in Seq(Slots)
    BY DEF Base, Writes, IsLog
  <2> QED
    BY ONLY <1>4, <2>1, LenProperties
<1>6. Len(written') = m + 1 /\ written'[i] = written[i]
  BY <1>4, <1>5, WritesPositions
<1> QED
  BY ONLY <1>3, <1>4, <1>5, <1>6

\* The new frame has not begun to arrive, and the others owed were owed before.
LEMMA WritesCaught ==
    ASSUME Base, Caught, NEW p \in Payload, NEW n \in Nat, Writes(p, n)
    PROVE  Caught'
<1> SUFFICES ASSUME Undamaged', NEW i \in 1 .. Len(written'), OwedIn(written', i)
             PROVE  /\ Taken' >= EndAt(written', i) =>
                            Contains(handed', written'[i].payload)
                    /\ written'[i].start < Taken' /\ Taken' < EndAt(written', i) =>
                            ~fault' /\ Len(held') = Taken' - written'[i].start
  BY DEF Caught
<1>1. Undamaged
  BY Zenon DEF Writes
<1>2. PICK m \in Nat : m = Len(written)
  BY Positions
<1>3. /\ held' = held /\ fault' = fault /\ handed' = handed /\ Taken' = Taken
      /\ Len(written') = m + 1
      /\ \A j \in 1 .. m : written'[j] = written[j]
      /\ \A j \in 0 .. m : EndAt(written', j) = EndAt(written, j)
      /\ written'[m + 1].start = Sent /\ EndAt(written', m + 1) = Sent + n
  BY <1>2, WritesPositions
<1>4. CASE i = m + 1
  <2>1. PICK s \in Nat, t \in Int, k \in Nat, c \in Nat :
           s = Sent /\ t = Taken /\ k = Len(chunk) /\ c = Len(wire) /\ s = t + k + c
    BY Positions
  <2>2. n >= 1
    BY DEF Writes
  <2>3. t <= s /\ t < s + n
    BY ONLY <2>1, <2>2, n \in Nat
  <2>4. Taken' = t /\ EndAt(written', i) = s + n /\ written'[i].start = s
    BY ONLY <1>3, <1>4, <2>1
  <2> QED
    BY ONLY <2>1, <2>3, <2>4, n \in Nat
<1>5. CASE i # m + 1
  <2>1. i \in 1 .. m /\ i \in 0 .. m
    BY ONLY <1>2, <1>3, <1>5, i \in 1 .. Len(written')
  <2>2. OwedIn(written, i)
    <3>1. IsLog(written) /\ Grown(written, written', p, n)
      BY DEF Base, Writes
    <3> QED
      BY ONLY <1>2, <2>1, <3>1, OwedIn(written', i), GrownOwed
  <2>3. /\ Taken >= EndAt(written, i) => Contains(handed, written[i].payload)
        /\ written[i].start < Taken /\ Taken < EndAt(written, i) =>
                ~fault /\ Len(held) = Taken - written[i].start
    BY ONLY Caught, <1>1, <1>2, <2>1, <2>2 DEF Caught
  <2> QED
    BY ONLY <1>3, <2>1, <2>3
<1> QED
  BY <1>4, <1>5

\* A thread writes a frame, or the beginning of one.
LEMMA WriteStep == ASSUME NEW t \in Thread PROVE IInv /\ Write(t) => IInv'
<1> SUFFICES ASSUME IInv, Write(t) PROVE IInv'
  OBVIOUS
<1>1. Base /\ Streamed /\ InStep /\ SurvivesShortWrites /\ Caught
  BY DEF IInv
<1>2. Base' /\ \E p \in Payload, n \in Nat : Writes(p, n)
  BY <1>1, WriteWrites
<1>3. PICK p \in Payload, n \in Nat : Writes(p, n)
  BY <1>2
<1>4. Streamed' /\ InStep' /\ SurvivesShortWrites' /\ Caught'
  BY <1>1, <1>3, WritesStreamed, WritesInStep, WritesSurvives, WritesCaught
<1> QED
  BY <1>2, <1>4 DEF IInv

\* A function on 1 .. n is a sequence of length n.
LEMMA Listed ==
    ASSUME NEW S, NEW n \in Nat, NEW f \in [1 .. n -> S]
    PROVE  f \in Seq(S) /\ Len(f) = n
<1>1. f \in Seq(S)
  BY SeqDef
<1>2. PICK m \in Nat : m = Len(f) /\ DOMAIN f = 1 .. m
  BY <1>1, LenProperties
<1>3. 1 .. n = 1 .. m
  BY <1>2
<1>4. m = n
  BY ONLY <1>3, m \in Nat, n \in Nat
<1> QED
  BY <1>1, <1>2, <1>4

\* At first nothing has been written, and the receiver waits for a start byte.
LEMMA InitStep == Init => IInv
<1> SUFFICES ASSUME Init PROVE IInv
  OBVIOUS
<1>1. PICK tr \in Traffics :
         todo = [t \in Thread |-> [i \in DOMAIN tr[t] |-> Packet(tr[t][i])]]
  BY DEF Init
<1>2. /\ written = <<>> /\ wire = <<>> /\ chunk = <<>> /\ handed = <<>>
      /\ damage = [cut |-> 0, late |-> 0, noise |-> 0] /\ RxP!Init
  BY SameReceiver DEF Init
<1>3. ASSUME NEW t \in Thread
      PROVE  [i \in DOMAIN tr[t] |-> Packet(tr[t][i])] \in Seq(Packets)
  <2>1. /\ tr[t] \in Seq(Seq(Bytes))
        /\ \A i \in DOMAIN tr[t] :
              Len(tr[t][i]) \in 1 .. MaxPayload /\ Crc(tr[t][i]) \in Word
    <3>1. tr \in Traffics /\ t \in Thread
      BY <1>1
    <3> QED
      BY ONLY <3>1, TrafficAssumption, Zenon
  <2>2. PICK n \in Nat : n = Len(tr[t]) /\ DOMAIN tr[t] = 1 .. n
    BY ONLY <2>1, LenProperties
  <2>3. ASSUME NEW i \in 1 .. n PROVE Packet(tr[t][i]) \in Packets
    <3>1. Len(tr[t][i]) \in 1 .. MaxPayload /\ Crc(tr[t][i]) \in Word
      BY ONLY <2>1, <2>2, <2>3
    <3>2. Marked(tr[t][i])
      <4>1. tr \in Traffics /\ t \in Thread /\ i \in DOMAIN tr[t]
        BY <1>1, <2>2
      <4> QED
        BY ONLY <4>1, MixedHeaderAssumption, Zenon
    <3>3. tr[t][i] \in Seq(Bytes)
      BY ONLY <2>1, <2>2, ElementOfSeq
    <3>4. tr[t][i] \in Payload
      BY ONLY <3>1, <3>2, <3>3 DEF Payload
    <3> QED
      BY ONLY <3>4 DEF Packets
  <2>4. [i \in 1 .. n |-> Packet(tr[t][i])] \in [1 .. n -> Packets]
    BY ONLY <2>3
  <2>5. [i \in 1 .. n |-> Packet(tr[t][i])] \in Seq(Packets)
    BY ONLY <2>2, <2>4, Listed
  <2> QED
    BY ONLY <2>2, <2>5
<1>4. todo \in [Thread -> Seq(Packets)]
  BY ONLY <1>1, <1>3
<1>5. Types
  <2>1. /\ <<>> \in Seq(Bytes) /\ <<>> \in Seq(Seq(Bytes))
    OBVIOUS
  <2> QED
    BY <1>2, <1>4, <2>1 DEF Types
<1>6. RxP!IInv
  BY <1>2, RxAssumptions, RxP!InitInv
<1>7. held = <<>> /\ fault = FALSE
  BY <1>2 DEF RxP!Init, held, RxP!Held
<1>8. HeldInv
  <2>1. <<>> \in Seq(Bytes) /\ Len(<<>>) = 0
    OBVIOUS
  <2> QED
    BY ONLY <1>7, <2>1 DEF HeldInv
<1>9. IsLog(written) /\ Len(written) = 0 /\ Len(wire) = 0 /\ Len(chunk) = 0
      /\ Len(held) = 0 /\ Len(handed) = 0
  <2>1. <<>> \in Seq(Slots) /\ Len(<<>>) = 0
    OBVIOUS
  <2> QED
    BY ONLY <1>2, <1>7, <2>1 DEF IsLog
<1>10. Base
  BY <1>5, <1>6, <1>8, <1>9 DEF Base
<1>11. Sent = 0 /\ Taken = 0
  BY ONLY <1>9 DEF Sent, Taken, EndAt
<1>12. Streamed
  BY ONLY <1>9 DEF Streamed
<1>13. InStep
  BY ONLY <1>7, <1>9, <1>11 DEF InStep, EndAt
<1>14. SurvivesShortWrites
  BY <1>7 DEF SurvivesShortWrites
<1>15. Caught
  BY ONLY <1>9 DEF Caught
<1> QED
  BY <1>10, <1>12, <1>13, <1>14, <1>15 DEF IInv

\* Every step keeps the invariant.
LEMMA NextStep == IInv /\ [Next]_vars => IInv'
<1> SUFFICES ASSUME IInv, [Next]_vars PROVE IInv'
  OBVIOUS
<1>1. ASSUME NEW t \in Thread, Write(t) PROVE IInv'
  BY <1>1, WriteStep
<1>2. ASSUME NEW t \in Thread, NotSent(t) PROVE IInv'
  BY <1>2, NotSentStep
<1>3. CASE ReadSome
  BY <1>3, ReadStep DEF ReadSome
<1>4. CASE Receive
  BY <1>4, ReceiveStep
<1>5. CASE ReceiveGarbled
  BY <1>5, ReceiveGarbledStep
<1>6. CASE LoseByte
  BY <1>6, LoseByteStep
<1>7. CASE UNCHANGED vars
  BY <1>7, StutterStep
<1> QED
  BY <1>1, <1>2, <1>3, <1>4, <1>5, <1>6, <1>7 DEF Next

\* The invariant holds whatever is written, however write() and read() cut the bytes
\* into pieces, and whatever the line does to them.
THEOREM Invariance == Spec => []IInv
  BY InitStep, NextStep, PTL DEF Spec

-----------------------------------------------------------------------------
(* What it says.                                                           *)

\* When the line is empty the receiver has had every byte put on it.
LEMMA DrainedTaken == Base /\ Drained => Taken = Sent
<1> SUFFICES ASSUME Base, Drained PROVE Taken = Sent
  OBVIOUS
<1>1. Len(wire) = 0 /\ Len(chunk) = 0
  BY DEF Drained
<1> QED
  BY ONLY <1>1, Base, Positions

\* A receiver in step has handed over what was written.
LEMMA InOrder == IInv => CleanLineInOrder
<1> SUFFICES ASSUME IInv, Faults = 0
             PROVE  /\ IsPrefix(handed, Payloads(written))
                    /\ Drained => handed = Payloads(written)
  BY DEF CleanLineInOrder
<1>1. Base /\ IsLog(written) /\ handed \in Seq(Seq(Bytes))
  BY DEF IInv, Base, Types
<1>2. /\ Len(handed) <= Len(written)
      /\ \A i \in 1 .. Len(handed) : handed[i] = written[i].payload
      /\ EndAt(written, Len(handed)) + Len(held) = Taken
      /\ Len(handed) < Len(written) =>
              Len(held) < Len(written[Len(handed) + 1].frame)
      /\ \A i \in 1 .. Len(written) : Whole(written[i])
  BY DEF IInv, InStep
<1>3. PICK m \in Nat, d \in Nat, h \in Nat, s \in Nat :
         m = Len(written) /\ d = Len(handed) /\ h = Len(held) /\ s = Sent /\ d <= m
  <2>1. Len(handed) \in Nat
    BY ONLY <1>1, LenProperties
  <2> QED
    BY <1>1, <1>2, <2>1, Positions
<1>4. PICK w \in Seq(Seq(Bytes)) :
         w = Payloads(written) /\ Len(w) = m /\ \A i \in 1 .. m : w[i] = written[i].payload
  <2>1. DOMAIN written = 1 .. m
    BY <1>1, <1>3, LenProperties DEF IsLog
  <2>2. \A i \in 1 .. m : written[i].payload \in Seq(Bytes)
    BY <1>1, <1>3, SlotFacts, PayloadSize
  <2>3. Payloads(written) = [i \in 1 .. m |-> written[i].payload]
    BY ONLY <2>1 DEF Payloads
  <2>4. [i \in 1 .. m |-> written[i].payload] \in [1 .. m -> Seq(Bytes)]
    BY ONLY <2>2
  <2>5. /\ [i \in 1 .. m |-> written[i].payload] \in Seq(Seq(Bytes))
        /\ Len([i \in 1 .. m |-> written[i].payload]) = m
    BY ONLY <1>3, <2>4, Listed
  <2> QED
    BY ONLY <2>3, <2>5
<1>5. \A i \in 1 .. d : handed[i] = w[i]
  BY ONLY <1>2, <1>3, <1>4
<1>6. IsPrefix(handed, w)
  <2>1. d \in 0 .. Len(handed) /\ d \in 0 .. Len(w)
    BY ONLY <1>3, <1>4
  <2>2. /\ SubSeq(handed, 1, d) \in Seq(Seq(Bytes)) /\ Len(SubSeq(handed, 1, d)) = d
        /\ \A i \in 1 .. d : SubSeq(handed, 1, d)[i] = handed[i]
    BY ONLY <1>1, <2>1, Pieces
  <2>3. /\ SubSeq(w, 1, d) \in Seq(Seq(Bytes)) /\ Len(SubSeq(w, 1, d)) = d
        /\ \A i \in 1 .. d : SubSeq(w, 1, d)[i] = w[i]
    BY ONLY <1>4, <2>1, Pieces
  <2>4. SubSeq(handed, 1, d) = SubSeq(w, 1, d)
    BY ONLY <1>5, <2>2, <2>3, SeqEqual
  <2> QED
    BY ONLY <1>3, <1>4, <2>4 DEF IsPrefix
<1>7. ASSUME Drained PROVE handed = w
  <2>1. EndAt(written, d) + h = EndAt(written, m)
    BY <1>1, <1>2, <1>3, <1>7, DrainedTaken DEF Sent
  <2>2. d = m
    <3>1. SUFFICES ASSUME d < m PROVE FALSE
      BY ONLY <1>3, <3>1
    <3>2. PICK i \in 1 .. m : i = d + 1 /\ i - 1 = d
      BY ONLY <1>3, <3>1
    <3>3. /\ written[i].start \in Nat /\ EndAt(written, i) \in Nat
          /\ Len(written[i].frame) \in Nat
          /\ EndAt(written, i) = written[i].start + written[i].count
          /\ EndAt(written, i) <= EndAt(written, m)
      BY ONLY <1>1, <1>3, <3>2, SlotFacts
    <3>4. written[i].start = EndAt(written, d)
      BY ONLY <1>1, <1>3, <3>2 DEF IsLog
    <3>5. written[i].count = Len(written[i].frame) /\ h < Len(written[i].frame)
      BY ONLY <1>2, <1>3, <3>1, <3>2 DEF Whole
    <3>6. EndAt(written, m) \in Nat
      BY <1>3 DEF Sent
    <3> QED
      BY ONLY <1>3, <2>1, <3>3, <3>4, <3>5, <3>6
  <2>3. Len(handed) = Len(w) /\ \A i \in 1 .. Len(handed) : handed[i] = w[i]
    BY ONLY <1>3, <1>4, <1>5, <2>2
  <2> QED
    BY ONLY <1>1, <1>4, <2>3, SeqEqual
<1> QED
  BY <1>4, <1>6, <1>7

\* What is owed has arrived when nothing is left on the line.
LEMMA Bounded == IInv => BoundedLoss
<1> SUFFICES ASSUME IInv, Drained, Undamaged, NEW i \in DOMAIN written, Owed(i)
             PROVE  Contains(handed, written[i].payload)
  BY DEF BoundedLoss
<1>1. Base /\ IsLog(written)
  BY DEF IInv, Base
<1>2. i \in 1 .. Len(written)
  BY <1>1, LenProperties DEF IsLog
<1>3. OwedIn(written, i)
  BY DEF Owed, OwedIn, Extent
<1>4. Taken >= EndAt(written, i) => Contains(handed, written[i].payload)
  BY <1>2, <1>3 DEF IInv, Caught
<1>5. Taken >= EndAt(written, i)
  <2>1. EndAt(written, i) <= EndAt(written, Len(written))
    BY ONLY <1>1, <1>2, SlotFacts
  <2>2. Taken = EndAt(written, Len(written))
    BY <1>1, DrainedTaken DEF Sent
  <2>3. EndAt(written, i) \in Nat /\ EndAt(written, Len(written)) \in Nat
    <3>1. Sent \in Nat
      BY <1>1, Positions
    <3> QED
      BY <1>1, <1>2, <3>1, SlotFacts DEF Sent
  <2> QED
    BY ONLY <2>1, <2>2, <2>3
<1> QED
  BY <1>4, <1>5

\* While no write() is cut short, no read() exceeds the count and the line is clean,
\* the payloads sent by all the threads arrive in the order written, with no gap, and
\* all of them once the line is empty: for any number of threads and frames, any
\* payloads, and however read() cuts the bytes into pieces.
THEOREM CleanLine == Spec => []CleanLineInOrder
  BY InOrder, Invariance, PTL

\* Frames that write() cut short cannot make the receiver store through NULL unless one
\* of them has a start byte followed by two zeros inside.
THEOREM ShortWritesSurvived == Spec => []SurvivesShortWrites
<1>1. IInv => SurvivesShortWrites
  BY DEF IInv
<1> QED
  BY <1>1, Invariance, PTL

\* A frame cut short costs the frames that start within the length it announced, and
\* no other: every later one has arrived once the line is empty.
THEOREM LossBounded == Spec => []BoundedLoss
  BY Bounded, Invariance, PTL

-----------------------------------------------------------------------------
(* What is handed over.                                                    *)

\* s is a whole frame as the receiver tells one, and lies on the line behind position x.
Appears(w, s, x) ==
    /\ s \in Seq(Bytes) /\ RxP!Framing!WellFormed(s)
    /\ \A k \in 1 .. Len(s) : Carries(w, x + k, s[k])

\* Payload p was taken from such a frame, between positions x and y.
Framed(w, p, x, y) ==
    \E s \in Seq(Bytes) : Appears(w, s, x) /\ y = x + Len(s) /\ RxP!Framing!PayloadOf(s) = p

\* The payloads h were taken from frames one behind the other, up to position t.
FramedUpTo(w, h, t) ==
    \E x, y \in [1 .. Len(h) -> Int] :
        /\ \A j \in 1 .. Len(h) : Framed(w, h[j], x[j], y[j]) /\ y[j] <= t
        /\ \A j, k \in 1 .. Len(h) : j < k => y[j] <= x[k]

\* On an undamaged line each payload handed over came, in this order and once, as a
\* frame of the bytes written, before the bytes the receiver holds.
HandedAsFramed == Undamaged => FramedUpTo(written, handed, Taken - Len(held))

\* Bytes written later leave that as it is.
LEMMA FramedStays ==
    ASSUME NEW w, NEW v, NEW h, NEW t \in Int, NEW u \in Int, t <= u,
           \A z, b : Carries(w, z, b) => Carries(v, z, b), FramedUpTo(w, h, t)
    PROVE  FramedUpTo(v, h, u)
<1>1. PICK x \in [1 .. Len(h) -> Int], y \in [1 .. Len(h) -> Int] :
         /\ \A j \in 1 .. Len(h) : Framed(w, h[j], x[j], y[j]) /\ y[j] <= t
         /\ \A j, k \in 1 .. Len(h) : j < k => y[j] <= x[k]
  BY Zenon DEF FramedUpTo
<1>2. ASSUME NEW p, NEW a, NEW e, Framed(w, p, a, e) PROVE Framed(v, p, a, e)
  BY <1>2, Zenon DEF Framed, Appears
<1>3. \A j \in 1 .. Len(h) : y[j] <= u
  <2>1. TAKE j \in 1 .. Len(h)
  <2>2. y[j] \in Int /\ y[j] <= t
    BY <1>1
  <2> QED
    BY ONLY <2>2, t <= u, t \in Int, u \in Int
<1> QED
  BY <1>1, <1>2, <1>3, Zenon DEF FramedUpTo

\* One payload more, from a frame behind the others.
LEMMA FramedGrows ==
    ASSUME NEW w, NEW h \in Seq(Seq(Bytes)), NEW t \in Int, NEW u \in Int,
           FramedUpTo(w, h, t), NEW p \in Seq(Bytes), Framed(w, p, t, u), t <= u
    PROVE  FramedUpTo(w, Append(h, p), u)
<1>1. PICK n \in Nat : n = Len(h)
  BY LenProperties
<1>2. PICK x \in [1 .. n -> Int], y \in [1 .. n -> Int] :
         /\ \A j \in 1 .. n : Framed(w, h[j], x[j], y[j]) /\ y[j] <= t
         /\ \A j, k \in 1 .. n : j < k => y[j] <= x[k]
  BY ONLY <1>1, FramedUpTo(w, h, t), Zenon DEF FramedUpTo
<1>3. PICK g : g = Append(h, p)
  OBVIOUS
<1>4. Len(g) = n + 1 /\ g[n + 1] = p /\ \A j \in 1 .. n : g[j] = h[j]
  BY <1>1, <1>3, AppendProperties
<1> DEFINE a == [j \in 1 .. n + 1 |-> IF j = n + 1 THEN t ELSE x[j]]
           e == [j \in 1 .. n + 1 |-> IF j = n + 1 THEN u ELSE y[j]]
<1>5. \A j \in 1 .. n + 1 : j = n + 1 \/ j \in 1 .. n
  BY ONLY <1>1
<1>6. a \in [1 .. n + 1 -> Int] /\ e \in [1 .. n + 1 -> Int]
  BY ONLY <1>2, <1>5, t \in Int, u \in Int
<1>7. /\ n + 1 \in 1 .. n + 1 /\ a[n + 1] = t /\ e[n + 1] = u
      /\ \A j \in 1 .. n : j \in 1 .. n + 1 /\ a[j] = x[j] /\ e[j] = y[j]
  <2>1. n + 1 \in 1 .. n + 1 /\ \A j \in 1 .. n : j \in 1 .. n + 1 /\ j # n + 1
    BY ONLY <1>1
  <2> QED
    BY ONLY <2>1
<1> HIDE DEF a, e
<1>8. ASSUME NEW j \in 1 .. n + 1 PROVE Framed(w, g[j], a[j], e[j]) /\ e[j] <= u
  <2>1. CASE j = n + 1
    BY ONLY <1>4, <1>7, <2>1, Framed(w, p, t, u), u \in Int
  <2>2. CASE j \in 1 .. n
    <3>1. Framed(w, g[j], a[j], e[j])
      BY ONLY <1>2, <1>4, <1>7, <2>2
    <3>2. e[j] <= u
      <4>1. e[j] = y[j] /\ y[j] \in Int /\ y[j] <= t
        BY ONLY <1>2, <1>7, <2>2
      <4> QED
        BY ONLY <4>1, t <= u, t \in Int, u \in Int
    <3> QED
      BY <3>1, <3>2
  <2> QED
    BY <1>5, <2>1, <2>2
<1>9. ASSUME NEW j \in 1 .. n + 1, NEW k \in 1 .. n + 1, j < k PROVE e[j] <= a[k]
  <2>1. j \in 1 .. n
    BY ONLY <1>1, <1>9
  <2>2. CASE k = n + 1
    BY ONLY <1>2, <1>7, <2>1, <2>2
  <2>3. CASE k \in 1 .. n
    BY ONLY <1>2, <1>7, <1>9, <2>1, <2>3
  <2> QED
    BY <1>5, <2>2, <2>3
<1>10. FramedUpTo(w, g, u)
  BY ONLY <1>4, <1>6, <1>8, <1>9, Zenon DEF FramedUpTo
<1> QED
  BY <1>3, <1>10

\* A byte of an undamaged line.
LEMMA ReceiveFramed ==
    ASSUME Base, Streamed, HandedAsFramed, Receive
    PROVE  HandedAsFramed'
<1> SUFFICES ASSUME Undamaged'
             PROVE  FramedUpTo(written', handed', Taken' - Len(held'))
  BY DEF HandedAsFramed
<1>1. /\ Undamaged /\ ~fault /\ Rx!Feed(Head(chunk)) /\ Head(chunk) \in Bytes
      /\ written' = written /\ Taken' = Taken + 1
      /\ handed' = IF got' = <<>> THEN handed ELSE Append(handed, got')
  BY ReceiveMoves DEF Undamaged
<1>2. PICK h \in Nat, t \in Int : h = Len(held) /\ t = Taken
  BY Positions
<1>3. FramedUpTo(written, handed, t - h)
  BY <1>1, <1>2 DEF HandedAsFramed
<1>4. PICK b \in Bytes : b = Head(chunk) /\ b = chunk[1] /\ Len(chunk) >= 1 /\ Rx!Feed(b)
  BY <1>1, NextOfChunk DEF Receive
<1>5. held \in Seq(Bytes) /\ Len(<<>>) = 0
  BY DEF Base, HeldInv
<1>6. PICK s \in Seq(Bytes) : s = Append(held, b)
  BY ONLY <1>4, <1>5, AppendProperties
<1>7. Len(s) = h + 1 /\ s[h + 1] = b /\ \A k \in 1 .. h : s[k] = held[k]
  BY ONLY <1>2, <1>4, <1>5, <1>6, AppendProperties
<1>8. CASE got' = <<>>
  <2>1. held' \in {<<>>, s, held}
    <3>1. \/ held' = <<>> \/ held' = Append(held, Head(chunk)) \/ held' = held
      BY ONLY Base, Receive, ReceiveHeld, Zenon
    <3> QED
      BY ONLY <1>4, <1>6, <3>1
  <2>2. Taken' - Len(held') \in Int /\ t - h <= Taken' - Len(held')
    BY ONLY <1>1, <1>2, <1>5, <1>7, <2>1
  <2>3. t - h \in Int
    BY ONLY <1>2
  <2>4. handed' = handed /\ written' = written
    BY ONLY <1>1, <1>8
  <2> QED
    BY ONLY <1>3, <2>2, <2>3, <2>4, FramedStays
<1>9. CASE got' # <<>>
  <2>1. RxP!Framing!Take(b)
    <3>1. RxP!Framing!Take(b) \/ RxP!Framing!Break
      BY <1>4, FeedByte DEF Base, Bytes
    <3>2. ~ RxP!Framing!Break
      BY <1>9 DEF RxP!Framing!Break
    <3> QED
      BY <3>1, <3>2
  <2>2. /\ held' = IF RxP!Framing!Viable(s) THEN s ELSE <<>>
        /\ got' = IF RxP!Framing!WellFormed(s) THEN RxP!Framing!PayloadOf(s) ELSE <<>>
    BY <1>6, <2>1 DEF RxP!Framing!Take, held
  <2>3. RxP!Framing!WellFormed(s) /\ got' = RxP!Framing!PayloadOf(s)
    BY ONLY <1>9, <2>2, Zenon
  <2>4. ~ RxP!Framing!Viable(s)
    <3>1. Len(s) >= 3 /\ RxP!Framing!Complete(s)
      BY ONLY <1>2, <1>7, <2>3 DEF RxP!Framing!WellFormed, RxP!Framing!Complete
    <3> QED
      BY ONLY <3>1 DEF RxP!Framing!Viable
  <2>5. held' = <<>> /\ handed' = Append(handed, got')
    BY ONLY <1>1, <1>9, <2>2, <2>4, Zenon
  <2>6. PICK a \in Int, e \in Int : a = t - h /\ e = t + 1 /\ e = a + Len(s) /\ a <= e
    <3>1. t - h \in Int /\ t + 1 \in Int /\ t + 1 = (t - h) + (h + 1) /\ t - h <= t + 1
      BY ONLY <1>2
    <3> QED
      BY ONLY <1>7, <3>1, Zenon
  <2>7. ASSUME NEW k \in 1 .. Len(s) PROVE Carries(written, a + k, s[k])
    <3>1. CASE k = h + 1
      <4>1. PICK c \in Nat : c = Len(chunk) /\ 1 \in 1 .. c
        <5>1. PICK c \in Nat : c = Len(chunk)
          BY Positions
        <5> QED
          BY ONLY <1>4, <5>1
      <4>2. \A i \in 1 .. c : Carries(written, t + i, chunk[i])
        BY <1>1, <1>2, <4>1 DEF Streamed
      <4>3. Carries(written, t + 1, b)
        BY ONLY <1>4, <4>1, <4>2
      <4>4. a + k = t + 1 /\ s[k] = b
        BY ONLY <1>2, <1>7, <2>6, <3>1
      <4> QED
        BY ONLY <4>3, <4>4
    <3>2. CASE k # h + 1
      <4>1. k \in 1 .. h
        BY ONLY <1>2, <1>7, <2>7, <3>2
      <4>2. \A i \in 1 .. h : Carries(written, (t - h) + i, held[i])
        BY <1>1, <1>2 DEF Streamed
      <4> QED
        BY ONLY <1>7, <2>6, <4>1, <4>2
    <3> QED
      BY <3>1, <3>2
  <2>8. Framed(written, got', a, e)
    <3>1. Appears(written, s, a)
      BY ONLY <1>6, <2>3, <2>7 DEF Appears
    <3> QED
      BY ONLY <1>6, <2>3, <2>6, <3>1, Zenon DEF Framed
  <2>9. got' \in Seq(Bytes) /\ handed \in Seq(Seq(Bytes))
    <3>1. RxP!IInv'
      BY <1>4, FeedByte DEF Base, Bytes
    <3> QED
      BY <3>1 DEF RxP!IInv, RxP!Shape, Bytes, Base, Types
  <2>10. FramedUpTo(written, Append(handed, got'), e)
    BY ONLY <1>3, <2>6, <2>8, <2>9, FramedGrows
  <2>11. Taken' - Len(held') = e
    BY ONLY <1>1, <1>2, <1>5, <2>5, <2>6
  <2> QED
    BY ONLY <1>1, <2>5, <2>10, <2>11
<1> QED
  BY <1>8, <1>9

\* A frame written.
LEMMA WritesFramed ==
    ASSUME Base, HandedAsFramed, NEW p \in Payload, NEW n \in Nat, Writes(p, n)
    PROVE  HandedAsFramed'
<1> SUFFICES ASSUME Undamaged'
             PROVE  FramedUpTo(written', handed', Taken' - Len(held'))
  BY DEF HandedAsFramed
<1>1. Undamaged
  BY Zenon DEF Writes
<1>2. FramedUpTo(written, handed, Taken - Len(held))
  BY ONLY HandedAsFramed, <1>1 DEF HandedAsFramed
<1>3. \A z, b : Carries(written, z, b) => Carries(written', z, b)
  <2>1. IsLog(written) /\ IsLog(written') /\ Grown(written, written', p, n)
    BY DEF Base, Writes
  <2> QED
    BY ONLY <2>1, p \in Payload, n \in Nat, GrownCarries
<1>4. held' = held /\ handed' = handed /\ Taken' = Taken
  BY WritesPositions
<1>5. PICK t \in Int : t = Taken - Len(held) /\ t <= t
  BY Positions
<1>6. FramedUpTo(written', handed, t)
  BY ONLY <1>2, <1>3, <1>5, FramedStays
<1> QED
  BY ONLY <1>4, <1>5, <1>6

\* The other steps that damage nothing hand over nothing and take no byte.
LEMMA RestFramed ==
    ASSUME Base, HandedAsFramed, damage' = damage,
           UNCHANGED << written, handed, rxVars >>,
           Len(wire') + Len(chunk') = Len(wire) + Len(chunk),
           Len(wire') \in Nat, Len(chunk') \in Nat
    PROVE  HandedAsFramed'
<1>1. held' = held
  BY ReceiverRests DEF Base
<1>2. Taken' = Taken
  <2>1. Sent' = Sent
    BY DEF Sent
  <2>2. Sent \in Nat /\ Len(wire) \in Nat /\ Len(chunk) \in Nat
    BY Positions
  <2> QED
    BY ONLY <2>1, <2>2, Len(wire') + Len(chunk') = Len(wire) + Len(chunk),
            Len(wire') \in Nat, Len(chunk') \in Nat DEF Taken
<1> QED
  BY <1>1, <1>2 DEF HandedAsFramed, Undamaged

\* A read() that fits into the count moves bytes from the line to the chunk.
LEMMA ReadFramed ==
    ASSUME IInv, HandedAsFramed, NEW n \in 1 .. Len(wire), Read(n)
    PROVE  HandedAsFramed'
<1>1. Base /\ Types /\ wire \in Seq(Bytes)
  BY DEF IInv, Base, Types
<1>2. /\ chunk = <<>>
      /\ chunk' = IF n % CountRange = CountRange - 1
                  THEN <<>> ELSE SubSeq(wire, 1, n % CountRange)
      /\ IF n >= CountRange - 1 THEN Hit("late") ELSE UNCHANGED damage
      /\ wire' = SubSeq(wire, n + 1, Len(wire))
      /\ UNCHANGED << written, handed, rxVars >>
  BY DEF Read
<1>3. PICK l \in Nat, r \in Nat, c \in Nat :
         /\ l = Len(wire) /\ r = n % CountRange /\ c = CountRange
         /\ n \in Nat /\ n <= l /\ (n < c => r = n)
  <2>1. Len(wire) \in Nat
    BY <1>1, Positions
  <2>2. n \in Nat /\ n >= 1 /\ n <= Len(wire)
    BY ONLY <2>1, n \in 1 .. Len(wire)
  <2>3. CountRange \in Nat /\ CountRange >= 2
    BY ONLY CountAssumption
  <2> QED
    BY ONLY <2>1, <2>2, <2>3, Counted
<1>4. CASE n >= c - 1
  <2>1. ~Undamaged'
    BY <1>1, <1>2, <1>3, <1>4, HitCounts
  <2> QED
    BY <2>1 DEF HandedAsFramed
<1>5. CASE n < c - 1
  <2>1. damage' = damage
    BY <1>2, <1>3, <1>5
  <2>2. r = n /\ r # c - 1 /\ n \in 0 .. l
    BY ONLY <1>3, <1>5
  <2>3. chunk' = SubSeq(wire, 1, n)
    BY ONLY <1>2, <1>3, <2>2
  <2>4. Len(SubSeq(wire, 1, n)) = n /\ Len(wire') = l - n
    BY ONLY <1>1, <1>2, <1>3, <2>2, Pieces
  <2>5. Len(chunk) = 0
    BY ONLY <1>2, EmptySeq
  <2>6. /\ Len(wire') + Len(chunk') = Len(wire) + Len(chunk)
        /\ Len(wire') \in Nat /\ Len(chunk') \in Nat
    BY ONLY <1>3, <2>2, <2>3, <2>4, <2>5
  <2> QED
    BY <1>1, <1>2, <2>1, <2>6, RestFramed
<1> QED
  BY ONLY <1>3, <1>4, <1>5

\* Every step keeps it.
LEMMA NextFramed == IInv /\ HandedAsFramed /\ [Next]_vars => HandedAsFramed'
<1> SUFFICES ASSUME IInv, HandedAsFramed, [Next]_vars PROVE HandedAsFramed'
  OBVIOUS
<1>1. Base /\ Streamed /\ damage \in [cut : Nat, late : Nat, noise : Nat]
  BY DEF IInv, Base, Types
<1>2. Len(wire) \in Nat /\ Len(chunk) \in Nat
  BY <1>1, Positions
<1>3. ASSUME NEW t \in Thread, Write(t) PROVE HandedAsFramed'
  <2>1. \E p \in Payload, n \in Nat : Writes(p, n)
    BY <1>1, <1>3, WriteWrites
  <2>2. PICK p \in Payload, n \in Nat : Writes(p, n)
    BY <2>1
  <2> QED
    BY <1>1, <2>2, WritesFramed
<1>4. ASSUME NEW t \in Thread, NotSent(t) PROVE HandedAsFramed'
  BY <1>1, <1>2, <1>4, RestFramed DEF NotSent
<1>5. CASE ReadSome
  BY <1>5, ReadFramed DEF ReadSome
<1>6. CASE Receive
  BY <1>1, <1>6, ReceiveFramed
<1>7. CASE ReceiveGarbled \/ LoseByte
  <2>1. ~Undamaged'
    <3>1. Hit("noise") /\ Types
      BY <1>1, <1>7 DEF ReceiveGarbled, LoseByte, Base
    <3> QED
      BY <3>1, HitCounts
  <2> QED
    BY <2>1 DEF HandedAsFramed
<1>8. CASE UNCHANGED vars
  BY <1>1, <1>2, <1>8, RestFramed DEF vars
<1> QED
  BY <1>3, <1>4, <1>5, <1>6, <1>7, <1>8 DEF Next

\* At first nothing has been handed over.
LEMMA InitFramed == Init => HandedAsFramed
<1> SUFFICES ASSUME Init PROVE FramedUpTo(written, handed, Taken - Len(held))
  BY DEF HandedAsFramed
<1>1. Len(handed) = 0
  BY DEF Init
<1> DEFINE x == [j \in 1 .. 0 |-> 0]
<1>2. x \in [1 .. Len(handed) -> Int] /\ ~ \E j \in 1 .. Len(handed) : TRUE
  BY ONLY <1>1
<1> HIDE DEF x
<1> QED
  BY ONLY <1>2, Zenon DEF FramedUpTo

\* Whatever write() cuts short, whatever the payloads and however read() cuts the bytes
\* into pieces: what the receiver hands over on an undamaged line is, payload by
\* payload, taken from disjoint stretches of the bytes written, in their order, each
\* with a header, a length and a checksum that fit.  No byte counts twice, and none
\* comes from a block of the receiver that an earlier frame has left filled.
THEOREM PayloadsComeAsFrames == Spec => []HandedAsFramed
<1>1. Init => HandedAsFramed
  BY InitFramed
<1>2. IInv /\ HandedAsFramed /\ [Next]_vars => HandedAsFramed'
  BY NextFramed
<1> QED
  BY <1>1, <1>2, Invariance, PTL DEF Spec

\* The checksum tells: nothing on the line looks like a frame but the whole frames
\* written.  (Where a frame is cut short its first bytes and the bytes of the next ones
\* may fit a checksum of 16 bits by chance, and a payload may contain a frame.)
ChecksumTells ==
    \A s \in Seq(Bytes), x \in Int : Appears(written, s, x) =>
        \E i \in 1 .. Len(written) :
            Whole(written[i]) /\ written[i].start = x /\ written[i].frame = s

\* The payload of a frame.
LEMMA PayloadOfFrame ==
    ASSUME NEW p \in Payload
    PROVE  RxP!Framing!PayloadOf(Frame(p)) = p
<1>1. PICK l \in Nat : l = Len(p) /\ l <= 65535
  BY PayloadSize
<1>2. PICK f \in Seq(Bytes) : f = Frame(p)
  BY FrameLayout
<1>3. /\ Len(f) = l + 6 /\ f[2] = l % 256 /\ f[3] = l \div 256
      /\ \A i \in 1 .. l : f[3 + i] = p[i]
  BY ONLY FrameLayout, <1>1, <1>2
<1>4. f[2] + 256 * f[3] = l
  BY ONLY Halves, <1>1, <1>3
<1>5. \A i \in 4 .. 3 + l : f[i] \in Bytes
  <2>1. \A i \in 4 .. 3 + l : i \in 1 .. Len(f)
    BY ONLY <1>1, <1>3
  <2> QED
    BY ONLY <1>2, <2>1, ElementOfSeq
<1>6. /\ SubSeq(f, 4, 3 + l) \in Seq(Bytes) /\ Len(SubSeq(f, 4, 3 + l)) = l
      /\ \A i \in 1 .. l : SubSeq(f, 4, 3 + l)[i] = f[3 + i]
  BY <1>1, <1>5, SubSeqProperties
<1>7. PICK u \in Seq(Bytes) : u = SubSeq(f, 4, 3 + l)
  BY ONLY <1>6
<1>8. Len(u) = Len(p) /\ \A i \in 1 .. Len(u) : u[i] = p[i]
  BY ONLY <1>1, <1>3, <1>6, <1>7
<1>9. u = p
  <2>1. p \in Seq(Bytes)
    BY PayloadSize
  <2> QED
    BY ONLY <1>7, <1>8, <2>1, SeqEqual
<1> QED
  BY ONLY <1>2, <1>4, <1>7, <1>9 DEF RxP!Framing!PayloadOf, RxP!Framing!Declared

\* Stretches one behind the other are those of frames one behind the other.
LEMMA FramesAreInOrder ==
    ASSUME NEW w, IsLog(w), NEW i \in 1 .. Len(w), NEW j \in 1 .. Len(w),
           EndAt(w, i) <= w[j].start
    PROVE  i < j
<1>1. PICK a \in Nat, c \in Nat : a = EndAt(w, i) /\ c >= 1 /\ a = w[i].start + c /\ w[i].start \in Nat
  BY SlotFacts
<1>2. PICK b \in Nat, d \in Nat : b = EndAt(w, j) /\ d >= 1 /\ b = w[j].start + d /\ w[j].start \in Nat
  BY SlotFacts
<1>3. i \in Nat /\ j \in Nat
  BY EndIsNat
<1>4. j < i => b <= w[i].start
  BY ONLY IsLog(w), <1>2, i \in 1 .. Len(w), j \in 1 .. Len(w) DEF IsLog
<1>5. i # j
  BY ONLY <1>1, <1>2, EndAt(w, i) <= w[j].start
<1> QED
  BY ONLY <1>1, <1>2, <1>3, <1>4, <1>5, EndAt(w, i) <= w[j].start

\* Then what is handed over was sent.
LEMMA ToldApart ==
    ASSUME Base, HandedAsFramed, Undamaged, ChecksumTells
    PROVE  NothingInvented
<1>1. PICK n \in Nat : n = Len(handed)
  <2>1. handed \in Seq(Seq(Bytes))
    BY DEF Base, Types
  <2> QED
    BY ONLY <2>1, LenProperties
<1>2. PICK x \in [1 .. n -> Int], y \in [1 .. n -> Int] :
         /\ \A j \in 1 .. n : Framed(written, handed[j], x[j], y[j])
         /\ \A j, k \in 1 .. n : j < k => y[j] <= x[k]
  <2>1. FramedUpTo(written, handed, Taken - Len(held))
    BY DEF HandedAsFramed
  <2> QED
    BY ONLY <1>1, <2>1, Zenon DEF FramedUpTo
<1> DEFINE Of(j, i) ==
             /\ Whole(written[i]) /\ written[i].payload = handed[j]
             /\ written[i].start = x[j] /\ EndAt(written, i) = y[j]
<1>3. IsLog(written)
  BY DEF Base
<1>4. ASSUME NEW j \in 1 .. n PROVE \E i \in 1 .. Len(written) : Of(j, i)
  <2>1. PICK s \in Seq(Bytes) :
           /\ Appears(written, s, x[j]) /\ y[j] = x[j] + Len(s)
           /\ RxP!Framing!PayloadOf(s) = handed[j]
    BY ONLY <1>2, <1>4, Zenon DEF Framed
  <2>2. x[j] \in Int
    BY ONLY <1>2, <1>4
  <2>3. PICK i \in 1 .. Len(written) :
           Whole(written[i]) /\ written[i].start = x[j] /\ written[i].frame = s
    BY ONLY ChecksumTells, <2>1, <2>2, Zenon DEF ChecksumTells
  <2>4. /\ written[i].payload \in Payload /\ written[i].frame = Frame(written[i].payload)
        /\ EndAt(written, i) = written[i].start + written[i].count
    BY ONLY <1>3, <2>3, SlotFacts
  <2>5. written[i].payload = handed[j]
    BY ONLY <2>1, <2>3, <2>4, PayloadOfFrame
  <2>6. EndAt(written, i) = y[j]
    BY ONLY <2>1, <2>3, <2>4 DEF Whole
  <2> QED
    BY ONLY <2>3, <2>5, <2>6, Zenon
<1> DEFINE m == [j \in 1 .. n |-> CHOOSE i \in 1 .. Len(written) : Of(j, i)]
<1>5. ASSUME NEW j \in 1 .. n PROVE m[j] \in 1 .. Len(written) /\ Of(j, m[j])
  <2> HIDE DEF Of
  <2>1. m[j] = CHOOSE i \in 1 .. Len(written) : Of(j, i)
    OBVIOUS
  <2> QED
    BY ONLY <1>4, <1>5, <2>1, Zenon
<1>6. m \in [1 .. n -> 1 .. Len(written)]
  BY ONLY <1>5
<1> HIDE DEF m
<1>7. ASSUME NEW j \in 1 .. n, NEW k \in 1 .. n, j < k PROVE m[j] < m[k]
  <2>1. EndAt(written, m[j]) <= written[m[k]].start
    BY ONLY <1>2, <1>5, <1>7
  <2>2. m[j] \in 1 .. Len(written) /\ m[k] \in 1 .. Len(written)
    BY ONLY <1>5, <1>7
  <2> QED
    BY ONLY <1>3, <2>1, <2>2, FramesAreInOrder
<1>8. \A j \in 1 .. n : Whole(written[m[j]]) /\ written[m[j]].payload = handed[j]
  BY ONLY <1>5
<1> QED
  BY ONLY <1>1, <1>6, <1>7, <1>8, Zenon DEF NothingInvented

\* Where every write() took its whole frame the checksum is not needed.
LEMMA CleanInvents ==
    ASSUME IInv, Faults = 0
    PROVE  NothingInvented
<1>1. PICK n \in Nat, l \in Nat : n = Len(handed) /\ l = Len(written) /\ n <= l
  <2>1. handed \in Seq(Seq(Bytes)) /\ Len(handed) <= Len(written) /\ Base
    BY DEF IInv, Base, Types, InStep
  <2> QED
    BY ONLY <2>1, LenProperties, Positions
<1>2. /\ \A i \in 1 .. l : Whole(written[i])
      /\ \A i \in 1 .. n : handed[i] = written[i].payload
  BY <1>1 DEF IInv, InStep
<1> DEFINE m == [j \in 1 .. n |-> j]
<1>3. \A j \in 1 .. n : j \in 1 .. l
  BY ONLY <1>1
<1>4. m \in [1 .. n -> 1 .. l] /\ \A j \in 1 .. n : m[j] = j
  BY ONLY <1>3
<1> HIDE DEF m
<1>5. /\ \A j, k \in 1 .. n : j < k => m[j] < m[k]
      /\ \A j \in 1 .. n : Whole(written[m[j]]) /\ written[m[j]].payload = handed[j]
  BY ONLY <1>2, <1>3, <1>4
<1> QED
  BY ONLY <1>1, <1>4, <1>5, Zenon DEF NothingInvented

\* Nothing is invented, repeated or put out of order on a clean line, whatever the
\* payloads contain; and on a line where write() has cut frames short nothing is as
\* long as no other bytes look like a frame.
THEOREM OnlyWhatWasSent ==
    Spec => [](Faults = 0 \/ (Undamaged /\ ChecksumTells) => NothingInvented)
<1>1. IInv /\ HandedAsFramed =>
          (Faults = 0 \/ (Undamaged /\ ChecksumTells) => NothingInvented)
  BY ToldApart, CleanInvents DEF IInv
<1> QED
  BY <1>1, Invariance, PayloadsComeAsFrames, PTL

=============================================================================
