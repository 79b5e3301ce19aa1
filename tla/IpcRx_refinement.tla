-------------------------- MODULE IpcRx_refinement --------------------------
(***************************************************************************)
(* The frame handler implements the framing: for every stream of bytes,    *)
(* every payload limit and every checksum, what the state machine of IpcRx *)
(* hands over are the payloads of the well-formed frames of IpcFraming.    *)
(***************************************************************************)
EXTENDS IpcRx_proofs

\* The two bytes of a 16-bit field, put together and taken apart.
LEMMA LowByte ==
    ASSUME NEW lo \in Nat, lo <= 255, NEW hi \in Nat, hi <= 255
    PROVE  /\ lo + 256 * hi \in Nat /\ lo + 256 * hi <= 65535
           /\ (lo + 256 * hi) % 256 = lo
           /\ (lo + 256 * hi) \div 256 = hi
  OBVIOUS

\* And taken apart and put together.
LEMMA TwoBytes ==
    ASSUME NEW n \in Nat, n <= 65535
    PROVE  /\ n % 256 \in Nat /\ n % 256 <= 255
           /\ n \div 256 \in Nat /\ n \div 256 <= 255
           /\ (n % 256) + 256 * (n \div 256) = n
  OBVIOUS

\* What a byte that the machine survives is to the framing: it is given up for want
\* of memory only where memory can be wanting.
Framed(b) == Framing!Take(b) \/ (MallocMayFail /\ Framing!GiveUp(b))

\* A byte that leaves a prefix of a frame which is none yet.
LEMMA KeptByte ==
    ASSUME NEW b \in Byte, ~fault, fault' = fault, got' = <<>>,
           Held' = Append(Held, b),
           ~ (Len(Held) = 3 /\ Framing!Declared(Held) = 0),
           Framing!Viable(Append(Held, b)), ~Framing!Complete(Append(Held, b))
    PROVE  Framing!Take(b)
  BY DEF Framing!Take, Framing!WellFormed

\* What is held of a frame from its second length byte on, as a sequence.
LEMMA HeaderAndPayload ==
    ASSUME IInv
    PROVE  /\ Header \in Seq(U8) /\ Len(Header) = 3
           /\ Header[1] = StartByte
           /\ Header[2] + 256 * Header[3] = len
           /\ buf \in Seq(U8)
           /\ Header \o buf \in Seq(U8)
           /\ Len(Header \o buf) = 3 + Len(buf)
           /\ \A i \in 1 .. 3 : (Header \o buf)[i] = Header[i]
           /\ \A i \in 1 .. Len(buf) : (Header \o buf)[3 + i] = buf[i]
<1>1. len \in Nat /\ len <= 65535
  BY Widths DEF IInv, Shape
<1>2. buf \in Seq(U8)
  BY ByteAssumption, SeqMonotonic DEF IInv, Shape
<1>3. len % 256 \in U8 /\ len \div 256 \in U8
  BY <1>1, TwoBytes, Widths
<1>4. StartByte \in U8
  BY ByteAssumption
<1>5. /\ Header \in Seq(U8) /\ Len(Header) = 3 /\ Header[1] = StartByte
      /\ Header[2] = len % 256 /\ Header[3] = len \div 256
  BY <1>3, <1>4 DEF Header
<1>6. Header[2] + 256 * Header[3] = len
  BY <1>1, <1>5, TwoBytes
<1>7. Len(buf) \in Nat
  BY <1>2
<1>8. /\ Header \o buf \in Seq(U8)
      /\ Len(Header \o buf) = Len(Header) + Len(buf)
      /\ \A i \in 1 .. Len(Header) + Len(buf) :
            (Header \o buf)[i] = IF i <= Len(Header) THEN Header[i]
                                  ELSE buf[i - Len(Header)]
  BY ONLY <1>2, <1>5, ConcatProperties
<1>9. \A i \in 1 .. 3 : (Header \o buf)[i] = Header[i]
  BY <1>5, <1>7, <1>8
<1>10. \A i \in 1 .. Len(buf) : (Header \o buf)[3 + i] = buf[i]
  BY <1>5, <1>7, <1>8
<1> QED
  BY <1>2, <1>5, <1>6, <1>8, <1>9, <1>10

\* The first three bytes of a frame, one after the other.
LEMMA FirstBytes ==
    ASSUME NEW a \in U8, NEW c \in U8, NEW d \in U8
    PROVE  /\ Append(<<>>, a) = << a >> /\ Len(<< a >>) = 1
           /\ Append(<< a >>, c) = << a, c >> /\ Len(<< a, c >>) = 2
           /\ Append(<< a, c >>, d) = << a, c, d >> /\ Len(<< a, c, d >>) = 3
           /\ << a, c, d >> \in Seq(U8)
<1>1. /\ <<>> \in Seq(U8) /\ << a >> \in Seq(U8) /\ << a, c >> \in Seq(U8)
      /\ << a, c, d >> \in Seq(U8)
      /\ Len(<<>>) = 0 /\ Len(<< a >>) = 1 /\ Len(<< a, c >>) = 2
      /\ Len(<< a, c, d >>) = 3
      /\ << a >>[1] = a
      /\ << a, c >>[1] = a /\ << a, c >>[2] = c
      /\ << a, c, d >>[1] = a /\ << a, c, d >>[2] = c /\ << a, c, d >>[3] = d
  OBVIOUS
<1>2. Append(<<>>, a) = << a >>
  <2>1. /\ Append(<<>>, a) \in Seq(U8) /\ Len(Append(<<>>, a)) = 1
        /\ Append(<<>>, a)[1] = a
    BY <1>1, AppendProperties
  <2>2. \A i \in 1 .. 1 : Append(<<>>, a)[i] = << a >>[i]
    BY <1>1, <2>1
  <2> QED
    BY ONLY <1>1, <2>1, <2>2, SeqEqual
<1>3. Append(<< a >>, c) = << a, c >>
  <2>1. /\ Append(<< a >>, c) \in Seq(U8) /\ Len(Append(<< a >>, c)) = 2
        /\ Append(<< a >>, c)[1] = a /\ Append(<< a >>, c)[2] = c
    BY <1>1, AppendProperties
  <2>2. \A i \in 1 .. 2 : Append(<< a >>, c)[i] = << a, c >>[i]
    BY <1>1, <2>1
  <2> QED
    BY ONLY <1>1, <2>1, <2>2, SeqEqual
<1>4. Append(<< a, c >>, d) = << a, c, d >>
  <2>1. /\ Append(<< a, c >>, d) \in Seq(U8) /\ Len(Append(<< a, c >>, d)) = 3
        /\ Append(<< a, c >>, d)[1] = a /\ Append(<< a, c >>, d)[2] = c
        /\ Append(<< a, c >>, d)[3] = d
    BY <1>1, AppendProperties
  <2>2. \A i \in 1 .. 3 : Append(<< a, c >>, d)[i] = << a, c, d >>[i]
    BY <1>1, <2>1
  <2> QED
    BY ONLY <1>1, <2>1, <2>2, SeqEqual
<1> QED
  BY <1>1, <1>2, <1>3, <1>4

\* One more byte behind a sequence, and behind one that a byte was put behind.
LEMMA Trailer ==
    ASSUME NEW p \in Seq(U8), NEW c \in U8, NEW d \in U8
    PROVE  /\ Append(p, c) = p \o << c >>
           /\ Append(p \o << c >>, d) = p \o << c, d >>
           /\ p \o << c, d >> \in Seq(U8) /\ Len(p \o << c, d >>) = Len(p) + 2
           /\ \A i \in 1 .. Len(p) : (p \o << c, d >>)[i] = p[i]
           /\ (p \o << c, d >>)[Len(p) + 1] = c
           /\ (p \o << c, d >>)[Len(p) + 2] = d
<1>1. /\ << c >> \in Seq(U8) /\ << d >> \in Seq(U8) /\ << c, d >> \in Seq(U8)
      /\ Len(<< c, d >>) = 2 /\ << c, d >>[1] = c /\ << c, d >>[2] = d
      /\ Len(p) \in Nat
  OBVIOUS
<1>2. Append(p, c) = p \o << c >> /\ p \o << c >> \in Seq(U8)
  BY <1>1, AppendIsConcat, ConcatProperties
<1>3. Append(p \o << c >>, d) = (p \o << c >>) \o << d >>
  BY <1>2, AppendIsConcat
<1>4. (p \o << c >>) \o << d >> = p \o (<< c >> \o << d >>)
  BY <1>1, ConcatAssociative
<1>5. << c >> \o << d >> = << c, d >>
  BY <1>1, FirstBytes, AppendIsConcat
<1>6. /\ p \o << c, d >> \in Seq(U8)
      /\ Len(p \o << c, d >>) = Len(p) + Len(<< c, d >>)
      /\ \A i \in 1 .. Len(p) + Len(<< c, d >>) :
            (p \o << c, d >>)[i] = IF i <= Len(p) THEN p[i]
                                   ELSE << c, d >>[i - Len(p)]
  BY ONLY <1>1, ConcatProperties
<1>7. /\ \A i \in 1 .. Len(p) : (p \o << c, d >>)[i] = p[i]
      /\ (p \o << c, d >>)[Len(p) + 1] = c
      /\ (p \o << c, d >>)[Len(p) + 2] = d
  BY <1>1, <1>6
<1> QED
  BY <1>1, <1>2, <1>3, <1>4, <1>5, <1>6, <1>7

\* The parts of it that the middle step needs.
LEMMA AppendTwo ==
    \A p \in Seq(U8), c \in U8, d \in U8 :
        Append(p \o << c >>, d) = p \o << c, d >>
<1> SUFFICES ASSUME NEW p \in Seq(U8), NEW c \in U8, NEW d \in U8
             PROVE  Append(p \o << c >>, d) = p \o << c, d >>
  OBVIOUS
<1> QED
  BY ONLY Trailer

LEMMA KeepsPrefix ==
    \A p \in Seq(U8), c \in U8, d \in U8 :
        /\ Len(p \o << c, d >>) = Len(p) + 2
        /\ \A i \in 1 .. Len(p) : (p \o << c, d >>)[i] = p[i]
<1> SUFFICES ASSUME NEW p \in Seq(U8), NEW c \in U8, NEW d \in U8
             PROVE  /\ Len(p \o << c, d >>) = Len(p) + 2
                    /\ \A i \in 1 .. Len(p) : (p \o << c, d >>)[i] = p[i]
  OBVIOUS
<1> QED
  BY ONLY Trailer

\* Before the payload: the bytes held are the first ones of a frame.
LEMMA EarlyStep ==
    ASSUME IInv, NEW b \in Byte, inited, ~fault,
           Idle(b) \/ Len1(b) \/ TooLong(b) \/ Allocate(b) \/ SkipAllocation(b)
    PROVE  Framed(b)
<1>1. b \in U8 /\ b \in Nat /\ b <= 255 /\ StartByte \in U8
  BY ByteAssumption, Widths
<1>2. CASE Idle(b)
  <2>1. Held = <<>> /\ Append(Held, b) = << b >> /\ Len(Append(Held, b)) = 1
    BY <1>1, <1>2, FirstBytes DEF Idle, Held
  <2>2. ~ Framing!Complete(Append(Held, b)) /\ Len(Held) = 0
    BY <2>1 DEF Framing!Complete
  <2>3. Framing!Viable(Append(Held, b)) <=> b = StartByte
    BY <2>1 DEF Framing!Viable
  <2>4. Held' = IF b = StartByte THEN << b >> ELSE <<>>
    BY <1>2 DEF Idle, Held
  <2> QED
    BY <1>2, <2>1, <2>2, <2>3, <2>4
    DEF Idle, Quiet, Framed, Framing!Take, Framing!WellFormed
<1>3. CASE Len1(b)
  <2>1. Held = << StartByte >> /\ Append(Held, b) = << StartByte, b >>
    BY <1>1, <1>3, FirstBytes DEF Len1, Held
  <2>2. Len(Held) = 1 /\ Len(Append(Held, b)) = 2
    BY <1>1, <2>1, FirstBytes
  <2>3. Framing!Viable(Append(Held, b)) /\ ~ Framing!Complete(Append(Held, b))
    BY <2>1, <2>2 DEF Framing!Viable, Framing!Complete
  <2>4. Held' = Append(Held, b)
    BY <1>3, <2>1 DEF Len1, Held
  <2> QED
    BY <1>3, <2>2, <2>3, <2>4, KeptByte DEF Framed, Len1, Quiet
<1>4. ASSUME st = "LEN2"
      PROVE  /\ len \in U8 /\ len \in Nat /\ len <= 255
             /\ Held = << StartByte, len >> /\ Len(Held) = 2
             /\ Append(Held, b) = << StartByte, len, b >>
             /\ Len(Append(Held, b)) = 3
             /\ Framing!Declared(Append(Held, b)) = len + 256 * b
             /\ ~ Framing!Complete(Append(Held, b))
             /\ Framing!Viable(Append(Held, b)) <=> len + 256 * b <= MaxPayload
  <2>1. len \in U8 /\ len \in Nat /\ len <= 255
    BY <1>4, Widths DEF IInv, Shape, FieldInv
  <2>2. Held = << StartByte, len >>
    BY <1>4 DEF Held
  <2>3. /\ Len(Held) = 2 /\ Append(Held, b) = << StartByte, len, b >>
        /\ Len(Append(Held, b)) = 3
    BY <1>1, <2>1, <2>2, FirstBytes
  <2>4. Framing!Declared(Append(Held, b)) = len + 256 * b
    BY <2>3 DEF Framing!Declared
  <2>5. ~ Framing!Complete(Append(Held, b))
    BY <2>3 DEF Framing!Complete
  <2>6. Framing!Viable(Append(Held, b)) <=> len + 256 * b <= MaxPayload
    BY <2>3, <2>4, <2>5 DEF Framing!Viable
  <2> QED
    BY <2>1, <2>2, <2>3, <2>4, <2>5, <2>6
<1>5. CASE TooLong(b)
  <2>1. /\ Len(Held) = 2 /\ ~ Framing!Complete(Append(Held, b))
        /\ ~ Framing!Viable(Append(Held, b))
    BY <1>1, <1>4, <1>5, SizeAssumption, Widths DEF TooLong
  <2>2. Held' = <<>>
    BY <1>5 DEF TooLong, Held
  <2> QED
    BY <1>5, <2>1, <2>2
    DEF TooLong, Quiet, Framed, Framing!Take, Framing!WellFormed
<1>6. CASE Allocate(b) \/ SkipAllocation(b)
  <2>1. st = "LEN2" /\ len + 256 * b <= MaxPayload /\ got' = <<>> /\ fault' = fault
    <3>1. MaxPayload \in Nat
      BY SizeAssumption, Widths
    <3>2. CASE Allocate(b)
      BY <1>1, <3>1, <3>2 DEF Allocate, Quiet
    <3>3. CASE SkipAllocation(b)
      BY <3>1, <3>3 DEF SkipAllocation, Quiet
    <3> QED
      BY <1>6, <3>2, <3>3
  <2>2. /\ Len(Held) = 2 /\ ~ Framing!Complete(Append(Held, b))
        /\ Framing!Viable(Append(Held, b))
    BY <1>4, <2>1
  <2>3. CASE st' = "IDLE"
    <3>1. Held' = <<>> /\ MallocMayFail
      BY <1>6, <2>3 DEF Held, Allocate, SkipAllocation
    <3> QED
      BY <2>1, <2>2, <3>1 DEF Framed, Framing!GiveUp
  <2>4. CASE st' = "PAYLOAD"
    <3>1. len' = len + 256 * b /\ buf' = <<>>
      BY <1>1, <1>4, <1>6, <2>1 DEF Allocate, SkipAllocation
    <3>2. len' % 256 = len /\ len' \div 256 = b
      <4>1. len \in Nat /\ len <= 255 /\ b \in Nat /\ b <= 255
        BY <1>1, <1>4, <2>1, Widths
      <4>2. (len + 256 * b) % 256 = len /\ (len + 256 * b) \div 256 = b
        BY ONLY <4>1, LowByte
      <4> QED
        BY ONLY <3>1, <4>2
    <3>3. Held' = << StartByte, len, b >> \o <<>>
      BY <2>4, <3>1, <3>2 DEF Held, Header
    <3>4. << StartByte, len, b >> \o <<>> = << StartByte, len, b >>
      BY <1>1, <1>4, <2>1, FirstBytes, ConcatEmptySeq
    <3> QED
      BY <1>4, <2>1, <2>2, <3>3, <3>4, KeptByte DEF Framed
  <2> QED
    BY <1>6, <2>3, <2>4 DEF Allocate, SkipAllocation
<1> QED
  BY <1>2, <1>3, <1>5, <1>6

\* From the payload to the second byte of the checksum: one more byte of a frame
\* that has its length.
LEMMA MiddleStep ==
    ASSUME IInv, NEW b \in Byte, inited, ~fault, Store(b) \/ Crc1(b) \/ Crc2(b)
    PROVE  Framed(b)
<1> DEFINE s == Append(Held, b)
<1>1. /\ b \in U8 /\ b \in Nat /\ b <= 255 /\ len \in Nat /\ len <= 65535
      /\ crc \in Nat /\ MaxPayload \in Nat /\ cap \in Nat /\ cap <= MaxPayload
  BY ByteAssumption, SizeAssumption, Widths DEF IInv, Shape
<1>2. /\ st \in {"PAYLOAD", "CRC1", "CRC2"} /\ got' = <<>> /\ fault' = fault
      /\ len' = len /\ len > 0 /\ len <= MaxPayload
      /\ Len(buf) <= len
  <2>1. CASE Store(b)
    BY <1>1, <2>1 DEF Store, Quiet, IInv, Shape, StoresInBounds
  <2>2. CASE Crc1(b) \/ Crc2(b)
    <3>1. /\ st \in {"CRC1", "CRC2"} /\ got' = <<>> /\ fault' = fault
          /\ len' = len
      BY <2>2 DEF Crc1, Crc2, Quiet
    <3>2. cap = len /\ Len(buf) = cap /\ cap > 0
      BY <3>1 DEF IInv, StoresInBounds
    <3> QED
      BY <1>1, <3>1, <3>2
  <2> QED
    BY <2>1, <2>2
<1>3. /\ Header \o buf \in Seq(U8) /\ Len(Header \o buf) = 3 + Len(buf)
      /\ \A i \in 1 .. 3 : (Header \o buf)[i] = Header[i]
      /\ Header[1] = StartByte /\ Header[2] + 256 * Header[3] = len
      /\ Header \in Seq(U8) /\ buf \in Seq(U8) /\ Len(buf) \in Nat
  BY HeaderAndPayload
<1>4. SUFFICES
        /\ Held' = s
        /\ Len(s) \in Nat /\ 3 < Len(s) /\ Len(s) < len + 6
        /\ s[1] = StartByte /\ s[2] + 256 * s[3] = len
        /\ Len(Held) = 3 => Held[2] + 256 * Held[3] = len
  <2>1. ~ Framing!Complete(s) /\ Framing!Viable(s)
    BY <1>1, <1>2, <1>4 DEF Framing!Complete, Framing!Viable, Framing!Declared
  <2>2. ~ (Len(Held) = 3 /\ Framing!Declared(Held) = 0)
    BY <1>1, <1>2, <1>4 DEF Framing!Declared
  <2> QED
    BY <1>2, <1>4, <2>1, <2>2, KeptByte DEF Framed
<1>5. CASE Store(b) \/ Crc1(b)
  <2>1. Held = Header \o buf
    BY <1>5 DEF Store, Crc1, Held
  <2>2. /\ Len(s) = 4 + Len(buf) /\ s[1] = StartByte
        /\ s[2] = Header[2] /\ s[3] = Header[3]
        /\ s = (Header \o buf) \o << b >>
    <3>1. s = Append(Header \o buf, b)
      BY <2>1
    <3>2. /\ Len(Append(Header \o buf, b)) = Len(Header \o buf) + 1
          /\ \A i \in 1 .. Len(Header \o buf) :
                Append(Header \o buf, b)[i] = (Header \o buf)[i]
          /\ Append(Header \o buf, b) = (Header \o buf) \o << b >>
      BY ONLY <1>1, <1>3, AppendProperties, AppendIsConcat
    <3>3. \A i \in 1 .. 3 : Append(Header \o buf, b)[i] = Header[i]
      BY <1>3, <3>2
    <3> QED
      BY <1>3, <3>1, <3>2, <3>3
  <2>3. Held' = s
    <3>1. CASE Store(b)
      <4>1. Held' = Header \o Append(buf, b)
        BY <1>2, <3>1 DEF Store, Held, Header
      <4>2. Append(buf, b) = buf \o << b >> /\ << b >> \in Seq(U8)
        BY <1>1, <1>3, AppendIsConcat
      <4>3. Header \o (buf \o << b >>) = (Header \o buf) \o << b >>
        BY ONLY <1>3, <4>2, ConcatAssociative
      <4> QED
        BY <2>2, <4>1, <4>2, <4>3
    <3>2. CASE Crc1(b)
      BY <1>2, <2>2, <3>2 DEF Crc1, KeepBuffer, Held, Header
    <3> QED
      BY <1>5, <3>1, <3>2
  <2>4. Held[2] + 256 * Held[3] = len
    BY <1>3, <2>1
  <2>5. Len(buf) <= len /\ len \in Nat
    BY <1>1, <1>2
  <2> QED
    BY ONLY <1>3, <2>2, <2>3, <2>4, <2>5
<1>6. CASE Crc2(b)
  <2>1. crc <= 255 /\ crc \in U8 /\ Len(buf) = len
    BY <1>1, <1>6, Widths DEF Crc2, IInv, FieldInv, StoresInBounds
  <2>2. Held = Header \o buf \o << crc >>
    BY <1>6 DEF Crc2, Held
  <2>3. /\ s = Header \o buf \o << crc, b >> /\ Len(s) = 5 + Len(buf)
        /\ s[1] = StartByte /\ s[2] = Header[2] /\ s[3] = Header[3]
    <3>1. s = Append(Header \o buf \o << crc >>, b)
      BY <2>2
    <3>2. /\ Append(Header \o buf \o << crc >>, b) = Header \o buf \o << crc, b >>
          /\ Len(Header \o buf \o << crc, b >>) = Len(Header \o buf) + 2
          /\ \A i \in 1 .. Len(Header \o buf) :
                (Header \o buf \o << crc, b >>)[i] = (Header \o buf)[i]
      <4>1. crc \in U8 /\ b \in U8 /\ Header \o buf \in Seq(U8)
        BY <1>1, <1>3, <2>1
      <4>2. PICK p \in Seq(U8) : p = Header \o buf
        BY ONLY <4>1
      <4>3. /\ Append(p \o << crc >>, b) = p \o << crc, b >>
            /\ Len(p \o << crc, b >>) = Len(p) + 2
            /\ \A i \in 1 .. Len(p) : (p \o << crc, b >>)[i] = p[i]
        <5>1. Append(p \o << crc >>, b) = p \o << crc, b >>
          BY ONLY <4>1, AppendTwo
        <5>2. /\ Len(p \o << crc, b >>) = Len(p) + 2
              /\ \A i \in 1 .. Len(p) : (p \o << crc, b >>)[i] = p[i]
          BY ONLY <4>1, KeepsPrefix
        <5> QED
          BY ONLY <5>1, <5>2
      <4> QED
        BY ONLY <4>2, <4>3
    <3>3. \A i \in 1 .. 3 : (Header \o buf \o << crc, b >>)[i] = Header[i]
      BY <1>3, <3>2
    <3> QED
      BY <1>3, <3>1, <3>2, <3>3
  <2>4. Len(Held) = 4 + Len(buf)
    <3>1. PICK p \in Seq(U8) : p = Header \o buf
      BY ONLY <1>3
    <3>2. p \o << crc >> = Append(p, crc) /\ Len(Append(p, crc)) = Len(p) + 1
      <4>1. Append(p, crc) = p \o << crc >>
        BY ONLY <2>1, <3>1, AppendIsConcat
      <4>2. Len(Append(p, crc)) = Len(p) + 1
        BY ONLY <2>1, <3>1, AppendProperties
      <4> QED
        BY ONLY <4>1, <4>2
    <3>3. Len(p) = 3 + Len(buf) /\ Len(buf) \in Nat
      BY ONLY <1>3, <3>1
    <3> QED
      BY ONLY <2>2, <3>1, <3>2, <3>3
  <2>5. Held' = s
    <3>1. st' = "STOP" /\ crc' = crc + 256 * b /\ buf' = buf
      BY <1>6 DEF Crc2, KeepBuffer
    <3>2. crc' % 256 = crc /\ crc' \div 256 = b
      <4>1. crc \in Nat /\ crc <= 255 /\ b \in Nat /\ b <= 255
        BY <1>1, <2>1, Widths
      <4>2. (crc + 256 * b) % 256 = crc /\ (crc + 256 * b) \div 256 = b
        BY ONLY <4>1, LowByte
      <4> QED
        BY ONLY <3>1, <4>2
    <3> QED
      BY <1>2, <2>3, <3>1, <3>2 DEF Held, Header
  <2> QED
    BY <1>1, <1>2, <1>3, <2>1, <2>3, <2>4, <2>5
<1> QED
  BY <1>5, <1>6, <1>4

\* The stop byte: the bytes held and this one are a frame or are dropped.
LEMMA StopStep ==
    ASSUME IInv, NEW b \in Byte, inited, ~fault, Stop(b)
    PROVE  Framed(b)
<1> DEFINE s == Append(Held, b)
           lo == crc % 256
           hi == crc \div 256
<1>1. /\ b \in U8 /\ len \in Nat /\ len > 0 /\ Len(buf) = len
      /\ crc \in Nat /\ crc <= 65535 /\ st = "STOP"
  BY ByteAssumption, Widths DEF IInv, Shape, StoresInBounds, Stop
<1>2. lo \in U8 /\ hi \in U8 /\ lo + 256 * hi = crc
  BY <1>1, TwoBytes, Widths
<1>3. /\ Header \o buf \in Seq(U8) /\ Len(Header \o buf) = 3 + Len(buf)
      /\ \A i \in 1 .. 3 : (Header \o buf)[i] = Header[i]
      /\ \A i \in 1 .. Len(buf) : (Header \o buf)[3 + i] = buf[i]
      /\ Header[1] = StartByte /\ Header[2] + 256 * Header[3] = len
      /\ buf \in Seq(U8)
  BY HeaderAndPayload
<1>4. PICK p \in Seq(U8) : p = Header \o buf
  BY ONLY <1>3
<1>5. Held = p \o << lo, hi >>
  BY <1>1, <1>4 DEF Held
<1> HIDE DEF lo, hi
<1>6. /\ Held \in Seq(U8) /\ Len(Held) = Len(p) + 2
      /\ \A i \in 1 .. Len(p) : Held[i] = p[i]
      /\ Held[Len(p) + 1] = lo /\ Held[Len(p) + 2] = hi
  <2>1. /\ p \o << lo, hi >> \in Seq(U8) /\ Len(p \o << lo, hi >>) = Len(p) + 2
        /\ \A i \in 1 .. Len(p) : (p \o << lo, hi >>)[i] = p[i]
        /\ (p \o << lo, hi >>)[Len(p) + 1] = lo
        /\ (p \o << lo, hi >>)[Len(p) + 2] = hi
    BY ONLY <1>2, Trailer
  <2> QED
    BY ONLY <1>5, <2>1
<1>7. /\ s \in Seq(U8) /\ Len(s) = Len(Held) + 1
      /\ \A i \in 1 .. Len(Held) : s[i] = Held[i]
      /\ s[Len(Held) + 1] = b
  BY ONLY <1>1, <1>6, AppendProperties
<1>8. Len(p) = 3 + len
  BY <1>1, <1>3, <1>4
<1> HIDE DEF s
<1>9. /\ Len(s) = len + 6 /\ s[Len(s)] = b
      /\ s[Len(s) - 2] = lo /\ s[Len(s) - 1] = hi
      /\ \A i \in 1 .. 3 + len : s[i] = p[i]
  BY ONLY <1>1, <1>6, <1>7, <1>8
<1>10. s[2] + 256 * s[3] = len
  BY <1>1, <1>3, <1>4, <1>9
<1>11. Framing!Declared(s) = len /\ Framing!Complete(s) /\ ~ Framing!Viable(s)
  BY <1>1, <1>9, <1>10
  DEF Framing!Declared, Framing!Complete, Framing!Viable
<1>12. Framing!PayloadOf(s) = buf
  <2>1. \A i \in 4 .. 3 + len : s[i] \in U8
    BY <1>1, <1>7, <1>9
  <2>2. /\ SubSeq(s, 4, 3 + len) \in Seq(U8)
        /\ Len(SubSeq(s, 4, 3 + len)) = len
        /\ \A i \in 1 .. len : SubSeq(s, 4, 3 + len)[i] = s[3 + i]
    BY <1>1, <2>1, SubSeqProperties
  <2>3. \A i \in 1 .. len : s[3 + i] = buf[i]
    <3>1. TAKE i \in 1 .. len
    <3>2. PICK j \in Nat : j = 3 + i
      BY ONLY <1>1
    <3>3. j \in 1 .. 3 + len
      BY ONLY <1>1, <3>2
    <3>4. s[j] = p[j]
      BY ONLY <1>9, <3>3
    <3>5. (Header \o buf)[3 + i] = buf[i]
      BY <1>1, <1>3
    <3> QED
      BY ONLY <1>4, <3>2, <3>4, <3>5
  <2>4. \A i \in 1 .. len : SubSeq(s, 4, 3 + len)[i] = buf[i]
    BY <2>2, <2>3
  <2>5. SubSeq(s, 4, 3 + len) = buf
    BY ONLY <1>1, <1>3, <2>2, <2>4, SeqEqual
  <2> QED
    BY <1>11, <2>5 DEF Framing!PayloadOf
<1>13. Framing!WellFormed(s) <=> b = StopByte /\ crc = Crc(buf)
  BY <1>2, <1>9, <1>11, <1>12 DEF Framing!WellFormed
<1>14. got' = IF b = StopByte /\ crc = Crc(buf) THEN buf ELSE <<>>
  BY DEF Stop
<1>15. Held' = <<>> /\ fault' = fault
  BY DEF Stop, Held
<1>16. Len(Held) # 3
  BY <1>1, <1>6, <1>8
<1>17. Framing!Take(b)
  BY <1>11, <1>12, <1>13, <1>14, <1>15, <1>16 DEF Framing!Take, s
<1> QED
  BY <1>17 DEF Framed

\* The store through NULL is the end of the receiver.
LEMMA BreakStep ==
    ASSUME IInv, inited, ~fault, StoreThroughNull
    PROVE  Framing!Break
<1>1. st = "PAYLOAD" /\ cap = 0 /\ len = 0 /\ buf = <<>>
  BY DEF StoreThroughNull, IInv, FieldInv
<1>2. Held = Header \o buf
  BY <1>1 DEF Held
<1>3. /\ Len(Held) = 3 + Len(buf) /\ Len(buf) = 0
      /\ \A i \in 1 .. 3 : Held[i] = Header[i]
      /\ Header[2] + 256 * Header[3] = 0
  BY <1>1, <1>2, HeaderAndPayload
<1>4. Len(Held) = 3 /\ Framing!Declared(Held) = 0
  BY <1>3 DEF Framing!Declared
<1>5. Held' = Held
  BY DEF StoreThroughNull, Held, Header
<1> QED
  BY <1>4, <1>5 DEF StoreThroughNull, Framing!Break

\* What is held are bytes.
LEMMA HeldBytes == ASSUME IInv PROVE Held \in Seq(U8)
<1>1. /\ Header \o buf \in Seq(U8) /\ StartByte \in U8
      /\ crc \in Nat /\ crc <= 65535 /\ len \in Nat
  BY HeaderAndPayload, ByteAssumption, Widths DEF IInv, Shape
<1>2. CASE st = "CRC2"
  <2>1. crc \in U8
    BY <1>1, <1>2, Widths DEF IInv, FieldInv
  <2>2. (Header \o buf) \o << crc >> \in Seq(U8)
    BY <1>1, <2>1, ConcatProperties
  <2> QED
    BY <1>2, <2>2 DEF Held
<1>3. CASE st = "STOP"
  <2>1. crc % 256 \in U8 /\ crc \div 256 \in U8
    BY <1>1, TwoBytes, Widths
  <2>2. \A p \in Seq(U8) : p \o << crc % 256, crc \div 256 >> \in Seq(U8)
    BY ONLY <2>1, Trailer
  <2> QED
    BY <1>1, <1>3, <2>2 DEF Held
<1>4. CASE st \notin {"CRC2", "STOP"}
  <2>1. st = "LEN2" => len \in U8
    BY <1>1, Widths DEF IInv, FieldInv
  <2>2. st \in States
    BY DEF IInv, Shape
  <2> QED
    BY <1>1, <1>4, <2>1, <2>2 DEF Held, States
<1> QED
  BY <1>2, <1>3, <1>4

\* Every byte is a step of the framing, and the framing's step for that byte.
LEMMA FeedIsFramed ==
    ASSUME IInv, NEW b \in Byte, Feed(b)
    PROVE  ~fault /\ (Framed(b) \/ Framing!Break)
  BY EarlyStep, MiddleStep, StopStep, BreakStep DEF Feed

\* Every step of the machine is a step of the framing or changes nothing of it.
LEMMA FramingStep == IInv /\ [Next]_vars => [Framing!AbsNext]_(Framing!absVars)
<1> SUFFICES ASSUME IInv, [Next]_vars
             PROVE  [Framing!AbsNext]_(Framing!absVars)
  OBVIOUS
<1>1. ASSUME NEW b \in Byte, Feed(b) PROVE Framing!AbsNext
  BY <1>1, FeedIsFramed DEF Framed, Framing!AbsNext
<1>2. ASSUME UNCHANGED vars PROVE UNCHANGED Framing!absVars
  BY <1>2 DEF vars, Framing!absVars, Held, Header
<1> QED
  BY <1>1, <1>2 DEF Next

\* For every stream of bytes, limit, alphabet and checksum, the state machine
\* hands over exactly the payloads of the well-formed frames on the line.
THEOREM FramingImplemented == Spec => ImplementsFraming
<1>1. Init => Framing!AbsInit
  BY DEF Init, Framing!AbsInit, Held
<1> QED
  BY <1>1, FramingStep, Invariance, PTL
  DEF Spec, ImplementsFraming, Framing!AbsSpec

=============================================================================
