---------------------------- MODULE IpcRx_proofs ----------------------------
(***************************************************************************)
(* Proofs about IpcRx: memory safety of the frame handler for every        *)
(* payload limit, every checksum and every stream of bytes.                *)
(***************************************************************************)
EXTENDS IpcRx, SequenceTheorems, TLAPS

\* What is known of the fields between the bytes of one frame: the parts of
\* the two-byte fields that have come so far.
FieldInv ==
    /\ st \in {"LEN1", "LEN2"} => len <= 255
    /\ st = "CRC2" => crc <= 255
    /\ st = "PAYLOAD" /\ cap = 0 => len = 0
    /\ st # "IDLE" => len \in Nat
    /\ cap = 0 => buf = <<>>

\* The parts of the state that a byte can bring out of order.
Shape ==
    /\ st \in States
    /\ inited \in BOOLEAN /\ fault \in BOOLEAN
    /\ len \in U16 /\ crc \in U16
    /\ cap \in 0 .. MaxPayload /\ live \in Int
    /\ buf \in Seq(Byte) /\ got \in Seq(Byte)

IInv == Shape /\ FieldInv /\ StoresInBounds /\ NoLeak /\ FaultOnlyOnEmptyFrame

-----------------------------------------------------------------------------
\* Membership in the machine integers, as inequalities.
LEMMA Widths ==
    /\ \A n : n \in U8 <=> n \in Nat /\ n <= 255
    /\ \A n : n \in U16 <=> n \in Nat /\ n <= 65535
  BY DEF U8, U16

\* The inductive invariant holds of a machine that waits for its first byte.
LEMMA InitInv == Init => IInv
<1> SUFFICES ASSUME Init PROVE IInv
    OBVIOUS
<1>1. Len(<<>>) = 0 /\ <<>> \in Seq(Byte)
  OBVIOUS
<1>2. 0 \in U16
  BY Widths
<1>3. 0 \in 0 .. MaxPayload
  BY SizeAssumption, Widths
<1>4. Shape
  <2>1. st \in States /\ inited \in BOOLEAN /\ fault \in BOOLEAN
    BY DEF Init, States
  <2>2. len \in U16 /\ crc \in U16 /\ cap \in 0 .. MaxPayload /\ live \in Int
    BY ONLY Init, <1>2, <1>3 DEF Init
  <2>3. buf \in Seq(Byte) /\ got \in Seq(Byte)
    BY ONLY Init, <1>1 DEF Init
  <2> QED
    BY <2>1, <2>2, <2>3 DEF Shape
<1>5. FieldInv
  BY DEF Init, FieldInv
<1>6. StoresInBounds
  BY <1>1 DEF Init, StoresInBounds
<1>7. NoLeak /\ FaultOnlyOnEmptyFrame
  BY DEF Init, NoLeak, FaultOnlyOnEmptyFrame
<1> QED
  BY <1>4, <1>5, <1>6, <1>7 DEF IInv

\* One byte, in the state of the machine it meets.
LEMMA FeedInv ==
    ASSUME IInv, NEW b \in Byte, Feed(b)
    PROVE  IInv'
<1> USE ByteAssumption, SizeAssumption, Widths
    DEF IInv, Shape, FieldInv, StoresInBounds, NoLeak, FaultOnlyOnEmptyFrame,
        States, Quiet, KeepBuffer
<1>0. b \in Nat /\ b <= 255 /\ ~fault
  BY DEF Feed
<1>1. CASE Idle(b)
  BY <1>0, <1>1 DEF Idle
<1>2. CASE Len1(b)
  BY <1>0, <1>2 DEF Len1
<1>3. CASE TooLong(b)
  BY <1>0, <1>3 DEF TooLong
<1>4. CASE Allocate(b)
  BY <1>0, <1>4 DEF Allocate
<1>5. CASE SkipAllocation(b)
  BY <1>0, <1>5 DEF SkipAllocation
<1>6. CASE Store(b)
  <2>1. buf' \in Seq(Byte) /\ Len(buf') = Len(buf) + 1
    BY <1>6 DEF Store
  <2>2. /\ cap' = cap /\ len' = len /\ live' = live /\ inited' = inited
        /\ fault' = fault /\ got' = <<>> /\ cap = len /\ Len(buf) < cap
    BY <1>6 DEF Store
  <2>3. CASE Len(buf') = len
    BY <1>0, <1>6, <2>1, <2>2, <2>3 DEF Store
  <2>4. CASE Len(buf') # len
    BY <1>0, <1>6, <2>1, <2>2, <2>4 DEF Store
  <2> QED
    BY <2>3, <2>4
<1>7. CASE StoreThroughNull
  BY <1>0, <1>7 DEF StoreThroughNull
<1>8. CASE Crc1(b)
  BY <1>0, <1>8 DEF Crc1
<1>9. CASE Crc2(b)
  BY <1>0, <1>9 DEF Crc2
<1>10. CASE Stop(b)
  <2>1. got' \in Seq(Byte)
    <3>1. buf \in Seq(Byte) /\ <<>> \in Seq(Byte)
      OBVIOUS
    <3>2. got' = buf \/ got' = <<>>
      BY ONLY <1>10 DEF Stop
    <3> QED
      BY ONLY <3>1, <3>2
  <2>2. /\ st' = "IDLE" /\ cap' = 0 /\ buf' = <<>> /\ live' = live - 1
        /\ UNCHANGED <<inited, len, crc, fault>> /\ cap # 0 /\ live = 1
    BY <1>10 DEF Stop
  <2>3. 0 \in 0 .. MaxPayload /\ Len(<<>>) = 0 /\ <<>> \in Seq(Byte)
    BY Widths
  <2>4. Shape'
    BY <1>0, <2>1, <2>2, <2>3
  <2>5. (FieldInv /\ StoresInBounds /\ NoLeak /\ FaultOnlyOnEmptyFrame)'
    BY <1>0, <2>2, <2>3
  <2> QED
    BY <2>4, <2>5
<1> QED
  BY <1>1, <1>2, <1>3, <1>4, <1>5, <1>6, <1>7, <1>8, <1>9, <1>10 DEF Feed

\* Every byte, and every step that changes nothing, preserves the invariant.
LEMMA StepInv == IInv /\ [Next]_vars => IInv'
<1> SUFFICES ASSUME IInv, [Next]_vars PROVE IInv'
    OBVIOUS
<1>1. CASE Next
  BY <1>1, FeedInv DEF Next
<1>2. CASE UNCHANGED vars
  BY <1>2 DEF vars, IInv, Shape, FieldInv, StoresInBounds, NoLeak,
              FaultOnlyOnEmptyFrame
<1> QED
  BY <1>1, <1>2

\* The inductive invariant holds in every reachable state.
THEOREM Invariance == Spec => []IInv
  BY InitInv, StepInv, PTL DEF Spec

\* No byte stream makes the frame handler store outside its block or hand a
\* partly filled block to the payload handler.
THEOREM StoresSafe == Spec => []StoresInBounds
<1>1. IInv => StoresInBounds
  BY DEF IInv
<1> QED
  BY <1>1, Invariance, PTL

\* No byte stream makes the frame handler leak a block or free one twice.
THEOREM LeakFree == Spec => []NoLeak
<1>1. IInv => NoLeak
  BY DEF IInv
<1> QED
  BY <1>1, Invariance, PTL

\* A frame with an empty payload is the only thing that can kill the receiver.
THEOREM OnlyEmptyFramesFault == Spec => []FaultOnlyOnEmptyFrame
<1>1. IInv => FaultOnlyOnEmptyFrame
  BY DEF IInv
<1> QED
  BY <1>1, Invariance, PTL

-----------------------------------------------------------------------------
(* The callbacks.                                                          *)

Callback == [kind : {"VOICE_CALL_RXD", "APP_DATA"}, whole : BOOLEAN]

\* A function on the integers from 1 is a sequence, also when there are none.
LEMMA FunctionIsSeq ==
    ASSUME NEW S, NEW n \in Int, NEW f \in [1 .. n -> S]
    PROVE  f \in Seq(S)
<1>1. CASE n \in Nat
  BY <1>1, SeqDef
<1>2. CASE n \notin Nat
  <2>1. 1 .. n = 1 .. 0
    BY <1>2
  <2>2. f \in [1 .. 0 -> S] /\ 0 \in Nat
    BY <2>1
  <2> QED
    BY <2>2, SeqDef
<1> QED
  BY <1>1, <1>2

\* Whatever the payload, the callbacks raised are a sequence of callbacks.
LEMMA EventsAreCallbacks ==
    ASSUME NEW p \in Seq(Byte), NEW x
    PROVE  Events(p, x) \in Seq(Callback)
<1>1. <<>> \in Seq(Callback)
  OBVIOUS
<1>2. AppEvents(p) \in Seq(Callback)
  <2>1. [kind |-> "APP_DATA", whole |-> 3 + AppSize <= Len(p)] \in Callback
    BY DEF Callback
  <2> QED
    BY <2>1 DEF AppEvents
<1>3. VoiceEvents(p) \in Seq(Callback)
  <2>1. VoiceRecords(p) \in Int
    BY SizeAssumption DEF VoiceRecords
  <2>2. \A i \in 1 .. VoiceRecords(p) :
          [kind |-> "VOICE_CALL_RXD", whole |-> 2 + i * RecSize <= Len(p)]
             \in Callback
    BY DEF Callback
  <2>3. VoiceEvents(p) \in [1 .. VoiceRecords(p) -> Callback]
    BY <2>2 DEF VoiceEvents
  <2> QED
    BY <2>1, <2>3, FunctionIsSeq
<1> QED
  BY <1>1, <1>2, <1>3 DEF Events

\* The callbacks of every step are typed.
LEMMA OutStep ==
    IInv /\ out \in Seq(Callback) /\ [Next]_vars => (out \in Seq(Callback))'
<1> SUFFICES ASSUME IInv, out \in Seq(Callback), [Next]_vars
             PROVE  out' \in Seq(Callback)
    OBVIOUS
<1>1. <<>> \in Seq(Callback)
  OBVIOUS
<1>2. ASSUME NEW b \in Byte, Stop(b) PROVE out' \in Seq(Callback)
  <2>1. buf \in Seq(Byte)
    BY DEF IInv, Shape
  <2>2. out' = <<>> \/ \E x \in SecondByte(buf) : out' = Events(buf, x)
    BY <1>2 DEF Stop
  <2> QED
    BY <1>1, <2>1, <2>2, EventsAreCallbacks
<1>3. ASSUME NEW b \in Byte, Feed(b), ~ Stop(b) PROVE out' = <<>>
  BY <1>3 DEF Feed, Idle, Len1, TooLong, Allocate, SkipAllocation, Store,
              StoreThroughNull, Crc1, Crc2, Quiet
<1>4. CASE UNCHANGED vars
  BY <1>4 DEF vars
<1> QED
  BY <1>1, <1>2, <1>3, <1>4 DEF Next

\* The state keeps the shape of SIPC_P1_State, whatever bytes the line delivers.
THEOREM TypeCorrect == Spec => []TypeOK
<1>1. Init => out \in Seq(Callback)
  BY DEF Init
<1>2. IInv /\ out \in Seq(Callback) => TypeOK
  BY DEF IInv, Shape, TypeOK, Callback
<1> QED
  BY <1>1, <1>2, OutStep, Invariance, PTL DEF Spec

=============================================================================
