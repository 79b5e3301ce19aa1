-------------------------- MODULE CallTask_proofs --------------------------
(***************************************************************************)
(* Proofs about CallTask: what the order "store, then signal" guarantees   *)
(* without a lock around the record, for any number of calls.              *)
(***************************************************************************)
EXTENDS CallTask, TLAPS

\* The parts of the state that the argument uses.
Shape ==
    /\ rx \in RxPcs /\ cell \in CellPcs
    /\ calls \in Nat /\ waker \in Nat
    /\ data \in [ctx : Nat, time : Nat] /\ shown \in [ctx : Nat, time : Nat]

\* How far the callback has come with the record of the latest call.
Stored ==
    /\ data.ctx = IF rx = "ctx" THEN calls - 1 ELSE calls
    /\ data.time = IF rx \in {"ctx", "time"} THEN calls - 1 ELSE calls
    /\ rx \in {"ctx", "time"} => calls > 0

\* A signal is only sent for a record that is stored.
WakerStored == waker <= data.ctx /\ waker <= data.time

IInv == Shape /\ Stored /\ WakerStored /\ NeverOlderThanWaker

\* The initial states satisfy the inductive invariant.
LEMMA InitInv == Init => IInv
  BY DEF Init, IInv, Shape, Stored, WakerStored, NeverOlderThanWaker, NoCall,
         RxPcs, CellPcs

\* Every step preserves the inductive invariant.
LEMMA StepInv == IInv /\ [Next]_vars => IInv'
<1> SUFFICES ASSUME IInv, [Next]_vars PROVE IInv'
    OBVIOUS
<1> USE DEF IInv, Shape, Stored, WakerStored, NeverOlderThanWaker, RxPcs,
            CellPcs, CellAt, mainVars, cellVars
<1>1. CASE IpcUp
  BY <1>1 DEF IpcUp
<1>2. CASE Receive
  BY <1>2 DEF Receive
<1>3. CASE StoreCtx
  BY <1>3 DEF StoreCtx
<1>4. CASE StoreTime
  BY <1>4 DEF StoreTime
<1>5. CASE RxLock
  BY <1>5 DEF RxLock
<1>6. CASE RxSignal
  BY <1>6 DEF RxSignal
<1>7. CASE RxUnlock
  BY <1>7 DEF RxUnlock
<1>8. CASE CellLock
  BY <1>8 DEF CellLock
<1>9. CASE CellWait
  BY <1>9 DEF CellWait
<1>10. CASE CellRelock
  BY <1>10 DEF CellRelock
<1>11. CASE CellReadEvent
  BY <1>11 DEF CellReadEvent
<1>12. CASE CellUnlock
  BY <1>12 DEF CellUnlock
<1>13. CASE ShowCtx
  BY <1>13 DEF ShowCtx
<1>14. CASE ShowTime
  BY <1>14 DEF ShowTime
<1>15. CASE Send
  BY <1>15 DEF Send
<1>16. CASE SpuriousWake
  BY <1>16 DEF SpuriousWake
<1>17. CASE Ask
  BY <1>17 DEF Ask
<1>18. CASE UNCHANGED vars
  BY <1>18 DEF vars
<1> QED
  BY <1>1, <1>2, <1>3, <1>4, <1>5, <1>6, <1>7, <1>8, <1>9, <1>10, <1>11,
     <1>12, <1>13, <1>14, <1>15, <1>16, <1>17, <1>18
     DEF Next, MainStep, CellStep

\* The inductive invariant holds in every reachable state.
THEOREM Invariance == Spec => []IInv
  BY InitInv, StepInv, PTL DEF Spec

\* cellular_task never prints a record older than the call that woke it.
THEOREM NeverStale == Spec => []NeverOlderThanWaker
<1>1. IInv => NeverOlderThanWaker
  BY DEF IInv
<1> QED
  BY <1>1, Invariance, PTL

-----------------------------------------------------------------------------
(* The shape of the state.                                                 *)

\* The initial states have the shape of the declarations.
LEMMA InitTypes == Init => TypeOK
<1> SUFFICES ASSUME Init PROVE TypeOK
    OBVIOUS
<1>1. 0 \in 0 .. MaxCalls
  BY CallAssumption
<1>2. NoCall \in Record
  BY <1>1 DEF NoCall, Record
<1>3. data \in Record /\ shown \in Record
  BY <1>2 DEF Init
<1> QED
  BY <1>1, <1>3 DEF Init, TypeOK, RxPcs, CellPcs

\* Every step keeps the shape.
LEMMA StepTypes == TypeOK /\ [Next]_vars => TypeOK'
<1> SUFFICES ASSUME TypeOK, [Next]_vars PROVE TypeOK'
    OBVIOUS
<1> USE CallAssumption, ResponseAssumption
    DEF TypeOK, RxPcs, CellPcs, Record, CellAt, mainVars, cellVars
<1>1. CASE IpcUp
  BY <1>1 DEF IpcUp
<1>2. CASE Receive
  BY <1>2 DEF Receive
<1>3. CASE StoreCtx
  BY <1>3 DEF StoreCtx
<1>4. CASE StoreTime
  BY <1>4 DEF StoreTime
<1>5. CASE RxLock
  BY <1>5 DEF RxLock
<1>6. CASE RxSignal
  BY <1>6 DEF RxSignal
<1>7. CASE RxUnlock
  BY <1>7 DEF RxUnlock
<1>8. CASE CellLock
  BY <1>8 DEF CellLock
<1>9. CASE CellWait
  BY <1>9 DEF CellWait
<1>10. CASE CellRelock
  BY <1>10 DEF CellRelock
<1>11. CASE CellReadEvent
  BY <1>11 DEF CellReadEvent
<1>12. CASE CellUnlock
  BY <1>12 DEF CellUnlock
<1>13. CASE ShowCtx
  BY <1>13 DEF ShowCtx
<1>14. CASE ShowTime
  BY <1>14 DEF ShowTime
<1>15. CASE Send
  BY <1>15 DEF Send
<1>16. CASE SpuriousWake
  BY <1>16 DEF SpuriousWake
<1>17. CASE Ask
  BY <1>17 DEF Ask
<1>18. CASE UNCHANGED vars
  BY <1>18 DEF vars
<1> QED
  BY <1>1, <1>2, <1>3, <1>4, <1>5, <1>6, <1>7, <1>8, <1>9, <1>10, <1>11,
     <1>12, <1>13, <1>14, <1>15, <1>16, <1>17, <1>18
     DEF Next, MainStep, CellStep

\* The state keeps the shape of the declarations in the code.
THEOREM TypeCorrect == Spec => []TypeOK
  BY InitTypes, StepTypes, PTL DEF Spec

-----------------------------------------------------------------------------
(* Without spurious wakeups.                                               *)

Awake == {"wake", "event", "unlock", "ctx", "time", "ask", "send", "ask_again",
          "send_again"}

\* Only a received call gets cellular_task out of its wait, and calls are only
\* received once the IPC handle is set.
WokenByCall ==
    /\ calls > 0 \/ rx # "read" => up
    /\ rx # "read" => calls > 0
    /\ cell \in Awake => up /\ waker > 0
    /\ NoPhantomCall

\* Spurious wakeups apart, every step preserves WokenByCall.
LEMMA StepWoken ==
    ASSUME ~Spurious
    PROVE  IInv /\ WokenByCall /\ [Next]_vars => WokenByCall'
<1> SUFFICES ASSUME IInv, WokenByCall, [Next]_vars PROVE WokenByCall'
    OBVIOUS
<1> USE DEF IInv, Shape, Stored, WakerStored, WokenByCall, NoPhantomCall,
            Awake, RxPcs, CellPcs, CellAt, mainVars, cellVars
<1>1. CASE IpcUp
  BY <1>1 DEF IpcUp
<1>2. CASE Receive
  BY <1>2 DEF Receive
<1>3. CASE StoreCtx
  BY <1>3 DEF StoreCtx
<1>4. CASE StoreTime
  BY <1>4 DEF StoreTime
<1>5. CASE RxLock
  BY <1>5 DEF RxLock
<1>6. CASE RxSignal
  BY <1>6 DEF RxSignal
<1>7. CASE RxUnlock
  BY <1>7 DEF RxUnlock
<1>8. CASE CellLock
  BY <1>8 DEF CellLock
<1>9. CASE CellWait
  BY <1>9 DEF CellWait
<1>10. CASE CellRelock
  BY <1>10 DEF CellRelock
<1>11. CASE CellReadEvent
  BY <1>11 DEF CellReadEvent
<1>12. CASE CellUnlock
  BY <1>12 DEF CellUnlock
<1>13. CASE ShowCtx
  BY <1>13 DEF ShowCtx
<1>14. CASE ShowTime
  BY <1>14 DEF ShowTime
<1>15. CASE Send
  BY <1>15 DEF Send
<1>16. CASE SpuriousWake
  BY <1>16 DEF SpuriousWake
<1>17. CASE Ask
  BY <1>17 DEF Ask
<1>18. CASE UNCHANGED vars
  BY <1>18 DEF vars
<1> QED
  BY <1>1, <1>2, <1>3, <1>4, <1>5, <1>6, <1>7, <1>8, <1>9, <1>10, <1>11,
     <1>12, <1>13, <1>14, <1>15, <1>16, <1>17, <1>18
     DEF Next, MainStep, CellStep

\* The initial states satisfy WokenByCall.
LEMMA InitWoken == Init => WokenByCall
  BY DEF Init, WokenByCall, NoPhantomCall, Awake

\* Without spurious wakeups WokenByCall holds in every reachable state.
THEOREM Woken ==
    ASSUME ~Spurious
    PROVE  Spec => []WokenByCall
<1>1. IInv /\ WokenByCall /\ [Next]_vars => WokenByCall'
  BY StepWoken
<1> QED
  BY <1>1, InitWoken, Invariance, PTL DEF Spec

\* Without spurious wakeups the operator is never asked about a call that no
\* one made.
THEOREM NoPhantom ==
    ASSUME ~Spurious
    PROVE  Spec => []NoPhantomCall
<1>1. WokenByCall => NoPhantomCall
  BY DEF WokenByCall
<1>2. Spec => []WokenByCall
  BY Woken
<1> QED
  BY <1>1, <1>2, PTL

\* Without spurious wakeups no answer is sent before the IPC handle is set.
THEOREM UpBeforeAnswers ==
    ASSUME ~Spurious
    PROVE  Spec => []AnswersOnlyWhenUp
<1>1. WokenByCall => AnswersOnlyWhenUp
  BY DEF WokenByCall, AnswersOnlyWhenUp, Awake
<1>2. Spec => []WokenByCall
  BY Woken
<1> QED
  BY <1>1, <1>2, PTL

=============================================================================
