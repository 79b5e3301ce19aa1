------------------------------ MODULE CallTask ------------------------------
(***************************************************************************)
(* Incoming calls: main()'s serial loop receives a call record and raises  *)
(* EIPC_P1_EVT_VOICE_CALL_RXD, whose callback stores the record in         *)
(* OIPC_P1_CallData and wakes cellular_task; cellular_task prints the      *)
(* record, asks the operator and sends the answer back over IPC.           *)
(*                                                                         *)
(* A call record is its two fields, both named by the number of the call   *)
(* that carries them; 0 is the zero-initialised record.  The event word    *)
(* celular_event has one value only, CELLULAR_EVNT_INCOMING_CALL = 0, its  *)
(* initial one: every wakeup announces a call.                             *)
(***************************************************************************)
EXTENDS Integers

CONSTANTS
    MaxCalls,           \* bound: calls the peer makes
    Response,           \* what the operator can type, as the uint8_t it becomes
    Spurious,           \* pthread_cond_wait() may return without a signal
    OnlyWhenListening   \* the peer calls only while cellular_task is waiting

ASSUME CallAssumption == MaxCalls \in Nat
ASSUME ResponseAssumption == 0 \in Response /\ Response \subseteq 0 .. 255
ASSUME SwitchAssumption == {Spurious, OnlyWhenListening} \subseteq BOOLEAN

VARIABLES
    up,         \* OIPC_P1_Hdle.pInterface is set and Init is 1
    crashed,    \* the process died of a call through a NULL pInterface
    rx,         \* where main() is in the event callback; "read": in read()
    cell,       \* where cellular_task is
    owner,      \* owner of cell_evt_mtx
    data,       \* OIPC_P1_CallData
    response,   \* cellular_task's local variable
    calls,      \* history: calls received so far
    waker,      \* history: the call whose signal woke cellular_task last
    shown,      \* history: the record cellular_task printed last
    announced   \* history: the calls whose CTX was printed

mainVars == <<up, rx, calls>>
cellVars == <<response, shown, announced>>
vars == <<up, crashed, rx, cell, owner, data, response, calls, waker, shown,
          announced>>

RxPcs == {"read", "ctx", "time", "lock", "signal", "unlock"}
CellPcs == {"lock", "wait", "waiting", "wake", "event", "unlock", "ctx", "time",
            "ask", "send", "ask_again", "send_again"}
Record == [ctx : 0 .. MaxCalls, time : 0 .. MaxCalls]
NoCall == [ctx |-> 0, time |-> 0]

Init ==
    /\ up = FALSE /\ crashed = FALSE
    /\ rx = "read" /\ cell = "lock" /\ owner = "free"
    /\ data = NoCall /\ response \in Response        \* an uninitialised local
    /\ calls = 0 /\ waker = 0 /\ shown = NoCall /\ announced = {}

-----------------------------------------------------------------------------
(* main().                                                                 *)

\* ipc1_mpu_mod_init() comes after the threads are created; when it fails
\* this never happens and frames are dropped.
IpcUp ==
    /\ ~crashed /\ ~up /\ up' = TRUE
    /\ UNCHANGED <<crashed, rx, cell, owner, data, calls, waker, cellVars>>

\* A frame with a call record is complete and the callback is raised.
Receive ==
    /\ ~crashed /\ up /\ rx = "read" /\ calls < MaxCalls
    /\ OnlyWhenListening => cell = "waiting"
    /\ calls' = calls + 1 /\ rx' = "ctx"
    /\ UNCHANGED <<up, crashed, cell, owner, data, waker, cellVars>>

\* The structure assignment, outside the mutex, in two parts.
StoreCtx ==
    /\ ~crashed /\ rx = "ctx" /\ rx' = "time"
    /\ data' = [data EXCEPT !.ctx = calls]
    /\ UNCHANGED <<up, crashed, cell, owner, calls, waker, cellVars>>

\* Mutant: the record is stored only in part.
StoreNoTime ==
    /\ ~crashed /\ rx = "time" /\ rx' = "lock"
    /\ UNCHANGED <<up, crashed, cell, owner, data, calls, waker, cellVars>>

StoreTime ==
    /\ ~crashed /\ rx = "time" /\ rx' = "lock"
    /\ data' = [data EXCEPT !.time = calls]
    /\ UNCHANGED <<up, crashed, cell, owner, calls, waker, cellVars>>

RxLock ==
    /\ ~crashed /\ rx = "lock" /\ owner = "free"
    /\ owner' = "main" /\ rx' = "signal"
    /\ UNCHANGED <<up, crashed, cell, data, calls, waker, cellVars>>

\* Mutant: the event is set and nobody is told.
RxSetsOnly ==
    /\ ~crashed /\ rx = "signal" /\ rx' = "unlock"
    /\ UNCHANGED <<up, crashed, cell, owner, data, calls, waker, cellVars>>

\* A signal nobody waits for is lost.
RxSignal ==
    /\ ~crashed /\ rx = "signal" /\ rx' = "unlock"
    /\ IF cell = "waiting" THEN cell' = "wake" /\ waker' = calls
                           ELSE UNCHANGED <<cell, waker>>
    /\ UNCHANGED <<up, crashed, owner, data, calls, cellVars>>

RxUnlock ==
    /\ ~crashed /\ rx = "unlock" /\ rx' = "read"
    /\ owner' = "free"
    /\ UNCHANGED <<up, crashed, cell, data, calls, waker, cellVars>>

-----------------------------------------------------------------------------
(* cellular_task_func().                                                   *)

CellAt(l) == ~crashed /\ cell = l

CellLock ==
    /\ CellAt("lock") /\ owner = "free"
    /\ owner' = "cell" /\ cell' = "wait"
    /\ UNCHANGED <<mainVars, crashed, data, waker, cellVars>>

\* Mutant: the event word is tested before the wait, and finds its initial
\* value, CELLULAR_EVNT_INCOMING_CALL.
CellWaitUnlessSet ==
    /\ CellAt("wait") /\ cell' = "wake" /\ owner' = "free"
    /\ UNCHANGED <<mainVars, crashed, data, waker, cellVars>>

\* pthread_cond_wait() without a predicate before it.
CellWait ==
    /\ CellAt("wait") /\ cell' = "waiting" /\ owner' = "free"
    /\ UNCHANGED <<mainVars, crashed, data, waker, cellVars>>

SpuriousWake ==
    /\ Spurious /\ CellAt("waiting") /\ cell' = "wake"
    /\ UNCHANGED <<mainVars, crashed, owner, data, waker, cellVars>>

CellRelock ==
    /\ CellAt("wake") /\ owner = "free"
    /\ owner' = "cell" /\ cell' = "event"
    /\ UNCHANGED <<mainVars, crashed, data, waker, cellVars>>

CellReadEvent ==
    /\ CellAt("event") /\ cell' = "unlock"
    /\ UNCHANGED <<mainVars, crashed, owner, data, waker, cellVars>>

\* Mutant: the call is handled inside the critical section.
CellKeepsLock ==
    /\ CellAt("unlock") /\ cell' = "ctx"
    /\ UNCHANGED <<mainVars, crashed, owner, data, waker, cellVars>>

CellUnlock ==
    /\ CellAt("unlock") /\ owner' = "free" /\ cell' = "ctx"
    /\ UNCHANGED <<mainVars, crashed, data, waker, cellVars>>

\* The record is read field by field, without the mutex.
ShowCtx ==
    /\ CellAt("ctx") /\ cell' = "time"
    /\ shown' = [shown EXCEPT !.ctx = data.ctx]
    /\ announced' = announced \cup {data.ctx}
    /\ UNCHANGED <<mainVars, crashed, owner, data, waker, response>>

ShowTime ==
    /\ CellAt("time") /\ cell' = "ask"
    /\ shown' = [shown EXCEPT !.time = data.time]
    /\ UNCHANGED <<mainVars, crashed, owner, data, waker, response, announced>>

\* Mutant: the answer is kept in a wider variable.
AskWide ==
    /\ ~crashed /\ cell \in {"ask", "ask_again"}
    /\ cell' = IF cell = "ask" THEN "send" ELSE "send_again"
    /\ response' \in Response \cup {256}
    /\ UNCHANGED <<mainVars, crashed, owner, data, waker, shown, announced>>

\* scanf("%d"): the low byte of what the operator types, or the old value if
\* that is no number.  scanf stores four bytes over the one-byte local; the
\* locals it may overwrite, i and event, are not read again before they are
\* assigned.
Ask ==
    /\ ~crashed /\ cell \in {"ask", "ask_again"}
    /\ cell' = IF cell = "ask" THEN "send" ELSE "send_again"
    /\ response' \in Response
    /\ UNCHANGED <<mainVars, crashed, owner, data, waker, shown, announced>>

\* ipc_p1_event_voice_call_response(), through pInterface; its result is not
\* looked at.  After a first answer of 0 the operator is asked once more.
Send ==
    /\ ~crashed /\ cell \in {"send", "send_again"}
    /\ crashed' = ~up
    /\ cell' = IF cell = "send" /\ response = 0 THEN "ask_again" ELSE "lock"
    /\ UNCHANGED <<mainVars, owner, data, waker, cellVars>>

-----------------------------------------------------------------------------
MainStep == StoreCtx \/ StoreTime \/ RxLock \/ RxSignal \/ RxUnlock
CellStep == CellLock \/ CellWait \/ CellRelock \/ CellReadEvent \/ CellUnlock
                \/ ShowCtx \/ ShowTime \/ Send

Next == IpcUp \/ Receive \/ MainStep \/ CellStep \/ SpuriousWake \/ Ask

Spec == Init /\ [][Next]_vars

(* Fairness: both threads are scheduled, and a mutex that is released again *)
(* and again is had in the end.  Nothing is assumed of the peer, of the    *)
(* operator, who may never type an answer, or of the bring-up.             *)
Fairness == /\ WF_vars(MainStep) /\ SF_vars(RxLock)
            /\ WF_vars(CellStep) /\ SF_vars(CellLock) /\ SF_vars(CellRelock)

FairSpec == Spec /\ Fairness

-----------------------------------------------------------------------------
(* Properties.                                                             *)

\* The state has the shape of the declarations in the code.
TypeOK ==
    /\ up \in BOOLEAN /\ crashed \in BOOLEAN
    /\ rx \in RxPcs /\ cell \in CellPcs /\ owner \in {"free", "main", "cell"}
    /\ data \in Record /\ shown \in Record /\ response \in Response
    /\ calls \in 0 .. MaxCalls /\ waker \in 0 .. MaxCalls
    /\ announced \subseteq 0 .. MaxCalls

\* The record is stored before the signal, although outside the mutex: what
\* cellular_task prints is never older, in either field, than the call that
\* woke it, however many calls come in the meantime.
NeverOlderThanWaker ==
    /\ cell \in {"time", "ask"} => shown.ctx >= waker
    /\ cell = "ask" => shown.time >= waker

\* The callback gets through, whatever the operator does: cellular_task never
\* sits at its prompt with cell_evt_mtx locked, so serial reception goes on.
ReceiverNotHeldUp == (rx # "read") ~> (rx = "read" \/ crashed)

\* When calls come only while cellular_task waits, an unprotected read never
\* mixes the CTX of one call with the time of another.
ReportIsWhole == cell = "ask" => shown.ctx = shown.time

\* Without spurious wakeups the operator is never asked about a call that no
\* one made, although the initial event word already says "incoming call".
NoPhantomCall == 0 \notin announced

\* Nothing goes out over IPC before ipc1_mpu_mod_init() has set the handle,
\* although cellular_task is started before it.
AnswersOnlyWhenUp == cell \in {"send", "send_again"} => up

\* When calls come only while cellular_task waits, each is announced.
EveryCallAnnounced ==
    \A n \in 1 .. MaxCalls : (calls = n) ~> (n \in announced)

=============================================================================
