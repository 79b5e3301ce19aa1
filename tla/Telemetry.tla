----------------------------- MODULE Telemetry -----------------------------
(***************************************************************************)
(* The periodic position report of the ITMS unit: main() brings the        *)
(* process up and arms a one-second interval timer, the SIGALRM handler    *)
(* counts seconds and wakes app_task through a condition variable,         *)
(* app_task reads gpsd and sends one packet over IPC, and geo_fence_task   *)
(* polls the same gpsd handle for its route polygons.                      *)
(*                                                                         *)
(* One label per step between two synchronisation calls.  pc[t] is where   *)
(* thread t is in its own code, h[t] where it is in a signal handler that  *)
(* interrupted it ("idle": not interrupted); while h[t] # "idle" the       *)
(* thread's own code stands still.                                         *)
(***************************************************************************)
EXTENDS Integers

CONSTANTS
    UrRate,         \* State.ActvUpdateRate: seconds between normal packets
    HlthRate,       \* pCfg->rate_cfg_dev_hlth: seconds between health events
    Wrap,           \* modulus of the uint32_t tick counters
    FrameMod,       \* modulus of the uint32_t frame number
    SignalTargets,  \* the threads the kernel may run the SIGALRM handler on
    GpsMayFail,     \* gps_read() may return -1
    MallocMayFail,  \* malloc() may return NULL
    Spurious,       \* pthread_cond_wait() may return without a signal
    AppMayLag       \* app_task may still be busy when the next tick comes

\* The threads that use this state.  The fourth of the process, the cellular
\* thread (CallTask), uses none of it.
Threads == {"main", "app", "geo"}
Free == "free"                         \* owner of an unlocked mutex
Bits == {"NRML", "HLT"}                \* APP_0022_NRML_PKT_TMR, _HLT_PKT_TMR
Blocks == {"frame", "loc"}             \* the two buffers of a packet

ASSUME RateAssumption ==
    /\ UrRate \in Nat \ {0} /\ HlthRate \in Nat \ {0} /\ Wrap \in Nat
    /\ UrRate + 1 < Wrap /\ HlthRate + 1 < Wrap
ASSUME FrameAssumption == FrameMod \in Nat \ {0}
ASSUME TargetAssumption == SignalTargets \subseteq Threads
ASSUME SwitchAssumption ==
    {GpsMayFail, MallocMayFail, Spurious, AppMayLag} \subseteq BOOLEAN

VARIABLES
    proc,      \* "running", "exited" (exit or return of main), "crashed"
    timerOn,   \* the handler is installed and the timer armed
    modInit,   \* OApp0022Handle.ModInit
    ipcInit,   \* OIPC_P1_Hdle: "no" (not tried yet), "failed", "set"
    pc,        \* where each thread is
    h,         \* where each thread's signal handler frame is
    hev,       \* the handler frame's local variable event
    appMtx,    \* owner of app_evt_mtx
    gpsMtx,    \* owner of gpsd_mutex
    tmr,       \* State.tmr_actv_ur_rate
    cnt,       \* the static counter of app_0022_1sec_tick_isr
    event,     \* app_0022_event, as the set of its bits
    ev,        \* app_task's local copy of it
    fresh,     \* history: event was written since app_task last read it
    heap,      \* per packet buffer, mallocs less frees
    loc,       \* what *pLoc holds: "uninit" or "fix"
    rtc,       \* app_0008_frame_number
    garbage    \* history: packets built from an uninitialised *pLoc, capped

startVars == <<proc, timerOn, modInit, ipcInit>>
tickVars == <<tmr, cnt>>
frameVars == <<h, hev>>
eventVars == <<event, ev, fresh>>
packetVars == <<heap, loc, rtc, garbage>>
vars == <<startVars, pc, frameVars, appMtx, gpsMtx, tickVars, eventVars,
          packetVars>>

MainPcs == {"gps_open", "create_app", "create_geo", "open_serial",
            "ipc_init", "app_init", "timer", "loop"}
AppLockPcs == {"wait", "read", "unlock"}          \* holding app_evt_mtx
GpsLockPcs == {"gps_read", "gps_unlock"}          \* holding gpsd_mutex
PacketPcs == {"gps_lock", "gps_read", "gps_unlock", "gen", "send"}
AppPcs == {"unborn", "lock", "waiting", "wake", "dispatch", "alloc",
           "alloc_loc"} \cup AppLockPcs \cup PacketPcs
GeoPcs == {"unborn", "startup", "gps_lock", "polygons", "done"} \cup GpsLockPcs
HandlerPcs == {"idle", "check", "lock", "signal", "unlock", "count"}

MaxGarbage == 2                \* bound of the history counter garbage

Init ==
    /\ proc = "running"
    /\ timerOn = FALSE /\ modInit = FALSE /\ ipcInit = "no"
    /\ pc = [t \in Threads |-> IF t = "main" THEN "gps_open" ELSE "unborn"]
    /\ h = [t \in Threads |-> "idle"]
    /\ hev = [t \in Threads |-> {}]
    /\ appMtx = Free /\ gpsMtx = Free
    /\ tmr = 0 /\ cnt = 0
    /\ event = {} /\ ev = {} /\ fresh = FALSE
    /\ heap = [b \in Blocks |-> 0] /\ loc = "uninit" /\ rtc = 0 /\ garbage = 0

\* Thread t is at label l of its own code and can execute it.
At(t, l) == proc = "running" /\ h[t] = "idle" /\ pc[t] = l
Goto(t, l) == pc' = [pc EXCEPT ![t] = l]
InHandler(t, l) == proc = "running" /\ h[t] = l
HandlerGoto(t, l) == h' = [h EXCEPT ![t] = l]

-----------------------------------------------------------------------------
(* main(): bring-up, in the order of main.c.                               *)

\* gps_open(), a pthread_create() or open(SERIAL_PORT) fails: the process ends.
MainFails ==
    /\ proc = "running"
    /\ pc["main"] \in {"gps_open", "create_app", "create_geo", "open_serial"}
    /\ proc' = "exited"
    /\ UNCHANGED <<timerOn, modInit, ipcInit, pc, frameVars, appMtx, gpsMtx,
                   tickVars, eventVars, packetVars>>

\* The cellular thread is created here too.
GpsOpen ==
    /\ At("main", "gps_open") /\ Goto("main", "create_app")
    /\ UNCHANGED <<startVars, frameVars, appMtx, gpsMtx, tickVars, eventVars,
                   packetVars>>

CreateApp ==
    /\ At("main", "create_app")
    /\ pc' = [pc EXCEPT !["main"] = "create_geo", !["app"] = "lock"]
    /\ UNCHANGED <<startVars, frameVars, appMtx, gpsMtx, tickVars, eventVars,
                   packetVars>>

CreateGeo ==
    /\ At("main", "create_geo")
    /\ pc' = [pc EXCEPT !["main"] = "open_serial", !["geo"] = "startup"]
    /\ UNCHANGED <<startVars, frameVars, appMtx, gpsMtx, tickVars, eventVars,
                   packetVars>>

OpenSerial ==
    /\ At("main", "open_serial") /\ Goto("main", "ipc_init")
    /\ UNCHANGED <<startVars, frameVars, appMtx, gpsMtx, tickVars, eventVars,
                   packetVars>>

\* ipc1_mpu_mod_init() returns before it sets the handle when its log file
\* cannot be opened, and main() does not look at the result.
IpcInit ==
    /\ At("main", "ipc_init") /\ Goto("main", "app_init")
    /\ ipcInit' \in {"failed", "set"}
    /\ UNCHANGED <<proc, timerOn, modInit, frameVars, appMtx, gpsMtx, tickVars,
                   eventVars, packetVars>>

\* Mutant: the timer is armed before the module is initialised.
AppInitAfterTimer ==
    /\ At("main", "app_init") /\ Goto("main", "timer")
    /\ modInit' = TRUE /\ timerOn' = TRUE /\ tmr' = 0
    /\ UNCHANGED <<proc, ipcInit, frameVars, appMtx, gpsMtx, cnt, eventVars,
                   packetVars>>

AppInit ==
    /\ At("main", "app_init") /\ Goto("main", "timer")
    /\ modInit' = TRUE /\ tmr' = 0
    /\ UNCHANGED <<proc, timerOn, ipcInit, frameVars, appMtx, gpsMtx, cnt,
                   eventVars, packetVars>>

StartTimer ==
    /\ At("main", "timer") /\ Goto("main", "loop")
    /\ timerOn' = TRUE
    /\ UNCHANGED <<proc, modInit, ipcInit, frameVars, appMtx, gpsMtx, tickVars,
                   eventVars, packetVars>>

BringUp == \/ GpsOpen \/ CreateApp \/ CreateGeo \/ OpenSerial
           \/ IpcInit \/ AppInit \/ StartTimer

-----------------------------------------------------------------------------
(* timer_callback() and app_0022_1sec_tick_isr(), run on thread t.         *)

\* SIGALRM arrives.  It is blocked on a thread that is in its handler; a
\* second frame can exist only beside frames blocked in the mutex call.
Tick(t) ==
    /\ proc = "running" /\ timerOn /\ modInit
    /\ t \in SignalTargets /\ pc[t] # "unborn" /\ h[t] = "idle"
    /\ \A u \in Threads : h[u] \in {"idle", "lock"}
    /\ ~AppMayLag => /\ pc["app"] = "waiting"
                     /\ \A u \in Threads : h[u] = "idle"
    /\ HandlerGoto(t, "check")
    /\ UNCHANGED <<startVars, pc, hev, appMtx, gpsMtx, tickVars, eventVars,
                   packetVars>>

\* Mutant: the health period is one second too long.
DueLate == (IF tmr = UrRate THEN {"NRML"} ELSE {})
              \cup (IF cnt > HlthRate THEN {"HLT"} ELSE {})

\* The bits that are due, from the two counters.
Due == (IF tmr = UrRate THEN {"NRML"} ELSE {})
          \cup (IF cnt >= HlthRate THEN {"HLT"} ELSE {})

\* Mutant: the normal counter is not reset when its report falls due.
HandlerCheckNoReset(t) ==
    /\ InHandler(t, "check")
    /\ hev' = [hev EXCEPT ![t] = Due]
    /\ cnt' = IF "HLT" \in Due THEN 0 ELSE cnt
    /\ HandlerGoto(t, IF Due = {} THEN "count" ELSE "lock")
    /\ UNCHANGED <<startVars, pc, tmr, appMtx, gpsMtx, eventVars, packetVars>>

HandlerCheck(t) ==
    /\ InHandler(t, "check")
    /\ hev' = [hev EXCEPT ![t] = Due]
    /\ tmr' = IF "NRML" \in Due THEN 0 ELSE tmr
    /\ cnt' = IF "HLT" \in Due THEN 0 ELSE cnt
    /\ HandlerGoto(t, IF Due = {} THEN "count" ELSE "lock")
    /\ UNCHANGED <<startVars, pc, appMtx, gpsMtx, eventVars, packetVars>>

\* Mutant: pthread_mutex_trylock(), its result ignored.
HandlerTryLock(t) ==
    /\ InHandler(t, "lock")
    /\ appMtx' = t /\ HandlerGoto(t, "signal")
    /\ UNCHANGED <<startVars, pc, hev, gpsMtx, tickVars, eventVars, packetVars>>

HandlerLock(t) ==
    /\ InHandler(t, "lock") /\ appMtx = Free
    /\ appMtx' = t /\ HandlerGoto(t, "signal")
    /\ UNCHANGED <<startVars, pc, hev, gpsMtx, tickVars, eventVars, packetVars>>

\* Mutant: the event is set and nobody is told.
HandlerSetsOnly(t) ==
    /\ InHandler(t, "signal")
    /\ event' = hev[t] /\ fresh' = TRUE /\ UNCHANGED pc
    /\ HandlerGoto(t, "unlock")
    /\ UNCHANGED <<startVars, hev, appMtx, gpsMtx, tickVars, ev, packetVars>>

\* The event word is assigned, not or-ed; the signal wakes app_task only if
\* it is in pthread_cond_wait() now.
HandlerSignal(t) ==
    /\ InHandler(t, "signal")
    /\ event' = hev[t] /\ fresh' = TRUE
    /\ pc' = IF pc["app"] = "waiting" THEN [pc EXCEPT !["app"] = "wake"] ELSE pc
    /\ HandlerGoto(t, "unlock")
    /\ UNCHANGED <<startVars, hev, appMtx, gpsMtx, tickVars, ev, packetVars>>

\* Mutant: the handler returns without unlocking.
HandlerForgetsUnlock(t) ==
    /\ InHandler(t, "unlock") /\ HandlerGoto(t, "count")
    /\ UNCHANGED <<startVars, pc, hev, appMtx, gpsMtx, tickVars, eventVars,
                   packetVars>>

HandlerUnlock(t) ==
    /\ InHandler(t, "unlock")
    /\ appMtx' = Free /\ HandlerGoto(t, "count")
    /\ UNCHANGED <<startVars, pc, hev, gpsMtx, tickVars, eventVars, packetVars>>

HandlerCount(t) ==
    /\ InHandler(t, "count")
    /\ tmr' = (tmr + 1) % Wrap /\ cnt' = (cnt + 1) % Wrap
    /\ hev' = [hev EXCEPT ![t] = {}] /\ HandlerGoto(t, "idle")
    /\ UNCHANGED <<startVars, pc, appMtx, gpsMtx, eventVars, packetVars>>

Handler(t) == \/ HandlerCheck(t) \/ HandlerLock(t) \/ HandlerSignal(t)
              \/ HandlerUnlock(t) \/ HandlerCount(t)

-----------------------------------------------------------------------------
(* app_task_func(): wait for the event word, then report.                  *)

AppLock ==
    /\ At("app", "lock") /\ appMtx = Free
    /\ appMtx' = "app" /\ Goto("app", "wait")
    /\ UNCHANGED <<startVars, frameVars, gpsMtx, tickVars, eventVars, packetVars>>

\* Mutant: the event word is tested before the wait, but still never cleared.
AppWaitUnlessSet ==
    /\ At("app", "wait")
    /\ appMtx' = Free /\ Goto("app", IF event = {} THEN "waiting" ELSE "wake")
    /\ UNCHANGED <<startVars, frameVars, gpsMtx, tickVars, eventVars, packetVars>>

\* pthread_cond_wait() releases the mutex and joins the waiters in one step.
\* No predicate is tested before it.
AppWait ==
    /\ At("app", "wait")
    /\ appMtx' = Free /\ Goto("app", "waiting")
    /\ UNCHANGED <<startVars, frameVars, gpsMtx, tickVars, eventVars, packetVars>>

SpuriousWake ==
    /\ Spurious /\ At("app", "waiting") /\ Goto("app", "wake")
    /\ UNCHANGED <<startVars, frameVars, appMtx, gpsMtx, tickVars, eventVars,
                   packetVars>>

AppRelock ==
    /\ At("app", "wake") /\ appMtx = Free
    /\ appMtx' = "app" /\ Goto("app", "read")
    /\ UNCHANGED <<startVars, frameVars, gpsMtx, tickVars, eventVars, packetVars>>

AppRead ==
    /\ At("app", "read")
    /\ ev' = event /\ fresh' = FALSE /\ Goto("app", "unlock")
    /\ UNCHANGED <<startVars, frameVars, appMtx, gpsMtx, tickVars, event,
                   packetVars>>

\* Mutant: the event is handled inside the critical section.
AppKeepsLock ==
    /\ At("app", "unlock") /\ Goto("app", "dispatch")
    /\ UNCHANGED <<startVars, frameVars, appMtx, gpsMtx, tickVars, eventVars,
                   packetVars>>

AppUnlock ==
    /\ At("app", "unlock")
    /\ appMtx' = Free /\ Goto("app", "dispatch")
    /\ UNCHANGED <<startVars, frameVars, gpsMtx, tickVars, eventVars, packetVars>>

\* app_0022_event_hdlr(): the normal bit builds a packet, the health bit does
\* nothing, and neither does anything before the module is initialised.
AppDispatch ==
    /\ At("app", "dispatch")
    /\ Goto("app", IF "NRML" \in ev /\ modInit THEN "alloc" ELSE "lock")
    /\ UNCHANGED <<startVars, frameVars, appMtx, gpsMtx, tickVars, eventVars,
                   packetVars>>

Malloc(b) == heap' = [heap EXCEPT ![b] = @ + 1]
Release(b) == heap' = [heap EXCEPT ![b] = @ - 1]

\* app_0022_push_nrl_pkt(): the buffer of the frame, or an error.
AppAllocFrame ==
    /\ At("app", "alloc")
    /\ \/ Malloc("frame") /\ Goto("app", "alloc_loc")
       \/ MallocMayFail /\ Goto("app", "lock") /\ UNCHANGED heap
    /\ UNCHANGED <<startVars, frameVars, appMtx, gpsMtx, tickVars, eventVars,
                   loc, rtc, garbage>>

\* Mutant: without memory for the location the frame is not given back.
AppAllocLocLeaks ==
    /\ At("app", "alloc_loc")
    /\ \/ Malloc("loc") /\ loc' = "uninit" /\ Goto("app", "gps_lock")
       \/ MallocMayFail /\ Goto("app", "lock") /\ UNCHANGED <<heap, loc>>
    /\ UNCHANGED <<startVars, frameVars, appMtx, gpsMtx, tickVars, eventVars,
                   rtc, garbage>>

\* Then the one of the location; without it the frame is freed again.
AppAllocLoc ==
    /\ At("app", "alloc_loc")
    /\ \/ Malloc("loc") /\ loc' = "uninit" /\ Goto("app", "gps_lock")
       \/ /\ MallocMayFail /\ Release("frame") /\ Goto("app", "lock")
          /\ UNCHANGED loc
    /\ UNCHANGED <<startVars, frameVars, appMtx, gpsMtx, tickVars, eventVars,
                   rtc, garbage>>

AppAlloc == AppAllocFrame \/ AppAllocLoc

-----------------------------------------------------------------------------
(* The gpsd handle, shared by wrap_app_0022_get_location() and the loop of *)
(* geo_fence_task_func().                                                  *)

\* Mutant: pthread_mutex_trylock(), its result ignored.
GpsTryLock(t) ==
    /\ At(t, "gps_lock")
    /\ gpsMtx' = t /\ Goto(t, "gps_read")
    /\ UNCHANGED <<startVars, frameVars, appMtx, tickVars, eventVars, packetVars>>

GpsLock(t) ==
    /\ At(t, "gps_lock") /\ gpsMtx = Free
    /\ gpsMtx' = t /\ Goto(t, "gps_read")
    /\ UNCHANGED <<startVars, frameVars, appMtx, tickVars, eventVars, packetVars>>

\* Mutant: the failure path unlocks, and the packet is still built.
AppGpsReadUnlocks ==
    /\ At("app", "gps_read")
    /\ \/ loc' = "fix" /\ Goto("app", "gps_unlock") /\ UNCHANGED gpsMtx
       \/ GpsMayFail /\ gpsMtx' = Free /\ Goto("app", "gen") /\ UNCHANGED loc
    /\ UNCHANGED <<startVars, frameVars, appMtx, tickVars, eventVars, heap, rtc,
                   garbage>>

\* On -1 get_location() returns with the mutex locked and *pLoc untouched;
\* app_0022_push_nrl_pkt() does not look at what it returned.
AppGpsRead ==
    /\ At("app", "gps_read")
    /\ \/ loc' = "fix" /\ Goto("app", "gps_unlock")
       \/ GpsMayFail /\ Goto("app", "gen") /\ UNCHANGED loc
    /\ UNCHANGED <<startVars, frameVars, appMtx, gpsMtx, tickVars, eventVars,
                   heap, rtc, garbage>>

GeoGpsRead ==
    /\ At("geo", "gps_read") /\ Goto("geo", "gps_unlock")
    /\ UNCHANGED <<startVars, frameVars, appMtx, gpsMtx, tickVars, eventVars,
                   packetVars>>

\* When its own gps_read() fails, geo_fence_task prints the status with "%s",
\* which may crash, then unlocks and ends the whole process.
GeoGpsFails ==
    /\ GpsMayFail /\ At("geo", "gps_read")
    /\ \/ proc' = "exited" /\ gpsMtx' = Free /\ Goto("geo", "done")
       \/ proc' = "crashed" /\ UNCHANGED <<gpsMtx, pc>>
    /\ UNCHANGED <<timerOn, modInit, ipcInit, frameVars, appMtx, tickVars,
                   eventVars, packetVars>>

\* Mutant: get_location() returns with the mutex locked after a good read too.
GpsUnlockGeoOnly(t) ==
    /\ At(t, "gps_unlock")
    /\ gpsMtx' = IF t = "geo" THEN Free ELSE gpsMtx
    /\ Goto(t, IF t = "app" THEN "gen" ELSE "polygons")
    /\ UNCHANGED <<startVars, frameVars, appMtx, tickVars, eventVars, packetVars>>

GpsUnlock(t) ==
    /\ At(t, "gps_unlock")
    /\ gpsMtx' = Free
    /\ Goto(t, IF t = "app" THEN "gen" ELSE "polygons")
    /\ UNCHANGED <<startVars, frameVars, appMtx, tickVars, eventVars, packetVars>>

\* Mutant: the frame number is kept in a type that does not wrap.
AppGenNoWrap ==
    /\ At("app", "gen") /\ Goto("app", "send")
    /\ rtc' = rtc + 1
    /\ UNCHANGED <<startVars, frameVars, appMtx, gpsMtx, tickVars, eventVars,
                   heap, loc, garbage>>

\* app_0022_gen_nrl_pkt_struct(): the packet takes *pLoc as it is and the
\* current frame number, and the number is advanced.
AppGen ==
    /\ At("app", "gen")
    /\ rtc' = (rtc + 1) % FrameMod
    /\ garbage' = IF loc = "uninit" /\ garbage < MaxGarbage
                  THEN garbage + 1 ELSE garbage
    /\ Goto("app", "send")
    /\ UNCHANGED <<startVars, frameVars, appMtx, gpsMtx, tickVars, eventVars,
                   heap, loc>>

\* ipc_p1_event_app_pkt() calls through pInterface, NULL when the IPC module
\* was not initialised.  Both buffers are freed whatever the send returned.
AppSend ==
    /\ At("app", "send")
    /\ \/ /\ ipcInit = "set" /\ Goto("app", "lock")
          /\ heap' = [b \in Blocks |-> heap[b] - 1] /\ UNCHANGED proc
       \/ ipcInit # "set" /\ proc' = "crashed" /\ UNCHANGED <<heap, pc>>
    /\ UNCHANGED <<timerOn, modInit, ipcInit, frameVars, appMtx, gpsMtx,
                   tickVars, eventVars, loc, rtc, garbage>>

AppTask == \/ AppLock \/ AppWait \/ AppRelock \/ AppRead \/ AppUnlock
           \/ AppDispatch \/ AppAlloc \/ GpsLock("app") \/ AppGpsRead
           \/ GpsUnlock("app") \/ AppGen \/ AppSend

-----------------------------------------------------------------------------
(* geo_fence_task_func() around its gpsd section.                          *)

\* Route preparation; it returns early on an unknown route or a closed port,
\* and its file handling goes on with NULL where a file is missing.
GeoStartup ==
    /\ At("geo", "startup")
    /\ \/ \E l \in {"gps_lock", "done"} : Goto("geo", l) /\ UNCHANGED proc
       \/ proc' = "crashed" /\ UNCHANGED pc
    /\ UNCHANGED <<timerOn, modInit, ipcInit, frameVars, appMtx, gpsMtx,
                   tickVars, eventVars, packetVars>>

\* Seven polygon lines; a file without them ends the process.
GeoPolygons ==
    /\ At("geo", "polygons")
    /\ \/ Goto("geo", "gps_lock") /\ UNCHANGED proc
       \/ proc' = "exited" /\ UNCHANGED pc
    /\ UNCHANGED <<timerOn, modInit, ipcInit, frameVars, appMtx, gpsMtx,
                   tickVars, eventVars, packetVars>>

GeoTask == \/ GeoStartup \/ GpsLock("geo") \/ GeoGpsRead \/ GeoGpsFails
           \/ GpsUnlock("geo") \/ GeoPolygons

-----------------------------------------------------------------------------
\* The process is gone: the state stays as it is.
Halted == proc # "running" /\ UNCHANGED vars

Next == \/ MainFails \/ BringUp
        \/ \E t \in Threads : Tick(t) \/ Handler(t)
        \/ AppTask \/ SpuriousWake \/ GeoTask \/ Halted

Spec == Init /\ [][Next]_vars

(* Fairness: the kernel schedules every runnable thread and delivers the    *)
(* periodic signal; a thread waiting for a mutex gets it if it is released  *)
(* again and again, since app_task holds neither for long and              *)
(* geo_fence_task sleeps 100 ms between two of its sections.  Nothing is    *)
(* fair about failures.                                                    *)
Fairness ==
    /\ WF_vars(BringUp)
    /\ \A t \in SignalTargets : WF_vars(Tick(t)) /\ SF_vars(Handler(t))
    /\ WF_vars(AppTask)
    /\ SF_vars(AppLock) /\ SF_vars(AppRelock) /\ SF_vars(GpsLock("app"))
    /\ WF_vars(GeoTask) /\ SF_vars(GpsLock("geo"))

FairSpec == Spec /\ Fairness

-----------------------------------------------------------------------------
(* Properties.                                                             *)

\* The state has the shape of the declarations in the code.
TypeOK ==
    /\ proc \in {"running", "exited", "crashed"}
    /\ timerOn \in BOOLEAN /\ modInit \in BOOLEAN
    /\ ipcInit \in {"no", "failed", "set"}
    /\ pc \in [Threads -> MainPcs \cup AppPcs \cup GeoPcs]
    /\ pc["main"] \in MainPcs /\ pc["app"] \in AppPcs /\ pc["geo"] \in GeoPcs
    /\ h \in [Threads -> HandlerPcs]
    /\ hev \in [Threads -> SUBSET Bits]
    /\ appMtx \in Threads \cup {Free} /\ gpsMtx \in Threads \cup {Free}
    /\ tmr \in 0 .. Wrap - 1 /\ cnt \in 0 .. Wrap - 1
    /\ event \subseteq Bits /\ ev \subseteq Bits /\ fresh \in BOOLEAN
    /\ heap \in [Blocks -> Int] /\ loc \in {"uninit", "fix"}
    /\ rtc \in 0 .. FrameMod - 1 /\ garbage \in 0 .. MaxGarbage

\* The handler frame of t is between its lock and unlock of app_evt_mtx.
HandlerHolds(t) == h[t] \in {"signal", "unlock"}

\* app_0022_event and OGps_data are never touched by two threads at once,
\* whichever thread the signal handler interrupts and whatever fails.
MutualExclusion ==
    /\ \A t, u \in Threads : HandlerHolds(t) =>
          /\ pc["app"] \notin AppLockPcs
          /\ HandlerHolds(u) => t = u
    /\ pc["app"] \in GpsLockPcs => pc["geo"] \notin GpsLockPcs

\* Thread t is blocked in pthread_mutex_lock() on a mutex that u owns.
WaitsFor(t, u) ==
    \/ /\ appMtx = u
       /\ \/ h[t] = "lock"
          \/ h[t] = "idle" /\ t = "app" /\ pc[t] \in {"lock", "wake"}
    \/ gpsMtx = u /\ h[t] = "idle" /\ pc[t] = "gps_lock"

\* app_evt_mtx and gpsd_mutex are never waited for in a circle by two
\* threads.  Only app_task can wait for itself: in a handler that interrupted
\* it inside its event section, or for the gpsd_mutex it failed to release.
NoCircularWait ==
    \A t, u \in Threads :
        WaitsFor(t, u) /\ (t = u \/ WaitsFor(u, t)) => t = "app" /\ u = "app"

\* While the kernel runs the handler on other threads than app_task, a
\* handler never waits for a mutex its own thread holds.
HandlerNeverSelfBlocks == \A t \in Threads : h[t] = "lock" => appMtx # t

\* A health event is only ever raised together with a normal one when the
\* health period is a multiple of the normal period, so that assigning the
\* event word (instead of or-ing it) can drop no pending normal report.
HealthImpliesNormal ==
    /\ "HLT" \in event => "NRML" \in event
    /\ "HLT" \in ev => "NRML" \in ev

\* The normal report is due when the counter equals the rate.  While handlers do
\* not overlap on two threads the counter never gets past that value, where it
\* would silence the reports until it wraps, however late app_task lets go of the
\* mutex the handler waits for.
CounterNeverPassesRate == tmr <= UrRate

\* Without spurious wakeups app_task never reads an event word twice: the
\* word is never cleared, only the signal says that it is new.
EveryReadIsFresh == pc["app"] = "read" => fresh

\* The thread of app_task is started before what it uses is initialised, but it
\* works on a report only once main() has made all the calls: the module is
\* initialised, the timer runs, and ipc1_mpu_mod_init() has been called.  That
\* one may have failed, so a report can meet an interface that was never set,
\* but none that is still to be.
ReportsFollowBringUp ==
    pc["app"] \in PacketPcs \cup {"alloc", "alloc_loc"} =>
        modInit /\ timerOn /\ ipcInit # "no" /\ pc["main"] = "loop"

\* The buffers app_task has in its hands.
Held == (IF pc["app"] \in PacketPcs \cup {"alloc_loc"} THEN {"frame"} ELSE {})
           \cup (IF pc["app"] \in PacketPcs THEN {"loc"} ELSE {})

\* Every path of app_0022_push_nrl_pkt(), with either malloc() failing, gives
\* each buffer back once: none is live that it does not hold, and none is freed
\* that it does not hold.
HeapBalanced == heap = [b \in Blocks |-> IF b \in Held THEN 1 ELSE 0]

\* app_task went on with gpsd_mutex locked after a failed gps_read().
GpsLeaked == gpsMtx = "app" /\ pc["app"] \notin GpsLockPcs

\* A failed gps_read() in app_task is for good: gpsd_mutex stays locked and
\* no packet is built after the one that was under way.
LeakSilencesReports ==
    [][GpsLeaked => /\ GpsLeaked'
                    /\ pc["app"] # "gen" => pc'["app"] # "gen"]_vars

\* At most one packet in the life of the process carries the uninitialised
\* location of a failed gps_read().
AtMostOneUnsetLocation == garbage <= 1

\* While ticks do not outrun app_task and gpsd answers, every report that
\* falls due is sent, unless the process ends first.
EveryDueReportIsSent ==
    (fresh /\ "NRML" \in event) ~> (pc["app"] = "send" \/ proc # "running")

\* The report that fell due and is not built yet: in the handler, in the event
\* word, in app_task's copy of it, or on the way to its packet.
ReportPending ==
    \/ \E t \in Threads : h[t] \in {"lock", "signal"} /\ "NRML" \in hev[t]
    \/ fresh /\ "NRML" \in event
    \/ pc["app"] \in {"unlock", "dispatch"} /\ "NRML" \in ev
    \/ pc["app"] \in {"alloc", "alloc_loc", "gps_lock", "gps_read",
                    "gps_unlock", "gen"}

Cycle == INSTANCE ReportCycle
           WITH Rate <- UrRate, Numbers <- FrameMod, elapsed <- tmr,
                pending <- ReportPending, number <- rtc,
                over <- (proc # "running")

\* While ticks do not outrun app_task and no allocation fails, handler, event
\* word, condition variable and task amount to one report per period: it is built
\* once, before the next one falls due, under the next number, and no wakeup
\* builds one that is not due.
ImplementsReportCycle == Cycle!Spec

\* The geofence loop is not starved of the gpsd handle by the reports.
GeoKeepsPolling ==
    (pc["geo"] = "gps_lock")
        ~> (pc["geo"] = "polygons" \/ proc # "running")

=============================================================================
