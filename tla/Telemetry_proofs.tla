-------------------------- MODULE Telemetry_proofs --------------------------
(***************************************************************************)
(* Proofs about Telemetry, for every rate, every choice of the threads     *)
(* that may run the signal handler, and every combination of failures.     *)
(***************************************************************************)
EXTENDS Telemetry, TLAPS

\* A thread has no place in its code before main() created it.
BirthInv ==
    /\ pc["app"] = "unborn" <=> pc["main"] \in {"gps_open", "create_app"}
    /\ pc["geo"] = "unborn"
         <=> pc["main"] \in {"gps_open", "create_app", "create_geo"}

\* Who owns app_evt_mtx is where the threads are: between lock and unlock in
\* a handler frame, or in the event section of app_task, and never in both
\* on the same thread.
AppMtxOwner ==
    /\ \A t \in Threads :
          appMtx = t <=> \/ HandlerHolds(t)
                         \/ t = "app" /\ pc["app"] \in AppLockPcs
    /\ ~ (HandlerHolds("app") /\ pc["app"] \in AppLockPcs)

\* geo_fence_task owns gpsd_mutex exactly in its section; app_task owns it in
\* its section, and also after a failed gps_read().
GpsMtxOwner ==
    /\ gpsMtx = "geo" <=> pc["geo"] \in GpsLockPcs
    /\ pc["app"] \in GpsLockPcs => gpsMtx = "app"
    /\ gpsMtx # "main"

\* An unset location is only met with the mutex leaked, and once.
LeakInv ==
    /\ pc["app"] = "gps_unlock" => loc = "fix"
    /\ pc["app"] = "gen" /\ loc = "uninit" => gpsMtx = "app"
    /\ garbage # 0 => /\ gpsMtx = "app"
                      /\ pc["app"] \notin GpsLockPcs \cup {"gen"}
    /\ garbage <= 1

\* app_task sees an event bit only once the timer runs.
BringUpInv ==
    /\ timerOn <=> pc["main"] = "loop"
    /\ pc["main"] \in {"timer", "loop"} => modInit
    /\ pc["main"] \in {"app_init", "timer", "loop"} => ipcInit # "no"
    /\ pc["app"] \in PacketPcs \cup {"alloc", "alloc_loc"} => modInit /\ timerOn
    /\ ~timerOn => /\ event = {} /\ ev = {}
                   /\ \A t \in Threads : h[t] = "idle"

IInv == /\ TypeOK /\ BirthInv /\ AppMtxOwner /\ GpsMtxOwner /\ LeakInv
        /\ BringUpInv /\ HeapBalanced

-----------------------------------------------------------------------------
\* Every step keeps the types: the counters wrap, the program counters stay
\* in their own thread's labels.
LEMMA TypeStep ==
    TypeOK /\ [Next]_vars => TypeOK'
<1> SUFFICES ASSUME TypeOK, [Next]_vars PROVE TypeOK'
    OBVIOUS
<1> USE RateAssumption, FrameAssumption DEF TypeOK, Threads, MainPcs, AppPcs,
       GeoPcs, AppLockPcs, GpsLockPcs, PacketPcs, HandlerPcs, Bits, Blocks,
       MaxGarbage, Free
<1>1. ASSUME MainFails PROVE TypeOK'
    BY <1>1 DEF MainFails, frameVars, tickVars, eventVars, packetVars
<1>2. ASSUME GpsOpen PROVE TypeOK'
    BY <1>2 DEF GpsOpen, At, Goto, startVars, frameVars, tickVars, eventVars,
           packetVars
<1>3. ASSUME CreateApp PROVE TypeOK'
    BY <1>3 DEF CreateApp, At, startVars, frameVars, tickVars, eventVars,
           packetVars
<1>4. ASSUME CreateGeo PROVE TypeOK'
    BY <1>4 DEF CreateGeo, At, startVars, frameVars, tickVars, eventVars,
           packetVars
<1>5. ASSUME OpenSerial PROVE TypeOK'
    BY <1>5 DEF OpenSerial, At, Goto, startVars, frameVars, tickVars,
           eventVars, packetVars
<1>6. ASSUME IpcInit PROVE TypeOK'
    BY <1>6 DEF IpcInit, At, Goto, frameVars, tickVars, eventVars, packetVars
<1>7. ASSUME AppInit PROVE TypeOK'
    BY <1>7 DEF AppInit, At, Goto, frameVars, eventVars, packetVars
<1>8. ASSUME StartTimer PROVE TypeOK'
    BY <1>8 DEF StartTimer, At, Goto, frameVars, tickVars, eventVars,
           packetVars
<1>9. ASSUME NEW t \in Threads, Tick(t) PROVE TypeOK'
    BY <1>9 DEF Tick, HandlerGoto, startVars, tickVars, eventVars, packetVars
<1>10. ASSUME NEW t \in Threads, HandlerCheck(t) PROVE TypeOK'
    BY <1>10 DEF HandlerCheck, InHandler, HandlerGoto, Due, startVars,
           eventVars, packetVars
<1>11. ASSUME NEW t \in Threads, HandlerLock(t) PROVE TypeOK'
    BY <1>11 DEF HandlerLock, InHandler, HandlerGoto, startVars, tickVars,
           eventVars, packetVars
<1>12. ASSUME NEW t \in Threads, HandlerSignal(t) PROVE TypeOK'
    BY <1>12 DEF HandlerSignal, InHandler, HandlerGoto, startVars, tickVars,
           packetVars
<1>13. ASSUME NEW t \in Threads, HandlerUnlock(t) PROVE TypeOK'
    BY <1>13 DEF HandlerUnlock, InHandler, HandlerGoto, startVars, tickVars,
           eventVars, packetVars
<1>14. ASSUME NEW t \in Threads, HandlerCount(t) PROVE TypeOK'
    BY <1>14 DEF HandlerCount, InHandler, HandlerGoto, startVars, eventVars,
           packetVars
<1>15. ASSUME AppLock PROVE TypeOK'
    BY <1>15 DEF AppLock, At, Goto, startVars, frameVars, tickVars, eventVars,
           packetVars
<1>16. ASSUME AppWait PROVE TypeOK'
    BY <1>16 DEF AppWait, At, Goto, startVars, frameVars, tickVars, eventVars,
           packetVars
<1>17. ASSUME SpuriousWake PROVE TypeOK'
    BY <1>17 DEF SpuriousWake, At, Goto, startVars, frameVars, tickVars,
           eventVars, packetVars
<1>18. ASSUME AppRelock PROVE TypeOK'
    BY <1>18 DEF AppRelock, At, Goto, startVars, frameVars, tickVars,
           eventVars, packetVars
<1>19. ASSUME AppRead PROVE TypeOK'
    BY <1>19 DEF AppRead, At, Goto, startVars, frameVars, tickVars, packetVars
<1>20. ASSUME AppUnlock PROVE TypeOK'
    BY <1>20 DEF AppUnlock, At, Goto, startVars, frameVars, tickVars,
           eventVars, packetVars
<1>21. ASSUME AppDispatch PROVE TypeOK'
    BY <1>21 DEF AppDispatch, At, Goto, startVars, frameVars, tickVars,
           eventVars, packetVars
<1>22. ASSUME AppAlloc PROVE TypeOK'
  <2>1. /\ UNCHANGED <<startVars, frameVars, appMtx, gpsMtx, tickVars, eventVars,
                      rtc, garbage>>
        /\ \E l \in {"alloc_loc", "lock", "gps_lock"} : Goto("app", l)
        /\ loc' \in {loc, "uninit"}
    BY ONLY <1>22 DEF AppAlloc, AppAllocFrame, AppAllocLoc
  <2>2. heap' \in [Blocks -> Int]
    BY <1>22 DEF AppAlloc, AppAllocFrame, AppAllocLoc, Malloc, Release
  <2> QED
    BY <2>1, <2>2 DEF Goto, startVars, frameVars, tickVars, eventVars
<1>23. ASSUME NEW t \in {"app", "geo"}, GpsLock(t) PROVE TypeOK'
    BY <1>23 DEF GpsLock, At, Goto, startVars, frameVars, tickVars, eventVars,
           packetVars
<1>24. ASSUME AppGpsRead PROVE TypeOK'
    BY <1>24 DEF AppGpsRead, At, Goto, startVars, frameVars, tickVars,
           eventVars
<1>25. ASSUME GeoGpsRead PROVE TypeOK'
    BY <1>25 DEF GeoGpsRead, At, Goto, startVars, frameVars, tickVars,
           eventVars, packetVars
<1>26. ASSUME GeoGpsFails PROVE TypeOK'
    BY <1>26 DEF GeoGpsFails, At, Goto, frameVars, tickVars, eventVars,
           packetVars
<1>27. ASSUME NEW t \in {"app", "geo"}, GpsUnlock(t) PROVE TypeOK'
    BY <1>27 DEF GpsUnlock, At, Goto, startVars, frameVars, tickVars,
           eventVars, packetVars
<1>28. ASSUME AppGen PROVE TypeOK'
    BY <1>28 DEF AppGen, At, Goto, startVars, frameVars, tickVars, eventVars
<1>29. ASSUME AppSend PROVE TypeOK'
  <2>1. CASE ipcInit = "set"
    BY <1>29, <2>1 DEF AppSend, At, Goto, frameVars, tickVars, eventVars
  <2>2. CASE ipcInit # "set"
    <3>1. /\ proc' = "crashed" /\ UNCHANGED <<heap, pc, timerOn, modInit, ipcInit>>
          /\ UNCHANGED <<appMtx, gpsMtx, loc, rtc, garbage>>
          /\ UNCHANGED <<frameVars, tickVars, eventVars>>
      BY ONLY <1>29, <2>2 DEF AppSend
    <3> QED
      BY <3>1 DEF frameVars, tickVars, eventVars
  <2>3. QED
    BY <2>1, <2>2
<1>30. ASSUME GeoStartup PROVE TypeOK'
    BY <1>30 DEF GeoStartup, At, Goto, startVars, frameVars, tickVars,
           eventVars, packetVars
<1>31. ASSUME GeoPolygons PROVE TypeOK'
    BY <1>31 DEF GeoPolygons, At, Goto, frameVars, tickVars, eventVars,
           packetVars
<1>32. ASSUME UNCHANGED vars PROVE TypeOK'
    BY <1>32 DEF vars, startVars, frameVars, tickVars, eventVars, packetVars
<1> QED
    BY <1>1, <1>2, <1>3, <1>4, <1>5, <1>6, <1>7, <1>8, <1>9, <1>10, <1>11,
           <1>12, <1>13, <1>14, <1>15, <1>16, <1>17, <1>18, <1>19, <1>20,
           <1>21, <1>22, <1>23, <1>24, <1>25, <1>26, <1>27, <1>28, <1>29,
           <1>30, <1>31, <1>32
    DEF Next, BringUp, Handler, AppTask, GeoTask, Halted

\* main() creates each thread once, in its order.
LEMMA BirthStep ==
    TypeOK /\ BirthInv /\ [Next]_vars => BirthInv'
<1> SUFFICES ASSUME TypeOK, BirthInv, [Next]_vars PROVE BirthInv'
    OBVIOUS
<1> USE DEF TypeOK, Threads, MainPcs, AppPcs, GeoPcs, AppLockPcs, GpsLockPcs,
       PacketPcs, HandlerPcs, Bits, Blocks, MaxGarbage, BirthInv
<1>1. ASSUME MainFails PROVE BirthInv'
    BY <1>1 DEF MainFails, frameVars, tickVars, eventVars, packetVars
<1>2. ASSUME GpsOpen PROVE BirthInv'
    BY <1>2 DEF GpsOpen, At, Goto, startVars, frameVars, tickVars, eventVars,
           packetVars
<1>3. ASSUME CreateApp PROVE BirthInv'
    BY <1>3 DEF CreateApp, At, startVars, frameVars, tickVars, eventVars,
           packetVars
<1>4. ASSUME CreateGeo PROVE BirthInv'
    BY <1>4 DEF CreateGeo, At, startVars, frameVars, tickVars, eventVars,
           packetVars
<1>5. ASSUME OpenSerial PROVE BirthInv'
    BY <1>5 DEF OpenSerial, At, Goto, startVars, frameVars, tickVars,
           eventVars, packetVars
<1>6. ASSUME IpcInit PROVE BirthInv'
    BY <1>6 DEF IpcInit, At, Goto, frameVars, tickVars, eventVars, packetVars
<1>7. ASSUME AppInit PROVE BirthInv'
    BY <1>7 DEF AppInit, At, Goto, frameVars, eventVars, packetVars
<1>8. ASSUME StartTimer PROVE BirthInv'
    BY <1>8 DEF StartTimer, At, Goto, frameVars, tickVars, eventVars,
           packetVars
<1>9. ASSUME NEW t \in Threads, Tick(t) PROVE BirthInv'
    BY <1>9 DEF Tick, HandlerGoto, startVars, tickVars, eventVars, packetVars
<1>10. ASSUME NEW t \in Threads, HandlerCheck(t) PROVE BirthInv'
    BY <1>10 DEF HandlerCheck, InHandler, HandlerGoto, Due, startVars,
           eventVars, packetVars
<1>11. ASSUME NEW t \in Threads, HandlerLock(t) PROVE BirthInv'
    BY <1>11 DEF HandlerLock, InHandler, HandlerGoto, startVars, tickVars,
           eventVars, packetVars
<1>12. ASSUME NEW t \in Threads, HandlerSignal(t) PROVE BirthInv'
    BY <1>12 DEF HandlerSignal, InHandler, HandlerGoto, startVars, tickVars,
           packetVars
<1>13. ASSUME NEW t \in Threads, HandlerUnlock(t) PROVE BirthInv'
    BY <1>13 DEF HandlerUnlock, InHandler, HandlerGoto, startVars, tickVars,
           eventVars, packetVars
<1>14. ASSUME NEW t \in Threads, HandlerCount(t) PROVE BirthInv'
    BY <1>14 DEF HandlerCount, InHandler, HandlerGoto, startVars, eventVars,
           packetVars
<1>15. ASSUME AppLock PROVE BirthInv'
    BY <1>15 DEF AppLock, At, Goto, startVars, frameVars, tickVars, eventVars,
           packetVars
<1>16. ASSUME AppWait PROVE BirthInv'
    BY <1>16 DEF AppWait, At, Goto, startVars, frameVars, tickVars, eventVars,
           packetVars
<1>17. ASSUME SpuriousWake PROVE BirthInv'
    BY <1>17 DEF SpuriousWake, At, Goto, startVars, frameVars, tickVars,
           eventVars, packetVars
<1>18. ASSUME AppRelock PROVE BirthInv'
    BY <1>18 DEF AppRelock, At, Goto, startVars, frameVars, tickVars,
           eventVars, packetVars
<1>19. ASSUME AppRead PROVE BirthInv'
    BY <1>19 DEF AppRead, At, Goto, startVars, frameVars, tickVars, packetVars
<1>20. ASSUME AppUnlock PROVE BirthInv'
    BY <1>20 DEF AppUnlock, At, Goto, startVars, frameVars, tickVars,
           eventVars, packetVars
<1>21. ASSUME AppDispatch PROVE BirthInv'
    BY <1>21 DEF AppDispatch, At, Goto, startVars, frameVars, tickVars,
           eventVars, packetVars
<1>22. ASSUME AppAlloc PROVE BirthInv'
    BY <1>22 DEF AppAlloc, AppAllocFrame, AppAllocLoc, At, Goto,
           startVars, frameVars, tickVars, eventVars
<1>23. ASSUME NEW t \in {"app", "geo"}, GpsLock(t) PROVE BirthInv'
    BY <1>23 DEF GpsLock, At, Goto, startVars, frameVars, tickVars, eventVars,
           packetVars
<1>24. ASSUME AppGpsRead PROVE BirthInv'
    BY <1>24 DEF AppGpsRead, At, Goto, startVars, frameVars, tickVars,
           eventVars
<1>25. ASSUME GeoGpsRead PROVE BirthInv'
    BY <1>25 DEF GeoGpsRead, At, Goto, startVars, frameVars, tickVars,
           eventVars, packetVars
<1>26. ASSUME GeoGpsFails PROVE BirthInv'
    BY <1>26 DEF GeoGpsFails, At, Goto, frameVars, tickVars, eventVars,
           packetVars
<1>27. ASSUME NEW t \in {"app", "geo"}, GpsUnlock(t) PROVE BirthInv'
    BY <1>27 DEF GpsUnlock, At, Goto, startVars, frameVars, tickVars,
           eventVars, packetVars
<1>28. ASSUME AppGen PROVE BirthInv'
    BY <1>28 DEF AppGen, At, Goto, startVars, frameVars, tickVars, eventVars
<1>29. ASSUME AppSend PROVE BirthInv'
    BY <1>29 DEF AppSend, At, Goto, frameVars, tickVars, eventVars
<1>30. ASSUME GeoStartup PROVE BirthInv'
    BY <1>30 DEF GeoStartup, At, Goto, startVars, frameVars, tickVars,
           eventVars, packetVars
<1>31. ASSUME GeoPolygons PROVE BirthInv'
    BY <1>31 DEF GeoPolygons, At, Goto, frameVars, tickVars, eventVars,
           packetVars
<1>32. ASSUME UNCHANGED vars PROVE BirthInv'
    BY <1>32 DEF vars, startVars, frameVars, tickVars, eventVars, packetVars
<1> QED
    BY <1>1, <1>2, <1>3, <1>4, <1>5, <1>6, <1>7, <1>8, <1>9, <1>10, <1>11,
           <1>12, <1>13, <1>14, <1>15, <1>16, <1>17, <1>18, <1>19, <1>20,
           <1>21, <1>22, <1>23, <1>24, <1>25, <1>26, <1>27, <1>28, <1>29,
           <1>30, <1>31, <1>32
    DEF Next, BringUp, Handler, AppTask, GeoTask, Halted

\* Every step keeps the owner of app_evt_mtx where the code says it is.
LEMMA AppMtxStep ==
    TypeOK /\ BirthInv /\ AppMtxOwner /\ [Next]_vars => AppMtxOwner'
<1> SUFFICES ASSUME TypeOK, BirthInv, AppMtxOwner, [Next]_vars PROVE AppMtxOwner'
    OBVIOUS
<1> USE DEF TypeOK, Threads, MainPcs, AppPcs, GeoPcs, AppLockPcs, GpsLockPcs,
       PacketPcs, HandlerPcs, Bits, Blocks, MaxGarbage, BirthInv, Free,
       AppMtxOwner, HandlerHolds
<1>1. ASSUME MainFails PROVE AppMtxOwner'
    BY <1>1 DEF MainFails, frameVars, tickVars, eventVars, packetVars
<1>2. ASSUME GpsOpen PROVE AppMtxOwner'
    BY <1>2 DEF GpsOpen, At, Goto, startVars, frameVars, tickVars, eventVars,
           packetVars
<1>3. ASSUME CreateApp PROVE AppMtxOwner'
    BY <1>3 DEF CreateApp, At, startVars, frameVars, tickVars, eventVars,
           packetVars
<1>4. ASSUME CreateGeo PROVE AppMtxOwner'
    BY <1>4 DEF CreateGeo, At, startVars, frameVars, tickVars, eventVars,
           packetVars
<1>5. ASSUME OpenSerial PROVE AppMtxOwner'
    BY <1>5 DEF OpenSerial, At, Goto, startVars, frameVars, tickVars,
           eventVars, packetVars
<1>6. ASSUME IpcInit PROVE AppMtxOwner'
    BY <1>6 DEF IpcInit, At, Goto, frameVars, tickVars, eventVars, packetVars
<1>7. ASSUME AppInit PROVE AppMtxOwner'
    BY <1>7 DEF AppInit, At, Goto, frameVars, eventVars, packetVars
<1>8. ASSUME StartTimer PROVE AppMtxOwner'
    BY <1>8 DEF StartTimer, At, Goto, frameVars, tickVars, eventVars,
           packetVars
<1>9. ASSUME NEW t \in Threads, Tick(t) PROVE AppMtxOwner'
    BY <1>9 DEF Tick, HandlerGoto, startVars, tickVars, eventVars, packetVars
<1>10. ASSUME NEW t \in Threads, HandlerCheck(t) PROVE AppMtxOwner'
    BY <1>10 DEF HandlerCheck, InHandler, HandlerGoto, Due, startVars,
           eventVars, packetVars
<1>11. ASSUME NEW t \in Threads, HandlerLock(t) PROVE AppMtxOwner'
    BY <1>11 DEF HandlerLock, InHandler, HandlerGoto, startVars, tickVars,
           eventVars, packetVars
<1>12. ASSUME NEW t \in Threads, HandlerSignal(t) PROVE AppMtxOwner'
    BY <1>12 DEF HandlerSignal, InHandler, HandlerGoto, startVars, tickVars,
           packetVars
<1>13. ASSUME NEW t \in Threads, HandlerUnlock(t) PROVE AppMtxOwner'
    BY <1>13 DEF HandlerUnlock, InHandler, HandlerGoto, startVars, tickVars,
           eventVars, packetVars
<1>14. ASSUME NEW t \in Threads, HandlerCount(t) PROVE AppMtxOwner'
    BY <1>14 DEF HandlerCount, InHandler, HandlerGoto, startVars, eventVars,
           packetVars
<1>15. ASSUME AppLock PROVE AppMtxOwner'
    BY <1>15 DEF AppLock, At, Goto, startVars, frameVars, tickVars, eventVars,
           packetVars
<1>16. ASSUME AppWait PROVE AppMtxOwner'
    BY <1>16 DEF AppWait, At, Goto, startVars, frameVars, tickVars, eventVars,
           packetVars
<1>17. ASSUME SpuriousWake PROVE AppMtxOwner'
    BY <1>17 DEF SpuriousWake, At, Goto, startVars, frameVars, tickVars,
           eventVars, packetVars
<1>18. ASSUME AppRelock PROVE AppMtxOwner'
    BY <1>18 DEF AppRelock, At, Goto, startVars, frameVars, tickVars,
           eventVars, packetVars
<1>19. ASSUME AppRead PROVE AppMtxOwner'
    BY <1>19 DEF AppRead, At, Goto, startVars, frameVars, tickVars, packetVars
<1>20. ASSUME AppUnlock PROVE AppMtxOwner'
    BY <1>20 DEF AppUnlock, At, Goto, startVars, frameVars, tickVars,
           eventVars, packetVars
<1>21. ASSUME AppDispatch PROVE AppMtxOwner'
    BY <1>21 DEF AppDispatch, At, Goto, startVars, frameVars, tickVars,
           eventVars, packetVars
<1>22. ASSUME AppAlloc PROVE AppMtxOwner'
    BY <1>22 DEF AppAlloc, AppAllocFrame, AppAllocLoc, At, Goto,
           startVars, frameVars, tickVars, eventVars
<1>23. ASSUME NEW t \in {"app", "geo"}, GpsLock(t) PROVE AppMtxOwner'
    BY <1>23 DEF GpsLock, At, Goto, startVars, frameVars, tickVars, eventVars,
           packetVars
<1>24. ASSUME AppGpsRead PROVE AppMtxOwner'
    BY <1>24 DEF AppGpsRead, At, Goto, startVars, frameVars, tickVars,
           eventVars
<1>25. ASSUME GeoGpsRead PROVE AppMtxOwner'
    BY <1>25 DEF GeoGpsRead, At, Goto, startVars, frameVars, tickVars,
           eventVars, packetVars
<1>26. ASSUME GeoGpsFails PROVE AppMtxOwner'
    BY <1>26 DEF GeoGpsFails, At, Goto, frameVars, tickVars, eventVars,
           packetVars
<1>27. ASSUME NEW t \in {"app", "geo"}, GpsUnlock(t) PROVE AppMtxOwner'
    BY <1>27 DEF GpsUnlock, At, Goto, startVars, frameVars, tickVars,
           eventVars, packetVars
<1>28. ASSUME AppGen PROVE AppMtxOwner'
    BY <1>28 DEF AppGen, At, Goto, startVars, frameVars, tickVars, eventVars
<1>29. ASSUME AppSend PROVE AppMtxOwner'
    BY <1>29 DEF AppSend, At, Goto, frameVars, tickVars, eventVars
<1>30. ASSUME GeoStartup PROVE AppMtxOwner'
    BY <1>30 DEF GeoStartup, At, Goto, startVars, frameVars, tickVars,
           eventVars, packetVars
<1>31. ASSUME GeoPolygons PROVE AppMtxOwner'
    BY <1>31 DEF GeoPolygons, At, Goto, frameVars, tickVars, eventVars,
           packetVars
<1>32. ASSUME UNCHANGED vars PROVE AppMtxOwner'
    BY <1>32 DEF vars, startVars, frameVars, tickVars, eventVars, packetVars
<1> QED
    BY <1>1, <1>2, <1>3, <1>4, <1>5, <1>6, <1>7, <1>8, <1>9, <1>10, <1>11,
           <1>12, <1>13, <1>14, <1>15, <1>16, <1>17, <1>18, <1>19, <1>20,
           <1>21, <1>22, <1>23, <1>24, <1>25, <1>26, <1>27, <1>28, <1>29,
           <1>30, <1>31, <1>32
    DEF Next, BringUp, Handler, AppTask, GeoTask, Halted

\* Every step keeps the owner of gpsd_mutex where the code says it is.
LEMMA GpsMtxStep ==
    TypeOK /\ BirthInv /\ GpsMtxOwner /\ [Next]_vars => GpsMtxOwner'
<1> SUFFICES ASSUME TypeOK, BirthInv, GpsMtxOwner, [Next]_vars PROVE GpsMtxOwner'
    OBVIOUS
<1> USE DEF TypeOK, Threads, MainPcs, AppPcs, GeoPcs, AppLockPcs, GpsLockPcs,
       PacketPcs, HandlerPcs, Bits, Blocks, MaxGarbage, BirthInv, Free,
       GpsMtxOwner
<1>1. ASSUME MainFails PROVE GpsMtxOwner'
    BY <1>1 DEF MainFails, frameVars, tickVars, eventVars, packetVars
<1>2. ASSUME GpsOpen PROVE GpsMtxOwner'
    BY <1>2 DEF GpsOpen, At, Goto, startVars, frameVars, tickVars, eventVars,
           packetVars
<1>3. ASSUME CreateApp PROVE GpsMtxOwner'
    BY <1>3 DEF CreateApp, At, startVars, frameVars, tickVars, eventVars,
           packetVars
<1>4. ASSUME CreateGeo PROVE GpsMtxOwner'
    BY <1>4 DEF CreateGeo, At, startVars, frameVars, tickVars, eventVars,
           packetVars
<1>5. ASSUME OpenSerial PROVE GpsMtxOwner'
    BY <1>5 DEF OpenSerial, At, Goto, startVars, frameVars, tickVars,
           eventVars, packetVars
<1>6. ASSUME IpcInit PROVE GpsMtxOwner'
    BY <1>6 DEF IpcInit, At, Goto, frameVars, tickVars, eventVars, packetVars
<1>7. ASSUME AppInit PROVE GpsMtxOwner'
    BY <1>7 DEF AppInit, At, Goto, frameVars, eventVars, packetVars
<1>8. ASSUME StartTimer PROVE GpsMtxOwner'
    BY <1>8 DEF StartTimer, At, Goto, frameVars, tickVars, eventVars,
           packetVars
<1>9. ASSUME NEW t \in Threads, Tick(t) PROVE GpsMtxOwner'
    BY <1>9 DEF Tick, HandlerGoto, startVars, tickVars, eventVars, packetVars
<1>10. ASSUME NEW t \in Threads, HandlerCheck(t) PROVE GpsMtxOwner'
    BY <1>10 DEF HandlerCheck, InHandler, HandlerGoto, Due, startVars,
           eventVars, packetVars
<1>11. ASSUME NEW t \in Threads, HandlerLock(t) PROVE GpsMtxOwner'
    BY <1>11 DEF HandlerLock, InHandler, HandlerGoto, startVars, tickVars,
           eventVars, packetVars
<1>12. ASSUME NEW t \in Threads, HandlerSignal(t) PROVE GpsMtxOwner'
    BY <1>12 DEF HandlerSignal, InHandler, HandlerGoto, startVars, tickVars,
           packetVars
<1>13. ASSUME NEW t \in Threads, HandlerUnlock(t) PROVE GpsMtxOwner'
    BY <1>13 DEF HandlerUnlock, InHandler, HandlerGoto, startVars, tickVars,
           eventVars, packetVars
<1>14. ASSUME NEW t \in Threads, HandlerCount(t) PROVE GpsMtxOwner'
    BY <1>14 DEF HandlerCount, InHandler, HandlerGoto, startVars, eventVars,
           packetVars
<1>15. ASSUME AppLock PROVE GpsMtxOwner'
    BY <1>15 DEF AppLock, At, Goto, startVars, frameVars, tickVars, eventVars,
           packetVars
<1>16. ASSUME AppWait PROVE GpsMtxOwner'
    BY <1>16 DEF AppWait, At, Goto, startVars, frameVars, tickVars, eventVars,
           packetVars
<1>17. ASSUME SpuriousWake PROVE GpsMtxOwner'
    BY <1>17 DEF SpuriousWake, At, Goto, startVars, frameVars, tickVars,
           eventVars, packetVars
<1>18. ASSUME AppRelock PROVE GpsMtxOwner'
    BY <1>18 DEF AppRelock, At, Goto, startVars, frameVars, tickVars,
           eventVars, packetVars
<1>19. ASSUME AppRead PROVE GpsMtxOwner'
    BY <1>19 DEF AppRead, At, Goto, startVars, frameVars, tickVars, packetVars
<1>20. ASSUME AppUnlock PROVE GpsMtxOwner'
    BY <1>20 DEF AppUnlock, At, Goto, startVars, frameVars, tickVars,
           eventVars, packetVars
<1>21. ASSUME AppDispatch PROVE GpsMtxOwner'
    BY <1>21 DEF AppDispatch, At, Goto, startVars, frameVars, tickVars,
           eventVars, packetVars
<1>22. ASSUME AppAlloc PROVE GpsMtxOwner'
    BY <1>22 DEF AppAlloc, AppAllocFrame, AppAllocLoc, At, Goto,
           startVars, frameVars, tickVars, eventVars
<1>23. ASSUME NEW t \in {"app", "geo"}, GpsLock(t) PROVE GpsMtxOwner'
    BY <1>23 DEF GpsLock, At, Goto, startVars, frameVars, tickVars, eventVars,
           packetVars
<1>24. ASSUME AppGpsRead PROVE GpsMtxOwner'
    BY <1>24 DEF AppGpsRead, At, Goto, startVars, frameVars, tickVars,
           eventVars
<1>25. ASSUME GeoGpsRead PROVE GpsMtxOwner'
    BY <1>25 DEF GeoGpsRead, At, Goto, startVars, frameVars, tickVars,
           eventVars, packetVars
<1>26. ASSUME GeoGpsFails PROVE GpsMtxOwner'
    BY <1>26 DEF GeoGpsFails, At, Goto, frameVars, tickVars, eventVars,
           packetVars
<1>27. ASSUME NEW t \in {"app", "geo"}, GpsUnlock(t) PROVE GpsMtxOwner'
    BY <1>27 DEF GpsUnlock, At, Goto, startVars, frameVars, tickVars,
           eventVars, packetVars
<1>28. ASSUME AppGen PROVE GpsMtxOwner'
    BY <1>28 DEF AppGen, At, Goto, startVars, frameVars, tickVars, eventVars
<1>29. ASSUME AppSend PROVE GpsMtxOwner'
    BY <1>29 DEF AppSend, At, Goto, frameVars, tickVars, eventVars
<1>30. ASSUME GeoStartup PROVE GpsMtxOwner'
    BY <1>30 DEF GeoStartup, At, Goto, startVars, frameVars, tickVars,
           eventVars, packetVars
<1>31. ASSUME GeoPolygons PROVE GpsMtxOwner'
    BY <1>31 DEF GeoPolygons, At, Goto, frameVars, tickVars, eventVars,
           packetVars
<1>32. ASSUME UNCHANGED vars PROVE GpsMtxOwner'
    BY <1>32 DEF vars, startVars, frameVars, tickVars, eventVars, packetVars
<1> QED
    BY <1>1, <1>2, <1>3, <1>4, <1>5, <1>6, <1>7, <1>8, <1>9, <1>10, <1>11,
           <1>12, <1>13, <1>14, <1>15, <1>16, <1>17, <1>18, <1>19, <1>20,
           <1>21, <1>22, <1>23, <1>24, <1>25, <1>26, <1>27, <1>28, <1>29,
           <1>30, <1>31, <1>32
    DEF Next, BringUp, Handler, AppTask, GeoTask, Halted

\* No second packet is built from an unset location.
LEMMA LeakStep ==
    TypeOK /\ GpsMtxOwner /\ LeakInv /\ [Next]_vars => LeakInv'
<1> SUFFICES ASSUME TypeOK, GpsMtxOwner, LeakInv, [Next]_vars PROVE LeakInv'
    OBVIOUS
<1> USE DEF TypeOK, Threads, MainPcs, AppPcs, GeoPcs, AppLockPcs, GpsLockPcs,
       PacketPcs, HandlerPcs, Bits, Blocks, MaxGarbage, Free, GpsMtxOwner,
       LeakInv
<1>1. ASSUME MainFails PROVE LeakInv'
    BY <1>1 DEF MainFails, frameVars, tickVars, eventVars, packetVars
<1>2. ASSUME GpsOpen PROVE LeakInv'
    BY <1>2 DEF GpsOpen, At, Goto, startVars, frameVars, tickVars, eventVars,
           packetVars
<1>3. ASSUME CreateApp PROVE LeakInv'
    BY <1>3 DEF CreateApp, At, startVars, frameVars, tickVars, eventVars,
           packetVars
<1>4. ASSUME CreateGeo PROVE LeakInv'
    BY <1>4 DEF CreateGeo, At, startVars, frameVars, tickVars, eventVars,
           packetVars
<1>5. ASSUME OpenSerial PROVE LeakInv'
    BY <1>5 DEF OpenSerial, At, Goto, startVars, frameVars, tickVars,
           eventVars, packetVars
<1>6. ASSUME IpcInit PROVE LeakInv'
    BY <1>6 DEF IpcInit, At, Goto, frameVars, tickVars, eventVars, packetVars
<1>7. ASSUME AppInit PROVE LeakInv'
    BY <1>7 DEF AppInit, At, Goto, frameVars, eventVars, packetVars
<1>8. ASSUME StartTimer PROVE LeakInv'
    BY <1>8 DEF StartTimer, At, Goto, frameVars, tickVars, eventVars,
           packetVars
<1>9. ASSUME NEW t \in Threads, Tick(t) PROVE LeakInv'
    BY <1>9 DEF Tick, HandlerGoto, startVars, tickVars, eventVars, packetVars
<1>10. ASSUME NEW t \in Threads, HandlerCheck(t) PROVE LeakInv'
    BY <1>10 DEF HandlerCheck, InHandler, HandlerGoto, Due, startVars,
           eventVars, packetVars
<1>11. ASSUME NEW t \in Threads, HandlerLock(t) PROVE LeakInv'
    BY <1>11 DEF HandlerLock, InHandler, HandlerGoto, startVars, tickVars,
           eventVars, packetVars
<1>12. ASSUME NEW t \in Threads, HandlerSignal(t) PROVE LeakInv'
    BY <1>12 DEF HandlerSignal, InHandler, HandlerGoto, startVars, tickVars,
           packetVars
<1>13. ASSUME NEW t \in Threads, HandlerUnlock(t) PROVE LeakInv'
    BY <1>13 DEF HandlerUnlock, InHandler, HandlerGoto, startVars, tickVars,
           eventVars, packetVars
<1>14. ASSUME NEW t \in Threads, HandlerCount(t) PROVE LeakInv'
    BY <1>14 DEF HandlerCount, InHandler, HandlerGoto, startVars, eventVars,
           packetVars
<1>15. ASSUME AppLock PROVE LeakInv'
    BY <1>15 DEF AppLock, At, Goto, startVars, frameVars, tickVars, eventVars,
           packetVars
<1>16. ASSUME AppWait PROVE LeakInv'
    BY <1>16 DEF AppWait, At, Goto, startVars, frameVars, tickVars, eventVars,
           packetVars
<1>17. ASSUME SpuriousWake PROVE LeakInv'
    BY <1>17 DEF SpuriousWake, At, Goto, startVars, frameVars, tickVars,
           eventVars, packetVars
<1>18. ASSUME AppRelock PROVE LeakInv'
    BY <1>18 DEF AppRelock, At, Goto, startVars, frameVars, tickVars,
           eventVars, packetVars
<1>19. ASSUME AppRead PROVE LeakInv'
    BY <1>19 DEF AppRead, At, Goto, startVars, frameVars, tickVars, packetVars
<1>20. ASSUME AppUnlock PROVE LeakInv'
    BY <1>20 DEF AppUnlock, At, Goto, startVars, frameVars, tickVars,
           eventVars, packetVars
<1>21. ASSUME AppDispatch PROVE LeakInv'
    BY <1>21 DEF AppDispatch, At, Goto, startVars, frameVars, tickVars,
           eventVars, packetVars
<1>22. ASSUME AppAlloc PROVE LeakInv'
    BY <1>22 DEF AppAlloc, AppAllocFrame, AppAllocLoc, At, Goto,
           startVars, frameVars, tickVars, eventVars
<1>23. ASSUME NEW t \in {"app", "geo"}, GpsLock(t) PROVE LeakInv'
    BY <1>23 DEF GpsLock, At, Goto, startVars, frameVars, tickVars, eventVars,
           packetVars
<1>24. ASSUME AppGpsRead PROVE LeakInv'
    BY <1>24 DEF AppGpsRead, At, Goto, startVars, frameVars, tickVars,
           eventVars
<1>25. ASSUME GeoGpsRead PROVE LeakInv'
    BY <1>25 DEF GeoGpsRead, At, Goto, startVars, frameVars, tickVars,
           eventVars, packetVars
<1>26. ASSUME GeoGpsFails PROVE LeakInv'
    BY <1>26 DEF GeoGpsFails, At, Goto, frameVars, tickVars, eventVars,
           packetVars
<1>27. ASSUME NEW t \in {"app", "geo"}, GpsUnlock(t) PROVE LeakInv'
    BY <1>27 DEF GpsUnlock, At, Goto, startVars, frameVars, tickVars,
           eventVars, packetVars
<1>28. ASSUME AppGen PROVE LeakInv'
    BY <1>28 DEF AppGen, At, Goto, startVars, frameVars, tickVars, eventVars
<1>29. ASSUME AppSend PROVE LeakInv'
    BY <1>29 DEF AppSend, At, Goto, frameVars, tickVars, eventVars
<1>30. ASSUME GeoStartup PROVE LeakInv'
    BY <1>30 DEF GeoStartup, At, Goto, startVars, frameVars, tickVars,
           eventVars, packetVars
<1>31. ASSUME GeoPolygons PROVE LeakInv'
    BY <1>31 DEF GeoPolygons, At, Goto, frameVars, tickVars, eventVars,
           packetVars
<1>32. ASSUME UNCHANGED vars PROVE LeakInv'
    BY <1>32 DEF vars, startVars, frameVars, tickVars, eventVars, packetVars
<1> QED
    BY <1>1, <1>2, <1>3, <1>4, <1>5, <1>6, <1>7, <1>8, <1>9, <1>10, <1>11,
           <1>12, <1>13, <1>14, <1>15, <1>16, <1>17, <1>18, <1>19, <1>20,
           <1>21, <1>22, <1>23, <1>24, <1>25, <1>26, <1>27, <1>28, <1>29,
           <1>30, <1>31, <1>32
    DEF Next, BringUp, Handler, AppTask, GeoTask, Halted

\* app_task has nothing to do before the timer runs.
LEMMA BringUpStep ==
    TypeOK /\ BringUpInv /\ [Next]_vars => BringUpInv'
<1> SUFFICES ASSUME TypeOK, BringUpInv, [Next]_vars PROVE BringUpInv'
    OBVIOUS
<1> USE DEF TypeOK, Threads, MainPcs, AppPcs, GeoPcs, AppLockPcs, GpsLockPcs,
       PacketPcs, HandlerPcs, Bits, Blocks, MaxGarbage, BringUpInv
<1>1. ASSUME MainFails PROVE BringUpInv'
    BY <1>1 DEF MainFails, frameVars, tickVars, eventVars, packetVars
<1>2. ASSUME GpsOpen PROVE BringUpInv'
    BY <1>2 DEF GpsOpen, At, Goto, startVars, frameVars, tickVars, eventVars,
           packetVars
<1>3. ASSUME CreateApp PROVE BringUpInv'
    BY <1>3 DEF CreateApp, At, startVars, frameVars, tickVars, eventVars,
           packetVars
<1>4. ASSUME CreateGeo PROVE BringUpInv'
    BY <1>4 DEF CreateGeo, At, startVars, frameVars, tickVars, eventVars,
           packetVars
<1>5. ASSUME OpenSerial PROVE BringUpInv'
    BY <1>5 DEF OpenSerial, At, Goto, startVars, frameVars, tickVars,
           eventVars, packetVars
<1>6. ASSUME IpcInit PROVE BringUpInv'
    BY <1>6 DEF IpcInit, At, Goto, frameVars, tickVars, eventVars, packetVars
<1>7. ASSUME AppInit PROVE BringUpInv'
    BY <1>7 DEF AppInit, At, Goto, frameVars, eventVars, packetVars
<1>8. ASSUME StartTimer PROVE BringUpInv'
    BY <1>8 DEF StartTimer, At, Goto, frameVars, tickVars, eventVars,
           packetVars
<1>9. ASSUME NEW t \in Threads, Tick(t) PROVE BringUpInv'
    BY <1>9 DEF Tick, HandlerGoto, startVars, tickVars, eventVars, packetVars
<1>10. ASSUME NEW t \in Threads, HandlerCheck(t) PROVE BringUpInv'
    BY <1>10 DEF HandlerCheck, InHandler, HandlerGoto, Due, startVars,
           eventVars, packetVars
<1>11. ASSUME NEW t \in Threads, HandlerLock(t) PROVE BringUpInv'
    BY <1>11 DEF HandlerLock, InHandler, HandlerGoto, startVars, tickVars,
           eventVars, packetVars
<1>12. ASSUME NEW t \in Threads, HandlerSignal(t) PROVE BringUpInv'
    BY <1>12 DEF HandlerSignal, InHandler, HandlerGoto, startVars, tickVars,
           packetVars
<1>13. ASSUME NEW t \in Threads, HandlerUnlock(t) PROVE BringUpInv'
    BY <1>13 DEF HandlerUnlock, InHandler, HandlerGoto, startVars, tickVars,
           eventVars, packetVars
<1>14. ASSUME NEW t \in Threads, HandlerCount(t) PROVE BringUpInv'
    BY <1>14 DEF HandlerCount, InHandler, HandlerGoto, startVars, eventVars,
           packetVars
<1>15. ASSUME AppLock PROVE BringUpInv'
    BY <1>15 DEF AppLock, At, Goto, startVars, frameVars, tickVars, eventVars,
           packetVars
<1>16. ASSUME AppWait PROVE BringUpInv'
    BY <1>16 DEF AppWait, At, Goto, startVars, frameVars, tickVars, eventVars,
           packetVars
<1>17. ASSUME SpuriousWake PROVE BringUpInv'
    BY <1>17 DEF SpuriousWake, At, Goto, startVars, frameVars, tickVars,
           eventVars, packetVars
<1>18. ASSUME AppRelock PROVE BringUpInv'
    BY <1>18 DEF AppRelock, At, Goto, startVars, frameVars, tickVars,
           eventVars, packetVars
<1>19. ASSUME AppRead PROVE BringUpInv'
    BY <1>19 DEF AppRead, At, Goto, startVars, frameVars, tickVars, packetVars
<1>20. ASSUME AppUnlock PROVE BringUpInv'
    BY <1>20 DEF AppUnlock, At, Goto, startVars, frameVars, tickVars,
           eventVars, packetVars
<1>21. ASSUME AppDispatch PROVE BringUpInv'
    BY <1>21 DEF AppDispatch, At, Goto, startVars, frameVars, tickVars,
           eventVars, packetVars
<1>22. ASSUME AppAlloc PROVE BringUpInv'
    BY <1>22 DEF AppAlloc, AppAllocFrame, AppAllocLoc, At, Goto,
           startVars, frameVars, tickVars, eventVars
<1>23. ASSUME NEW t \in {"app", "geo"}, GpsLock(t) PROVE BringUpInv'
    BY <1>23 DEF GpsLock, At, Goto, startVars, frameVars, tickVars, eventVars,
           packetVars
<1>24. ASSUME AppGpsRead PROVE BringUpInv'
    BY <1>24 DEF AppGpsRead, At, Goto, startVars, frameVars, tickVars,
           eventVars
<1>25. ASSUME GeoGpsRead PROVE BringUpInv'
    BY <1>25 DEF GeoGpsRead, At, Goto, startVars, frameVars, tickVars,
           eventVars, packetVars
<1>26. ASSUME GeoGpsFails PROVE BringUpInv'
    BY <1>26 DEF GeoGpsFails, At, Goto, frameVars, tickVars, eventVars,
           packetVars
<1>27. ASSUME NEW t \in {"app", "geo"}, GpsUnlock(t) PROVE BringUpInv'
    BY <1>27 DEF GpsUnlock, At, Goto, startVars, frameVars, tickVars,
           eventVars, packetVars
<1>28. ASSUME AppGen PROVE BringUpInv'
    BY <1>28 DEF AppGen, At, Goto, startVars, frameVars, tickVars, eventVars
<1>29. ASSUME AppSend PROVE BringUpInv'
    BY <1>29 DEF AppSend, At, Goto, frameVars, tickVars, eventVars
<1>30. ASSUME GeoStartup PROVE BringUpInv'
    BY <1>30 DEF GeoStartup, At, Goto, startVars, frameVars, tickVars,
           eventVars, packetVars
<1>31. ASSUME GeoPolygons PROVE BringUpInv'
    BY <1>31 DEF GeoPolygons, At, Goto, frameVars, tickVars, eventVars,
           packetVars
<1>32. ASSUME UNCHANGED vars PROVE BringUpInv'
    BY <1>32 DEF vars, startVars, frameVars, tickVars, eventVars, packetVars
<1> QED
    BY <1>1, <1>2, <1>3, <1>4, <1>5, <1>6, <1>7, <1>8, <1>9, <1>10, <1>11,
           <1>12, <1>13, <1>14, <1>15, <1>16, <1>17, <1>18, <1>19, <1>20,
           <1>21, <1>22, <1>23, <1>24, <1>25, <1>26, <1>27, <1>28, <1>29,
           <1>30, <1>31, <1>32
    DEF Next, BringUp, Handler, AppTask, GeoTask, Halted

\* Every exit of app_0022_push_nrl_pkt() frees what it allocated.
LEMMA HeapStep ==
    TypeOK /\ BirthInv /\ HeapBalanced /\ [Next]_vars => HeapBalanced'
<1> SUFFICES ASSUME TypeOK, BirthInv, HeapBalanced, [Next]_vars PROVE HeapBalanced'
    OBVIOUS
<1> USE DEF TypeOK, Threads, MainPcs, AppPcs, GeoPcs, AppLockPcs, GpsLockPcs,
       PacketPcs, HandlerPcs, Bits, Blocks, MaxGarbage, BirthInv, HeapBalanced,
       Held
<1>1. ASSUME MainFails PROVE HeapBalanced'
    BY <1>1 DEF MainFails, frameVars, tickVars, eventVars, packetVars
<1>2. ASSUME GpsOpen PROVE HeapBalanced'
    BY <1>2 DEF GpsOpen, At, Goto, startVars, frameVars, tickVars, eventVars,
           packetVars
<1>3. ASSUME CreateApp PROVE HeapBalanced'
    BY <1>3 DEF CreateApp, At, startVars, frameVars, tickVars, eventVars,
           packetVars
<1>4. ASSUME CreateGeo PROVE HeapBalanced'
    BY <1>4 DEF CreateGeo, At, startVars, frameVars, tickVars, eventVars,
           packetVars
<1>5. ASSUME OpenSerial PROVE HeapBalanced'
    BY <1>5 DEF OpenSerial, At, Goto, startVars, frameVars, tickVars,
           eventVars, packetVars
<1>6. ASSUME IpcInit PROVE HeapBalanced'
    BY <1>6 DEF IpcInit, At, Goto, frameVars, tickVars, eventVars, packetVars
<1>7. ASSUME AppInit PROVE HeapBalanced'
    BY <1>7 DEF AppInit, At, Goto, frameVars, eventVars, packetVars
<1>8. ASSUME StartTimer PROVE HeapBalanced'
    BY <1>8 DEF StartTimer, At, Goto, frameVars, tickVars, eventVars,
           packetVars
<1>9. ASSUME NEW t \in Threads, Tick(t) PROVE HeapBalanced'
    BY <1>9 DEF Tick, HandlerGoto, startVars, tickVars, eventVars, packetVars
<1>10. ASSUME NEW t \in Threads, HandlerCheck(t) PROVE HeapBalanced'
    BY <1>10 DEF HandlerCheck, InHandler, HandlerGoto, Due, startVars,
           eventVars, packetVars
<1>11. ASSUME NEW t \in Threads, HandlerLock(t) PROVE HeapBalanced'
    BY <1>11 DEF HandlerLock, InHandler, HandlerGoto, startVars, tickVars,
           eventVars, packetVars
<1>12. ASSUME NEW t \in Threads, HandlerSignal(t) PROVE HeapBalanced'
    BY <1>12 DEF HandlerSignal, InHandler, HandlerGoto, startVars, tickVars,
           packetVars
<1>13. ASSUME NEW t \in Threads, HandlerUnlock(t) PROVE HeapBalanced'
    BY <1>13 DEF HandlerUnlock, InHandler, HandlerGoto, startVars, tickVars,
           eventVars, packetVars
<1>14. ASSUME NEW t \in Threads, HandlerCount(t) PROVE HeapBalanced'
    BY <1>14 DEF HandlerCount, InHandler, HandlerGoto, startVars, eventVars,
           packetVars
<1>15. ASSUME AppLock PROVE HeapBalanced'
    BY <1>15 DEF AppLock, At, Goto, startVars, frameVars, tickVars, eventVars,
           packetVars
<1>16. ASSUME AppWait PROVE HeapBalanced'
    BY <1>16 DEF AppWait, At, Goto, startVars, frameVars, tickVars, eventVars,
           packetVars
<1>17. ASSUME SpuriousWake PROVE HeapBalanced'
    BY <1>17 DEF SpuriousWake, At, Goto, startVars, frameVars, tickVars,
           eventVars, packetVars
<1>18. ASSUME AppRelock PROVE HeapBalanced'
    BY <1>18 DEF AppRelock, At, Goto, startVars, frameVars, tickVars,
           eventVars, packetVars
<1>19. ASSUME AppRead PROVE HeapBalanced'
    BY <1>19 DEF AppRead, At, Goto, startVars, frameVars, tickVars, packetVars
<1>20. ASSUME AppUnlock PROVE HeapBalanced'
    BY <1>20 DEF AppUnlock, At, Goto, startVars, frameVars, tickVars,
           eventVars, packetVars
<1>21. ASSUME AppDispatch PROVE HeapBalanced'
    BY <1>21 DEF AppDispatch, At, Goto, startVars, frameVars, tickVars,
           eventVars, packetVars
<1>22. ASSUME AppAlloc PROVE HeapBalanced'
    BY <1>22 DEF AppAlloc, AppAllocFrame, AppAllocLoc, Malloc, Release, At, Goto,
           startVars, frameVars, tickVars, eventVars
<1>23. ASSUME NEW t \in {"app", "geo"}, GpsLock(t) PROVE HeapBalanced'
    BY <1>23 DEF GpsLock, At, Goto, startVars, frameVars, tickVars, eventVars,
           packetVars
<1>24. ASSUME AppGpsRead PROVE HeapBalanced'
    BY <1>24 DEF AppGpsRead, At, Goto, startVars, frameVars, tickVars,
           eventVars
<1>25. ASSUME GeoGpsRead PROVE HeapBalanced'
    BY <1>25 DEF GeoGpsRead, At, Goto, startVars, frameVars, tickVars,
           eventVars, packetVars
<1>26. ASSUME GeoGpsFails PROVE HeapBalanced'
    BY <1>26 DEF GeoGpsFails, At, Goto, frameVars, tickVars, eventVars,
           packetVars
<1>27. ASSUME NEW t \in {"app", "geo"}, GpsUnlock(t) PROVE HeapBalanced'
    BY <1>27 DEF GpsUnlock, At, Goto, startVars, frameVars, tickVars,
           eventVars, packetVars
<1>28. ASSUME AppGen PROVE HeapBalanced'
    BY <1>28 DEF AppGen, At, Goto, startVars, frameVars, tickVars, eventVars
<1>29. ASSUME AppSend PROVE HeapBalanced'
    BY <1>29 DEF AppSend, At, Goto, frameVars, tickVars, eventVars
<1>30. ASSUME GeoStartup PROVE HeapBalanced'
    BY <1>30 DEF GeoStartup, At, Goto, startVars, frameVars, tickVars,
           eventVars, packetVars
<1>31. ASSUME GeoPolygons PROVE HeapBalanced'
    BY <1>31 DEF GeoPolygons, At, Goto, frameVars, tickVars, eventVars,
           packetVars
<1>32. ASSUME UNCHANGED vars PROVE HeapBalanced'
    BY <1>32 DEF vars, startVars, frameVars, tickVars, eventVars, packetVars
<1> QED
    BY <1>1, <1>2, <1>3, <1>4, <1>5, <1>6, <1>7, <1>8, <1>9, <1>10, <1>11,
           <1>12, <1>13, <1>14, <1>15, <1>16, <1>17, <1>18, <1>19, <1>20,
           <1>21, <1>22, <1>23, <1>24, <1>25, <1>26, <1>27, <1>28, <1>29,
           <1>30, <1>31, <1>32
    DEF Next, BringUp, Handler, AppTask, GeoTask, Halted

-----------------------------------------------------------------------------
(* The inductive invariant, and what follows from it.                      *)

\* The initial states satisfy the inductive invariant.
LEMMA InitInv == Init => IInv
<1> SUFFICES ASSUME Init PROVE IInv
    OBVIOUS
<1>1. /\ pc["main"] = "gps_open" /\ pc["app"] = "unborn" /\ pc["geo"] = "unborn"
      /\ \A t \in Threads : h[t] = "idle" /\ hev[t] = {}
  BY DEF Init, Threads
<1>2. TypeOK
  <2>1. /\ pc \in [Threads -> MainPcs \cup AppPcs \cup GeoPcs]
        /\ h \in [Threads -> HandlerPcs] /\ hev \in [Threads -> SUBSET Bits]
    BY DEF Init, MainPcs, AppPcs, GeoPcs, HandlerPcs
  <2>2. /\ 0 \in 0 .. Wrap - 1 /\ 0 \in 0 .. FrameMod - 1
        /\ 0 \in 0 .. MaxGarbage /\ [b \in Blocks |-> 0] \in [Blocks -> Int]
    BY RateAssumption, FrameAssumption DEF MaxGarbage
  <2> QED
    BY <1>1, <2>1, <2>2 DEF Init, TypeOK, Free, MainPcs, AppPcs, GeoPcs
<1>3. BirthInv /\ AppMtxOwner /\ GpsMtxOwner
  BY <1>1 DEF Init, BirthInv, AppMtxOwner, GpsMtxOwner, HandlerHolds, Threads,
              Free, AppLockPcs, GpsLockPcs
<1>4. LeakInv /\ BringUpInv /\ HeapBalanced
  BY <1>1 DEF Init, LeakInv, BringUpInv, HeapBalanced, Held, PacketPcs,
              GpsLockPcs, Threads
<1> QED
  BY <1>2, <1>3, <1>4 DEF IInv

\* Every step preserves the inductive invariant.
LEMMA StepInv == IInv /\ [Next]_vars => IInv'
  BY TypeStep, BirthStep, AppMtxStep, GpsMtxStep, LeakStep, BringUpStep,
     HeapStep DEF IInv

\* The conjunction of the facts above holds in every reachable state.
THEOREM Invariance == Spec => []IInv
  BY InitInv, StepInv, PTL DEF Spec

\* The state always has the shape the declarations give it.
THEOREM TypeCorrect == Spec => []TypeOK
<1>1. IInv => TypeOK
  BY DEF IInv
<1> QED
  BY <1>1, Invariance, PTL

\* app_0022_event and OGps_data are accessed under mutual exclusion, whichever
\* threads the kernel picks for SIGALRM and whatever fails.
THEOREM MutexSafe == Spec => []MutualExclusion
<1>1. IInv => MutualExclusion
  <2> SUFFICES ASSUME IInv PROVE MutualExclusion
    OBVIOUS
  <2>1. ASSUME NEW t \in Threads, NEW u \in Threads, HandlerHolds(t)
        PROVE  /\ pc["app"] \notin AppLockPcs
               /\ HandlerHolds(u) => t = u
    BY <2>1 DEF IInv, AppMtxOwner, Threads
  <2>2. pc["app"] \in GpsLockPcs => pc["geo"] \notin GpsLockPcs
    BY DEF IInv, GpsMtxOwner
  <2> QED
    BY <2>1, <2>2 DEF MutualExclusion
<1> QED
  BY <1>1, Invariance, PTL

\* No two threads ever wait for each other; only app_task can wait for itself.
THEOREM NoDeadlyEmbrace == Spec => []NoCircularWait
<1>1. IInv => NoCircularWait
  <2> SUFFICES ASSUME IInv, NEW t \in Threads, NEW u \in Threads, WaitsFor(t, u),
                      t = u \/ WaitsFor(u, t)
               PROVE  t = "app" /\ u = "app"
    BY DEF NoCircularWait
  <2> USE DEF IInv, TypeOK, AppMtxOwner, GpsMtxOwner, WaitsFor, HandlerHolds,
              Threads, AppLockPcs, GpsLockPcs, MainPcs
  <2>1. CASE t = u
    BY <2>1
  <2>2. CASE t # u /\ WaitsFor(u, t)
    BY <2>2
  <2> QED
    BY <2>1, <2>2
<1> QED
  BY <1>1, Invariance, PTL

\* app_task never works on a report before main() has made every call of its
\* bring-up, although one of them, of the IPC module, may have failed.
THEOREM UpBeforeReports == Spec => []ReportsFollowBringUp
<1>1. IInv => ReportsFollowBringUp
  BY DEF IInv, BringUpInv, ReportsFollowBringUp
<1> QED
  BY <1>1, Invariance, PTL

\* Whichever malloc() fails, each buffer is freed exactly once.
THEOREM HeapSafe == Spec => []HeapBalanced
<1>1. IInv => HeapBalanced
  BY DEF IInv
<1> QED
  BY <1>1, Invariance, PTL

\* At most one packet per run of the process carries an unset location.
THEOREM OneUnsetLocation == Spec => []AtMostOneUnsetLocation
<1>1. IInv => AtMostOneUnsetLocation
  BY DEF IInv, LeakInv, AtMostOneUnsetLocation
<1> QED
  BY <1>1, Invariance, PTL

\* No single step builds a packet once gpsd_mutex has leaked.
LEMMA LeakStepSilent ==
    IInv /\ [Next]_vars =>
        (GpsLeaked => /\ GpsLeaked'
                      /\ pc["app"] # "gen" => pc'["app"] # "gen")
<1> SUFFICES ASSUME IInv, [Next]_vars, GpsLeaked
             PROVE  /\ GpsLeaked'
                    /\ pc["app"] # "gen" => pc'["app"] # "gen"
    OBVIOUS
<1> DEFINE Goal == /\ GpsLeaked'
                   /\ pc["app"] # "gen" => pc'["app"] # "gen"
<1> USE DEF IInv, TypeOK, BirthInv, GpsMtxOwner, GpsLeaked, Threads, Free,
            MainPcs, AppPcs, GeoPcs, AppLockPcs, GpsLockPcs, PacketPcs
<1>1. ASSUME MainFails PROVE Goal
    BY <1>1 DEF MainFails, frameVars, tickVars, eventVars, packetVars
<1>2. ASSUME GpsOpen PROVE Goal
    BY <1>2 DEF GpsOpen, At, Goto, startVars, frameVars, tickVars, eventVars,
           packetVars
<1>3. ASSUME CreateApp PROVE Goal
    BY <1>3 DEF CreateApp, At, startVars, frameVars, tickVars, eventVars,
           packetVars
<1>4. ASSUME CreateGeo PROVE Goal
    BY <1>4 DEF CreateGeo, At, startVars, frameVars, tickVars, eventVars,
           packetVars
<1>5. ASSUME OpenSerial PROVE Goal
    BY <1>5 DEF OpenSerial, At, Goto, startVars, frameVars, tickVars,
           eventVars, packetVars
<1>6. ASSUME IpcInit PROVE Goal
    BY <1>6 DEF IpcInit, At, Goto, frameVars, tickVars, eventVars, packetVars
<1>7. ASSUME AppInit PROVE Goal
    BY <1>7 DEF AppInit, At, Goto, frameVars, eventVars, packetVars
<1>8. ASSUME StartTimer PROVE Goal
    BY <1>8 DEF StartTimer, At, Goto, frameVars, tickVars, eventVars,
           packetVars
<1>9. ASSUME NEW t \in Threads, Tick(t) PROVE Goal
    BY <1>9 DEF Tick, HandlerGoto, startVars, tickVars, eventVars, packetVars
<1>10. ASSUME NEW t \in Threads, HandlerCheck(t) PROVE Goal
    BY <1>10 DEF HandlerCheck, InHandler, HandlerGoto, Due, startVars,
           eventVars, packetVars
<1>11. ASSUME NEW t \in Threads, HandlerLock(t) PROVE Goal
    BY <1>11 DEF HandlerLock, InHandler, HandlerGoto, startVars, tickVars,
           eventVars, packetVars
<1>12. ASSUME NEW t \in Threads, HandlerSignal(t) PROVE Goal
    BY <1>12 DEF HandlerSignal, InHandler, HandlerGoto, startVars, tickVars,
           packetVars
<1>13. ASSUME NEW t \in Threads, HandlerUnlock(t) PROVE Goal
    BY <1>13 DEF HandlerUnlock, InHandler, HandlerGoto, startVars, tickVars,
           eventVars, packetVars
<1>14. ASSUME NEW t \in Threads, HandlerCount(t) PROVE Goal
    BY <1>14 DEF HandlerCount, InHandler, HandlerGoto, startVars, eventVars,
           packetVars
<1>15. ASSUME AppLock PROVE Goal
    BY <1>15 DEF AppLock, At, Goto, startVars, frameVars, tickVars, eventVars,
           packetVars
<1>16. ASSUME AppWait PROVE Goal
    BY <1>16 DEF AppWait, At, Goto, startVars, frameVars, tickVars, eventVars,
           packetVars
<1>17. ASSUME SpuriousWake PROVE Goal
    BY <1>17 DEF SpuriousWake, At, Goto, startVars, frameVars, tickVars,
           eventVars, packetVars
<1>18. ASSUME AppRelock PROVE Goal
    BY <1>18 DEF AppRelock, At, Goto, startVars, frameVars, tickVars,
           eventVars, packetVars
<1>19. ASSUME AppRead PROVE Goal
    BY <1>19 DEF AppRead, At, Goto, startVars, frameVars, tickVars, packetVars
<1>20. ASSUME AppUnlock PROVE Goal
    BY <1>20 DEF AppUnlock, At, Goto, startVars, frameVars, tickVars,
           eventVars, packetVars
<1>21. ASSUME AppDispatch PROVE Goal
    BY <1>21 DEF AppDispatch, At, Goto, startVars, frameVars, tickVars,
           eventVars, packetVars
<1>22. ASSUME AppAlloc PROVE Goal
    BY <1>22 DEF AppAlloc, AppAllocFrame, AppAllocLoc, At, Goto,
           startVars, frameVars, tickVars, eventVars
<1>23. ASSUME NEW t \in {"app", "geo"}, GpsLock(t) PROVE Goal
    BY <1>23 DEF GpsLock, At, Goto, startVars, frameVars, tickVars, eventVars,
           packetVars
<1>24. ASSUME AppGpsRead PROVE Goal
    BY <1>24 DEF AppGpsRead, At, Goto, startVars, frameVars, tickVars,
           eventVars
<1>25. ASSUME GeoGpsRead PROVE Goal
    BY <1>25 DEF GeoGpsRead, At, Goto, startVars, frameVars, tickVars,
           eventVars, packetVars
<1>26. ASSUME GeoGpsFails PROVE Goal
    BY <1>26 DEF GeoGpsFails, At, Goto, frameVars, tickVars, eventVars,
           packetVars
<1>27. ASSUME NEW t \in {"app", "geo"}, GpsUnlock(t) PROVE Goal
    BY <1>27 DEF GpsUnlock, At, Goto, startVars, frameVars, tickVars,
           eventVars, packetVars
<1>28. ASSUME AppGen PROVE Goal
    BY <1>28 DEF AppGen, At, Goto, startVars, frameVars, tickVars, eventVars
<1>29. ASSUME AppSend PROVE Goal
    BY <1>29 DEF AppSend, At, Goto, frameVars, tickVars, eventVars
<1>30. ASSUME GeoStartup PROVE Goal
    BY <1>30 DEF GeoStartup, At, Goto, startVars, frameVars, tickVars,
           eventVars, packetVars
<1>31. ASSUME GeoPolygons PROVE Goal
    BY <1>31 DEF GeoPolygons, At, Goto, frameVars, tickVars, eventVars,
           packetVars
<1>32. ASSUME UNCHANGED vars PROVE Goal
    BY <1>32 DEF vars, startVars, frameVars, tickVars, eventVars, packetVars
<1> QED
    BY <1>1, <1>2, <1>3, <1>4, <1>5, <1>6, <1>7, <1>8, <1>9, <1>10, <1>11,
           <1>12, <1>13, <1>14, <1>15, <1>16, <1>17, <1>18, <1>19, <1>20,
           <1>21, <1>22, <1>23, <1>24, <1>25, <1>26, <1>27, <1>28, <1>29,
           <1>30, <1>31, <1>32
    DEF Next, BringUp, Handler, AppTask, GeoTask, Halted

\* Once app_task leaked gpsd_mutex no thread gets it back and no further
\* packet is built: the reports stop without the process ending.
THEOREM LeakSilences == Spec => LeakSilencesReports
  BY Invariance, LeakStepSilent, PTL DEF Spec, LeakSilencesReports

-----------------------------------------------------------------------------
(* What holds when the scheduler or the libc is kinder.                    *)

\* No handler frame on app_task's thread.
NotOnApp == h["app"] = "idle"

\* While SIGALRM is never delivered to app_task, no handler can wait for a
\* mutex of its own thread.
THEOREM NoSelfBlock ==
    ASSUME "app" \notin SignalTargets
    PROVE  Spec => []HandlerNeverSelfBlocks
<1>1. Init => NotOnApp
  BY DEF Init, NotOnApp, Threads
<1>2. IInv /\ NotOnApp /\ [Next]_vars => NotOnApp'
  BY DEF IInv, TypeOK, Threads, NotOnApp, Next, BringUp, Handler, AppTask,
         GeoTask, Halted, MainFails, GpsOpen, CreateApp, CreateGeo, OpenSerial,
         IpcInit, AppInit, StartTimer, Tick, HandlerCheck, HandlerLock,
         HandlerSignal, HandlerUnlock, HandlerCount, AppLock, AppWait,
         SpuriousWake, AppRelock, AppRead, AppUnlock, AppDispatch, AppAlloc,
         AppAllocFrame, AppAllocLoc, GpsLock, AppGpsRead, GeoGpsRead,
         GeoGpsFails, GpsUnlock, AppGen, AppSend, GeoStartup, GeoPolygons, InHandler, HandlerGoto, frameVars,
         vars
<1>3. IInv /\ NotOnApp => HandlerNeverSelfBlocks
  BY DEF IInv, TypeOK, AppMtxOwner, NotOnApp, HandlerHolds,
         HandlerNeverSelfBlocks, Threads
<1> QED
  BY <1>1, <1>2, <1>3, Invariance, PTL DEF Spec

\* Between a signal and the read it causes the event word stays fresh.
FreshInv == pc["app"] \in {"wake", "read"} => fresh

\* Without spurious wakeups no event word is read, and so no report made, twice.
THEOREM ReadsAreFresh ==
    ASSUME ~Spurious
    PROVE  Spec => []EveryReadIsFresh
<1>1. Init => FreshInv
  BY DEF Init, FreshInv, Threads
<1>2. IInv /\ FreshInv /\ [Next]_vars => FreshInv'
  <2> SUFFICES ASSUME IInv, FreshInv, [Next]_vars PROVE FreshInv'
    OBVIOUS
  <2> USE DEF IInv, TypeOK, BirthInv, FreshInv, Threads, MainPcs, AppPcs, GeoPcs,
              AppLockPcs, GpsLockPcs, PacketPcs
  <2>1. ASSUME MainFails PROVE FreshInv'
    BY <2>1 DEF MainFails, frameVars, tickVars, eventVars, packetVars
  <2>2. ASSUME GpsOpen PROVE FreshInv'
    BY <2>2 DEF GpsOpen, At, Goto, startVars, frameVars, tickVars, eventVars,
           packetVars
  <2>3. ASSUME CreateApp PROVE FreshInv'
    BY <2>3 DEF CreateApp, At, startVars, frameVars, tickVars, eventVars,
           packetVars
  <2>4. ASSUME CreateGeo PROVE FreshInv'
    BY <2>4 DEF CreateGeo, At, startVars, frameVars, tickVars, eventVars,
           packetVars
  <2>5. ASSUME OpenSerial PROVE FreshInv'
    BY <2>5 DEF OpenSerial, At, Goto, startVars, frameVars, tickVars,
           eventVars, packetVars
  <2>6. ASSUME IpcInit PROVE FreshInv'
    BY <2>6 DEF IpcInit, At, Goto, frameVars, tickVars, eventVars, packetVars
  <2>7. ASSUME AppInit PROVE FreshInv'
    BY <2>7 DEF AppInit, At, Goto, frameVars, eventVars, packetVars
  <2>8. ASSUME StartTimer PROVE FreshInv'
    BY <2>8 DEF StartTimer, At, Goto, frameVars, tickVars, eventVars,
           packetVars
  <2>9. ASSUME NEW t \in Threads, Tick(t) PROVE FreshInv'
    BY <2>9 DEF Tick, HandlerGoto, startVars, tickVars, eventVars, packetVars
  <2>10. ASSUME NEW t \in Threads, HandlerCheck(t) PROVE FreshInv'
    BY <2>10 DEF HandlerCheck, InHandler, HandlerGoto, Due, startVars,
           eventVars, packetVars
  <2>11. ASSUME NEW t \in Threads, HandlerLock(t) PROVE FreshInv'
    BY <2>11 DEF HandlerLock, InHandler, HandlerGoto, startVars, tickVars,
           eventVars, packetVars
  <2>12. ASSUME NEW t \in Threads, HandlerSignal(t) PROVE FreshInv'
    BY <2>12 DEF HandlerSignal, InHandler, HandlerGoto, startVars, tickVars,
           packetVars
  <2>13. ASSUME NEW t \in Threads, HandlerUnlock(t) PROVE FreshInv'
    BY <2>13 DEF HandlerUnlock, InHandler, HandlerGoto, startVars, tickVars,
           eventVars, packetVars
  <2>14. ASSUME NEW t \in Threads, HandlerCount(t) PROVE FreshInv'
    BY <2>14 DEF HandlerCount, InHandler, HandlerGoto, startVars, eventVars,
           packetVars
  <2>15. ASSUME AppLock PROVE FreshInv'
    BY <2>15 DEF AppLock, At, Goto, startVars, frameVars, tickVars, eventVars,
           packetVars
  <2>16. ASSUME AppWait PROVE FreshInv'
    BY <2>16 DEF AppWait, At, Goto, startVars, frameVars, tickVars, eventVars,
           packetVars
  <2>17. ASSUME SpuriousWake PROVE FreshInv'
    BY <2>17 DEF SpuriousWake, At, Goto, startVars, frameVars, tickVars,
           eventVars, packetVars
  <2>18. ASSUME AppRelock PROVE FreshInv'
    BY <2>18 DEF AppRelock, At, Goto, startVars, frameVars, tickVars,
           eventVars, packetVars
  <2>19. ASSUME AppRead PROVE FreshInv'
    BY <2>19 DEF AppRead, At, Goto, startVars, frameVars, tickVars, packetVars
  <2>20. ASSUME AppUnlock PROVE FreshInv'
    BY <2>20 DEF AppUnlock, At, Goto, startVars, frameVars, tickVars,
           eventVars, packetVars
  <2>21. ASSUME AppDispatch PROVE FreshInv'
    BY <2>21 DEF AppDispatch, At, Goto, startVars, frameVars, tickVars,
           eventVars, packetVars
  <2>22. ASSUME AppAlloc PROVE FreshInv'
    BY <2>22 DEF AppAlloc, AppAllocFrame, AppAllocLoc, At, Goto,
           startVars, frameVars, tickVars, eventVars
  <2>23. ASSUME NEW t \in {"app", "geo"}, GpsLock(t) PROVE FreshInv'
    BY <2>23 DEF GpsLock, At, Goto, startVars, frameVars, tickVars, eventVars,
           packetVars
  <2>24. ASSUME AppGpsRead PROVE FreshInv'
    BY <2>24 DEF AppGpsRead, At, Goto, startVars, frameVars, tickVars,
           eventVars
  <2>25. ASSUME GeoGpsRead PROVE FreshInv'
    BY <2>25 DEF GeoGpsRead, At, Goto, startVars, frameVars, tickVars,
           eventVars, packetVars
  <2>26. ASSUME GeoGpsFails PROVE FreshInv'
    BY <2>26 DEF GeoGpsFails, At, Goto, frameVars, tickVars, eventVars,
           packetVars
  <2>27. ASSUME NEW t \in {"app", "geo"}, GpsUnlock(t) PROVE FreshInv'
    BY <2>27 DEF GpsUnlock, At, Goto, startVars, frameVars, tickVars,
           eventVars, packetVars
  <2>28. ASSUME AppGen PROVE FreshInv'
    BY <2>28 DEF AppGen, At, Goto, startVars, frameVars, tickVars, eventVars
  <2>29. ASSUME AppSend PROVE FreshInv'
    BY <2>29 DEF AppSend, At, Goto, frameVars, tickVars, eventVars
  <2>30. ASSUME GeoStartup PROVE FreshInv'
    BY <2>30 DEF GeoStartup, At, Goto, startVars, frameVars, tickVars,
           eventVars, packetVars
  <2>31. ASSUME GeoPolygons PROVE FreshInv'
    BY <2>31 DEF GeoPolygons, At, Goto, frameVars, tickVars, eventVars,
           packetVars
  <2>32. ASSUME UNCHANGED vars PROVE FreshInv'
    BY <2>32 DEF vars, startVars, frameVars, tickVars, eventVars, packetVars
  <2> QED
    BY <2>1, <2>2, <2>3, <2>4, <2>5, <2>6, <2>7, <2>8, <2>9, <2>10, <2>11,
           <2>12, <2>13, <2>14, <2>15, <2>16, <2>17, <2>18, <2>19, <2>20,
           <2>21, <2>22, <2>23, <2>24, <2>25, <2>26, <2>27, <2>28, <2>29,
           <2>30, <2>31, <2>32
    DEF Next, BringUp, Handler, AppTask, GeoTask, Halted
<1>3. FreshInv => EveryReadIsFresh
  BY DEF FreshInv, EveryReadIsFresh
<1> QED
  BY <1>1, <1>2, <1>3, Invariance, PTL DEF Spec

-----------------------------------------------------------------------------
(* The two periods.                                                        *)

\* The two counters differ by a whole number of normal periods.
Aligned(c, t) == \E j \in Nat : c = t + j * UrRate

\* Where the counters are between two ticks and inside one, when only main()'s
\* thread runs the handler.
HealthInv ==
    /\ \A t \in Threads : h[t] # "idle" => t = "main"
    /\ HealthImpliesNormal
    /\ "HLT" \in hev["main"] => "NRML" \in hev["main"]
    /\ Aligned(cnt, tmr)
    /\ h["main"] \in {"idle", "check"} =>
          tmr <= UrRate /\ cnt <= HlthRate /\ (tmr = 0 => cnt = 0)
    /\ h["main"] \notin {"idle", "check"} => tmr < UrRate /\ cnt < HlthRate
    /\ ~timerOn => tmr = 0 /\ cnt = 0

\* A multiple of the normal period that lies above 0 and not above one period
\* is the period itself.
LEMMA OneMultiple ==
    ASSUME NEW u \in Nat \ {0}, NEW m \in Int, 0 < m * u, m * u <= u
    PROVE  m * u = u
<1>1. CASE m <= 0
  <2>1. m * u <= 0
    BY <1>1
  <2> QED
    BY <2>1
<1>2. CASE m = 1
  BY <1>2
<1>3. CASE m >= 2
  <2>1. m * u >= 2 * u
    BY <1>3
  <2> QED
    BY <2>1
<1> QED
  BY <1>1, <1>2, <1>3

\* When the health counter is at its period, so is the normal one.
LEMMA DueTogether ==
    ASSUME NEW k \in Nat, HlthRate = k * UrRate,
           NEW c \in Nat, NEW t \in Nat, Aligned(c, t),
           c = HlthRate, 0 < t, t <= UrRate
    PROVE  t = UrRate
<1>1. PICK j \in Nat : c = t + j * UrRate
  BY DEF Aligned
<1>2. UrRate \in Nat \ {0}
  BY RateAssumption
<1>3. t = (k - j) * UrRate
  BY <1>1, <1>2
<1>4. k - j \in Int
  BY <1>1
<1> QED
  BY <1>2, <1>3, <1>4, OneMultiple

\* The counters' part of one handler run.
LEMMA CheckKeepsAlignment ==
    ASSUME NEW k \in Nat, HlthRate = k * UrRate,
           NEW t \in Threads, TypeOK, HealthInv, HandlerCheck(t)
    PROVE  /\ "HLT" \in Due => "NRML" \in Due
           /\ Aligned(cnt', tmr')
           /\ tmr' < UrRate /\ cnt' < HlthRate
<1> USE RateAssumption DEF TypeOK, Threads
<1>1. /\ t = "main" /\ tmr \in Nat /\ cnt \in Nat
      /\ tmr <= UrRate /\ cnt <= HlthRate /\ (tmr = 0 => cnt = 0)
      /\ Aligned(cnt, tmr)
  BY DEF HealthInv, HandlerCheck, InHandler
<1>2. cnt >= HlthRate => tmr = UrRate
  <2> SUFFICES ASSUME cnt >= HlthRate PROVE tmr = UrRate
    OBVIOUS
  <2>1. cnt = HlthRate /\ 0 < tmr
    BY <1>1
  <2> QED
    BY <1>1, <2>1, DueTogether
<1>3. CASE tmr # UrRate
  <2>1. Due = {} /\ tmr' = tmr /\ cnt' = cnt
    BY <1>1, <1>2, <1>3 DEF HandlerCheck, Due
  <2> QED
    BY <1>1, <1>2, <1>3, <2>1
<1>4. CASE tmr = UrRate /\ cnt >= HlthRate
  <2>1. "NRML" \in Due /\ tmr' = 0 /\ cnt' = 0
    BY <1>4 DEF HandlerCheck, Due
  <2>2. Aligned(0, 0)
    <3>1. 0 = 0 + 0 * UrRate
      OBVIOUS
    <3> QED
      BY <3>1 DEF Aligned
  <2> QED
    BY <2>1, <2>2
<1>5. CASE tmr = UrRate /\ ~(cnt >= HlthRate)
  <2>1. Due = {"NRML"} /\ tmr' = 0 /\ cnt' = cnt
    BY <1>5 DEF HandlerCheck, Due
  <2>2. PICK j \in Nat : cnt = tmr + j * UrRate
    BY <1>1 DEF Aligned
  <2>3. cnt = 0 + (j + 1) * UrRate
    BY <1>5, <2>2
  <2>4. Aligned(cnt, 0)
    <3>1. j + 1 \in Nat
      BY <2>2
    <3> QED
      BY ONLY <2>3, <3>1 DEF Aligned
  <2> QED
    BY <1>1, <1>5, <2>1, <2>4
<1> QED
  BY <1>3, <1>4, <1>5

\* Every step keeps the counters aligned and a health bit with a normal one.
LEMMA HealthStep ==
    ASSUME SignalTargets = {"main"},
           NEW k \in Nat, HlthRate = k * UrRate
    PROVE  IInv /\ HealthInv /\ [Next]_vars => HealthInv'
<1> SUFFICES ASSUME IInv, HealthInv, [Next]_vars PROVE HealthInv'
    OBVIOUS
<1> USE DEF IInv, TypeOK, BringUpInv, HealthInv, HealthImpliesNormal, Threads
<1>1. ASSUME MainFails PROVE HealthInv'
    BY <1>1 DEF MainFails, frameVars, tickVars, eventVars, packetVars
<1>2. ASSUME GpsOpen PROVE HealthInv'
    BY <1>2 DEF GpsOpen, At, Goto, startVars, frameVars, tickVars, eventVars,
           packetVars
<1>3. ASSUME CreateApp PROVE HealthInv'
    BY <1>3 DEF CreateApp, At, startVars, frameVars, tickVars, eventVars,
           packetVars
<1>4. ASSUME CreateGeo PROVE HealthInv'
    BY <1>4 DEF CreateGeo, At, startVars, frameVars, tickVars, eventVars,
           packetVars
<1>5. ASSUME OpenSerial PROVE HealthInv'
    BY <1>5 DEF OpenSerial, At, Goto, startVars, frameVars, tickVars,
           eventVars, packetVars
<1>6. ASSUME IpcInit PROVE HealthInv'
    BY <1>6 DEF IpcInit, At, Goto, frameVars, tickVars, eventVars, packetVars
<1>7. ASSUME AppInit PROVE HealthInv'
  <2>1. ~timerOn /\ tmr = 0 /\ cnt = 0 /\ tmr' = 0 /\ cnt' = 0
    BY <1>7 DEF AppInit, At
  <2> QED
    BY <1>7, <2>1 DEF AppInit, frameVars, eventVars
<1>8. ASSUME StartTimer PROVE HealthInv'
    BY <1>8 DEF StartTimer, At, Goto, frameVars, tickVars, eventVars,
           packetVars
<1>9. ASSUME NEW t \in Threads, Tick(t) PROVE HealthInv'
  <2>1. t = "main" /\ h' = [h EXCEPT !["main"] = "check"]
    BY <1>9 DEF Tick, HandlerGoto
  <2> QED
    BY <1>9, <2>1 DEF Tick, startVars, eventVars, tickVars
<1>10. ASSUME NEW t \in Threads, HandlerCheck(t) PROVE HealthInv'
  <2>1. /\ "HLT" \in Due => "NRML" \in Due
        /\ Aligned(cnt', tmr')
        /\ tmr' < UrRate /\ cnt' < HlthRate
    BY <1>10, CheckKeepsAlignment
  <2>2. t = "main" /\ h'["main"] \in {"count", "lock"} /\ hev'["main"] = Due
    BY <1>10 DEF HandlerCheck, InHandler, HandlerGoto
  <2>3. timerOn
    BY <1>10, <2>2 DEF HandlerCheck, InHandler
  <2>4. \A u \in Threads : h'[u] # "idle" => u = "main"
    BY <1>10, <2>2 DEF HandlerCheck, HandlerGoto
  <2>5. UNCHANGED <<startVars, eventVars>>
    BY <1>10 DEF HandlerCheck
  <2> QED
    BY <2>1, <2>2, <2>3, <2>4, <2>5 DEF startVars, eventVars
<1>11. ASSUME NEW t \in Threads, HandlerLock(t) PROVE HealthInv'
    BY <1>11 DEF HandlerLock, InHandler, HandlerGoto, startVars, tickVars,
           eventVars, packetVars
<1>12. ASSUME NEW t \in Threads, HandlerSignal(t) PROVE HealthInv'
    BY <1>12 DEF HandlerSignal, InHandler, HandlerGoto, startVars, tickVars,
           packetVars
<1>13. ASSUME NEW t \in Threads, HandlerUnlock(t) PROVE HealthInv'
    BY <1>13 DEF HandlerUnlock, InHandler, HandlerGoto, startVars, tickVars,
           eventVars, packetVars
<1>14. ASSUME NEW t \in Threads, HandlerCount(t) PROVE HealthInv'
  <2>1. t = "main" /\ tmr < UrRate /\ cnt < HlthRate /\ Aligned(cnt, tmr)
    BY <1>14 DEF HandlerCount, InHandler
  <2>2. tmr \in Nat /\ cnt \in Nat /\ tmr' = tmr + 1 /\ cnt' = cnt + 1
    BY <1>14, <2>1, RateAssumption DEF HandlerCount
  <2>3. Aligned(cnt', tmr')
    <3>1. PICK j \in Nat : cnt = tmr + j * UrRate
      BY <2>1 DEF Aligned
    <3>2. cnt + 1 = (tmr + 1) + j * UrRate
      BY <2>2, <3>1, RateAssumption
    <3> QED
      BY <2>2, <3>1, <3>2 DEF Aligned
  <2>4. tmr' <= UrRate /\ cnt' <= HlthRate /\ tmr' # 0
    BY <2>1, <2>2, RateAssumption
  <2>5. /\ h'["main"] = "idle" /\ hev'["main"] = {} /\ timerOn
        /\ \A u \in Threads : h'[u] # "idle" => u = "main"
    BY <1>14, <2>1 DEF HandlerCount, InHandler, HandlerGoto
  <2>6. UNCHANGED <<startVars, eventVars>>
    BY <1>14 DEF HandlerCount
  <2> QED
    BY <2>3, <2>4, <2>5, <2>6 DEF startVars, eventVars
<1>15. ASSUME AppLock PROVE HealthInv'
    BY <1>15 DEF AppLock, At, Goto, startVars, frameVars, tickVars, eventVars,
           packetVars
<1>16. ASSUME AppWait PROVE HealthInv'
    BY <1>16 DEF AppWait, At, Goto, startVars, frameVars, tickVars, eventVars,
           packetVars
<1>17. ASSUME SpuriousWake PROVE HealthInv'
    BY <1>17 DEF SpuriousWake, At, Goto, startVars, frameVars, tickVars,
           eventVars, packetVars
<1>18. ASSUME AppRelock PROVE HealthInv'
    BY <1>18 DEF AppRelock, At, Goto, startVars, frameVars, tickVars,
           eventVars, packetVars
<1>19. ASSUME AppRead PROVE HealthInv'
    BY <1>19 DEF AppRead, At, Goto, startVars, frameVars, tickVars, packetVars
<1>20. ASSUME AppUnlock PROVE HealthInv'
    BY <1>20 DEF AppUnlock, At, Goto, startVars, frameVars, tickVars,
           eventVars, packetVars
<1>21. ASSUME AppDispatch PROVE HealthInv'
    BY <1>21 DEF AppDispatch, At, Goto, startVars, frameVars, tickVars,
           eventVars, packetVars
<1>22. ASSUME AppAlloc PROVE HealthInv'
    BY <1>22 DEF AppAlloc, AppAllocFrame, AppAllocLoc, At, Goto,
           startVars, frameVars, tickVars, eventVars
<1>23. ASSUME NEW t \in {"app", "geo"}, GpsLock(t) PROVE HealthInv'
    BY <1>23 DEF GpsLock, At, Goto, startVars, frameVars, tickVars, eventVars,
           packetVars
<1>24. ASSUME AppGpsRead PROVE HealthInv'
    BY <1>24 DEF AppGpsRead, At, Goto, startVars, frameVars, tickVars,
           eventVars
<1>25. ASSUME GeoGpsRead PROVE HealthInv'
    BY <1>25 DEF GeoGpsRead, At, Goto, startVars, frameVars, tickVars,
           eventVars, packetVars
<1>26. ASSUME GeoGpsFails PROVE HealthInv'
    BY <1>26 DEF GeoGpsFails, At, Goto, frameVars, tickVars, eventVars,
           packetVars
<1>27. ASSUME NEW t \in {"app", "geo"}, GpsUnlock(t) PROVE HealthInv'
    BY <1>27 DEF GpsUnlock, At, Goto, startVars, frameVars, tickVars,
           eventVars, packetVars
<1>28. ASSUME AppGen PROVE HealthInv'
    BY <1>28 DEF AppGen, At, Goto, startVars, frameVars, tickVars, eventVars
<1>29. ASSUME AppSend PROVE HealthInv'
    BY <1>29 DEF AppSend, At, Goto, frameVars, tickVars, eventVars
<1>30. ASSUME GeoStartup PROVE HealthInv'
    BY <1>30 DEF GeoStartup, At, Goto, startVars, frameVars, tickVars,
           eventVars, packetVars
<1>31. ASSUME GeoPolygons PROVE HealthInv'
    BY <1>31 DEF GeoPolygons, At, Goto, frameVars, tickVars, eventVars,
           packetVars
<1>32. ASSUME UNCHANGED vars PROVE HealthInv'
    BY <1>32 DEF vars, startVars, frameVars, tickVars, eventVars, packetVars
<1> QED
    BY <1>1, <1>2, <1>3, <1>4, <1>5, <1>6, <1>7, <1>8, <1>9, <1>10, <1>11,
           <1>12, <1>13, <1>14, <1>15, <1>16, <1>17, <1>18, <1>19, <1>20,
           <1>21, <1>22, <1>23, <1>24, <1>25, <1>26, <1>27, <1>28, <1>29,
           <1>30, <1>31, <1>32
    DEF Next, BringUp, Handler, AppTask, GeoTask, Halted

\* With the health period a multiple of the normal one, and the handler on
\* main()'s thread, no assignment to the event word can lose a normal report.
THEOREM HealthWithNormal ==
    ASSUME SignalTargets = {"main"},
           NEW k \in Nat, HlthRate = k * UrRate
    PROVE  Spec => []HealthImpliesNormal
<1>1. Init => HealthInv
  <2> SUFFICES ASSUME Init PROVE HealthInv
    OBVIOUS
  <2>1. \A t \in Threads : h[t] = "idle" /\ hev[t] = {}
    BY DEF Init
  <2>2. Aligned(0, 0)
    <3>1. 0 = 0 + 0 * UrRate
      BY RateAssumption
    <3> QED
      BY <3>1 DEF Aligned
  <2> QED
    BY <2>1, <2>2, RateAssumption
    DEF Init, HealthInv, HealthImpliesNormal, Threads
<1>2. IInv /\ HealthInv /\ [Next]_vars => HealthInv'
  BY HealthStep
<1>3. HealthInv => HealthImpliesNormal
  BY DEF HealthInv
<1> QED
  BY <1>1, <1>2, <1>3, Invariance, PTL DEF Spec

-----------------------------------------------------------------------------
(* One report per period.                                                  *)

\* The normal counter between two handler runs and inside one.
CounterInv ==
    /\ \A t \in Threads : h[t] # "idle" => t = "main"
    /\ tmr <= UrRate
    /\ h["main"] \notin {"idle", "check"} => tmr < UrRate
    /\ ~timerOn => tmr = 0

\* Every step keeps the counter at or below the rate.
LEMMA CounterStep ==
    ASSUME SignalTargets = {"main"}
    PROVE  IInv /\ CounterInv /\ [Next]_vars => CounterInv'
<1> SUFFICES ASSUME IInv, CounterInv, [Next]_vars PROVE CounterInv'
  OBVIOUS
<1> USE RateAssumption DEF IInv, TypeOK, BringUpInv, CounterInv, Threads
<1>1. ASSUME MainFails PROVE CounterInv'
  BY <1>1 DEF MainFails, frameVars, tickVars, eventVars, packetVars
<1>2. ASSUME GpsOpen PROVE CounterInv'
  BY <1>2 DEF GpsOpen, At, Goto, startVars, frameVars, tickVars, eventVars,
         packetVars
<1>3. ASSUME CreateApp PROVE CounterInv'
  BY <1>3 DEF CreateApp, At, startVars, frameVars, tickVars, eventVars,
         packetVars
<1>4. ASSUME CreateGeo PROVE CounterInv'
  BY <1>4 DEF CreateGeo, At, startVars, frameVars, tickVars, eventVars,
         packetVars
<1>5. ASSUME OpenSerial PROVE CounterInv'
  BY <1>5 DEF OpenSerial, At, Goto, startVars, frameVars, tickVars, eventVars,
         packetVars
<1>6. ASSUME IpcInit PROVE CounterInv'
  BY <1>6 DEF IpcInit, At, Goto, frameVars, tickVars, eventVars, packetVars
<1>7. ASSUME AppInit PROVE CounterInv'
  BY <1>7 DEF AppInit, At, Goto, frameVars, eventVars, packetVars
<1>8. ASSUME StartTimer PROVE CounterInv'
  BY <1>8 DEF StartTimer, At, Goto, frameVars, tickVars, eventVars, packetVars
<1>9. ASSUME NEW t \in Threads, Tick(t) PROVE CounterInv'
  BY <1>9 DEF Tick, HandlerGoto, startVars, tickVars, eventVars, packetVars
<1>10. ASSUME NEW t \in Threads, HandlerCheck(t) PROVE CounterInv'
  BY <1>10 DEF HandlerCheck, InHandler, HandlerGoto, Due, startVars,
         eventVars, packetVars
<1>11. ASSUME NEW t \in Threads, HandlerLock(t) PROVE CounterInv'
  BY <1>11 DEF HandlerLock, InHandler, HandlerGoto, startVars, tickVars,
         eventVars, packetVars
<1>12. ASSUME NEW t \in Threads, HandlerSignal(t) PROVE CounterInv'
  BY <1>12 DEF HandlerSignal, InHandler, HandlerGoto, startVars, tickVars,
         packetVars
<1>13. ASSUME NEW t \in Threads, HandlerUnlock(t) PROVE CounterInv'
  BY <1>13 DEF HandlerUnlock, InHandler, HandlerGoto, startVars, tickVars,
         eventVars, packetVars
<1>14. ASSUME NEW t \in Threads, HandlerCount(t) PROVE CounterInv'
  BY <1>14 DEF HandlerCount, InHandler, HandlerGoto, startVars, eventVars,
         packetVars
<1>15. ASSUME AppLock PROVE CounterInv'
  BY <1>15 DEF AppLock, At, Goto, startVars, frameVars, tickVars, eventVars,
         packetVars
<1>16. ASSUME AppWait PROVE CounterInv'
  BY <1>16 DEF AppWait, At, Goto, startVars, frameVars, tickVars, eventVars,
         packetVars
<1>17. ASSUME SpuriousWake PROVE CounterInv'
  BY <1>17 DEF SpuriousWake, At, Goto, startVars, frameVars, tickVars,
         eventVars, packetVars
<1>18. ASSUME AppRelock PROVE CounterInv'
  BY <1>18 DEF AppRelock, At, Goto, startVars, frameVars, tickVars, eventVars,
         packetVars
<1>19. ASSUME AppRead PROVE CounterInv'
  BY <1>19 DEF AppRead, At, Goto, startVars, frameVars, tickVars, packetVars
<1>20. ASSUME AppUnlock PROVE CounterInv'
  BY <1>20 DEF AppUnlock, At, Goto, startVars, frameVars, tickVars, eventVars,
         packetVars
<1>21. ASSUME AppDispatch PROVE CounterInv'
  BY <1>21 DEF AppDispatch, At, Goto, startVars, frameVars, tickVars,
         eventVars, packetVars
<1>22. ASSUME AppAlloc PROVE CounterInv'
  BY <1>22 DEF AppAlloc, AppAllocFrame, AppAllocLoc, At, Goto,
         startVars, frameVars, tickVars, eventVars
<1>23. ASSUME NEW g \in {"app", "geo"}, GpsLock(g) PROVE CounterInv'
  BY <1>23 DEF GpsLock, At, Goto, startVars, frameVars, tickVars, eventVars,
         packetVars
<1>24. ASSUME AppGpsRead PROVE CounterInv'
  BY <1>24 DEF AppGpsRead, At, Goto, startVars, frameVars, tickVars, eventVars
<1>25. ASSUME GeoGpsRead PROVE CounterInv'
  BY <1>25 DEF GeoGpsRead, At, Goto, startVars, frameVars, tickVars,
         eventVars, packetVars
<1>26. ASSUME GeoGpsFails PROVE CounterInv'
  BY <1>26 DEF GeoGpsFails, At, Goto, frameVars, tickVars, eventVars,
         packetVars
<1>27. ASSUME NEW g \in {"app", "geo"}, GpsUnlock(g) PROVE CounterInv'
  BY <1>27 DEF GpsUnlock, At, Goto, startVars, frameVars, tickVars, eventVars,
         packetVars
<1>28. ASSUME AppGen PROVE CounterInv'
  BY <1>28 DEF AppGen, At, Goto, startVars, frameVars, tickVars, eventVars
<1>29. ASSUME AppSend PROVE CounterInv'
  BY <1>29 DEF AppSend, At, Goto, frameVars, tickVars, eventVars
<1>30. ASSUME GeoStartup PROVE CounterInv'
  BY <1>30 DEF GeoStartup, At, Goto, startVars, frameVars, tickVars,
         eventVars, packetVars
<1>31. ASSUME GeoPolygons PROVE CounterInv'
  BY <1>31 DEF GeoPolygons, At, Goto, frameVars, tickVars, eventVars,
         packetVars
<1>32. ASSUME UNCHANGED vars PROVE CounterInv'
  BY <1>32 DEF vars, startVars, frameVars, tickVars, eventVars, packetVars
<1> QED
  BY <1>1, <1>2, <1>3, <1>4, <1>5, <1>6, <1>7, <1>8, <1>9, <1>10, <1>11,
     <1>12, <1>13, <1>14, <1>15, <1>16, <1>17, <1>18, <1>19, <1>20, <1>21,
     <1>22, <1>23, <1>24, <1>25, <1>26, <1>27, <1>28, <1>29, <1>30, <1>31,
     <1>32
  DEF Next, BringUp, Handler, AppTask, GeoTask, Halted

\* While the handler runs on main()'s thread the counter that is compared for
\* equality never gets past the rate, whatever the rate and however late app_task.
THEOREM CounterBounded ==
    ASSUME SignalTargets = {"main"}
    PROVE  Spec => []CounterNeverPassesRate
<1>1. Init => CounterInv
  BY RateAssumption DEF Init, CounterInv, Threads
<1>2. IInv /\ CounterInv /\ [Next]_vars => CounterInv'
  BY CounterStep
<1>3. CounterInv => CounterNeverPassesRate
  BY DEF CounterInv, CounterNeverPassesRate
<1> QED
  BY <1>1, <1>2, <1>3, Invariance, PTL DEF Spec

\* With ticks that find app_task waiting: a handler that has something to tell
\* tells it to a waiting task, and the word is news exactly until it is read.
HandOverInv ==
    /\ h["main"] \in {"check", "lock", "signal"} => pc["app"] = "waiting"
    /\ fresh <=> pc["app"] \in {"wake", "read"}

\* Every step keeps the handover in its order.
LEMMA HandOverStep ==
    ASSUME SignalTargets = {"main"}, ~Spurious, ~AppMayLag
    PROVE  IInv /\ CounterInv /\ HandOverInv /\ [Next]_vars => HandOverInv'
<1> SUFFICES ASSUME IInv, CounterInv, HandOverInv, [Next]_vars PROVE HandOverInv'
  OBVIOUS
<1> USE DEF IInv, TypeOK, BirthInv, CounterInv, HandOverInv, Threads
<1>1. ASSUME MainFails PROVE HandOverInv'
  BY <1>1 DEF MainFails, frameVars, tickVars, eventVars, packetVars
<1>2. ASSUME GpsOpen PROVE HandOverInv'
  BY <1>2 DEF GpsOpen, At, Goto, startVars, frameVars, tickVars, eventVars,
         packetVars
<1>3. ASSUME CreateApp PROVE HandOverInv'
  BY <1>3 DEF CreateApp, At, startVars, frameVars, tickVars, eventVars,
         packetVars
<1>4. ASSUME CreateGeo PROVE HandOverInv'
  BY <1>4 DEF CreateGeo, At, startVars, frameVars, tickVars, eventVars,
         packetVars
<1>5. ASSUME OpenSerial PROVE HandOverInv'
  BY <1>5 DEF OpenSerial, At, Goto, startVars, frameVars, tickVars, eventVars,
         packetVars
<1>6. ASSUME IpcInit PROVE HandOverInv'
  BY <1>6 DEF IpcInit, At, Goto, frameVars, tickVars, eventVars, packetVars
<1>7. ASSUME AppInit PROVE HandOverInv'
  BY <1>7 DEF AppInit, At, Goto, frameVars, eventVars, packetVars
<1>8. ASSUME StartTimer PROVE HandOverInv'
  BY <1>8 DEF StartTimer, At, Goto, frameVars, tickVars, eventVars, packetVars
<1>9. ASSUME NEW t \in Threads, Tick(t) PROVE HandOverInv'
  BY <1>9 DEF Tick, HandlerGoto, startVars, tickVars, eventVars, packetVars
<1>10. ASSUME NEW t \in Threads, HandlerCheck(t) PROVE HandOverInv'
  BY <1>10 DEF HandlerCheck, InHandler, HandlerGoto, Due, startVars,
         eventVars, packetVars
<1>11. ASSUME NEW t \in Threads, HandlerLock(t) PROVE HandOverInv'
  BY <1>11 DEF HandlerLock, InHandler, HandlerGoto, startVars, tickVars,
         eventVars, packetVars
<1>12. ASSUME NEW t \in Threads, HandlerSignal(t) PROVE HandOverInv'
  BY <1>12 DEF HandlerSignal, InHandler, HandlerGoto, startVars, tickVars,
         packetVars
<1>13. ASSUME NEW t \in Threads, HandlerUnlock(t) PROVE HandOverInv'
  BY <1>13 DEF HandlerUnlock, InHandler, HandlerGoto, startVars, tickVars,
         eventVars, packetVars
<1>14. ASSUME NEW t \in Threads, HandlerCount(t) PROVE HandOverInv'
  BY <1>14 DEF HandlerCount, InHandler, HandlerGoto, startVars, eventVars,
         packetVars
<1>15. ASSUME AppLock PROVE HandOverInv'
  BY <1>15 DEF AppLock, At, Goto, startVars, frameVars, tickVars, eventVars,
         packetVars
<1>16. ASSUME AppWait PROVE HandOverInv'
  BY <1>16 DEF AppWait, At, Goto, startVars, frameVars, tickVars, eventVars,
         packetVars
<1>17. ASSUME SpuriousWake PROVE HandOverInv'
  BY <1>17 DEF SpuriousWake, At, Goto, startVars, frameVars, tickVars,
         eventVars, packetVars
<1>18. ASSUME AppRelock PROVE HandOverInv'
  BY <1>18 DEF AppRelock, At, Goto, startVars, frameVars, tickVars, eventVars,
         packetVars
<1>19. ASSUME AppRead PROVE HandOverInv'
  BY <1>19 DEF AppRead, At, Goto, startVars, frameVars, tickVars, packetVars
<1>20. ASSUME AppUnlock PROVE HandOverInv'
  BY <1>20 DEF AppUnlock, At, Goto, startVars, frameVars, tickVars, eventVars,
         packetVars
<1>21. ASSUME AppDispatch PROVE HandOverInv'
  BY <1>21 DEF AppDispatch, At, Goto, startVars, frameVars, tickVars,
         eventVars, packetVars
<1>22. ASSUME AppAlloc PROVE HandOverInv'
  BY <1>22 DEF AppAlloc, AppAllocFrame, AppAllocLoc, At, Goto,
         startVars, frameVars, tickVars, eventVars
<1>23. ASSUME NEW g \in {"app", "geo"}, GpsLock(g) PROVE HandOverInv'
  BY <1>23 DEF GpsLock, At, Goto, startVars, frameVars, tickVars, eventVars,
         packetVars
<1>24. ASSUME AppGpsRead PROVE HandOverInv'
  BY <1>24 DEF AppGpsRead, At, Goto, startVars, frameVars, tickVars, eventVars
<1>25. ASSUME GeoGpsRead PROVE HandOverInv'
  BY <1>25 DEF GeoGpsRead, At, Goto, startVars, frameVars, tickVars,
         eventVars, packetVars
<1>26. ASSUME GeoGpsFails PROVE HandOverInv'
  BY <1>26 DEF GeoGpsFails, At, Goto, frameVars, tickVars, eventVars,
         packetVars
<1>27. ASSUME NEW g \in {"app", "geo"}, GpsUnlock(g) PROVE HandOverInv'
  BY <1>27 DEF GpsUnlock, At, Goto, startVars, frameVars, tickVars, eventVars,
         packetVars
<1>28. ASSUME AppGen PROVE HandOverInv'
  BY <1>28 DEF AppGen, At, Goto, startVars, frameVars, tickVars, eventVars
<1>29. ASSUME AppSend PROVE HandOverInv'
  BY <1>29 DEF AppSend, At, Goto, frameVars, tickVars, eventVars
<1>30. ASSUME GeoStartup PROVE HandOverInv'
  BY <1>30 DEF GeoStartup, At, Goto, startVars, frameVars, tickVars,
         eventVars, packetVars
<1>31. ASSUME GeoPolygons PROVE HandOverInv'
  BY <1>31 DEF GeoPolygons, At, Goto, frameVars, tickVars, eventVars,
         packetVars
<1>32. ASSUME UNCHANGED vars PROVE HandOverInv'
  BY <1>32 DEF vars, startVars, frameVars, tickVars, eventVars, packetVars
<1> QED
  BY <1>1, <1>2, <1>3, <1>4, <1>5, <1>6, <1>7, <1>8, <1>9, <1>10, <1>11,
     <1>12, <1>13, <1>14, <1>15, <1>16, <1>17, <1>18, <1>19, <1>20, <1>21,
     <1>22, <1>23, <1>24, <1>25, <1>26, <1>27, <1>28, <1>29, <1>30, <1>31,
     <1>32
  DEF Next, BringUp, Handler, AppTask, GeoTask, Halted

\* Every step of the process is a step of the report cycle or leaves it alone.
LEMMA CycleStep ==
    ASSUME SignalTargets = {"main"}, ~Spurious, ~AppMayLag, ~MallocMayFail
    PROVE  IInv /\ CounterInv /\ HandOverInv /\ [Next]_vars
             => [Cycle!Next]_(Cycle!vars)
<1> SUFFICES ASSUME IInv, CounterInv, HandOverInv, [Next]_vars
             PROVE  [Cycle!Next]_(Cycle!vars)
  OBVIOUS
<1> USE DEF IInv, TypeOK, BirthInv, BringUpInv, CounterInv, HandOverInv, Threads,
            ReportPending, Cycle!vars, Cycle!Next
<1>1. ASSUME MainFails PROVE [Cycle!Next]_(Cycle!vars)
  BY <1>1 DEF MainFails, frameVars, tickVars, eventVars, packetVars, Cycle!End
<1>2. ASSUME GpsOpen PROVE [Cycle!Next]_(Cycle!vars)
  BY <1>2 DEF GpsOpen, At, Goto, startVars, frameVars, tickVars, eventVars,
         packetVars
<1>3. ASSUME CreateApp PROVE [Cycle!Next]_(Cycle!vars)
  BY <1>3 DEF CreateApp, At, startVars, frameVars, tickVars, eventVars,
         packetVars
<1>4. ASSUME CreateGeo PROVE [Cycle!Next]_(Cycle!vars)
  BY <1>4 DEF CreateGeo, At, startVars, frameVars, tickVars, eventVars,
         packetVars
<1>5. ASSUME OpenSerial PROVE [Cycle!Next]_(Cycle!vars)
  BY <1>5 DEF OpenSerial, At, Goto, startVars, frameVars, tickVars, eventVars,
         packetVars
<1>6. ASSUME IpcInit PROVE [Cycle!Next]_(Cycle!vars)
  BY <1>6 DEF IpcInit, At, Goto, frameVars, tickVars, eventVars, packetVars
<1>7. ASSUME AppInit PROVE [Cycle!Next]_(Cycle!vars)
  BY <1>7 DEF AppInit, At, Goto, frameVars, eventVars, packetVars
<1>8. ASSUME StartTimer PROVE [Cycle!Next]_(Cycle!vars)
  BY <1>8 DEF StartTimer, At, Goto, frameVars, tickVars, eventVars, packetVars
<1>9. ASSUME NEW t \in Threads, Tick(t) PROVE [Cycle!Next]_(Cycle!vars)
  BY <1>9 DEF Tick, HandlerGoto, startVars, tickVars, eventVars, packetVars
<1>10. ASSUME NEW t \in Threads, HandlerCheck(t) PROVE [Cycle!Next]_(Cycle!vars)
  BY <1>10, RateAssumption DEF HandlerCheck, InHandler, HandlerGoto, Due,
         startVars, eventVars, packetVars, Cycle!FallDue
<1>11. ASSUME NEW t \in Threads, HandlerLock(t) PROVE [Cycle!Next]_(Cycle!vars)
  BY <1>11 DEF HandlerLock, InHandler, HandlerGoto, startVars, tickVars,
         eventVars, packetVars
<1>12. ASSUME NEW t \in Threads, HandlerSignal(t) PROVE [Cycle!Next]_(Cycle!vars)
  BY <1>12 DEF HandlerSignal, InHandler, HandlerGoto, startVars, tickVars,
         packetVars
<1>13. ASSUME NEW t \in Threads, HandlerUnlock(t) PROVE [Cycle!Next]_(Cycle!vars)
  BY <1>13 DEF HandlerUnlock, InHandler, HandlerGoto, startVars, tickVars,
         eventVars, packetVars
<1>14. ASSUME NEW t \in Threads, HandlerCount(t) PROVE [Cycle!Next]_(Cycle!vars)
  BY <1>14, RateAssumption DEF HandlerCount, InHandler, HandlerGoto,
         startVars, eventVars, packetVars, Cycle!Second
<1>15. ASSUME AppLock PROVE [Cycle!Next]_(Cycle!vars)
  BY <1>15 DEF AppLock, At, Goto, startVars, frameVars, tickVars, eventVars,
         packetVars
<1>16. ASSUME AppWait PROVE [Cycle!Next]_(Cycle!vars)
  BY <1>16 DEF AppWait, At, Goto, startVars, frameVars, tickVars, eventVars,
         packetVars
<1>17. ASSUME SpuriousWake PROVE [Cycle!Next]_(Cycle!vars)
  BY <1>17 DEF SpuriousWake, At, Goto, startVars, frameVars, tickVars,
         eventVars, packetVars
<1>18. ASSUME AppRelock PROVE [Cycle!Next]_(Cycle!vars)
  BY <1>18 DEF AppRelock, At, Goto, startVars, frameVars, tickVars, eventVars,
         packetVars
<1>19. ASSUME AppRead PROVE [Cycle!Next]_(Cycle!vars)
  BY <1>19 DEF AppRead, At, Goto, startVars, frameVars, tickVars, packetVars
<1>20. ASSUME AppUnlock PROVE [Cycle!Next]_(Cycle!vars)
  BY <1>20 DEF AppUnlock, At, Goto, startVars, frameVars, tickVars, eventVars,
         packetVars
<1>21. ASSUME AppDispatch PROVE [Cycle!Next]_(Cycle!vars)
  BY <1>21 DEF AppDispatch, At, Goto, startVars, frameVars, tickVars,
         eventVars, packetVars
<1>22. ASSUME AppAlloc PROVE [Cycle!Next]_(Cycle!vars)
  BY <1>22 DEF AppAlloc, AppAllocFrame, AppAllocLoc, At, Goto,
         startVars, frameVars, tickVars, eventVars
<1>23. ASSUME NEW g \in {"app", "geo"}, GpsLock(g) PROVE [Cycle!Next]_(Cycle!vars)
  BY <1>23 DEF GpsLock, At, Goto, startVars, frameVars, tickVars, eventVars,
         packetVars
<1>24. ASSUME AppGpsRead PROVE [Cycle!Next]_(Cycle!vars)
  BY <1>24 DEF AppGpsRead, At, Goto, startVars, frameVars, tickVars, eventVars
<1>25. ASSUME GeoGpsRead PROVE [Cycle!Next]_(Cycle!vars)
  BY <1>25 DEF GeoGpsRead, At, Goto, startVars, frameVars, tickVars,
         eventVars, packetVars
<1>26. ASSUME GeoGpsFails PROVE [Cycle!Next]_(Cycle!vars)
  BY <1>26 DEF GeoGpsFails, At, Goto, frameVars, tickVars, eventVars, packetVars,
         Cycle!End
<1>27. ASSUME NEW g \in {"app", "geo"}, GpsUnlock(g) PROVE [Cycle!Next]_(Cycle!vars)
  BY <1>27 DEF GpsUnlock, At, Goto, startVars, frameVars, tickVars, eventVars,
         packetVars
<1>28. ASSUME AppGen PROVE [Cycle!Next]_(Cycle!vars)
  BY <1>28 DEF AppGen, At, Goto, startVars, frameVars, tickVars, eventVars,
         Cycle!Report
<1>29. ASSUME AppSend PROVE [Cycle!Next]_(Cycle!vars)
  BY <1>29 DEF AppSend, At, Goto, frameVars, tickVars, eventVars, Cycle!End
<1>30. ASSUME GeoStartup PROVE [Cycle!Next]_(Cycle!vars)
  BY <1>30 DEF GeoStartup, At, Goto, startVars, frameVars, tickVars, eventVars,
         packetVars, Cycle!End
<1>31. ASSUME GeoPolygons PROVE [Cycle!Next]_(Cycle!vars)
  BY <1>31 DEF GeoPolygons, At, Goto, frameVars, tickVars, eventVars, packetVars,
         Cycle!End
<1>32. ASSUME UNCHANGED vars PROVE [Cycle!Next]_(Cycle!vars)
  BY <1>32 DEF vars, startVars, frameVars, tickVars, eventVars, packetVars
<1> QED
  BY <1>1, <1>2, <1>3, <1>4, <1>5, <1>6, <1>7, <1>8, <1>9, <1>10, <1>11,
     <1>12, <1>13, <1>14, <1>15, <1>16, <1>17, <1>18, <1>19, <1>20, <1>21,
     <1>22, <1>23, <1>24, <1>25, <1>26, <1>27, <1>28, <1>29, <1>30, <1>31,
     <1>32
  DEF Next, BringUp, Handler, AppTask, GeoTask, Halted

\* When ticks do not outrun app_task and no allocation fails, one report is built
\* per period, once and before the next one falls due, for every rate and every
\* modulus of the frame number, whatever gpsd and the other threads do.
THEOREM OneReportPerPeriod ==
    ASSUME SignalTargets = {"main"}, ~Spurious, ~AppMayLag, ~MallocMayFail
    PROVE  Spec => Cycle!Safety
<1>1. Init => CounterInv /\ HandOverInv
  BY RateAssumption DEF Init, CounterInv, HandOverInv, Threads
<1>2. IInv /\ CounterInv /\ [Next]_vars => CounterInv'
  BY CounterStep
<1>3. IInv /\ CounterInv /\ HandOverInv /\ [Next]_vars => HandOverInv'
  BY HandOverStep
<1>4. IInv /\ CounterInv /\ HandOverInv /\ [Next]_vars
        => [Cycle!Next]_(Cycle!vars)
  BY CycleStep
<1>5. Init => Cycle!Init
  BY DEF Init, Cycle!Init, ReportPending, Threads
<1> QED
  BY <1>1, <1>2, <1>3, <1>4, <1>5, Invariance, PTL
  DEF Spec, Cycle!Safety

=============================================================================
