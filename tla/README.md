# ITMS unit firmware: TLA+ models, checks and proofs

The firmware under `src/FIrmware/` runs on the on-board unit of a bus. It is one
Linux process of four threads (main(), cellular, app and geo) that

- sends a position report to a companion processor every few seconds (app 0022),
- receives frames from that processor over a serial line and answers calls,
- prepares the display files of a route, and
- polls gpsd to find out which geofence of the route the bus is in.

The modules here model what is hard to test about it: the signal handler and the
threads around two mutexes and two condition variables, the serial link from the
threads that send to the byte-by-byte frame receiver, the call record that two
threads share without a lock, the route files that outlive the process, and the
geofence test. All paths below are relative to `src/FIrmware/`.

## The system: components, state, operations

| Component | Code | State it keeps | Operations | Talks to |
|---|---|---|---|---|
| process bring-up | `src/main.c` | descriptor of the serial port, interval timer | open gpsd, create three threads, open and set up the port, initialise IPC and app 0022, arm the timer | everything |
| one-second tick | `src/main.c` `timer_callback`, `ext_lib/apps/ts_vlt_app_0022/ts_vlt_app_0022.c` `app_0022_1sec_tick_isr` | `State.tmr_actv_ur_rate`, a static health counter, `app_0022_event` | count, raise the normal and health bits | app task through `app_evt_mtx` and its condition |
| app task | `src/tasks/app_task.c` | a local copy of the event word | wait, read, dispatch | position report |
| position report | `ts_vlt_app_0022.c` `app_0022_push_nrl_pkt`, `_gen_nrl_pkt_struct` | two heap buffers, `app_0008_frame_number` | allocate, locate, fill in, send, free | gpsd handle, IPC sender |
| app module wiring | `src/system_init/app_0022_init.c` | handle, interface table, `OGps_data` | initialise, wrap gpsd, clock, IPC | `gpsd_mutex` |
| IPC frame receiver | `ext_lib/ipc/ts_ipc_p1.c` `ipc_p1_frame_handler` | state, length, index, CRC, payload block | one pass per received byte | payload dispatch |
| IPC payload dispatch | `ts_ipc_p1.c` `ipc_p1_payload_handler`, `ts_ipc_p1_hdlr.c` | none | dispatch on identifier and command | event callback |
| IPC frame sender | `ts_ipc_p1.c`, `ts_ipc_p1_cmd.c`, `src/system_init/ipc1_mpu_mod_init.c` | none of its own | build a frame, write it | serial port, shared by two threads |
| IPC checksum | `ts_ipc_p1_crc.c` | two constant tables | checksum of a payload | frame sender and receiver |
| IPC event callback | `ipc1_mpu_mod_init.c` | `OIPC_P1_CallData`, `celular_event` | store the record, wake cellular_task | `cell_evt_mtx` |
| cellular task | `src/tasks/cellular_task.c` | local copy of the event, the operator's response | wait, print, ask, answer, ask again | IPC sender |
| serial reception loop | `src/main.c` `ipc1_master_serial_monitoring_task` | read buffer | read, feed byte by byte | IPC frame receiver |
| route preparation | `src/tasks/geo_fence_task.c` up to its loop, `ext_lib/user_led/*.c` | `RouteCount`, `user_input`, `numStations`, the folders `ITMS` and `Dest` on disk | copy ITMS, read the route book, choose, convert, check, read stations | the operator, the disk |
| geofence polling | `geo_fence_task.c` from its loop on | position, `i_past_value` | lock, read gpsd, unlock, test polygons, sleep | gpsd handle |
| geofence geometry | `ext_lib/user_led/GeoFence.c` `pointInPolygon`, `readPolygonFromFile`, `generatePolygonVertices` | `polyX`, `polyY` | read a fence, test a point, make a fence | the polygon file |

Calls, callbacks and shared state: main() feeds the receiver, the receiver calls
the payload handler, that calls the event callback, which runs on main()'s thread
and wakes cellular_task. The SIGALRM handler runs *inside* whatever thread the
kernel picks and wakes app_task. app_task and geo_fence_task share the gpsd
handle; app_task and cellular_task share the sending side of the serial port.

What is hard here, and the properties that make each part correct:

- **Tick and report.** A handler that takes a mutex, a wait without a predicate, an
  event word that is assigned and never cleared, failures whose results nobody
  looks at, threads that start before what they use. Correct means: exclusion, no
  deadlock besides the ones listed, no report lost or sent twice as long as
  app_task keeps up, each buffer given back once, no report before main() has made
  all the calls of bring-up.
- **Receiver.** Lengths and bytes come from a line that loses and damages them.
  Correct means: no store out of bounds, no leak, resynchronisation, and nothing
  handed over but the payloads of well-formed frames.
- **Link.** Two threads write whole frames to one non-blocking descriptor, a short
  write is reported and never completed, the reader keeps the count of `read()` in
  eight bits. Correct means: nothing arrives that was not sent, everything arrives
  in order while nothing is damaged, and a cut frame costs a bounded loss.
- **Calls.** The record is stored and read with no lock, the event word starts as
  "incoming call", the operator blocks the task. Correct means: never stale
  against the wakeup, whole when calls are spaced, no phantom call, reception not
  held up.
- **Route preparation.** A restart at any point, also in the middle of a copy of many
  files, folders that are not emptied, a check after the use, values looked up in
  several places that need not agree. Correct means: the loop starts with display
  files that are whole and made from what `ITMS` holds, and editions do not mix.
- **Geofences.** Fences touch and overlap, lines of the file may be short, gpsd may
  have no fix, everything is computed in single precision. Correct means: the test
  agrees with geometry as far as the arithmetic resolves, and the stop remembered does
  not depend on the way the bus came.

`PROJECT.json` lists every hazard at its line, with the properties that cover it.

## Modules

| Module | Models |
|---|---|
| `Telemetry` | bring-up, tick, app task, position report, and geo_fence_task as the other user of gpsd |
| `ReportCycle` | what the periodic report promises; `Telemetry` implements it |
| `Telemetry_proofs` | theorems of `Telemetry` |
| `IpcRx` | the frame handler and the payload dispatch behind it |
| `IpcFraming` | what the receiver promises, without its state machine; `IpcRx` implements it |
| `IpcRx_proofs` | theorems of `IpcRx` |
| `IpcRx_refinement` | the proof that `IpcRx` implements `IpcFraming` |
| `MCIpcRx` | the small instance of `IpcRx` |
| `IpcCrc` | the checksum with its tables, and its bit by bit definition |
| `IpcLink` | senders, `write()`, line, `read()` and the receiver of `IpcRx`, composed |
| `IpcLink_proofs` | its theorems |
| `MCIpcLink` | its small instance, with the checksum of `IpcCrc` |
| `CallTask` | event callback and cellular_task |
| `CallTask_proofs` | its theorems |
| `RouteSetup` | geo_fence_task_func() up to its loop, the disk, restarts |
| `RouteSetup_proofs` | its theorems |
| `MCRouteSetup` | its small instance |
| `GeoFence` | the polling loop's scan of the polygon file, and the geometry |
| `GeoFence_geometry` | theorems about the point-in-polygon test alone |
| `GeoFence_proofs` | theorems of the scan |
| `MCGeoFence` | its small instance |

### Telemetry

`pc[t]` is where thread `t` stands between two synchronisation calls, `h[t]` where
it stands in a signal handler that interrupted it; while `h[t]` is not `"idle"`
the thread's own code does not move. Code between two calls that touches only
what its thread owns is one step. `app_evt_mtx` and `gpsd_mutex` are the owners
`appMtx` and `gpsMtx`; `pthread_cond_wait()` is `AppWait` (release and wait, at
once), then a wakeup by `HandlerSignal` or `SpuriousWake`, then `AppRelock`.
`Tick` starts a handler frame on a thread that has none; a second frame can begin
only while the first one is blocked in the mutex call, since ticks are a second
apart and everything else in the handler is microseconds. The constant `SignalTargets`
says which threads the kernel uses, because SIGALRM is masked nowhere.

Of the four threads `Threads` has the three that use this state; the fourth, cellular,
is in `CallTask`.

The switches `GpsMayFail`, `MallocMayFail`, `Spurious` and `AppMayLag` turn each
failure on. `AppMayLag = FALSE` says that app_task is back in its wait when the
next tick comes: a report is a matter of milliseconds. `ipcInit` says whether
`ipc1_mpu_mod_init()` has not been called, has failed or has succeeded: with a `NULL`
interface (it failed and main() did not look) the first send crashes. The two
allocations of a report are two steps (`AppAllocFrame`, `AppAllocLoc`), each with its
own error path; `heap` counts, per buffer, allocations less frees, so that a leak and a
second free both show.

History variables, not in the code: `fresh` (event word written since the last
read), `garbage` (packets built from an
uninitialised location, counted up to `MaxGarbage` = 2).

The fields of a packet, the logging and the cellular thread (which touches none
of this) are left out. What polygon the point is in changes only a sleep.

`ReportCycle` is the report without handler, event word and task: seconds are
counted, after `Rate` of them a report falls due, it is made once, under the next
frame number, before the next one falls due. The refinement mapping `Cycle` takes
`elapsed` from `tmr_actv_ur_rate`, the number from `app_0008_frame_number`, and
`pending` from `ReportPending`: the report is on its way in the handler, in the
event word, in app_task's copy of it or in the packet being built.

### IpcRx and IpcFraming

One action per state of the machine and byte: `Feed(b)` is one pass of the loop in
`ipc_p1_frame_handler()`, including, for the stop byte, everything the payload
handler does. `buf` holds the stored bytes, so `Len(buf)` is `PayloadIndex`; `cap`
is the size of the block, 0 for `NULL`; `live` counts blocks. `out` is the
callbacks the byte raised; `whole` tells whether the record the callback reads
lies inside the payload. A one-byte payload has no second identifier byte, the
code reads behind the block, and the model takes any byte there.

`IpcFraming` keeps the bytes since the last start byte for as long as they can
become a frame. `IpcRx!Held` is the refinement mapping: the bytes the state
machine stands for.

### IpcLink and IpcCrc

`todo[t]` is what thread `t` still has to send; `Write(t)` is one `write()` of a
whole frame, which the kernel serialises against the other thread's, but which may
take only the first bytes of it: the callers look at the error at most to return
it, and nobody sends the rest. `NotSent` is a frame that is not written at all.
`Read(n)` is the `read()` of `n` bytes with its count in a `uint8_t`: 255 (also what
-1 becomes) and 0 are ignored, and of more than 255 bytes the first `n % 256` are
handled; `chunk` is what is left of them. `Handle(b)` is one pass of the receiver,
which is `IpcRx` itself (`Rx == INSTANCE IpcRx`). The checksum is a parameter, `Crc`;
the run gives it the true one.
`ReceiveGarbled` and `LoseByte` are the line. Both ends are taken to run the same
library, so the model stands for either direction. `damage` counts, and bounds,
what went wrong, `written` is the history of what `write()` took.

Two assumptions are about what is sent. `TrafficAssumption`: payloads are bytes, at
least one and at most `IPC_P1_MAX_PAYLOAD_SIZE`. `MixedHeaderAssumption`: the payload
lengths are such that a header put together from the first one or two bytes of a cut
frame and the beginning of the next one announces more than that maximum. The
payloads of `ts_ipc_p1_cmd.c` have 4 bytes (answer), 47 (call) and 7 more than the
report, which is far below 256, so that the header is `AA AA 04` or `AA 04 AA` at the
least: 1194 and 43524 bytes, above the 1024 accepted. The assumption came out of the
proof of `BoundedLoss`, which is false without it: cut after its start byte, a frame
followed by one of a 3-byte payload would be read as the beginning of 938 bytes, and
swallow more than its own length. No sender of the program is near that.

`IpcCrc` builds the two tables from their entries at the powers of two (each
further entry is the exclusive or of two earlier ones) and steps through a payload
the way `ipc_p1_crc()` does; `BitSerial` is CRC-16/MODBUS by its polynomial.

### CallTask

A record is its two fields `ctx` and `time`, each named by the call that carries
it, so that a mixed or a stale record can be told. The assignment in the callback
and the reads in the task take two steps each. `response` is the byte that
`scanf("%d")` leaves; a first answer of 0 is asked for again, once. `waker`,
`shown` and `announced` are history.

### RouteSetup

An edition of the `ITMS` folder is a number. `itms` says of each file of the program's
own folder which edition it is from and whether it has been written to its end. `cp -r`
is `Clone` (the folder appears), `CopyOpen` and `CopyClose` for one file after the other
in any order, and `CopyEnd`; into a folder that exists, whole or not, it nests where
nothing is looked for. `PowerOff` ends the process at any point and `cp` with it,
`ChangeMedia` plugs other devices in between, `Boot` starts again with statics zeroed and
the disk as it was. `dest` says of each file in `./Dest` from which folder and copy it
was made and whether it was closed (`Convert` opens it, `ConvertClose` closes it).

What the code reads from separate places is separate: `RouteCounts` and `Entries` are
"RouteCount" and the "RouteDetail" array of the book, `Stations` the settings file of the
folder that an entry's RouteID names, `DatFiles` the display files of the folder that
`RouteString` names. `Folder` is what `snprintf()` leaves of the route number in six
bytes. The bytes of the display files, with the header that `fnHexmerger()` looks up by
length, are data; the LED files count as one file.

Taken for granted: the program is started in its own directory (half of its paths are
relative, half start at the directory of the executable); a file that `cp` has closed
survives a power cut; a file of the book or the settings that was cut does not parse; and
the book names at least two LED identifiers. Of several devices with an `ITMS` folder
only the first matters, since the others nest.

### GeoFence

`Poll` is one `gps_read()` of the polling loop, `TestLine` one pass of its inner
loop: `readPolygonFromFile()` and `pointInPolygon()` for the next of the seven lines
of `up_output.txt`. A line is the numbers `sscanf()` can read in it; what a short
one does not have stays in `poly` from before (`Scanned`). Coordinates are whole
numbers, millionths of a degree. A float holds them only as multiples of its spacing
there: `Stored` rounds to multiples of `UlpX` and `UlpY` what is read from the file and
from gpsd. The sum of `GeoFence.c:39` is a few more float operations, and the model does
not follow their rounding; it allows any error up to `Err`. `Crossed` is the set of
edges counted when the sums are off by a given amount, and `pointInPolygon` the set of
the answers that some rounding gives: one away from the edges (`Clear`), where most of
the map is, and both closer to one. At 76 degrees of longitude a float resolves 8 units (0.9
metres), at 10 degrees of latitude 1; two rounded subtractions, a quotient, a product and a
sum are off by less than four times the larger even for edges of 90 degrees. `NoFix`
is the NaN of gpsd before a fix, of which every comparison is false. The program
tries to write the polygon file at absolute paths that do not exist
(`/ext_lib/user_led/...`) and reads the one in its working directory, which holds
seven complete lines; `generatePolygonVertices()` is modelled for the radius of the
up route around stops at whole millionths; around others printing moves a number by
one. `hits` is history.

## Runs

| Run | Question | Bounds |
|---|---|---|
| `telemetry_sync` | Are all due reports sent, and nothing twice, when nothing fails? Does the geofence loop go on? | rates 5 and 15 as the code sets them, counters modulo 20, frame number modulo 2 |
| `telemetry_fault` | What can each failure do, with the handler on main()'s thread? | rates 2 and 4 (a multiple, as in the code), modulo 8 |
| `telemetry_anysig` | What holds whichever thread the handler runs on? | rates 1 and 1: every tick takes the lock |
| `ipc_link` | What arrives, in which order, and what is lost for how long? | 2 threads, up to 3 frames, among them a payload with `AA 00 00` and a whole call; 1 fault; the read count modulo 8 |
| `ipc_rx` | Is the receiver memory safe for every stream, does it resynchronise, does it implement the framing? | payloads up to 3 bytes over 9 byte values |
| `geo_fence` | Does the test agree with geometry, and what stop is remembered? | 4 files of 6 or 7 lines, 342 positions, no fix; spacings 8 and 1, error 32 |
| `call_busy` | What holds when calls come at any time? | 3 calls, spurious wakeups |
| `call_idle` | Is each spaced call announced, whole, and nothing else? | 3 calls |
| `route_sound` | Are the display files whole and current, over restarts, cuts and device changes? What becomes of a copy that was cut? | 2 editions of 1 and 10 routes, up to 3 stations and 2 display files, 6 inputs |
| `route_faults` | What survives every file operation failing? | the same, 3 inputs |
| `route_check` | Does the range check do what its message says? | 6 inputs; a violation |
| `route_copy` | Does the copy do what its comment says? | 6 inputs; a violation |

Why the bounds are enough. *Telemetry*: the threads are the three that touch its
state; the counters only matter through "equal to the rate", "at least the rate" and
the wrap, and each run has values below, at and above both rates; the frame number only
wraps. *IpcRx*: the alphabet has the start and the stop byte (which may also occur
as length, payload and checksum), the identifier and command bytes of both
dispatched payloads, and makes lengths of zero, legal ones (1, 3) and too long
ones; three payload bytes are enough for a first, a middle and a last one, and for
a second record that is cut off. *CallTask*: two calls are enough to mix a record
and three to do so while the first one's wakeup is still pending. *IpcLink*: two
frames of one thread and one of the other give every order and a frame cut short
before, between and behind whole ones; a count of three bits makes the reads that
are ignored (7), empty (8) and cut (9 and more) reachable with short frames, and the
whole program's wrap at 256 is the same with `CountRange` = 256; with one fault
every position of a cut, a late read, a damaged and a lost byte is tried, in every
division of the line into reads. *GeoFence*: the
touching fences have slanted edges and corners in the middle of a neighbour's edge, and
they are large against the rounding, so that the bus is on edges, near them, on corners, at
the height of corners and clear of all; the stops of the route overlap, touch and lie apart;
the loop's seven lines are those of the code. *RouteSetup*: two editions give an old and a
new folder; one has an entry more in its book than its RouteCount says and more stations
than display files, the other has ten routes, of which the last has settings only and
the first display files only, so that what the code looks up in different places differs;
two display files let a conversion be cut between them and inside each. The inputs are
below, on, at and beyond every bound in the code (-1, the route counts 1 and 10, the array
size 50), and option 9 is the route whose number has two digits.

Deadlock is checked where the system never stops (`telemetry_sync`,
`telemetry_fault`, `route_*`; `Halted` stands for an ended process). It is not
in six runs: in `telemetry_anysig` the handler may interrupt app_task in its own
critical section, which is a real standstill that `NoCircularWait` confines to
app_task; in `ipc_rx` the process may have died of an empty frame, or the module
may be uninitialised; in `call_*` the peer has made its bounded number of calls; in `ipc_link`
all frames are sent and received; in `geo_fence` the process may have exited.

## What the checks show

- **Reports.** With the code's rates, ticks that do not outrun app_task and a gpsd
  that answers, every due report is sent and no event word is read twice, though
  the wait has no predicate and the word is never cleared
  (`EveryDueReportIsSent`, `EveryReadIsFresh`). Assigning the word instead of
  or-ing it loses nothing *because* 15 is a multiple of 5 (`HealthImpliesNormal`).
  Together handler, event word, condition and task are one report per period, built
  before the next falls due (`ImplementsReportCycle`). The counter is compared with
  the rate for equality and never steps over it while one handler ends before the
  next begins (`CounterNeverPassesRate`).
- **Failures.** A failed `gps_read()` in app_task sends one packet with an
  uninitialised location, at most one in the life of the process, and then
  silences reports for good (`AtMostOneUnsetLocation`, `LeakSilencesReports`).
  Whichever allocation fails, each buffer is given back once (`HeapBalanced`). The
  thread of app_task starts before what it uses, but works on a report only when
  main() has made all the calls of bring-up (`ReportsFollowBringUp`); the one that
  sets up the IPC interface may have failed, unnoticed, and then the report crashes.
- **Locks.** Exclusion holds whichever thread takes the signal and whatever fails
  (`MutualExclusion`); the only thread that can wait for itself is app_task
  (`NoCircularWait`), and no handler does while the signal stays off app_task
  (`HandlerNeverSelfBlocks`).
- **Receiver.** For every stream of bytes stores stay in bounds, blocks are freed
  exactly once, the machine returns to its start, and what it hands over is exactly
  the payloads of the well-formed frames. A frame that declares an empty payload
  stores through `NULL`; it is the only one that does (`FaultOnlyOnEmptyFrame`).
- **Link.** Whatever is cut, dropped or damaged, what is handed over was sent, in this
  order and once (`NothingInvented`, for at most one fault: CRC-16 cannot promise it
  for any number). Without faults nothing is missing (`CleanLineInOrder`). A cut
  frame swallows the frames that start within the length it announced and no later
  one (`BoundedLoss`), *provided* the frames before contain no start byte; and it can
  kill the receiver only if a payload contains `AA 00 00` (`SurvivesShortWrites`), as
  a call or position may. The tables are CRC-16/MODBUS (`ChecksumIsModbus`). A call
  frame of this library has one record of 45 bytes where the receiver expects records
  of 21: it raises three callbacks, the last of which reads beyond the payload.
- **Calls.** The unlocked record is never older than the call that woke the task
  (`NeverOlderThanWaker`); it is whole when calls come while the task waits
  (`ReportIsWhole`) and may be mixed otherwise, which is why that property is in
  `call_idle` only. Calls during the prompt are lost the same way.
- **Routes.** No operation failing, when polling starts there is a whole display file
  for every `.dat` file of the folder that `RouteString` names, made from what `ITMS`
  holds, whatever runs that were cut off left behind, although `./Dest` is never emptied
  (`DisplayFilesAreCurrent`). For option 9 that folder is the one of route 1, since
  `RouteString` has no room for a second digit, while the settings are those of the
  entry's own RouteID; the repository does not say which is meant. Because an existing
  `ITMS` is never written to, it never mixes editions, nor does `./Dest`, even when
  copies break off and files fail (`OneEdition`); for the same reason a copy that is
  cut off before its book is whole leaves the unit without routes for good
  (`CutCopyIsForGood`), and cut off before the LED files it crashes every run that
  has a station (`ReadLeds`).
- **Geofences.** For complete lines that draw a convex fence the even-odd test agrees
  with the sides of the edges, however floats round, for every position further from them
  than the rounding reaches, at the height of corners too (`FenceTestIsRight`; the sides
  say nothing of a fence with a dent, and the program's own are regular pentagons). Closer
  to an edge the code may answer either way, and of two fences that share the edge both or
  neither may have the bus: nothing is claimed there. The stop remembered is the last fence
  of the route that was found to contain the bus (`CurrentStopIsLastHit`). A short line is
  tested with corners of the line before it.

Two places where the code and its own words differ, each with a run that shows it:
the range check lets option `RouteCount` pass, which was not offered
(`route_check`), and copying `ITMS` does not replace an existing folder
(`route_copy`).

Every property of a passing run has a mutant in `PROJECT.json`: a plausible slip in
the modelled code, under which the same run reports the property violated. The
mutants stand in the modules before the definitions they change.

## Fairness

- `Telemetry!Fairness`: the kernel runs every runnable thread (weak fairness of
  bring-up, of both tasks) and delivers the periodic signal; a thread that waits
  for a mutex gets it if it becomes free again and again (strong fairness of the
  lock steps). The last is more than POSIX promises of a mutex, and the code earns
  it: app_task holds each lock for microseconds and geo_fence_task sleeps 100 ms
  between two sections. Failures are never fair.
- `CallTask!Fairness`: the same for main()'s callback and cellular_task. Nothing is
  assumed of the peer, of the operator (who may never answer) or of the bring-up.
- `IpcLink!Spec`: the reception loop, which does nothing else, goes on reading and
  handling bytes (weak fairness of `ReadSome` and `Receive`). Nothing is assumed of
  the senders or of the line.
- `ReportCycle!Spec`: a report that is due is made (weak fairness of `Report`), which
  `Telemetry` owes to the fairness of app_task.
- `IpcRx!LineSpec`: bytes keep coming, whichever they are. Without it nothing could
  resynchronise, since the receiver has no timeout.

## Proofs

`Telemetry_proofs` proves, for all rates, moduli and switches, an inductive
invariant (`Invariance`) and from it `TypeCorrect`, `MutexSafe`, `NoDeadlyEmbrace`,
`UpBeforeReports`, `HeapSafe`, `OneUnsetLocation`, `LeakSilences`. The properties
are not inductive: exclusion follows only once the invariant ties the owner of each
mutex to the labels between lock and unlock, and says of `gpsMtx = "app"` outside
them that the leak has happened and where it confines app_task; "at most one"
needs that confinement, and "only when up" needs that no signal can come before
the timer is armed, so that before it app_task is in its first wait. Three results
have a hypothesis, stated in the theorem: `NoSelfBlock` (SIGALRM never on
app_task), `ReadsAreFresh` (no spurious wakeup), and `HealthWithNormal` (handler on
main()'s thread, and a health period that is a multiple of the normal one, whose
invariant says that the health counter is congruent to the normal counter).

Two more results of `Telemetry_proofs` are about the counter and the cycle, both
for a handler confined to main()'s thread. `CounterBounded` needs an invariant that
says, for each label of the handler, whether the counter has been reset already.
`OneReportPerPeriod` is the safety part of the refinement of `ReportCycle`
(`Cycle!Safety`), without spurious wakeups, lag and failed allocations: `HandOverInv`
says that a report is in at most one of the places of `ReportPending`, and that
when one falls due app_task is back in its wait, so that the signal finds it.

`IpcRx_proofs` proves `StoresSafe`, `LeakFree`, `OnlyEmptyFramesFault` and
`TypeCorrect` for every payload limit, alphabet and checksum. The invariant relates
the allocated size, the declared length and the number of stored bytes in each
state. `IpcRx_refinement` proves `FramingImplemented`, that is `Spec =>
ImplementsFraming`: with `Held` as the mapping, each byte in each state is a `Take`,
a `GiveUp` or a `Break` of `IpcFraming`. The argument needs the invariant (the parts
of the two-byte fields that have come so far), and the lemmas say what a sequence of
three header bytes, payload and two checksum bytes has at each place.

`CallTask_proofs` proves `NeverStale` for any number of calls and answers, and,
without spurious wakeups, `NoPhantom` and `UpBeforeAnswers`. Its invariant says what has
been stored by the time a signal is sent.

`RouteSetup_proofs` proves, for every set of editions and whatever is entered, plugged in,
cut off or failing, `TypeCorrect`, `EditionsNeverMix` and `CutCopyStays`, and, no operation
failing, `FilesAreCurrent`. `OneSource` is why editions do not mix: an existing folder is
never copied into, so that its files are all of the edition that made it, while `cp` runs
the one it copies; the files of `./Dest` come from those. `Fresh` is why the display files
are current: whatever else is in `./Dest`, the files of the chosen folder that are neither
to do nor open have been written by this run, and the copy no longer moves meanwhile.

`IpcLink_proofs` proves `CleanLine`, `ShortWritesSurvived` and `LossBounded`, that is
`CleanLineInOrder`, `SurvivesShortWrites` and `BoundedLoss` for any number of threads
and frames, every payload and checksum the assumptions above admit, every range of
the read count and any number of faults. Of the receiver it uses two results of
`IpcRx_refinement`: a byte is a `Take` or a `Break` of `IpcFraming`, and what the
machine stands for is a sequence of bytes. None of the three properties is inductive,
and their invariant is built in four parts:

1. `Base`: types, the invariant of the receiver, what a frame under way looks like
   (`HeldInv`), and that `written` is a log: each frame starts where the one before
   ends, so that every position of the line carries one byte.
2. `Streamed`: without noise and late reads, the bytes in the kernel, in the chunk and
   in the receiver are those of consecutive positions. Positions are counted from the
   sending end (`Sent`) and the receiving end (`Taken`), and this is what ties the
   receiver to frames written long before.
3. `InStep`: without any fault, the receiver holds the beginning of the frame behind
   those it has handed over. This is the strengthening of `CleanLineInOrder`.
4. `Caught`: a frame that is owed is held from its first byte on until it is whole,
   and handed over from then on. This is the strengthening of `BoundedLoss`. Its hard
   case is the first byte (`Ready`): the receiver must hold nothing then. If it did,
   it would have started at a start byte, which can only be the first one of an
   earlier frame, since no frame before has one inside; the header it read there
   announced what that frame announced or more than is accepted (`HeaderRead`); and
   all of that has come.

That the receiver survives (`SurvivesShortWrites`) follows from `Streamed`: the three
bytes it dies of are on the line behind one another, and cannot be put together from
two frames, since a frame begins with a start byte and declares at least one byte
(`EmptyHeader`). The first byte damaged or lost and the first late read end all that
`Streamed` and `Caught` say; `Base` goes on.

What is handed over has an invariant of its own, `HandedAsFramed`, proved beside the
one above (`PayloadsComeAsFrames`): without noise and late reads the payloads come
from disjoint stretches of the line, in order, each of them a well-formed frame. It
rests on `Streamed`, which places the bytes of the frame that is complete, and on the
refinement, by which the machine holds nothing once it has handed a payload over, so
that the next stretch lies behind. `NothingInvented` (`OnlyWhatWasSent`) follows in two
cases: without faults from `InStep`, whatever the payloads contain; and with frames cut
short under the hypothesis `ChecksumTells`, that no other bytes of the line look like a
frame. The hypothesis cannot be spared: the first bytes of a cut frame and the
bytes behind it may fit a checksum of 16 bits. It is about the bytes on the line and
not about the receiver: the receiver may be at any of them.

`GeoFence_geometry` is about `pointInPolygon()` alone, for all corners and points, all
spacings and every bound on the error. The argument has two halves. Without rounding, for a
convex fence, `InsideIsJustWithin` says what the test computes: `JustWithin`, that is,
whether each edge has the point on its left or on itself, and in the second case leads up
or, level, to the left (`Owns`). It goes by signs of cross products: at the height of the
point either no edge is crossed, or one up and one down with the crossings on the sides the
cross products say, or the fence is a zigzag without area. At a corner, or at the height of
one, it needs that a convex outline does not turn around within a half plane
(`NoTurnAroundInHalfPlane`), so that a fence that ends there has edges on both sides of
the point that say so. With rounding, `ClearHasOneAnswer` says that a point clear of the
edges has one answer, that of the exact test. The results are `InnerPointsFound`,
`OuterPointsRejected` and, for fences on the two sides of an edge, `ApartNotBothInside`,
all three for points that are clear of the edges. `GeneratedFencesAreConvex` shows that the fences
the program draws are convex as the floats they are read back as, for spacings up to 14
units (the code's are 8 and 1).

`GeoFence_proofs` proves, of the scan, `LastHitRemembered` for every file and position, and
`FenceTestRight` (`FenceTestIsRight` for every file, position, fence and rounding), with an
invariant that says that a line is in `hits` if its fence must contain the bus and only if it may.

Assumed: the `ASSUME`s of the modules on their constants, which TLC evaluates in
every run, and the hypotheses above, which the constants of the runs that check
the same properties satisfy.

Model-checked only:

- `ReportIsWhole`, for calls that come only while the task waits, which nothing in the code
  ensures;
- the liveness properties (`EveryDueReportIsSent`, `GeoKeepsPolling`,
  `ReturnsToIdle`, `ReceiverNotHeldUp`, `EveryCallAnnounced`, `LineDrains`, and the
  liveness part of `ImplementsReportCycle`), which the proof system does not reach;
- `NothingInvented` where bytes are damaged, lost or dropped by a late `read()`: it is
  not true of every instance, since with enough damage 16 bits of checksum let a frame
  pass that was never sent. The run shows that it takes more than one fault on its
  traffic; with frames cut short alone the proof has the hypothesis `ChecksumTells`;
- `ChecksumIsModbus`: that the tables compute the CRC is an induction over the
  payload, and needs `Bitwise`, which cannot be used under a theorem.

## Not modelled

- **Fields of the position packet**: data. Reading them shows that the position is
  assigned to integer fields described as decimal degrees times 10^6
  (`ts_vlt_app_0022.h:144`) without scaling, so that whole degrees are sent
  (`app_0022_init.c:63`); no run is about it.
- **Bytes of the display files** and the LED identifiers: data. Reading shows that the
  header is looked up by the length of the file, that a file of 1350 bytes gets the one of
  703, and that a length not in the table leaves it uninitialised
  (`Hexprocessor.c:22-73`). The descriptors that `TextFetch()` leaves open are not counted.
- **Floating point closer to an edge than `Err`**: which of the two answers the hardware
  gives there. The spacing of the floats is in the model, the rounding of each operation
  is not.
- **Responses and acknowledgements of the IPC library**: nothing of this program sends
  a command, and every handler answers one with `INVALID_CMD`.
- **Display and GPS serial helpers** (`send_file_via_serial()`, `open_port_GPS()`):
  called only by a `main()` that is compiled out.
- **JSON library**, terminal settings, logging and printing.

## Plan

What is modelled is the whole of the program's own control, and what can be proved of
its safety is proved. What could still be added, in this order:

1. `CleanLineInOrder` as a refinement of an abstract queue between the threads and the
   callbacks, with the events of the payload dispatch at its end.
2. The scaling of the position as a run of its own, once it is known what the peer
   expects.
3. Larger instances of `IpcLink`: two faults, four frames.
4. The rounding of each operation of `GeoFence.c:39`, in binary, if positions closer to an
   edge than `Err` come to matter.
