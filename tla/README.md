# TLA+ models of androidzone

androidzone is a set of small Android programs in C++ and Java. This project
models the ones that have something to go wrong in: threads, sleeps that stand
for joins, sockets that outlive their servers, arithmetic on a clock, devices
that are kept from others, files that survive a crash. Module by
module the definitions are translated from the code; `PROJECT.json` gives the
lines of each under `map`.

## The system

| Part | State it keeps | Operations | Modelled in |
|---|---|---|---|
| gles-engine, threads (`gles_engine.cpp`, `main.cpp`, `egl_engine.cpp`) | five `bool` flags, `display_engine`, `render_mutex`, `app->window`, three threads | commands of the activity, the render loop, the data loop, constructor and destructor | GlesEngine, EngineMonitor, GlesEngineTimed |
| gles-engine, frame counter (`fps_calculator.cpp`) | `last_time`, `frames`, `fps` | `calc_fps` once a frame | FpsCalculator |
| gles-engine, `message_logger` | a tag | log a line | not modelled |
| boost-socket | `run`, two io_services, the acceptor, its connections, three threads | accept, answer, close, accept again; connect, read, sleep; start and stop | BoostSocket, AnswerServer |
| libmodbus-tcp, client's tests (`modbus_tcp_client.h`) | address, count, five buffers, number of failures | ten requests for each address | ModbusClient |
| libmodbus-tcp, threads and server (`main.cpp`, `modbus_tcp_server.h`) | listening socket, its backlog, one connection per server | listen, accept, reply until closed; one pair of threads per launch | ModbusTcp, SingleSession |
| std-streams (`main.cpp`) | two files that outlive each launch | write a line, read the file back | StdStreams |
| flashlight (`MainActivity.java`) | `m_enabled`, `m_camera`, the picture on the button; the device's camera | click, onStop, onRestart, onDestroy | Flashlight, ActivityLifecycle |
| vibrator (`MainActivity.java`) | `m_enabled`, the toggle; the vibrator service's patterns | create, click, onStop, onRestart, onDestroy | Vibrator, ActivityLifecycle |
| boost-thread, boost-uuid, boost-date-time, cpplib, launchers, build | none that is shared | | not modelled |

Each native program runs `android_main` on a thread of its own, in a loop that
takes commands from the native-activity glue; `APP_CMD_INIT_WINDOW` and
`APP_CMD_TERM_WINDOW` bracket the life of `app->window`, and Android's main
thread waits for the TERM_WINDOW handler and for `android_main` to return. The two
Java programs are one activity each, whose callbacks come one at a time on the main
looper. The programs do not interact with each other.

What is hard in them:

* **Threads that are never joined.** `~gles_engine` and boost-socket's
  `android_main` clear a flag, sleep and free what the thread uses;
  libmodbus-tcp does not even wait.
* **Tests outside the lock.** The render thread reads its flags and
  `display_engine` before it locks `render_mutex` and does not look again.
* **An unfair mutex** that the render thread takes without a pause while Android
  waits for the command that needs it.
* **Things that stay behind**: an accepted connection whose handler `stop()`
  keeps from running; a listening socket nobody closes; a figure nobody set; a
  camera nobody releases; the text of an earlier launch.
* **Two instances of an activity**: one that has been left is stopped and
  destroyed only after the next one has been created, shown and perhaps clicked.
* **Exceptions and errors nobody sees**: `enableFlash` swallows all of them,
  `write_to_file` clears the state it is about to test, the results of
  `modbus_tcp_listen` and `modbus_tcp_accept` are dropped.
* **Numbers**: 64 bits of milliseconds and `frames * 1000` in a 32-bit `long`, a
  wall clock that goes back or leaps forward, a count that is 0 at the last address.

`hazards` in `PROJECT.json` lists them line by line with the properties that
cover them.

## The modules

### GlesEngine

One variable per field of `gles_engine::d` that decides something, one program
counter per thread, and `window` for `app->window`. **An action is one access to
shared state**: `render_thread_initialized && display_engine == 0` is two
actions, the lock a third. `displayEngine` is the window the engine's surface is
on, or `NoWindow`. What the code does through a null or freed pointer, and an
exception that leaves a thread, ends the run in a `fault`, so the faults are
states a property can talk about. The flags are plain `bool`s; every loop calls
functions the compiler cannot see through, so a read is a fresh read.

Commands (`CmdInitWindow`, `CmdTermWindow`, `CmdGainedFocus`, `CmdLostFocus`,
`CmdDestroy`) come in any order in which the glue can deliver them: a window only
where there is none, its end only where there is one, destruction only without
one. A new window is not the one a surviving surface still refers to. The code
of a handler follows in actions of its own, one per flag, lock, delete and unlock.

### EngineMonitor

The abstract specification: at most one engine, created, deleted and drawn with
only by a thread inside the monitor, and not deleted while drawn with.
GlesEngine implements it (`ImplementsMonitor`): `holder` is the mutex, and
drawing is the control point `draw` with an engine there.

### GlesEngineTimed

GlesEngine with a timer per thread. A step takes up to `MaxDelay`, a sleep at
least its length and at most `MaxDelay` more; `Tick` lets time pass for the
threads that are not blocked. `CommandGap` and `FocusFirst` describe Android:
how close two commands may come and whether the focus goes before the window.
The named assumption `TimedAssumption` is what the destructor's sleeps have to
satisfy. The first bound sums both sleeps, as nothing the render thread uses is
freed between them: `RenderStop + DataStop > 14 * MaxDelay + CycleRest`. With the
program's 250, 250, 50 and 50 ms it holds up to a `MaxDelay` of 31 ms. That a
step of a thread takes no longer is not something the code ensures: it is the
price of sleeping instead of joining, made visible.

### FpsCalculator

`calc_fps` on the difference between the wall clock and `last_time`, which has 64
bits, converted to `delta`, a `long` that wraps at `LongMax`; with the product
that wraps too, division that truncates and the conversion to `unsigned int`. The
environment draws frames, pauses, puts the clock forward, and puts it back by
at most `MaxBack` within one window. `setback`, `pace` and `fpsPace` are
history variables for the properties: a window is `steady` when only frames were
drawn in it, `jumped` when one of them found more than a `long` can hold gone, and
`uneven` otherwise.

### BoostSocket

The application thread, the server's `io_service::run` and the client's loop,
timed as in GlesEngineTimed. The parts of boost.asio that matter are modelled from
how the program uses them and are marked external: `run` looks at the stop flag
before each handler; an accept that completes queues a handler; a handler in the
queue owns its connection; a first attempt at writing or accepting is made at
once. Connections are reused when both of their ends are closed.

### AnswerServer

The abstract specification of the server: each connection is open, is answered
once, is closed; one is answered at a time; and only a stopped server closes one
without an answer. BoostSocket implements it (`ImplementsServer`): `Conversation`
reads the state of a connection off `peer` and `answered`. `Abandon` takes several
connections at once because the destructor of the acceptor does.

### ModbusClient

The client's function request by request. The server is external: memory that
stores what is written, but for a set `broken` of pairs of a function and an address
at which another value is stored. The buffers are kept cell by cell because the
hazard is in which buffer is compared; `Fill` still sees the count of the address
before. `errors` keeps which tests have failed, not how often. Whether a server
takes a request for no cells (made at the last address) differs between versions of
libmodbus, so it is a constant, `ZeroRejected`; the runs take the versions that do,
as the others report failures for any server.

### ModbusTcp

The same program from the outside: launches of the activity one after the other in
one process, each with a server and a client thread that live on. Requests are
counted, not told apart. A server that can run answers within libmodbus's timeout;
only a connection left in a backlog whose server has moved on, or lost with its
socket, times out. The process being killed is left out: it ends everything at once.

The code looks neither at what `modbus_tcp_listen` returns nor at what
`modbus_tcp_accept` does. So `ListenFails` has no guard: the port may be held by
another launch or another program, or there is no descriptor left. `AcceptFails`
closes the listening socket, as libmodbus does, and with it what waits in the
backlog. Either way the server goes on to `modbus_receive` with no connection, and
what that does depends on the version of libmodbus: it fails, and the server logs
"server : test OK" (`QuitUnserved`), or it waits for ever (the action is not fair).
A client that connects to another program on the port is not modelled.

### SingleSession

The abstract specification of what all launches in one process amount to: the port
goes to one server at a time (`GiveUp` when its accept fails), the first to take a
client keeps it for good, and only this client's test can succeed. ModbusTcp implements it (`ImplementsSession`): `owner` is the listener,
`client` whom the listener serves, `verdict` what each client has reported. It is not
what a user of the program would wish for; it is what follows from a listening socket
that is never closed.

### ActivityLifecycle, Flashlight, Vibrator

ActivityLifecycle is external: the callbacks of successive instances of an activity
in the order Android may call them, with the saved state it keeps (`kept`). An
instance that is finishing stays paused or stopped while the next is created; any
other is destroyed first. Flashlight and Vibrator extend it with the fields of
`MainActivity`, one per instance, and one action per callback: what the callback
does, joined with the step of the life cycle it belongs to.

Flashlight's camera is one for the device (`holder`), so `Camera.open` throws while
another instance or another program has it, and may throw for any other reason; so
may the calls that follow it. `LightUp` and `PutOut` are the two halves of
`enableFlash` with each place at which an exception may cut them short: `stopPreview`
throws on a camera that is null or released, and may throw on an open one, which skips
`release()`. `cut` remembers which half the last exception cut short. A camera
that was never released is with its instance until the next call puts it out, the
process ends, or `Collected` (external) finds the `Camera` of a destroyed activity. Vibrator has
the service's repeating patterns and single vibration, its loss of both when the
screen goes off, and the toggle button, whose state Android saves and gives to the
next instance while `m_enabled` starts anew.

### StdStreams

One launch after the other over two files: open and empty, write, read back, poll. A
launch may be killed between any two steps (`Exit`), the card may be taken out or
become read-only (`Remount`), a write may store all, a part or nothing of the text
without anyone looking, a read may fail as at the end of the file. `res` is what
`write_to_file` returns, from a test of `fail()` that comes after `clear()`
(`FailAfterClear`); `said` is how `read_from_file` ended, `got` what it has logged,
`left` what was in a file before the launch.

`MC*.tla` extend the modules for TLC; `*Proofs.tla` hold the proofs.

## The runs

| Run (cfg) | Shows | Bounds |
|---|---|---|
| `gles_engine` (MCGlesEngine) | type invariant; the init flag implies a window; no engine left at exit; refinement of EngineMonitor; TERM_WINDOW completes with an unfair mutex; a window gets frames from an engine of its own while no `destroy_display()` is overtaken by the creation of an engine | 2 windows: a second is needed for an old surface to meet a new window, a third adds nothing as only "the same or not" matters; EGL may fail |
| `gles_engine_frame` (MCGlesEngineFrame) | **violated**: a frame without an engine | same |
| `gles_engine_timed` (MCGlesEngineTimed) | no use after free; frames have engines when commands come in order; shutdown completes | MaxDelay 2; the stop times satisfy both assumptions with one tick to spare, so the race is as close as it may be |
| `gles_engine_window` (MCGlesEngineTimedWindow) | **violated**, in the orderly environment too: an engine on a window that is being taken back | same |
| `fps` (MCFpsCalculator) | figure in range, no overflow while the clock readings fit a `long` | frame times of 150, 200 and 350 ms, two setbacks; LongMax 16400, just what `ProductFits` asks for; pauses of 700 and 2500 ms, and two past LongMax: 28000 ms makes `delta` negative, 34000 ms wraps it all the way round |
| `boost_socket` (MCBoostSocket) | the client finds the server, is answered and gets its message; the threads end in time but for a stranded client; refinement of AnswerServer | 2 connections: the client has one at a time, the second is there while the first is being closed; StopTimeout one more than ClientCycle + 6 MaxDelay |
| `modbus_client` (MCModbusClient) | a server without a fault the tests can see passes while it is up; a pass means that what is compared works and that the connection lasted | 3 addresses (first, middle, last with a count of 0), words of one bit, no fault or one |
| `modbus_client_all` (MCModbusClientAll) | **violated**: a server with a broken register function passes | same |
| `modbus_tcp` (MCModbusTcp) | a client's success only if it was served, its failure only after another client was taken or a listen or accept failed unnoticed; a client is served in full or loses all its requests; every client, and every server with a client, reports; refinement of SingleSession | 3 launches and a backlog of 1: served, orphaned, refused; the 1 is a bound of the model (Linux keeps 2 for a `listen(1)`, and it takes a fourth launch to be refused then); 1 request, as a second repeats the first |
| `flashlight` (MCFlashlight) | the camera is held only while an enabled instance is shown, none is lost, the button tells the lamp, a finished instance gives the camera back, each but for the exceptions it names | 3 instances: two can be alive at once, and the third meets what both have left; every exception |
| `vibrator` (MCVibrator) | vibration exactly for those shown and enabled, but for patterns the service dropped; the toggle tells `m_enabled` or, restored, its opposite | 3 instances, with and without a vibrator |
| `std_streams` (MCStdStreams) | a stored text is read back alone; of a text that could not be written `write_to_file` returns true, and a read that works logs what was there before | 3 launches: one that is killed, one that finds what it left and loses its own text, one more; both files |

Each property of a passing run has a mutant: a plausible bug in one definition
(`mutants` in `PROJECT.json`) with which the run finds it violated.

### What the violations mean

* A frame without an engine and an engine on a dying window are two sides of one
  thing: `render()` should repeat its tests under the lock. If the focus is lost
  before the window, the first does not happen
  (`OrderlyFrameHasEngine`); the second does. What comes of it lasts: the engine
  stays on the old window, the next INIT_WINDOW creates none, and every frame goes to
  the old surface until the next TERM_WINDOW. `WindowGetsFrame` therefore promises a
  window its own engine only where the race does not happen (`NotOvertaken`).
* The register tests of the Modbus client should compare registers.

Some properties that hold say what goes wrong, and when nothing else does:

* `OnlyStrandedClient`: a client whose connection was accepted as `stop()` came
  outlives `android_main` and then reads its locals. boost-socket should join the
  client, or close the connections it abandons.
* `ClientFailsForCause`: "client : test failed" comes when another client was taken
  first, or when a listen or accept failed and nobody noticed; in the second case the
  server may log "server : test OK" for having served nobody. `modbus_tcp_server_fun`
  should look at what `modbus_tcp_listen` and `modbus_tcp_accept` return, and close
  its socket.
* `ImplementsSession`: "client : test OK" comes once in the life of a process. The
  first server to take a client keeps the port; every other client, of
  this launch or a later one, is refused or left in the backlog.
* `HeldOnlyWhileShown`, `CameraGivenBack`: a `stopPreview` that throws leaves the camera
  with an activity that is gone; `release()` belongs in a `finally`.
* `ImageTellsLamp`: the picture and `m_enabled` say on when lighting the lamp threw, and
  off over a lit lamp when putting it out did.
* `FpsNotWrapped`: a clock put forward by 2^31 ms (25 days) or more may make `delta` negative, the
  window stays open and its figure may come from an overflow, so nothing is claimed of
  a `jumped` window. `delta` should be an `int64_t`, of a steady clock.
* `ToggleTellsEnabled`: a toggle restored as checked is the wrong way round until its
  instance goes.
* `LossShows`: as `stream.clear()` comes before the test, the error of `write_to_file`
  (std-streams `main.cpp:69`) can never be logged and its result is always true; the next
  lines of the log are the text of an earlier launch, if there was one.
* `TypeOK` of FpsCalculator: until the first window closes, `fps` is what it happened to
  be; it needs an initial value.

## Fairness

Android owes no command, so none is fair. In GlesEngine each thread is weakly fair:
a runnable thread is scheduled. For a thread at `render_mutex` weak fairness
promises little, as the other thread may always take it again; boost::mutex promises
no more. `TermWindowCompletes` holds nevertheless, because the handler clears the
flags first. In GlesEngineTimed weak fairness of the whole next-state relation is enough, as
`ShutdownCompletes` starts when Android has nothing more to do: a timer forces its
thread's step before time can go on. BoostSocket has the same but for the poll of
`android_main`, so that an answer to the client is not owed to an exit. In ModbusTcp each thread is
weakly fair; a blocking `accept` without a client owes nothing, and an accept or a
receive need not fail (`ServerRuns` leaves these two out). As a thread runs once and the launches are
bounded, `ClientReports` and `ServedServerReports` say that infinitely often no report
is outstanding, which is the same as that each comes in the end. In Flashlight
the one promise is Android's: an activity that is finishing is stopped in the end.
Vibrator and StdStreams state safety only and need no fairness.

## The proofs

TLAPS checks, for every value of the constants:

* **GlesEngineProofs**, from `GlesEngineAssumption`. The inductive invariant `Inv`
  adds to `TypeOK`, `FlagNeedsWindow` and `EngineReleasedAtExit` three parts:
  `Started` (a thread is idle exactly until the constructor starts it),
  `MutexHeld` (the mutex is held by the thread whose control point is between
  lock and unlock: without it, unlocking could free the other's lock) and
  `HandlerKnows` (inside a handler there is a window, or the flag is already
  down: without it the flag could outlive the window). Each part has a lemma with a
  step per action. `SpecImplementsMonitor` then maps each step to a step of the
  monitor or a stutter.
  `EngineStaysHolds` reads off the monitor what it means for the engine: no step puts
  another in the place of one, and none deletes the one that is drawn with.
  With time, from `TimedAssumption`: `TimedImplementsUntimed` makes
  the theorems above hold. `NoUseAfterFreeHolds` rests on `RenderEnds` and
  `DataEnds`: once its flag is down, the time a thread can still take, summed along
  the longest way from its control point to its last log line, is less than what is
  left of the destructor's sleeps. `OrderlyFrameHasEngineHolds` rests on
  `FrameInTime`: with the focus lost, the way past the two tests ends before the
  next command can come.
* **FpsCalculatorProofs**, from `FpsAssumption`, `ProductFits` and `SetbackFits`. The
  invariant bounds the frames of a window by its elapsed time plus the setback over
  `MinFrame`, and in a steady window by both frame times; `GapKept` says that in a
  window that has not jumped `delta` is the difference of the clock; lemmas about quotients turn these into
  the range of the figure.
* **BoostSocketProofs**, from `BoostSocketAssumption`, so for all sleeps that satisfy
  it. `Threads` ties the three control points to the flags, `Holds` says which thread
  has which connection, `Asks` that a connection not yet answered is the client's, and
  `StartInTime`, `ServerInTime` and `ClientInTime` sum the steps a thread still needs and
  compare them with what is left of the sleep. The last is the long one: a client that
  waits for the server is charged with the server's way to answering it, and only
  one that is in `accepted` when `stop()` comes is let off. `SpecImplementsServer`
  then goes action by action, with `Holds` to know which connection a step touches, and
  gives two facts about the connections: one at most is answered and not yet closed
  (`OneAnsweredHolds`), and one that goes without an answer goes because the server was
  stopped (`DroppedByStopHolds`).
* **ModbusTcpProofs**, from `ModbusTcpAssumption`, for any number of launches, requests
  and any backlog. `Counted` is the heart: the requests that neither failed nor are
  still to be made were answered, and only the server that serves a client answers it,
  so a client that has none left and none failed was served. `Queued` (the backlog has no
  client twice, and none that has not connected) keeps a connection from being with two
  servers; `Listens` ties the socket to a server past its `listen`; `Unaccepted` says that
  a client loses nothing in the backlog of a server that still accepts. For
  `ClientFailsForCauseHolds`, `PortUsed` says that whoever has the port waits for a client
  or has taken one, and `LostForCause` follows a client from the loss of its connection
  to its report; a cause once there stays (`CauseStays`).
  `SpecImplementsSession` adds `ServesListening` (only a server that has the port has a
  client) and `Reported` (who has reported is done, and has no request left if it is
  still in the backlog), and `OneClientOkHolds` draws the conclusion.
* **ModbusClientProofs**, from `ModbusClientAssumption`, for any number of addresses, any
  words, any set of faults, either version of libmodbus and a connection that may go down.
  `Written` says that after a write the memory differs from the buffer exactly where the
  function is broken; `TestedWorks` is the induction over the addresses, and needs
  `Counts`, because what a test covers depends on the count, and `BitsAgree`, because two
  tests compare the bits an earlier test has read. `VerdictExact` joins the two
  directions: the client passes the servers without a fault its tests can see, and no
  others, while the connection lasts and requests for no cells are taken.
* **StdStreamsProofs**, from `StdStreamsAssumption`, for any number of launches. `FileTells`
  follows the file that is being written and what `write_to_file` returns for it, `Untouched` says of the other one that a launch
  has left nothing where it has not come to yet, so that what an earlier launch left is
  still what a failed write will show.
* **FlashlightProofs** and **VibratorProofs**, from `LifecycleAssumption`; both begin
  with the lemma `LifecycleTypes` about the life cycle they share. The invariants are the
  properties, joined with the link between the picture or the toggle and `m_enabled`,
  and with a new instance's fields being new. In FlashlightProofs `LightUpEffect` and
  `PutOutEffect` sum up what enableFlash may do to the lamp and the camera, exceptions
  included.

The assumptions on the sleeps and on the clock admit the program: `ProgramSleepsFit` has
its numbers for gles-engine (a step may take up to 31 ms) and boost-socket (41 ms),
`ProgramFits` for the frame counter (a 32-bit `long`, frames of 16 ms or more, a clock that
goes back by up to nine hours within one window).

Every invariant and every action property or refinement of a passing run is a theorem.
Only model-checked: liveness (`TermWindowCompletes`, `WindowGetsFrame`,
`ShutdownCompletes`, `ClientAnswered`, `ClientReports`, `ServedServerReports`,
`CameraGivenBack`), which depends on fairness and is beyond the prover.

## Not modelled

GL and EGL calls other than creating, using and destroying an engine; the rotation
angle, a data race that decides nothing but a picture; log texts; the busy poll of
`android_main` while the engine is enabled (`main.cpp:112`), which costs time and no
behaviour; failures of `new` and of thread creation; killing the process, but for
the three programs that leave something behind or hold something then.

Whole parts that are left out, and why:

* `message_logger` of gles-engine and `modbus_logger`: formatting into the log. When the
  first is freed is in GlesEngine.
* boost-thread: seven threads that share nothing, each with a loop of 50 log lines;
  boost-uuid and boost-date-time: one log line each. There is nothing for one step to
  disturb in another.
* cpplib: an empty library. The other activities: empty subclasses of `NativeActivity`.
* the build: a third-party toolchain file, makefiles, manifests.

## Plan

1. Done: gles-engine (GlesEngine, EngineMonitor, GlesEngineTimed, FpsCalculator) with
   proofs.
2. Done: boost-socket with AnswerServer, and libmodbus-tcp's threads with
   SingleSession, with proofs; ModbusClient with its runs and proofs.
3. Done: Flashlight and Vibrator on a shared life cycle, and StdStreams, with proofs.
4. Left: a composition of ModbusClient and ModbusTcp in which requests have contents.
