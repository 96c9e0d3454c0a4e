# A verification of garnd

garnd is a Linux daemon that lets processes share *environments*.  A process
connects to the daemon's welcome socket, asks for an environment by name, and
from then on talks to that environment's own thread, which hands out mutexes
that live in shared memory.  All clients of one name are given the same memory.
The environment exists as long as it has clients.

This directory holds TLA+ modules that model the daemon's main loop, its
threads, its allocator and its circuit breaker, TLC configurations that check them on small instances, and proofs
checked by TLAPS.  `PROJECT.json` lists components, runs, mutants, the source
lines of every definition, findings, hazards and theorems.

## 1. Inventory

| Component | State | Operations | Talks to |
|---|---|---|---|
| main loop (`main.rs`) | `reload_requested`, the runtime | start, wait for errors, reload, shut down | runtime (owns it), error channel |
| runtime (`linux/runtime.rs`) | welcome socket, two eventfds kept in statics across reloads, the welcome thread's `JoinGuard` | privilege checks, socket and signal set-up, `listen`, notifications to systemd | signals write the eventfds |
| circuit breaker (`linux/circuit_breaker.rs`) | start of the window, reloads in it | count a reload, kill the process | called by main on every reload |
| welcome thread (`linux/welcome_thread.rs`) | map of environments, close channel and event | poll, shut down, reload, drain closes, accept, receive, open environment, reply | eventfds, clients, environments |
| `Environment`, `JoinGuard` (`linux/environment.rs`, `join_guard.rs`) | add channel and event, response channel, drop event, thread handle | `new`, `insert_socket`, `drop` | owned by the welcome thread, drives one synchronization thread |
| synchronization thread (`linux/environment_synchronization_thread.rs`) | sockets, epoll instance, allocator | add listener, drop, hang-up, open mutex, announce close | clients, welcome thread |
| allocator (`linux/shm_allocator.rs`) | resources by name, pages, free pointer | find, construct, new page, drop | owned by one synchronization thread |
| logger, error types, utilities | none that steers the program | formatting, reporting | all |

The hard behaviours:

* The welcome thread and an environment's thread exchange messages over three
  channels and four eventfds that are *not synchronized with each other*.  A
  client may ask for an environment that is just closing; a thread may
  announce its end by *name* when a new environment could have that name.
* The welcome thread waits for the other side in `recv` (`insert_socket`) and
  in `join` (every drop of an `Environment`).
* Failures at every system call, each with its own error path; panics that
  travel from a destructor through a join into the owner.
* Descriptors are shared: epoll forgets a closed descriptor only when its last
  duplicate is closed, and the welcome thread holds one.
* Signals arrive at any time, before the handlers are installed, during a
  reload, on a thread that is in `poll` and is not restarted.  The eventfds they
  write outlive the thread that polls them.
* Clients may be slow: `recv` and `sendmsg` on a client's socket block, in
  threads that others join.
* The circuit breaker counts reloads in epochs that may meet, on a clock with a
  borrow between seconds and nanoseconds.
* In the allocator: alignment, page boundaries, a constructor that fails after
  memory was taken, destructors that panic.

What makes each part correct is stated in section 4.

## 2. Modules

* `WelcomeThread` — abstract: what main relies on of a welcome thread, that is
  when it ends and what it asks main for.
* `Daemon` — main, the runtime and the signal handlers, with one `WelcomeThread`
  after another.
* `DaemonProofs` — the theorems about `Daemon`.
* `CircuitBreaker`, `CircuitBreakerProofs` — the breaker and its theorems.
* `Environments` — welcome thread, `Environment`, `JoinGuard` and the
  synchronization threads, from the start of one welcome thread to its end.
* `MCEnvironments` — symmetry for TLC.
* `EnvironmentsProofs` — the theorems about `Environments`.
* `WelcomeProofs` — that `Environments` implements `WelcomeThread`.
* `Service` — abstract: what clients are promised of environments.
* `AttachmentProofs` — the theorems about a connection on its way into a
  socket set.
* `WakeupProofs` — that no wake-up between threads is lost.
* `ServiceProofs` — that `Environments` implements `Service`.
* `Directory` — abstract: names are bound once, to memory of their own.
* `ShmAllocator` — the allocator and its caller `handle_open_mutex`.
* `MCShmAllocator`, `ShmAllocatorProofs` — its instance and its theorems.

How they fit together: `Daemon` uses the actions of `WelcomeThread` for the
thread it starts, and `Environments` is shown to implement `WelcomeThread`, so
what `Daemon` says of main holds of main with the real thread.  To the other
side, its clients, `Environments` is shown to implement `Service`.  `CircuitBreaker`
says when `Daemon`'s `BreakerTrips` may happen; `ShmAllocator` is what is behind
`Environments`' `ServeOpenMutex`.

### Environments and the code

One action is one step between two points where another thread could observe
or change shared state; a handler that touches shared state several times is
several actions, ordered by the program counters `wpc` (welcome thread) and
`epc[e]` (thread of environment `e`).  So `insert_socket` is `InsertSend`,
`InsertNotify` and `InsertAwait`, `announce_env_close` is `AnnounceName` and
`AnnounceEvent`, and dropping an `Environment` is raising `drop_event`
(`TakeClosed`, `InsertFails`, `DropEnvironment`) and then waiting in the join
(`JoinClosed`, `JoinDiscarded`, `JoinDropped`).  The end of
`handle_open_environment` is two steps: the send of `OpenEnvironmentOk`
(`ReplyOk`, or `ReplyFails`) and the return, which drops `client_fd`
(`CloseClientFd`).  In between a client may read the answer, ask for a mutex and
hang up while epoll still has its connection.

| State | Code |
|---|---|
| `environments` | the `HashMap<String, Environment>` |
| `wclient`, `wenv` | `client_fd`; the environment being opened, dropped or joined |
| `backlog` | connections not accepted |
| `closeChan`, `closeEvent`, `closeRx` | `close_env_rx` and its contents, `close_env_event` |
| `addChan`, `addEvent`, `resp`, `dropEvent` | the channels and events of one `Environment` |
| `sockets`, `regs` | `SocketSet`, and what epoll still has registered |
| `ready`, `hups`, `ins` | events of the last `epoll_wait` not handled yet, in any order |
| `request` | the first `ShutdownSignal` or `ReloadRequest` sent to main, which is the one main acts on |
| `client`, `req`, `reply`, `asked`, `mutex` | the clients' side |
| `made` | environments that constructed a mutex, whose destructor `ThreadPanics` needs; also one whose response then failed |
| `full` | connections full of answers that the client does not read |

Abstractions:

* A connection is used once, so an environment is identified by the connection
  whose request created it.
* Eventfds are read only to be reset: a Boolean.  Their reads and writes do not
  fail (counters cannot overflow here, and the descriptors are open).
* A client asks for a mutex after it was told `OpenEnvironmentOk` and stops
  when it has one, unless it is one of the clients that do not read.  What a root
  asks for is left out, since `Accept` never reads it.  Which mutex *within* an environment is the allocator's
  business; here a mutex is the environment that made it.
* `epoll_wait` reports everything that is ready.  The code's array has room for
  all sockets and both events; only a lingering registration can exceed it, and
  what is left over is then reported next time.
* Descriptor numbers are not modelled.  `NoUseAfterClose` states that a closed
  one is never read, `StaleHangUpHarmless` that a report of a hang-up on a closed
  one is handled before its number can be in use again in the same thread.
* The `Disconnected` branch of the close loop is unreachable, since the welcome
  thread holds a sender itself.  The one of `add_listener` is modelled.
* A socket buffer has room or has not.  A client that stops reading
  (`StopReading`) already has an answer and goes on asking; when its connection
  is `full`, the thread that comes to answer it waits.  The events of a batch
  are handled in any order, so waiting in the middle of one is the same as not
  taking the next step until the client reads: the model has every order of the
  code, and a few more in which the blocked request is left for the end.  The
  welcome thread sends one message on a new connection, which always fits.
* `PollFails` taken first also stands for failures of the initialization: both
  send `ReloadRequest` and return.

Faults are enabled by the constant `Faults`; each is an action of its own:
`accept`, `receive`, `open` (`dup`, `Environment::new`), `start`
(initialization of a thread), `wait` (`epoll_wait`), `add` (`epoll.add` of a
listener), `serve`, `poll`, `socket` (the welcome socket breaks), `destructor`
(a mutex's destructor panics), `unread` (a client stops reading), `reply`
(`OpenEnvironmentOk` cannot be serialized, which is answered with
`InternalError`, or sent; the client is attached all the same).

### WelcomeThread, Daemon and the code

A welcome thread is `running`, then `ending` (or `unwinding` after a panic)
while the environments are dropped, then `done` or `panicked`.  `Environments`
maps `wpc` and `wpanic` to these (`WelcomeState`).

`Daemon` has a program counter for main, one value per step that may fail.

| State | Code |
|---|---|
| `mpc`, `reloadRequested`, `turn` | where main is, `reload_requested`, the turn of its loop |
| `exit` | how the process ended |
| `static` | `SHUTDOWN_EVENT_FOR_SIGNAL`, `RELOAD_EVENT_FOR_SIGNAL` |
| `handlers` | signals for which `sigaction` was called |
| `bound` | the abstract address is bound by a socket of this process |
| `interrupted` | a handler ran on the welcome thread in `poll` |
| `readable` | readable eventfds, each the pair of its kind and the turn that made it |
| `thread`, `request`, `shutdownFd`, `reloadFd` | the welcome thread's |
| `hups`, `terms`, `fails` | counts of signals and failures, for `ReloadsAccounted` |

* A signal without a handler kills the process; with one it writes the eventfd
  that the static names, and may leave `poll` with EINTR if it ran on the
  welcome thread.
* Every set-up step may fail (`SetupFails`): main logs it and returns.
  `check_privileges` is one such step.  Failures of `notify_system_stopping` and
  `notify_system_reloading` are only logged, so they change nothing.
* `Receive` is the whole `while let` loop: messages that are neither
  `ShutdownSignal` nor `ReloadRequest` are logged and change nothing.  Main
  holds a sender itself, so `recv` never fails.
* The address is given back when the thread, which owns the socket, ends.

### Service and the code

`Service` knows of a connection the name it asked for, whether it was told
`OpenEnvironmentOk`, whether it hung up and whose mutex it was given; of an
environment whether it serves and who is attached; and whether the daemon
stops.  `Environments` maps these (`Offered`):

| `Service` | `Environments` |
|---|---|
| `name`, `mutex` | `req`, `mutex` |
| `serving`, `past` | environments whose thread runs, has ended |
| `members` | `sockets` |
| `told`, `gone` | `reply[c] = "ok"`, `client[c] = "closed"` |
| `stopping` | the welcome thread has left its loop |
| `MayFail` | `epoll_wait` may fail (`"wait" \in Faults`) |

The guards are the promise: `Open` only if no other environment of the name
serves; `Attach` only where the name is served and only who is attached nowhere;
`Tell` only who is attached or gone; `Give` only the mutex of where one is
attached, never that of a second environment; `Leave` only who hung up; `Close`
only an environment without members, or when the daemon stops.  An `epoll_wait`
that fails breaks two of them, since it closes an environment on its clients;
`MayFail` says so.  No other fault does.

### CircuitBreaker and the code

A time is a record of seconds and ticks.  One call of `circuit_breaker` is
`OpenEpoch`, `CountReload`, `Trip` or `ClockFails`; `log` remembers the times of
the calls that returned and is read by no action but for its bound.  The three
statics are only used by main, so a call is atomic.

### ShmAllocator and the code

`resources`, `pages` and `freePtr` are the fields; pages are numbered, memory
is offsets.  `Construct` is `construct_in_shm` with `create_new_page` and
`get_aligned_free_pointer` inside, including the `unwrap` (to `"crashed"`);
`ConstructorFails` is the early return after `free_ptr` moved; `Destroy` and
`FinishDrop` are `drop`.  `told` records what clients were told and is read by
no action.  The allocator is generic in the type, and so is the model, although
`handle_open_mutex` uses it with `PthreadMutex` only.  `usize` overflow is out
of reach: every operand is at most the page size plus an alignment that is at
most the page size.

`Directory` is what an environment promises of its resources; `Promise` maps
`directory` to `resources`, `open` to `phase = "live"`, `destroyed` to `drained` and
`released` to the end of the drop (`Over`).  So `Directory` also says what the
drop owes: every resource is destroyed, once, and the memory is released only
after the last of them.

## 3. Running

    tlc -workers 2 -config EnvironmentsFaults.cfg MCEnvironments
    tlc -workers 2 -config EnvironmentsRaces.cfg MCEnvironments
    tlc -workers 2 -config EnvironmentsLiveness.cfg MCEnvironments
    tlc -workers 2 -config EnvironmentsExhausted.cfg MCEnvironments
    tlc -workers 2 -config EnvironmentsUnread.cfg MCEnvironments
    tlc -workers 2 -config EnvironmentsBrokenSocket.cfg MCEnvironments
    tlc -workers 2 -config EnvironmentsSilentClient.cfg MCEnvironments
    tlc -workers 2 -config ShmAllocator.cfg MCShmAllocator
    tlc -workers 2 -config Daemon.cfg Daemon
    tlc -workers 2 -config DaemonPanic.cfg Daemon
    tlc -workers 2 -config DaemonNotify.cfg Daemon
    tlc -workers 2 -config CircuitBreaker.cfg CircuitBreaker
    tlapm ServiceProofs.tla        (and EnvironmentsProofs, AttachmentProofs,
                                    WakeupProofs, WelcomeProofs,
                                    DaemonProofs, ShmAllocatorProofs,
                                    CircuitBreakerProofs)

## 4. What the runs check

**EnvironmentsFaults** (1 name, 2 clients and a root, reload, faults `start`,
`wait`, `add`, `poll`, `socket`, `destructor`, `serve`, `reply`; about 1.3 million
states).  Of the other faults `accept`, `receive` and `open` are early returns of
the welcome thread and are in `EnvironmentsExhausted`; `unread` is in
`EnvironmentsLiveness`.  For these safety
properties one name suffices: each is about one environment or about two of the
same name, names interact only through the map, the close channel and the
thread that serves both, and `EnvironmentsRaces` has two of them.  (For liveness
it does not, see `EnvironmentsExhausted`.)  Two ordinary clients are enough for
an environment to close while another opens, and for the old and a new
environment of one name to coexist.

* `OneThreadPerName`: two threads never run for one name.
* `LiveEnvironmentStays`: a close announcement never removes an environment
  that still serves.  It rests on the order in the loop, close event before
  welcome socket, and fails as soon as that order is reversed.
* `ResponsesInStep`: a response is always the one being waited for.
* `SenderOutlivesAdd`: the panic in `add_listener` is unreachable.
* `MutexShared`: clients attached to one name hold the same mutex.
* `NoUseAfterClose`: no request is read from a closed descriptor.  The hard case
  is a client that is told `OpenEnvironmentOk`, asks and hangs up before
  `client_fd` is dropped: the thread closes its socket, epoll keeps the
  connection with the request in it, and only `EPOLLRDHUP`, which is looked at
  first and is reported with every such event, keeps the thread from reading a
  number that may be another file's.
* `AllJoined`: a welcome thread that ends without panic leaves no thread.
  With one it may: the map's drop stops at the first panic.
* `StaleHangUpHarmless`: a hang-up reported for a descriptor already closed is
  handled before a new listener, which may have its number, is added.
  `LingerInStep` is the inductive form of it (section 5).
* `NoLostWakeup`: what a thread waits for is on its way.  `ListenerWakes`: while
  the welcome thread waits for a response, the connection is in the channel and
  `add_listener_event` is raised or reported, or the thread is leaving.
  `DropWakes`: the same of `drop_event` and a join.  `CloseWakes`: an environment
  whose thread has left has its name in the close channel and the event raised,
  about to be, or being served.  `HangUpWakes`: one that serves on its own has a
  socket, so that it will be closed.
* `IsWelcomeThread`: the refinement.  Whatever goes on among the environments,
  to main this is a `WelcomeThread`.

**EnvironmentsRaces** (2 names, 3 clients, shutdown, faults `start` and `add`;
about 1.1 million states).

* `IInv`, the inductive invariant of the proofs.
* `AckedIsAttached`: a client told `OpenEnvironmentOk` that has not hung up is
  in the socket set of the environment the map has under its name, unless the
  welcome thread is ending or (excluded by the instance) `epoll_wait` failed.
  `AttachInStep` is the inductive form of it (section 5).
* `IsService`: the refinement.  Whatever happens between the threads, to the
  clients this is a `Service`.  The instance has no fault `wait`, so that
  `Service` promises all it can.

**EnvironmentsLiveness** (1 name, 2 clients, shutdown, faults `start`, `wait`,
`destructor`, `unread`; no symmetry, which is unsound for liveness; about
148,000 states).  `OpenAnswered`, `IdleEnvironmentRemoved`, `ShutdownServed`,
`MutexAnswered`.  Fairness: weak fairness of each thread, since the operating
system runs every thread that can run and none of them waits for a lock; and,
as an assumption on clients (not on roots), that one which connected sends its
request or hangs up, and one that stopped reading reads again or hangs up.  The code does not
guarantee these two: see `EnvironmentsSilentClient` and `EnvironmentsUnread`.
No fault, signal or other step of a client is fair.  `IdleEnvironmentRemoved`
excepts a welcome thread that ended in a panic: the first panic out of a
`JoinGuard` ends the drop of the map and leaks what is still in it.
`ShutdownServed` says that the thread gets to its end; that every thread was
joined by then, unless it panicked, is `AllJoined`.

**EnvironmentsExhausted** (2 names, 2 clients, shutdown, faults `accept`,
`receive`, `open`, `add`, `serve`, `destructor`; same fairness; about 262,000
states).  A process without free descriptors or memory has these calls fail,
perhaps every time; `accept` then leaves the connection in the backlog and the
loop spins on it.  `IdleEnvironmentRemoved` and `ShutdownServed` hold all the
same.  Two names, so that one environment can be left when the other's
destructor panics: in a join of the close loop, which still drops the other
while unwinding, or in the drop of the map, which leaks it.

**EnvironmentsUnread** (violation).  Of `drop_event` the source says "Gracefully
shut down the environment" (`environment_synchronization_thread.rs:77`).  A
client that asks and does not read makes `sendmsg` block; the thread does not
see its `drop_event` and whoever joins it waits, `DropServed` fails.

**EnvironmentsBrokenSocket** (violation).  `welcome_thread.rs:127` says of a
broken welcome socket "We can't possibly recover from this failure =>
shutdown".  The code sends `ShutdownSignal` and *continues* its loop; main
waits for the thread to end.  The behaviour TLC shows is that loop.

**EnvironmentsSilentClient** (violation).  Without the assumption on clients a
connection that sends nothing keeps the thread in `recv`, and the shutdown
signal set up "for graceful shutdown" (`runtime.rs:222`) is not served.

**ShmAllocator** (3 names, 5 types, pages of 8 bytes, 3 pages; about 1.4
million states).  The types are a byte, an aligned word, a whole page, and two
that the checks refuse; so pages fill exactly, with padding and with room left.
`WellPlaced`, `NoOverlap`, `BelowFreePtr` (what is next handed out is free),
`NeverCrashes` (the `unwrap`), `ClientsAgree`, and `KeepsPromise`, the refinement
of `Directory`, with any destructors panicking in the drop, also in one that runs
during another panic.

**Daemon** (all faults, 4 signals, one failure of the thread's system calls;
about 19,000 states).  Four signals are enough for a shutdown and a reload to
race with a reload that is under way, twice.

* `SignalsReachThread`: a handler finds a static that is set, to the eventfd
  that the running thread polls, in the first turn and in every later one.
* `RebindSucceeds`: `bind` never finds the daemon's own old socket.
* `ReceiverOutlivesThread`: `send_error!` never panics.
* `ReloadsAccounted`: the number of reloads is at most two per SIGHUP, one per
  SIGTERM or SIGINT and one per failure.  The two, and the reload that a SIGTERM
  may cause, come from `poll` returning EINTR: the source treats that as a
  failure.  What cannot happen is that one event is served twice.
* `ShutdownHonoured`, `ReloadHonoured`: a signal that was handled has its effect,
  in whatever turn; a thread that panicked is excepted (next run).
* `IInv`, the inductive invariant of the proofs.

Fairness: weak fairness of main and of the thread.  That the welcome thread
always gets back to `poll` and ends once it leaves its loop is what
`ShutdownServed` shows of `Environments`, on the assumptions stated there.

**DaemonPanic** (violation).  `environment_synchronization_thread.rs:187` says
"escalate and panic!" and `join_guard.rs:32` that the panic of a join is
intended.  The panic ends the welcome thread, but main is in `recv` on a channel
of which it holds a sender itself, and does not get to the join.

**DaemonNotify** (violation).  `main.rs:78` explains where main does *not* return
after a failed notification: to "let the daemon survive".  Where it does return
(`main.rs:63`) the daemon survives too, since the return joins a thread that
nobody told to end.

**CircuitBreaker** (epoch of 1 second, 3 reloads, half-second ticks, 6 seconds,
6 reloads; about 46,000 states).  Five reloads are what `StormStopped` is about
with these constants, and three epochs fit in the time.

* `StormStopped`: of R = `ReloadsPerEpoch`, 2R-1 reloads that are let through
  span at least `EpochSeconds` + 1 seconds.  The constant alone would suggest R
  per epoch; R-1 at the end of one and R-1 at the start of the next make 2R-2.
  With the constants of the source, 198 reloads within 4 seconds pass.
* `OnlyStormsTrip`: when it trips, R reloads came within less than
  `EpochSeconds` + 1 seconds.
* `EpochsApart`, the part of the inductive invariant that relates the log to the
  statics; `TypeOK`, by which the count stays below R.

`CHECK_DEADLOCK` is on for `Environments` and `ShmAllocator`: after the end of
the welcome thread, or of the allocator, the models stutter explicitly (`Over`,
`Gone`), and before that nothing may get stuck.  It is off for `Daemon`, where an
idle daemon waits for a signal and the signals are bounded, and for
`CircuitBreaker`, where a killed process stops.

Each property of a passing run has a mutant in `PROJECT.json`, a variant of an
action with a plausible mistake (marked "Mutant:" in the modules), for which
TLC finds the property violated.

## 5. What is proved

All theorems hold for every value of the constants that satisfies
`ConstantsAssumption` (roots are connections; `None` is no name or connection),
`DaemonAssumption` (bounds are naturals), `BreakerAssumption` (constants are
naturals, more than one reload per epoch, as the source's 100 is) or `AllocatorAssumption` (the page size is positive, as `ShmAllocator::new`
makes sure; sizes are naturals, alignments positive ones).

`EnvironmentsProofs`: `Invariance` (`[]IInv`), `TypeCorrect`, `Exclusive`
(`OneThreadPerName`), `InStep`, `SenderLives`, `Shared` (`MutexShared`),
`NoStaleRead`, `Joined` (`AllJoined`), and the action property `Stays`
(`LiveEnvironmentStays`).

None of these is inductive.  `IInv` adds:

* `WelcomeLocals`: what `wclient` and `wenv` are, by where the thread is; above
  all that an environment being joined is no longer in the map.
* `ThreadsAccounted`: every running thread is in the map under its own name or
  in the welcome thread's hands.  There is one place for each name in the map
  and one pair of hands, hence `OneThreadPerName`.
* `FreshConnections`: a connection becomes an environment's identity once.
* `CloseInStep`: an announcement in the channel comes from a thread past its
  loop, the map holds that environment or none under its name, and the event
  is set or about to be.  The last conjunct is the heart of `Stays`: when the
  welcome thread turns to a connection, every announcement still in the
  channel is of an environment it still owns, so a name that is free in the
  map has no announcement pending.
* `AddInStep`: at most one listener is under way, to the environment the
  welcome thread is waiting on, and at most one response back.
* `SocketsInStep`: a thread's sockets are registered, belong to clients that
  asked for its name and hold its mutex; registrations without a socket are of
  clients that hung up.  The last is what `NoStaleRead` needs: epoll reports such
  a registration as a hang-up, never as a request alone, although a request may
  be in it until `CloseClientFd`.

The proof has a lemma per group of actions (`ClientSteps`, `SignalSteps`,
`WelcomeSteps`, `ThreadSteps`, `FaultSteps`), in each one step per action and
under it one per conjunct.

`AttachmentProofs`: `Lingering` (`LingerInStep`), `StaleHarmless`
(`StaleHangUpHarmless`), `Attachment` (`AttachInStep`) and `AckHonoured`
(`AckedIsAttached`).  Two invariants, each inductive relative to `IInv`:

* `LingerInStep`: a registration without a socket is of `wclient`, and only from
  the moment the thread has acknowledged that connection.  An `"add"` event is
  reported only before the acknowledgement (`AddInStep`), so a batch has either
  a listener to add or a stale hang-up, never both.  It holds under every fault.
* `AttachInStep`, as long as `epoll_wait` does not fail:
  `ToldInStep` (a thread is told to end only after its owner gave it up, and one
  that leaves its loop untold has no sockets), `HandedOver` (the connection under
  way is in the channel as long as the thread may still take it, and from the
  acknowledgement on it is in the socket set or has hung up), `GivenUpEmpty` (what
  is given up while the daemon goes on has no sockets) and `AckedIsAttached`.

The condition on `epoll_wait` is not a convenience: a thread whose `epoll_wait`
fails leaves its loop with its sockets, and its clients, which were
acknowledged, lose their environment.

`WakeupProofs`: `Woken` (`NoLostWakeup`), under every fault, inductive relative to
`IInv`.  It is the safety half of `OpenAnswered`, `IdleEnvironmentRemoved` and
`ShutdownServed`: what remains of those for TLC is that a thread that can run
does.  A step of thread `e` can only disturb what the invariant says of `e`
(`Mine` in the proof), so each action is one small step.

`ServiceProofs`: `KeepsService`, that `Environments` implements `Service`, with
no condition on faults.  One lemma per group of actions; most steps are
`Unnoticed`.  `Open` rests on `ThreadsAccounted`, `Attach` on `AddInStep` and
`LingerInStep` (the new connection is in no socket set), `Tell` on `HandedOver`,
`Give` and `Leave` on `SocketsInStep`, `Close` on `ToldInStep` and `GivenUpEmpty`:
a thread that ends with sockets was told to, hence is not owned, hence is
being joined, and by `GivenUpEmpty` that is the join of a daemon that stops.

`ShmAllocatorProofs`: `Invariance`, `TypeCorrect`, `Placed`, `FreeAbove`, `Apart`,
`UnwrapSafe`, `Agreement`, and `Implements`, the refinement of `Directory`, its
drop included.  `WellPlaced` and `NoOverlap` need `BelowFreePtr`; the arithmetic
(`AlignUp` returns a multiple, not below its argument) is in lemmas of its own.

`WelcomeProofs`: `Implements`, that `Environments` implements `WelcomeThread`.
Every step of a client, of an environment's thread and most of the welcome
thread's leave the mapped state alone (lemma `LoopUnseen`); the others are one
step of the abstract thread each.  It rests on `IInv` and on the fact that a
panic leaves the loop at once.

`DaemonProofs`: `DaemonInvariance`, `Reach`, `Rebind`, `Receiver`, `Accounted`.
`IInv` of `Daemon` adds to the properties:

* `Phases`: what main knows of thread, address and eventfds at each of its
  steps; for one, that a thread exists exactly after `listen`, and that only the
  eventfd a static names is ever readable.
* `Causes`: `ReloadsAccounted` counts reloads that are done; made inductive by
  counting also those that are due (requested, interrupted, or readable).

`CircuitBreakerProofs`: `BreakerInvariance`, `BreakerTypes`,
`BreakerEpochs`, `BreakerStops`, `BreakerSpares`.  `StormStopped` compares reloads of different epochs, of which
the breaker remembers only the last one's start.  `EpochsApart` supplies what is
missing: the last `reloads` entries of the log lie in the epoch, the earlier
ones before it, and an entry that is R-1 or more before the epoch's first lies a
whole epoch before its start.

Only model-checked: the liveness properties (`OpenAnswered`,
`IdleEnvironmentRemoved`, `ShutdownServed`, `MutexAnswered`, `ShutdownHonoured`,
`ReloadHonoured`) and freedom from deadlock, because fairness and `ENABLED` are
out of the prover's reach.  Every safety and action property and every
refinement that a run checks is also a theorem.

## 6. Not modelled

* Which check of `check_privileges` fails: the checks are queries of the system
  without state, and each ends in the same return.
* Logging, error types, formatting: no effect on the rest.  That the error
  channel is unbounded, and grows while a broken welcome socket spins, is not
  modelled either.
* The crate garnshared (protocol, `PthreadMutex`) is not in the repository;
  requests and mutexes are modelled from their use.
* The processes that use a mutex in shared memory: they do not run this code.

## 7. State of the plan

Done: `Environments`, its runs and invariants; `ShmAllocator` refining
`Directory`; `WelcomeThread` and `Service`, implemented by `Environments`;
`Daemon`; `CircuitBreaker`; clients that do not read; the proofs of all of them.

Left: nothing that the prover can reach is known to be missing.  The liveness
properties stay with TLC.
