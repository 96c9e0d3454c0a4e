------------------------------- MODULE Daemon -------------------------------
(***************************************************************************)
(* The life of the process (main.rs, runtime.rs): main sets a Runtime up,  *)
(* starts its welcome thread and waits for a control message from it.  On  *)
(* a shutdown it ends; on a reload it joins the thread and starts over.    *)
(* Signals arrive at any time: their handlers write to the eventfd that a  *)
(* static names, which is kept across reloads.                             *)
(*                                                                         *)
(* The welcome thread is module WelcomeThread's, which module Environments *)
(* implements.  An eventfd is a pair: what it is for and the turn of       *)
(* main's loop that created it.                                            *)
(***************************************************************************)
EXTENDS Naturals

CONSTANTS
  Faults,      \* what may fail in this instance
  MaxSignals,  \* bound on the signals that arrive
  MaxFails     \* bound on the failures of the thread's own system calls

Kinds == {"shutdown", "reload"}
Sigs  == {"SIGTERM", "SIGINT", "SIGHUP"}

\* Where main is when it sets a Runtime up, named for what it does next.
SetupPcs == {"starting", "privileges", "socket", "events",
             "SIGTERM", "SIGINT", "SIGHUP", "listen"}

\* Any of these may fail; so may notify_system_listening and the thread, and
\* the circuit breaker may find that reloads come too fast.
FaultKinds == SetupPcs \cup {"listening", "poll", "break", "panic", "breaker"}

ASSUME DaemonAssumption ==
  /\ Faults \subseteq FaultKinds
  /\ MaxSignals \in Nat /\ MaxFails \in Nat

VARIABLES
  mpc, reloadRequested,
  turn,         \* of main's loop
  exit,         \* how the process ended, "none" as long as it runs
  static,       \* SHUTDOWN_ and RELOAD_EVENT_FOR_SIGNAL: the turn that created
                \* the eventfd, 0 for -1
  handlers,     \* signals whose handler is installed
  bound,        \* a socket of this process has the welcome address
  interrupted,  \* a handler ran on the welcome thread while it was in poll
  hups, terms, fails,   \* SIGHUPs, SIGTERMs and SIGINTs, failures so far
  \* the welcome thread's
  thread, request, readable, shutdownFd, reloadFd

mainVars   == <<mpc, reloadRequested, turn>>
staticVars == <<static, handlers>>
causeVars  == <<hups, terms, fails>>
threadVars == <<thread, request, readable, shutdownFd, reloadFd>>
vars == <<mainVars, exit, staticVars, bound, interrupted, causeVars,
          threadVars>>

Welcome == INSTANCE WelcomeThread

ThreadStates == {"none", "running", "ending", "unwinding", "done", "panicked"}
Ended == thread \in {"done", "panicked"}

TypeOK ==
  /\ mpc \in SetupPcs \cup {"listening", "recv", "join", "giveup"}
  /\ reloadRequested \in BOOLEAN
  /\ turn \in Nat \ {0}
  /\ exit \in {"none", "success", "failure", "killed", "early", "panicked"}
  /\ static \in [Kinds -> 0..turn]
  /\ handlers \subseteq Sigs
  /\ bound \in BOOLEAN
  /\ interrupted \in BOOLEAN
  /\ hups \in Nat /\ terms \in Nat /\ fails \in Nat
  /\ thread \in ThreadStates
  /\ request \in {"none", "shutdown", "reload"}
  /\ readable \subseteq Kinds \X (1..turn)
  /\ shutdownFd \in {"shutdown"} \X (0..turn)
  /\ reloadFd \in {"reload"} \X (0..turn)

Init ==
  /\ mpc = "starting" /\ reloadRequested = FALSE /\ turn = 1
  /\ exit = "none"
  /\ static = [k \in Kinds |-> 0] /\ handlers = {}
  /\ bound = FALSE /\ interrupted = FALSE
  /\ hups = 0 /\ terms = 0 /\ fails = 0
  /\ thread = "none" /\ request = "none" /\ readable = {}
  /\ shutdownFd = <<"shutdown", 0>> /\ reloadFd = <<"reload", 0>>

-----------------------------------------------------------------------------
(* main sets a Runtime up *)

At(pc) == exit = "none" /\ mpc = pc

\* get_optional_env_var, Runtime::new and notify_system_starting.
Start ==
  /\ At("starting")
  /\ reloadRequested' = FALSE
  /\ mpc' = "privileges"
  /\ UNCHANGED <<turn, exit, staticVars, bound, interrupted, causeVars,
                 threadVars>>

CheckPrivileges ==
  /\ At("privileges")
  /\ mpc' = "socket"
  /\ UNCHANGED <<reloadRequested, turn, exit, staticVars, bound, interrupted,
                 causeVars, threadVars>>

\* bind fails with EADDRINUSE if the address has not been given back.
SetupSocket ==
  /\ At("socket")
  /\ IF bound THEN exit' = "failure" /\ UNCHANGED <<mpc, bound>>
              ELSE mpc' = "events" /\ bound' = TRUE /\ UNCHANGED exit
  /\ UNCHANGED <<reloadRequested, turn, staticVars, interrupted, causeVars,
                 threadVars>>

\* Mutant: the eventfds just created are polled, not the ones recycled.
SetupEventsFresh ==
  /\ At("events")
  /\ static' = [k \in Kinds |-> IF static[k] = 0 THEN turn ELSE static[k]]
  /\ shutdownFd' = <<"shutdown", turn>>
  /\ reloadFd' = <<"reload", turn>>
  /\ mpc' = "SIGTERM"
  /\ UNCHANGED <<reloadRequested, turn, exit, handlers, bound, interrupted,
                 causeVars, thread, request, readable>>

\* Mutant: a reload starts with both events reset.
SetupEventsReset ==
  /\ At("events")
  /\ static' = [k \in Kinds |-> IF static[k] = 0 THEN turn ELSE static[k]]
  /\ shutdownFd' = <<"shutdown", static'["shutdown"]>>
  /\ reloadFd' = <<"reload", static'["reload"]>>
  /\ readable' = {}
  /\ mpc' = "SIGTERM"
  /\ UNCHANGED <<reloadRequested, turn, exit, handlers, bound, interrupted,
                 causeVars, thread, request>>

\* Mutant: the two are mixed up.
SetupEventsSwapped ==
  /\ At("events")
  /\ static' = [k \in Kinds |-> IF static[k] = 0 THEN turn ELSE static[k]]
  /\ shutdownFd' = <<"reload", static'["reload"]>>
  /\ reloadFd' = <<"shutdown", static'["shutdown"]>>
  /\ mpc' = "SIGTERM"
  /\ UNCHANGED <<reloadRequested, turn, exit, handlers, bound, interrupted,
                 causeVars, thread, request, readable>>

\* The eventfds that the statics already name are used again.
SetupEvents ==
  /\ At("events")
  /\ static' = [k \in Kinds |-> IF static[k] = 0 THEN turn ELSE static[k]]
  /\ shutdownFd' = <<"shutdown", static'["shutdown"]>>
  /\ reloadFd' = <<"reload", static'["reload"]>>
  /\ mpc' = "SIGTERM"
  /\ UNCHANGED <<reloadRequested, turn, exit, handlers, bound, interrupted,
                 causeVars, thread, request, readable>>

\* sigaction, for one signal after the other.
InstallHandler(sig) ==
  /\ At(sig)
  /\ handlers' = handlers \cup {sig}
  /\ mpc' = CASE sig = "SIGTERM" -> "SIGINT"
              [] sig = "SIGINT"  -> "SIGHUP"
              [] sig = "SIGHUP"  -> "listen"
  /\ UNCHANGED <<reloadRequested, turn, exit, static, bound, interrupted,
                 causeVars, threadVars>>

\* The welcome thread starts, with a new channel to main.
Listen ==
  /\ At("listen")
  /\ thread' = "running" /\ request' = "none"
  /\ mpc' = "listening"
  /\ UNCHANGED <<reloadRequested, turn, exit, staticVars, bound, interrupted,
                 causeVars, readable, shutdownFd, reloadFd>>

\* Any step so far fails: main logs it and returns.
SetupFails ==
  /\ exit = "none"
  /\ mpc \in SetupPcs \cap Faults
  /\ exit' = "failure"
  /\ UNCHANGED <<mainVars, staticVars, bound, interrupted, causeVars,
                 threadVars>>

-----------------------------------------------------------------------------
(* main waits for the welcome thread *)

NotifyListening ==
  /\ At("listening")
  /\ mpc' = "recv"
  /\ UNCHANGED <<reloadRequested, turn, exit, staticVars, bound, interrupted,
                 causeVars, threadVars>>

\* notify_system_listening fails: main returns, which first drops the runtime
\* and so waits for the thread.
NotifyListeningFails ==
  /\ At("listening")
  /\ "listening" \in Faults
  /\ mpc' = "giveup"
  /\ UNCHANGED <<reloadRequested, turn, exit, staticVars, bound, interrupted,
                 causeVars, threadVars>>

\* error_rx.recv: main itself holds a sender, so it waits for as long as there
\* is no control message, even when the thread is gone.
Receive ==
  /\ At("recv")
  /\ request # "none"
  /\ reloadRequested' = (request = "reload")
  /\ mpc' = "join"
  /\ UNCHANGED <<turn, exit, staticVars, bound, interrupted, causeVars,
                 threadVars>>

\* circuit_breaker: module CircuitBreaker says when.
BreakerTrips ==
  /\ At("recv")
  /\ "breaker" \in Faults
  /\ request = "reload"
  /\ exit' = "killed"
  /\ UNCHANGED <<mainVars, staticVars, bound, interrupted, causeVars,
                 threadVars>>

\* Mutant: the thread is not joined.
JoinDetached ==
  /\ At("join")
  /\ IF reloadRequested
     THEN mpc' = "starting" /\ turn' = turn + 1 /\ UNCHANGED exit
     ELSE exit' = "success" /\ UNCHANGED <<mpc, turn>>
  /\ UNCHANGED <<reloadRequested, staticVars, bound, interrupted, causeVars,
                 threadVars>>

\* drop(runtime) joins the thread, and panics if that did.  Then the receiver
\* goes, and main starts over or ends.
Join ==
  /\ At("join")
  /\ Ended
  /\ CASE thread = "panicked" ->
            exit' = "panicked" /\ UNCHANGED <<mpc, turn, thread>>
       [] thread = "done" /\ reloadRequested ->
            /\ mpc' = "starting" /\ turn' = turn + 1 /\ thread' = "none"
            /\ UNCHANGED exit
       [] thread = "done" /\ ~reloadRequested ->
            exit' = "success" /\ UNCHANGED <<mpc, turn, thread>>
  /\ UNCHANGED <<reloadRequested, staticVars, bound, interrupted, causeVars,
                 request, readable, shutdownFd, reloadFd>>

JoinAndReturn ==
  /\ At("giveup")
  /\ Ended
  /\ exit' = IF thread = "panicked" THEN "panicked" ELSE "failure"
  /\ UNCHANGED <<mainVars, staticVars, bound, interrupted, causeVars,
                 threadVars>>

-----------------------------------------------------------------------------
(* Signals *)

KindOf(sig) == IF sig = "SIGHUP" THEN "reload" ELSE "shutdown"

Counted(sig) ==
  /\ hups + terms < MaxSignals
  /\ IF sig = "SIGHUP" THEN hups' = hups + 1 /\ UNCHANGED terms
                       ELSE terms' = terms + 1 /\ UNCHANGED hups
  /\ UNCHANGED fails

\* All three signals end a process that does not handle them.
SignalKills(sig) ==
  /\ exit = "none"
  /\ sig \notin handlers
  /\ Counted(sig)
  /\ exit' = "killed"
  /\ UNCHANGED <<mainVars, staticVars, bound, interrupted, threadVars>>

\* termination_or_reload_handler.  With no eventfd to write it exits, or does
\* nothing.  The kernel runs it on any thread; if that is the welcome thread in
\* poll, then poll is not restarted after it.
SignalHandled(sig) ==
  /\ exit = "none"
  /\ sig \in handlers
  /\ Counted(sig)
  /\ IF static[KindOf(sig)] = 0
     THEN /\ exit' = IF sig = "SIGHUP" THEN "none" ELSE "early"
          /\ UNCHANGED <<interrupted, threadVars>>
     ELSE /\ Welcome!Raise(<<KindOf(sig), static[KindOf(sig)]>>)
          /\ interrupted' \in {interrupted, thread = "running"}
          /\ UNCHANGED exit
  /\ UNCHANGED <<mainVars, staticVars, bound>>

-----------------------------------------------------------------------------
(* The welcome thread; its socket is closed when it ends. *)

ThreadUp == exit = "none" /\ ~interrupted

Serve ==
  /\ ThreadUp
  /\ Welcome!ServeShutdown \/ Welcome!ServeReload
  /\ UNCHANGED <<mainVars, exit, staticVars, bound, interrupted, causeVars>>

\* EINTR: a reload is requested, whatever the signal was.
PollInterrupted ==
  /\ exit = "none" /\ interrupted
  /\ Welcome!Fail
  /\ interrupted' = FALSE
  /\ UNCHANGED <<mainVars, exit, staticVars, bound, causeVars>>

PollFails ==
  /\ ThreadUp
  /\ "poll" \in Faults /\ fails < MaxFails
  /\ Welcome!Fail
  /\ fails' = fails + 1
  /\ UNCHANGED <<mainVars, exit, staticVars, bound, interrupted, hups, terms>>

SocketBreaks ==
  /\ ThreadUp
  /\ "break" \in Faults
  /\ Welcome!Break
  /\ UNCHANGED <<mainVars, exit, staticVars, bound, interrupted, causeVars>>

ThreadPanics ==
  /\ ThreadUp
  /\ "panic" \in Faults
  /\ Welcome!Panic
  /\ bound' = (thread' # "panicked")
  /\ UNCHANGED <<mainVars, exit, staticVars, interrupted, causeVars>>

ThreadEnds ==
  /\ ThreadUp
  /\ Welcome!End
  /\ bound' = FALSE
  /\ UNCHANGED <<mainVars, exit, staticVars, interrupted, causeVars>>

-----------------------------------------------------------------------------
(* The specification *)

MainStep ==
  \/ Start \/ CheckPrivileges \/ SetupSocket \/ SetupEvents
  \/ \E sig \in Sigs : InstallHandler(sig)
  \/ Listen \/ NotifyListening \/ Receive \/ Join \/ JoinAndReturn

ThreadStep == Serve \/ PollInterrupted \/ ThreadEnds

SignalStep ==
  \E sig \in Sigs : SignalKills(sig) \/ SignalHandled(sig)

FaultStep ==
  \/ SetupFails \/ NotifyListeningFails \/ BreakerTrips
  \/ PollFails \/ SocketBreaks \/ ThreadPanics

Next == MainStep \/ ThreadStep \/ SignalStep \/ FaultStep

Spec == Init /\ [][Next]_vars

\* The scheduler runs main and the welcome thread.  That the latter always
\* gets back to poll, and that its environments end when they are dropped, is
\* what ShutdownServed says of module Environments.
FairSpec == Spec /\ WF_vars(MainStep) /\ WF_vars(ThreadStep)

-----------------------------------------------------------------------------
(* Properties *)

\* A signal handler always finds the eventfd that the welcome thread of this
\* turn polls: the statics are set before the first handler, and setup_events
\* recycles what they name.
SignalsReachThread ==
  /\ \A sig \in handlers : static[KindOf(sig)] # 0
  /\ thread = "running" =>
       /\ shutdownFd = <<"shutdown", static["shutdown"]>>
       /\ reloadFd = <<"reload", static["reload"]>>

\* A reload never finds its own address in use: the socket is closed by the
\* end of the thread that main has joined (runtime.rs setup_socket).
RebindSucceeds == mpc = "socket" => ~bound

\* The receiver of error_tx outlives the welcome thread, so that send_error!
\* never panics: main is in the turn that started the thread.
ReceiverOutlivesThread ==
  thread \in {"running", "ending", "unwinding"} =>
    mpc \in {"listening", "recv", "join", "giveup"}

\* The daemon reloads for a reason.  A SIGHUP accounts for two reloads at most
\* (poll interrupted, then the event), a SIGTERM or SIGINT for one, a failure
\* of the thread for one: an event is never served twice.
ReloadsAccounted == turn <= 1 + 2 * hups + terms + fails

-----------------------------------------------------------------------------
(* The inductive invariant behind the safety properties *)

\* What main knows of the thread, the address and the eventfds, by where it is.
Phases ==
  /\ thread = "none" <=> mpc \in SetupPcs
  /\ bound => \/ thread \in {"running", "ending", "unwinding"}
              \/ mpc \in {"events", "SIGTERM", "SIGINT", "SIGHUP", "listen"}
  /\ interrupted => thread = "running"
  /\ mpc = "join" /\ reloadRequested => request = "reload"
  /\ mpc \notin {"starting", "privileges", "socket", "events"} =>
       /\ \A k \in Kinds : static[k] # 0
       /\ shutdownFd = <<"shutdown", static["shutdown"]>>
       /\ reloadFd = <<"reload", static["reload"]>>
  /\ handlers # {} => \A k \in Kinds : static[k] # 0
  /\ \A k \in Kinds, t \in 1..turn : <<k, t>> \in readable => t = static[k]

\* The reloads that are under way: requested and not done, due because poll was
\* interrupted, due because the event is readable.
Due(b) == IF b THEN 1 ELSE 0
ReloadsDue ==
  Due(thread # "none" /\ request = "reload") + Due(interrupted)
    + Due(<<"reload", static["reload"]>> \in readable)

Causes == turn + ReloadsDue <= 1 + 2 * hups + terms + fails

IInv == TypeOK /\ Phases /\ Causes

-----------------------------------------------------------------------------
(* Liveness *)

\* A handled shutdown signal ends the process, whatever reload it races with,
\* unless the welcome thread has panicked.
ShutdownHonoured ==
  (exit = "none" /\ <<"shutdown", static["shutdown"]>> \in readable)
    ~> (exit # "none" \/ thread = "panicked")

\* A handled reload signal has a new turn of the loop follow it, even if it
\* arrives in the middle of a reload.
ReloadHonoured ==
  \A t \in 1..(1 + 2 * MaxSignals + MaxFails) :
    (exit = "none" /\ turn = t /\ <<"reload", static["reload"]>> \in readable)
      ~> (turn > t \/ exit # "none" \/ thread = "panicked")

\* environment_synchronization_thread.rs: "unrecoverable state => escalate and
\* panic!".  A panic that reaches the welcome thread should end the process.
PanicEscalates == thread = "panicked" ~> exit # "none"

\* main.rs: "no return here, rather let the daemon survive".  Where main does
\* return, after a failed notification, the daemon should not survive.
ReturnEndsDaemon == mpc = "giveup" ~> exit # "none"
=============================================================================
