---------------------------- MODULE Environments ----------------------------
(***************************************************************************)
(* The welcome thread (welcome_thread.rs), the environments it owns        *)
(* (environment.rs, join_guard.rs) and their synchronization threads       *)
(* (environment_synchronization_thread.rs), from the start of one welcome  *)
(* thread to its end.                                                      *)
(*                                                                         *)
(* The welcome thread accepts connections.  A connection that asks for an  *)
(* environment is handed, through add_listener_tx and add_listener_event,  *)
(* to that environment's thread, which answers on sync_response_tx; the    *)
(* environment is created first if it does not exist.  A thread whose last *)
(* client hangs up announces its name on close_env_tx, raises              *)
(* close_env_event and ends; the welcome thread then removes the           *)
(* environment, which joins the thread.                                    *)
(*                                                                         *)
(* A connection is used once, so an environment is identified by the       *)
(* connection whose request created it: a request creates at most one.     *)
(* eventfds are read only to be reset, so each is a Boolean: readable.     *)
(***************************************************************************)
EXTENDS Naturals, FiniteSets

CONSTANTS
  Names,      \* environment names
  Clients,    \* connections, and the environments they create
  Roots,      \* connections whose peer runs as root
  Signals,    \* which of the shutdown and reload signals may arrive
  Faults,     \* which system calls (or destructors) may fail in this instance
  Malformed,  \* a request that is not UTF-8 or does not deserialize
  None

FaultKinds == {"accept", "receive", "open", "start", "wait", "add", "serve",
               "poll", "socket", "destructor", "unread", "reply"}

ASSUME ConstantsAssumption ==
  /\ Roots \subseteq Clients
  /\ Signals \subseteq {"shutdown", "reload"}
  /\ Faults \subseteq FaultKinds
  /\ None \notin Names \cup Clients \cup {Malformed}
  /\ Malformed \notin Names

VARIABLES
  \* clients
  client,        \* the client's own end of its connection
  req,           \* what it asked the welcome thread for
  reply,         \* what the welcome thread answered
  asked,         \* an OpenMutex request waits in the connection
  mutex,         \* the environment whose mutex the client was given
  full,          \* connections full of answers that the client does not read
  made,          \* environments that constructed a mutex
  \* the welcome thread
  wpc, wsock, wclient, wenv, wpanic,
  environments,  \* HashMap<String, Environment>
  backlog,       \* connections not accepted yet
  sockBroken,    \* poll reports the welcome socket without POLLIN
  shutdownEvent, reloadEvent, closeEvent,
  closeChan,     \* names in close_env_rx, by the environment that sent them
  closeRx,       \* close_env_rx has not been dropped
  request,       \* the first ShutdownSignal or ReloadRequest sent to main,
                 \* which is the one main acts on
  \* environment threads
  epc, sockets,
  regs,          \* connections registered with the thread's epoll instance
  ready, hups, ins,  \* events of epoll_wait not handled yet: on the two
                     \* eventfds, EPOLLRDHUP and EPOLLIN on connections
  addChan, addEvent, dropEvent, resp

clientVars  == <<client, req, asked, mutex, full, made>>
signalVars  == <<shutdownEvent, reloadEvent, sockBroken>>
closeVars   == <<closeEvent, closeChan, closeRx>>
batchVars   == <<ready, hups, ins>>
threadVars  == <<sockets, batchVars, addChan, addEvent, resp>>
welcomeVars == <<wpc, wsock, wclient, wenv, wpanic, environments, request>>
vars == <<clientVars, signalVars, closeVars, threadVars, welcomeVars,
          reply, backlog, epc, regs, dropEvent>>

-----------------------------------------------------------------------------
(* States and helpers *)

WelcomePcs == {"poll", "drain", "closing", "failed", "accept", "request",
               "open", "insert", "notify", "await", "reply", "return",
               "discard", "dropall", "joinall", "done"}
ThreadPcs  == {"none", "start", "loop", "announce", "signal", "exit",
               "exited", "panicked"}

Finished(e) == epc[e] \in {"exited", "panicked"}
Running(e)  == epc[e] \notin {"none", "exited", "panicked"}

\* The Environment struct of e, hence add_listener_tx, is still alive: it is
\* in the map, or a local of handle_open_environment.
Owned(e) ==
  \/ req[e] \in Names /\ environments[req[e]] = e
  \/ wenv = e /\ wpc \in {"insert", "notify", "await", "reply"}

TypeOK ==
  /\ client \in [Clients -> {"idle", "open", "closed"}]
  /\ req \in [Clients -> Names \cup {Malformed, None}]
  /\ reply \in [Clients -> {"none", "ok", "malformed", "internal"}]
  /\ asked \in [Clients -> BOOLEAN]
  /\ mutex \in [Clients -> Clients \cup {None}]
  /\ full \subseteq Clients
  /\ made \subseteq Clients
  /\ wpc \in WelcomePcs
  /\ wsock \in {"idle", "in", "err"}
  /\ wclient \in Clients \cup {None}
  /\ wenv \in Clients \cup {None}
  /\ wpanic \in BOOLEAN
  /\ environments \in [Names -> Clients \cup {None}]
  /\ backlog \subseteq Clients
  /\ sockBroken \in BOOLEAN
  /\ shutdownEvent \in BOOLEAN
  /\ reloadEvent \in BOOLEAN
  /\ closeEvent \in BOOLEAN
  /\ closeChan \subseteq Clients
  /\ closeRx \in BOOLEAN
  /\ request \in {"none", "shutdown", "reload"}
  /\ epc \in [Clients -> ThreadPcs]
  /\ sockets \in [Clients -> SUBSET Clients]
  /\ regs \in [Clients -> SUBSET Clients]
  /\ ready \in [Clients -> SUBSET {"add", "drop"}]
  /\ hups \in [Clients -> SUBSET Clients]
  /\ ins \in [Clients -> SUBSET Clients]
  /\ addChan \in [Clients -> SUBSET Clients]
  /\ addEvent \in [Clients -> BOOLEAN]
  /\ dropEvent \in [Clients -> BOOLEAN]
  /\ resp \in [Clients -> {"none", "Ok", "Err"}]

Init ==
  /\ client = [c \in Clients |-> "idle"]
  /\ req = [c \in Clients |-> None]
  /\ reply = [c \in Clients |-> "none"]
  /\ asked = [c \in Clients |-> FALSE]
  /\ mutex = [c \in Clients |-> None]
  /\ full = {} /\ made = {}
  /\ wpc = "poll" /\ wsock = "idle" /\ wclient = None /\ wenv = None
  /\ wpanic = FALSE
  /\ environments = [n \in Names |-> None]
  /\ backlog = {}
  /\ sockBroken = FALSE /\ shutdownEvent = FALSE /\ reloadEvent = FALSE
  /\ closeEvent = FALSE /\ closeChan = {} /\ closeRx = TRUE
  /\ request = "none"
  /\ epc = [e \in Clients |-> "none"]
  /\ sockets = [e \in Clients |-> {}]
  /\ regs = [e \in Clients |-> {}]
  /\ ready = [e \in Clients |-> {}]
  /\ hups = [e \in Clients |-> {}]
  /\ ins = [e \in Clients |-> {}]
  /\ addChan = [e \in Clients |-> {}]
  /\ addEvent = [e \in Clients |-> FALSE]
  /\ dropEvent = [e \in Clients |-> FALSE]
  /\ resp = [e \in Clients |-> "none"]

-----------------------------------------------------------------------------
(* Clients, signals and faults of the machine: nothing here is fair.       *)

Connect(c) ==
  /\ client[c] = "idle"
  /\ wpc # "done"
  /\ client' = [client EXCEPT ![c] = "open"]
  /\ backlog' = backlog \cup {c}
  /\ UNCHANGED <<req, asked, mutex, full, made, signalVars, closeVars,
                 threadVars, welcomeVars, reply, epc, regs, dropEvent>>

\* A root asks too, but that is never read (Accept), so it is left out.
SendRequest(c, r) ==
  /\ client[c] = "open" /\ c \notin Roots
  /\ req[c] = None
  /\ req' = [req EXCEPT ![c] = r]
  /\ UNCHANGED <<client, asked, mutex, full, made, signalVars, closeVars,
                 threadVars, welcomeVars, reply, backlog, epc, regs,
                 dropEvent>>

SendOpenMutex(c) ==
  /\ client[c] = "open"
  /\ reply[c] = "ok"
  /\ ~asked[c]
  /\ mutex[c] = None \/ c \in full
  /\ asked' = [asked EXCEPT ![c] = TRUE]
  /\ UNCHANGED <<client, req, mutex, full, made, signalVars, closeVars,
                 threadVars, welcomeVars, reply, backlog, epc, regs,
                 dropEvent>>

HangUp(c) ==
  /\ client[c] = "open"
  /\ client' = [client EXCEPT ![c] = "closed"]
  /\ UNCHANGED <<req, asked, mutex, full, made, signalVars, closeVars,
                 threadVars, welcomeVars, reply, backlog, epc, regs,
                 dropEvent>>

\* A client that asks again and again and does not read the answers: in the
\* end its connection is full of them, until it reads.
StopReading(c) ==
  /\ "unread" \in Faults
  /\ client[c] = "open"
  /\ mutex[c] # None /\ ~asked[c]
  /\ full' = full \cup {c}
  /\ UNCHANGED <<client, req, asked, mutex, made, signalVars, closeVars,
                 threadVars, welcomeVars, reply, backlog, epc, regs,
                 dropEvent>>

ReadAnswers(c) ==
  /\ c \in full
  /\ client[c] = "open"
  /\ full' = full \ {c}
  /\ UNCHANGED <<client, req, asked, mutex, made, signalVars, closeVars,
                 threadVars, welcomeVars, reply, backlog, epc, regs,
                 dropEvent>>

\* SIGTERM or SIGINT, and SIGHUP: the handlers of runtime.rs write the event.
RaiseShutdown ==
  /\ "shutdown" \in Signals
  /\ ~shutdownEvent
  /\ shutdownEvent' = TRUE
  /\ UNCHANGED <<clientVars, reloadEvent, sockBroken, closeVars, threadVars,
                 welcomeVars, reply, backlog, epc, regs, dropEvent>>

RaiseReload ==
  /\ "reload" \in Signals
  /\ ~reloadEvent
  /\ reloadEvent' = TRUE
  /\ UNCHANGED <<clientVars, shutdownEvent, sockBroken, closeVars, threadVars,
                 welcomeVars, reply, backlog, epc, regs, dropEvent>>

BreakWelcomeSocket ==
  /\ "socket" \in Faults
  /\ ~sockBroken
  /\ sockBroken' = TRUE
  /\ UNCHANGED <<clientVars, shutdownEvent, reloadEvent, closeVars,
                 threadVars, welcomeVars, reply, backlog, epc, regs,
                 dropEvent>>

-----------------------------------------------------------------------------
(* The welcome thread *)

\* What poll reports for the welcome socket, and where the loop goes with it.
SocketEvents ==
  CASE sockBroken                     -> "err"
    [] ~sockBroken /\ backlog # {}    -> "in"
    [] ~sockBroken /\ backlog = {}    -> "idle"
AfterClose(w) ==
  CASE w = "err" -> "failed" [] w = "in" -> "accept" [] w = "idle" -> "poll"

Send(msg) == request' = IF request = "none" THEN msg ELSE request

\* return from welcome_thread_main: close_env_rx is dropped with the names it
\* still holds, then the environments.
Return(msg) ==
  /\ Send(msg)
  /\ wpc' = "dropall"
  /\ closeRx' = FALSE /\ closeChan' = {}

PollShutdown ==
  /\ wpc = "poll"
  /\ shutdownEvent
  /\ shutdownEvent' = FALSE
  /\ Return("shutdown")
  /\ UNCHANGED <<clientVars, reloadEvent, sockBroken, closeEvent, threadVars,
                 wsock, wclient, wenv, wpanic, environments, reply, backlog,
                 epc, regs, dropEvent>>

PollReload ==
  /\ wpc = "poll"
  /\ ~shutdownEvent /\ reloadEvent
  /\ reloadEvent' = FALSE
  /\ Return("reload")
  /\ UNCHANGED <<clientVars, shutdownEvent, sockBroken, closeEvent, threadVars,
                 wsock, wclient, wenv, wpanic, environments, reply, backlog,
                 epc, regs, dropEvent>>

\* Mutant: the thread returns without a word to main.
PollFailsSilently ==
  /\ "poll" \in Faults
  /\ wpc = "poll"
  /\ Return("none")
  /\ UNCHANGED <<clientVars, signalVars, closeEvent, threadVars,
                 wsock, wclient, wenv, wpanic, environments, reply, backlog,
                 epc, regs, dropEvent>>

\* poll fails, for one with EINTR when a signal handler ran on this thread; in
\* the initial state this is also a failure of EventFd::new or listen.
PollFails ==
  /\ "poll" \in Faults
  /\ wpc = "poll"
  /\ Return("reload")
  /\ UNCHANGED <<clientVars, signalVars, closeEvent, threadVars,
                 wsock, wclient, wenv, wpanic, environments, reply, backlog,
                 epc, regs, dropEvent>>

PollClose ==
  /\ wpc = "poll"
  /\ ~shutdownEvent /\ ~reloadEvent /\ closeEvent
  /\ closeEvent' = FALSE
  /\ wsock' = SocketEvents
  /\ wpc' = "drain"
  /\ UNCHANGED <<clientVars, signalVars, closeChan, closeRx, threadVars,
                 wclient, wenv, wpanic, environments, request, reply, backlog,
                 epc, regs, dropEvent>>

\* Mutant: the welcome socket is served before the close event.
PollWelcomeFirst ==
  /\ wpc = "poll"
  /\ ~shutdownEvent /\ ~reloadEvent
  /\ SocketEvents # "idle"
  /\ wsock' = SocketEvents
  /\ wpc' = AfterClose(SocketEvents)
  /\ UNCHANGED <<clientVars, signalVars, closeVars, threadVars,
                 wclient, wenv, wpanic, environments, request, reply, backlog,
                 epc, regs, dropEvent>>

PollWelcome ==
  /\ wpc = "poll"
  /\ ~shutdownEvent /\ ~reloadEvent /\ ~closeEvent
  /\ SocketEvents # "idle"
  /\ wsock' = SocketEvents
  /\ wpc' = AfterClose(SocketEvents)
  /\ UNCHANGED <<clientVars, signalVars, closeVars, threadVars,
                 wclient, wenv, wpanic, environments, request, reply, backlog,
                 epc, regs, dropEvent>>

\* close_env_rx.try_recv() = Ok(name): the entry, if there is one, is removed
\* and the Environment dropped, which raises drop_event and waits in the join.
\* The names are drained to the last, so their order is not observable.
TakeClosed(e) ==
  /\ wpc = "drain"
  /\ e \in closeChan
  /\ closeChan' = closeChan \ {e}
  /\ LET env == environments[req[e]] IN
       IF env = None
       THEN UNCHANGED <<wpc, wenv, environments, dropEvent>>
       ELSE /\ environments' = [environments EXCEPT ![req[e]] = None]
            /\ dropEvent' = [dropEvent EXCEPT ![env] = TRUE]
            /\ wenv' = env
            /\ wpc' = "closing"
  /\ UNCHANGED <<clientVars, signalVars, closeEvent, closeRx, threadVars,
                 wsock, wclient, wpanic, request, reply, backlog, epc, regs>>

\* Mutant: the thread is detached instead of joined.
JoinClosedDetached ==
  /\ wpc = "closing"
  /\ wenv' = None
  /\ wpc' = "drain"
  /\ UNCHANGED <<clientVars, signalVars, closeVars, threadVars, wsock, wpanic,
                 request, wclient, environments, reply, backlog, epc, regs,
                 dropEvent>>

\* JoinGuard::drop: the join returns; a panic of the thread panics here too,
\* and unwinding drops the locals of welcome_thread_main as Return does.
JoinClosed ==
  /\ wpc = "closing"
  /\ Finished(wenv)
  /\ wenv' = None
  /\ IF epc[wenv] = "panicked"
     THEN wpanic' = TRUE /\ Return("none")
     ELSE wpc' = "drain" /\ UNCHANGED <<wpanic, request, closeRx, closeChan>>
  /\ UNCHANGED <<clientVars, signalVars, closeEvent, threadVars, wsock,
                 wclient, environments, reply, backlog, epc, regs, dropEvent>>

DrainDone ==
  /\ wpc = "drain"
  /\ closeChan = {}
  /\ wpc' = AfterClose(wsock)
  /\ UNCHANGED <<clientVars, signalVars, closeVars, threadVars, wsock,
                 wclient, wenv, wpanic, environments, request, reply, backlog,
                 epc, regs, dropEvent>>

\* The welcome socket reports an error without POLLIN.
SocketFailed ==
  /\ wpc = "failed"
  /\ Send("shutdown")
  /\ wpc' = "poll"
  /\ UNCHANGED <<clientVars, signalVars, closeVars, threadVars, wsock,
                 wclient, wenv, wpanic, environments, reply, backlog, epc,
                 regs, dropEvent>>

\* accept; a root peer's connection is dropped without a word.
Accept(c) ==
  /\ wpc = "accept"
  /\ c \in backlog
  /\ backlog' = backlog \ {c}
  /\ IF c \in Roots THEN wpc' = "poll" /\ UNCHANGED wclient
                    ELSE wpc' = "request" /\ wclient' = c
  /\ UNCHANGED <<clientVars, signalVars, closeVars, threadVars, wsock, wenv,
                 wpanic, environments, request, reply, epc, regs, dropEvent>>

AcceptFails ==
  /\ "accept" \in Faults
  /\ wpc = "accept"
  /\ wpc' = "poll"
  /\ UNCHANGED <<clientVars, signalVars, closeVars, threadVars, wsock,
                 wclient, wenv, wpanic, environments, request, reply, backlog,
                 epc, regs, dropEvent>>

\* client_fd is dropped.  epoll forgets the connection with its last
\* descriptor, so an environment that closed its own copy forgets it now.
DropClientFd ==
  /\ wclient' = None
  /\ regs' = [e \in Clients |->
               IF wclient \in sockets[e] THEN regs[e] ELSE regs[e] \ {wclient}]

\* recv blocks until the peer sends or hangs up; a hang-up reads as an empty,
\* hence malformed, request.
ReceiveRequest ==
  /\ wpc = "request"
  /\ req[wclient] # None \/ client[wclient] = "closed"
  /\ IF req[wclient] \in Names
     THEN wpc' = "open" /\ UNCHANGED <<wclient, regs, reply>>
     ELSE /\ reply' = [reply EXCEPT ![wclient] = "malformed"]
          /\ DropClientFd
          /\ wpc' = "poll"
  /\ UNCHANGED <<clientVars, signalVars, closeVars, threadVars, wsock, wenv,
                 wpanic, environments, request, backlog, epc, dropEvent>>

\* getsockopt or recv fails: the connection is dropped without a word.
ReceiveFails ==
  /\ "receive" \in Faults
  /\ wpc = "request"
  /\ DropClientFd
  /\ wpc' = "poll"
  /\ UNCHANGED <<clientVars, signalVars, closeVars, threadVars, wsock, wenv,
                 wpanic, environments, request, reply, backlog, epc,
                 dropEvent>>

-----------------------------------------------------------------------------
(* handle_open_environment *)

\* unwrap_or_report_failure!: InternalError, and an early return.
ReportFailure == reply' = [reply EXCEPT ![wclient] = "internal"]

\* dup or Environment::new fails.
OpenFails ==
  /\ "open" \in Faults
  /\ wpc = "open"
  /\ ReportFailure
  /\ DropClientFd
  /\ wpc' = "poll"
  /\ UNCHANGED <<clientVars, signalVars, closeVars, threadVars, wsock, wenv,
                 wpanic, environments, request, backlog, epc, dropEvent>>

\* Mutant: the map is not consulted, every request gets an environment.
AlwaysSpawn ==
  /\ wpc = "open"
  /\ wpc' = "insert"
  /\ wenv' = wclient
  /\ epc' = [epc EXCEPT ![wclient] = "start"]
  /\ UNCHANGED <<clientVars, signalVars, closeVars, threadVars, wsock,
                 wclient, wpanic, environments, request, reply, backlog, regs,
                 dropEvent>>

\* Environment::new, called for wclient: no event is set, no channel holds
\* anything, the thread starts.
Spawn == wenv' = wclient /\ epc' = [epc EXCEPT ![wclient] = "start"]

\* Entry::Occupied, or Entry::Vacant and Environment::new.
FindOrSpawn ==
  /\ wpc = "open"
  /\ wpc' = "insert"
  /\ LET env == environments[req[wclient]] IN
       IF env = None THEN Spawn ELSE wenv' = env /\ UNCHANGED epc
  /\ UNCHANGED <<clientVars, signalVars, closeVars, threadVars, wsock,
                 wclient, wpanic, environments, request, reply, backlog, regs,
                 dropEvent>>

\* Mutant: the Environment that failed is forgotten, not dropped.
InsertFailsForgets ==
  /\ reply' = [reply EXCEPT ![wclient] = "internal"]
  /\ DropClientFd /\ wpc' = "poll" /\ wenv' = None /\ UNCHANGED dropEvent

\* insert_socket failed.  An Environment that never entered the map is
\* dropped, which joins its thread.
InsertFails ==
  /\ ReportFailure
  /\ IF environments[req[wenv]] = wenv
     THEN DropClientFd /\ wpc' = "poll" /\ wenv' = None /\ UNCHANGED dropEvent
     ELSE /\ dropEvent' = [dropEvent EXCEPT ![wenv] = TRUE]
          /\ wpc' = "discard"
          /\ UNCHANGED <<wclient, wenv, regs>>

\* insert_socket: add_listener_tx.send fails once the thread has dropped
\* the receiver.
InsertSend ==
  /\ wpc = "insert"
  /\ IF Finished(wenv)
     THEN InsertFails /\ UNCHANGED addChan
     ELSE /\ addChan' = [addChan EXCEPT ![wenv] = @ \cup {wclient}]
          /\ wpc' = "notify"
          /\ UNCHANGED <<wclient, wenv, regs, reply, dropEvent>>
  /\ UNCHANGED <<clientVars, signalVars, closeVars, sockets, batchVars,
                 addEvent, resp, wsock, wpanic, environments, request, backlog,
                 epc>>

\* Mutant: the thread is not woken up.
InsertSilently ==
  /\ wpc = "notify"
  /\ wpc' = "await"
  /\ UNCHANGED <<clientVars, signalVars, closeVars, threadVars, wsock,
                 wclient, wenv, wpanic, environments, request, reply, backlog,
                 epc, regs, dropEvent>>

InsertNotify ==
  /\ wpc = "notify"
  /\ addEvent' = [addEvent EXCEPT ![wenv] = TRUE]
  /\ wpc' = "await"
  /\ UNCHANGED <<clientVars, signalVars, closeVars, sockets, batchVars,
                 addChan, resp, wsock, wclient, wenv, wpanic, environments,
                 request, reply, backlog, epc, regs, dropEvent>>

\* Mutant: a failed recv is taken for an acknowledgement.
InsertAwaitIgnoresError ==
  /\ wpc = "await"
  /\ resp[wenv] # "none" \/ Finished(wenv)
  /\ resp' = [resp EXCEPT ![wenv] = "none"]
  /\ environments' = [environments EXCEPT ![req[wenv]] = wenv]
  /\ wpc' = "reply"
  /\ UNCHANGED <<clientVars, signalVars, closeVars, sockets, batchVars,
                 addChan, addEvent, wsock, wclient, wenv, wpanic, request,
                 reply, backlog, epc, regs, dropEvent>>

\* sync_response_rx.recv: a response already sent is received even when the
\* sender is gone; with neither response nor sender it fails.
InsertAwait ==
  /\ wpc = "await"
  /\ resp[wenv] # "none" \/ Finished(wenv)
  /\ resp' = [resp EXCEPT ![wenv] = "none"]
  /\ IF resp[wenv] = "Ok"
     THEN /\ environments' = [environments EXCEPT ![req[wenv]] = wenv]
          /\ wpc' = "reply"
          /\ UNCHANGED <<wclient, wenv, regs, reply, dropEvent>>
     ELSE InsertFails /\ UNCHANGED environments
  /\ UNCHANGED <<clientVars, signalVars, closeVars, sockets, batchVars,
                 addChan, addEvent, wsock, wpanic, request, backlog, epc>>

\* send of OpenEnvironmentOk.  The client may act on it at once, while the
\* welcome thread still holds its own client_fd.
ReplyOk ==
  /\ wpc = "reply"
  /\ reply' = [reply EXCEPT ![wclient] = "ok"]
  /\ wpc' = "return"
  /\ UNCHANGED <<clientVars, signalVars, closeVars, threadVars, wsock,
                 wclient, wenv, wpanic, environments, request, backlog, epc,
                 regs, dropEvent>>

\* serialize fails, which is answered with InternalError, or send fails.  The
\* client stays attached.
ReplyFails ==
  /\ "reply" \in Faults
  /\ wpc = "reply"
  /\ ReportFailure \/ UNCHANGED reply
  /\ wpc' = "return"
  /\ UNCHANGED <<clientVars, signalVars, closeVars, threadVars, wsock,
                 wclient, wenv, wpanic, environments, request, backlog, epc,
                 regs, dropEvent>>

\* handle_open_environment returns, which drops client_fd.
CloseClientFd ==
  /\ wpc = "return"
  /\ DropClientFd
  /\ wenv' = None
  /\ wpc' = "poll"
  /\ UNCHANGED <<clientVars, signalVars, closeVars, threadVars, wsock,
                 wpanic, environments, request, reply, backlog, epc,
                 dropEvent>>

JoinDiscarded ==
  /\ wpc = "discard"
  /\ Finished(wenv)
  /\ DropClientFd
  /\ wenv' = None
  /\ IF epc[wenv] = "panicked"
     THEN wpanic' = TRUE /\ Return("none")
     ELSE wpc' = "poll" /\ UNCHANGED <<wpanic, request, closeRx, closeChan>>
  /\ UNCHANGED <<clientVars, signalVars, closeEvent, threadVars, wsock,
                 environments, reply, backlog, epc, dropEvent>>

-----------------------------------------------------------------------------
(* The welcome thread ends: the map is dropped, one environment at a time. *)

\* Mutant: the thread is joined without having been told to end.
DropUntold(n) ==
  /\ wpc = "dropall"
  /\ environments[n] # None
  /\ environments' = [environments EXCEPT ![n] = None]
  /\ wenv' = environments[n]
  /\ wpc' = "joinall"
  /\ UNCHANGED <<clientVars, signalVars, closeVars, threadVars, wsock,
                 wclient, wpanic, request, reply, backlog, epc, regs,
                 dropEvent>>

DropEnvironment(n) ==
  /\ wpc = "dropall"
  /\ environments[n] # None
  /\ environments' = [environments EXCEPT ![n] = None]
  /\ dropEvent' = [dropEvent EXCEPT ![environments[n]] = TRUE]
  /\ wenv' = environments[n]
  /\ wpc' = "joinall"
  /\ UNCHANGED <<clientVars, signalVars, closeVars, threadVars, wsock,
                 wclient, wpanic, request, reply, backlog, epc, regs>>

\* A first panic out of a JoinGuard ends the drop of the map, and the
\* environments still in it are leaked; while panicking it is only reported.
JoinDropped ==
  /\ wpc = "joinall"
  /\ Finished(wenv)
  /\ wenv' = None
  /\ IF epc[wenv] = "panicked" /\ ~wpanic
     THEN wpanic' = TRUE /\ wpc' = "done" /\ backlog' = {}
     ELSE wpc' = "dropall" /\ UNCHANGED <<wpanic, backlog>>
  /\ UNCHANGED <<clientVars, signalVars, closeVars, threadVars, wsock,
                 wclient, environments, request, reply, epc, regs, dropEvent>>

\* The map is empty; the welcome socket closes and the thread is over.
WelcomeEnds ==
  /\ wpc = "dropall"
  /\ \A n \in Names : environments[n] = None
  /\ wpc' = "done"
  /\ backlog' = {}
  /\ UNCHANGED <<clientVars, signalVars, closeVars, threadVars, wsock,
                 wclient, wenv, wpanic, environments, request, reply, epc,
                 regs, dropEvent>>

-----------------------------------------------------------------------------
(* environment_synchronization_thread_main *)

Goto(e, pc) == epc' = [epc EXCEPT ![e] = pc]

Start(e) ==
  /\ epc[e] = "start"
  /\ Goto(e, "loop")
  /\ UNCHANGED <<clientVars, signalVars, closeVars, threadVars, welcomeVars,
                 reply, backlog, regs, dropEvent>>

\* ShmAllocator::new, Epoll::new or epoll.add fails: report and close.
StartFails(e) ==
  /\ "start" \in Faults
  /\ epc[e] = "start"
  /\ Goto(e, "announce")
  /\ UNCHANGED <<clientVars, signalVars, closeVars, threadVars, welcomeVars,
                 reply, backlog, regs, dropEvent>>

\* Mutant: a hang-up counts only for a socket that is still in the set, so a
\* lingering registration is taken for a request.
RequestsOfKnown(e) ==
  {c \in regs[e] : (client[c] # "closed" \/ c \notin sockets[e]) /\ asked[c]}

\* Mutant: connections are registered for EPOLLRDHUP only.
NoRequests(e) == {}

\* Requests epoll_wait reports.  The loop looks at EPOLLRDHUP first, so one of
\* a peer that hung up is not read.
Requests(e) == {c \in regs[e] : client[c] # "closed" /\ asked[c]}

NoEvents(e)   == ready[e] = {} /\ hups[e] = {} /\ ins[e] = {}
ClearBatch(e) ==
  /\ ready' = [ready EXCEPT ![e] = {}]
  /\ hups' = [hups EXCEPT ![e] = {}]
  /\ ins' = [ins EXCEPT ![e] = {}]

EpollWait(e) ==
  /\ epc[e] = "loop"
  /\ NoEvents(e)
  /\ LET events == {k \in {"add", "drop"} : IF k = "add" THEN addEvent[e]
                                                         ELSE dropEvent[e]}
         hup    == {c \in regs[e] : client[c] = "closed"}
     IN /\ events # {} \/ hup # {} \/ Requests(e) # {}
        /\ ready' = [ready EXCEPT ![e] = events]
        /\ hups' = [hups EXCEPT ![e] = hup]
        /\ ins' = [ins EXCEPT ![e] = Requests(e)]
  /\ UNCHANGED <<clientVars, signalVars, closeVars, sockets, addChan,
                 addEvent, resp, welcomeVars, reply, backlog, epc, regs,
                 dropEvent>>

\* epoll_wait fails, for one with EINTR when a signal handler ran here.
EpollWaitFails(e) ==
  /\ "wait" \in Faults
  /\ epc[e] = "loop"
  /\ NoEvents(e)
  /\ Goto(e, "announce")
  /\ UNCHANGED <<clientVars, signalVars, closeVars, threadVars, welcomeVars,
                 reply, backlog, regs, dropEvent>>

\* Mutant: add_listener_event is not read, so it stays readable.
AddListenerNoReset(e) ==
  /\ epc[e] = "loop"
  /\ "add" \in ready[e]
  /\ addChan' = [addChan EXCEPT ![e] = {}]
  /\ ready' = [ready EXCEPT ![e] = @ \ {"add"}]
  /\ sockets' = [sockets EXCEPT ![e] = @ \cup addChan[e]]
  /\ regs' = [regs EXCEPT ![e] = @ \cup addChan[e]]
  /\ resp' = [resp EXCEPT ![e] = "Ok"]
  /\ UNCHANGED <<clientVars, signalVars, closeVars, welcomeVars, reply,
                 backlog, dropEvent, epc, addEvent, hups, ins>>

\* add_listener and the response.  Until the response is sent nobody else
\* touches the channel or the event, so the whole call is one step.  If the
\* sender is gone try_recv says Disconnected and the unwrap panics, which
\* unwinds the thread and drops all it owns.
AddListener(e) ==
  /\ epc[e] = "loop"
  /\ "add" \in ready[e]
  /\ addEvent' = [addEvent EXCEPT ![e] = FALSE]
  /\ addChan' = [addChan EXCEPT ![e] = {}]
  /\ IF Owned(e)
     THEN /\ ready' = [ready EXCEPT ![e] = @ \ {"add"}]
          /\ sockets' = [sockets EXCEPT ![e] = @ \cup addChan[e]]
          /\ regs' = [regs EXCEPT ![e] = @ \cup addChan[e]]
          /\ resp' = [resp EXCEPT ![e] = "Ok"]
          /\ UNCHANGED <<epc, hups, ins>>
     ELSE /\ ClearBatch(e)
          /\ sockets' = [sockets EXCEPT ![e] = {}]
          /\ regs' = [regs EXCEPT ![e] = {}]
          /\ Goto(e, "panicked")
          /\ UNCHANGED resp
  /\ UNCHANGED <<clientVars, signalVars, closeVars, welcomeVars, reply,
                 backlog, dropEvent>>

\* epoll.add fails: the received descriptor is dropped.
AddListenerFails(e, c) ==
  /\ "add" \in Faults
  /\ epc[e] = "loop"
  /\ "add" \in ready[e]
  /\ c \in addChan[e]
  /\ addEvent' = [addEvent EXCEPT ![e] = FALSE]
  /\ addChan' = [addChan EXCEPT ![e] = @ \ {c}]
  /\ ready' = [ready EXCEPT ![e] = @ \ {"add"}]
  /\ resp' = [resp EXCEPT ![e] = "Err"]
  /\ UNCHANGED <<clientVars, signalVars, closeVars, sockets, hups, ins,
                 welcomeVars, reply, backlog, epc, regs, dropEvent>>

\* drop_event: break out of both loops.
HandleDrop(e) ==
  /\ epc[e] = "loop"
  /\ "drop" \in ready[e]
  /\ dropEvent' = [dropEvent EXCEPT ![e] = FALSE]
  /\ ClearBatch(e)
  /\ Goto(e, "exit")
  /\ UNCHANGED <<clientVars, signalVars, closeVars, sockets, addChan,
                 addEvent, resp, welcomeVars, reply, backlog, regs>>

\* EPOLLRDHUP: SocketSet::remove closes the descriptor, which takes the
\* connection out of epoll unless the welcome thread still holds client_fd.
\* The last one out announces the close and leaves the loop.
HandleHangUp(e, c) ==
  /\ epc[e] = "loop"
  /\ c \in hups[e]
  /\ sockets' = [sockets EXCEPT ![e] = @ \ {c}]
  /\ regs' = IF wclient = c THEN regs ELSE [regs EXCEPT ![e] = @ \ {c}]
  /\ IF sockets[e] \ {c} = {}
     THEN Goto(e, "announce") /\ ClearBatch(e)
     ELSE hups' = [hups EXCEPT ![e] = @ \ {c}] /\ UNCHANGED <<epc, ready, ins>>
  /\ UNCHANGED <<clientVars, signalVars, closeVars, addChan, addEvent, resp,
                 welcomeVars, reply, backlog, dropEvent>>

\* send and sendmsg wait for room in the connection; a peer that hung up makes
\* them fail.
CanAnswer(c) == c \notin full \/ client[c] = "closed"

\* receive_and_parse_request and handle_open_mutex: the client is told where
\* this environment keeps the mutex.
ServeOpenMutex(e, c) ==
  /\ epc[e] = "loop"
  /\ c \in ins[e]
  /\ CanAnswer(c)
  /\ ins' = [ins EXCEPT ![e] = @ \ {c}]
  /\ asked' = [asked EXCEPT ![c] = FALSE]
  /\ mutex' = [mutex EXCEPT ![c] = e]
  /\ made' = made \cup {e}
  /\ UNCHANGED <<client, req, full, signalVars, closeVars, sockets, ready,
                 hups, addChan, addEvent, resp, welcomeVars, reply, backlog,
                 epc, regs, dropEvent>>

\* The request is malformed or one of its steps fails: an error response, or
\* none.  A mutex that was constructed before the failure stays.
ServeFails(e, c) ==
  /\ "serve" \in Faults
  /\ epc[e] = "loop"
  /\ c \in ins[e]
  /\ CanAnswer(c)
  /\ ins' = [ins EXCEPT ![e] = @ \ {c}]
  /\ asked' = [asked EXCEPT ![c] = FALSE]
  /\ made' \in {made, made \cup {e}}
  /\ UNCHANGED <<client, req, mutex, full, signalVars, closeVars, sockets,
                 ready, hups, addChan, addEvent, resp, welcomeVars, reply,
                 backlog, epc, regs, dropEvent>>

\* Mutant: the close event is not raised.
AnnounceNoEvent(e) ==
  /\ epc[e] = "signal"
  /\ Goto(e, "exit")
  /\ UNCHANGED <<clientVars, signalVars, closeVars, threadVars,
                 welcomeVars, reply, backlog, regs, dropEvent>>

\* announce_env_close: first the name (an error if the receiver is gone) ...
AnnounceName(e) ==
  /\ epc[e] = "announce"
  /\ closeChan' = IF closeRx THEN closeChan \cup {e} ELSE closeChan
  /\ Goto(e, "signal")
  /\ UNCHANGED <<clientVars, signalVars, closeEvent, closeRx, threadVars,
                 welcomeVars, reply, backlog, regs, dropEvent>>

\* ... then the event.
AnnounceEvent(e) ==
  /\ epc[e] = "signal"
  /\ closeEvent' = TRUE
  /\ Goto(e, "exit")
  /\ UNCHANGED <<clientVars, signalVars, closeChan, closeRx, threadVars,
                 welcomeVars, reply, backlog, regs, dropEvent>>

\* The thread's locals and the closure's captures are dropped: epoll, the
\* shared memory, the sockets, add_listener_rx with what it still holds and
\* sync_response_tx.
DropLocals(e, pc) ==
  /\ epc[e] = "exit"
  /\ Goto(e, pc)
  /\ sockets' = [sockets EXCEPT ![e] = {}]
  /\ regs' = [regs EXCEPT ![e] = {}]
  /\ addChan' = [addChan EXCEPT ![e] = {}]
  /\ UNCHANGED <<clientVars, signalVars, closeVars, batchVars, addEvent, resp,
                 welcomeVars, reply, backlog, dropEvent>>

ThreadEnds(e) == DropLocals(e, "exited")

\* ShmAllocator::drop resumes the panic of a resource's destructor.
ThreadPanics(e) ==
  /\ "destructor" \in Faults
  /\ e \in made
  /\ DropLocals(e, "panicked")

-----------------------------------------------------------------------------
(* The specification *)

WelcomeStep ==
  \/ PollShutdown \/ PollReload \/ PollClose \/ PollWelcome
  \/ \E e \in Clients : TakeClosed(e)
  \/ JoinClosed \/ DrainDone \/ SocketFailed
  \/ \E c \in Clients : Accept(c)
  \/ ReceiveRequest \/ FindOrSpawn
  \/ InsertSend \/ InsertNotify \/ InsertAwait
  \/ ReplyOk \/ CloseClientFd \/ JoinDiscarded
  \/ \E n \in Names : DropEnvironment(n)
  \/ JoinDropped \/ WelcomeEnds

ThreadStep(e) ==
  \/ Start(e) \/ EpollWait(e) \/ AddListener(e) \/ HandleDrop(e)
  \/ \E c \in Clients : HandleHangUp(e, c)
  \/ \E c \in Clients : ServeOpenMutex(e, c)
  \/ AnnounceName(e) \/ AnnounceEvent(e) \/ ThreadEnds(e)

FaultStep ==
  \/ BreakWelcomeSocket \/ PollFails \/ AcceptFails \/ ReceiveFails
  \/ OpenFails \/ ReplyFails
  \/ \E e \in Clients :
       \/ StartFails(e) \/ EpollWaitFails(e) \/ ThreadPanics(e)
       \/ \E c \in Clients : AddListenerFails(e, c) \/ ServeFails(e, c)

ClientStep(c) ==
  \/ Connect(c) \/ SendOpenMutex(c) \/ HangUp(c)
  \/ StopReading(c) \/ ReadAnswers(c)
  \/ \E r \in Names \cup {Malformed} : SendRequest(c, r)

\* The welcome thread has ended: what is left is up to main.
Over == wpc = "done" /\ UNCHANGED vars

Next ==
  \/ WelcomeStep
  \/ \E e \in Clients : ThreadStep(e)
  \/ \E c \in Clients : ClientStep(c)
  \/ RaiseShutdown \/ RaiseReload
  \/ FaultStep
  \/ Over

Spec == Init /\ [][Next]_vars

\* The scheduler runs every thread that can run.  A thread inside a handler
\* always gets to the next statement; nothing makes a client speak.
ThreadFairness ==
  /\ WF_vars(WelcomeStep)
  /\ \A e \in Clients : WF_vars(ThreadStep(e))

\* A client that connected eventually sends its request or hangs up, and one
\* that stopped reading eventually reads or hangs up.
ClientSpeaks(c) ==
  HangUp(c) \/ \E r \in Names \cup {Malformed} : SendRequest(c, r)
ClientReads(c) == HangUp(c) \/ ReadAnswers(c)
ClientFairness ==
  \A c \in Clients \ Roots : /\ WF_vars(req[c] = None /\ ClientSpeaks(c))
                             /\ WF_vars(c \in full /\ ClientReads(c))

FairSpec == Spec /\ ThreadFairness /\ ClientFairness

\* Without the assumptions on clients.
ThreadFairSpec == Spec /\ ThreadFairness

-----------------------------------------------------------------------------
(* Safety *)

\* Two synchronization threads never run for the same name: dropping an
\* Environment joins its thread before the name can be opened again
\* (JoinGuard::drop, welcome_thread.rs handle_open_environment).
OneThreadPerName ==
  \A e, f \in Clients : Running(e) /\ Running(f) /\ req[e] = req[f] => e = f

\* A close announcement removes the environment that sent it, never a newer
\* one with the same name: while an environment's thread still serves, only
\* the end of the welcome thread takes it out of the map.
LiveEnvironmentStays ==
  [][\A n \in Names :
       /\ environments[n] # None
       /\ environments'[n] # environments[n]
       /\ epc[environments[n]] \in {"start", "loop"}
       => wpc = "dropall"]_vars

\* The request and response halves of insert_socket stay in step: a response
\* exists only while the welcome thread waits for it from that environment,
\* so no client is answered with the result of another.
ResponsesInStep ==
  \A e \in Clients : resp[e] # "none" => wpc = "await" /\ wenv = e

\* The Disconnected branch of add_listener, which panics, is never taken: as
\* long as a thread has an add_listener event to handle, the sender lives.
SenderOutlivesAdd ==
  \A e \in Clients :
    epc[e] = "loop" /\ (addEvent[e] \/ "add" \in ready[e]) => Owned(e)

\* All clients connected to one environment name hold the same mutex.
MutexShared ==
  \A e, f, c, d \in Clients :
    /\ c \in sockets[e] /\ d \in sockets[f] /\ req[c] = req[d]
    /\ mutex[c] # None /\ mutex[d] # None
    => mutex[c] = mutex[d]

\* A thread never reads a request from a descriptor that it already closed,
\* whose number may since belong to another file.  A client may be told Ok, ask
\* and hang up while handle_open_environment has not yet dropped client_fd:
\* its connection then stays in epoll, with the request in it, after
\* SocketSet::remove.
NoUseAfterClose ==
  \A e \in Clients : ins[e] \subseteq sockets[e]

\* A client that was told OpenEnvironmentOk and did not hang up is served: the
\* environment in the map under its name has its socket, unless that thread's
\* epoll failed or the welcome thread is ending.
AckedIsAttached ==
  \A c \in Clients :
    /\ reply[c] = "ok" /\ client[c] = "open"
    /\ "wait" \notin Faults /\ wpc \notin {"dropall", "joinall", "done"}
    => /\ environments[req[c]] # None
       /\ c \in sockets[environments[req[c]]]

\* When the welcome thread ends without a panic no synchronization thread is
\* left behind to outlive a reload.
AllJoined ==
  wpc = "done" /\ ~wpanic => \A e \in Clients : ~Running(e)

\* A hang-up may be reported for a descriptor that the thread has closed, as
\* long as the welcome thread holds client_fd.  Its number is free by then.
\* That report is handled before another listener, which may have been given
\* the number, can be added and be closed in its place (SocketSet::remove).
StaleHangUpHarmless ==
  \A e \in Clients : hups[e] \subseteq sockets[e] \/ "add" \notin ready[e]

-----------------------------------------------------------------------------
(* What main sees of the welcome thread *)

WelcomeState ==
  CASE wpc = "done" /\ ~wpanic -> "done"
    [] wpc = "done" /\ wpanic -> "panicked"
    [] wpc \in {"dropall", "joinall"} /\ ~wpanic -> "ending"
    [] wpc \in {"dropall", "joinall"} /\ wpanic -> "unwinding"
    [] wpc \notin {"dropall", "joinall", "done"} -> "running"

WelcomeEvents ==
  {k \in {"shutdown", "reload"} :
     IF k = "shutdown" THEN shutdownEvent ELSE reloadEvent}

Welcome == INSTANCE WelcomeThread WITH
  thread <- WelcomeState, readable <- WelcomeEvents,
  shutdownFd <- "shutdown", reloadFd <- "reload"

\* To main the welcome thread, with all its environments and their threads, is
\* no more than WelcomeThread.
IsWelcomeThread == Welcome!Spec

-----------------------------------------------------------------------------
(* What clients see of the daemon *)

Offered == INSTANCE Service WITH
  name <- req,
  serving <- {e \in Clients : Running(e)},
  past <- {e \in Clients : Finished(e)},
  members <- sockets,
  told <- {c \in Clients : reply[c] = "ok"},
  gone <- {c \in Clients : client[c] = "closed"},
  stopping <- wpc \in {"dropall", "joinall", "done"},
  MayFail <- "wait" \in Faults

\* The welcome thread and the synchronization threads together keep the promise
\* of Service: whatever the interleaving, a client is attached to the one
\* environment of its name, keeps its socket there until it hangs up or the
\* daemon stops, and is told OpenEnvironmentOk only when it is attached.
IsService == Offered!Spec

-----------------------------------------------------------------------------
(* The inductive invariant behind the safety properties *)

Handling == {"insert", "notify", "await", "reply", "return", "discard"}
Joining  == {"discard", "closing", "joinall"}

\* What the welcome thread's locals are, by where it is.
WelcomeLocals ==
  /\ wpc \in {"request", "open"} \cup Handling => wclient # None
  /\ wpc \in {"open"} \cup Handling => req[wclient] \in Names
  /\ wpc \in Handling \cup Joining =>
       wenv # None /\ req[wenv] \in Names /\ epc[wenv] # "none"
  /\ wpc \in Handling => req[wenv] = req[wclient]
  /\ wpc \in {"insert", "notify", "await"} =>
       environments[req[wenv]] \in {None, wenv}
  /\ wpc \in Joining => environments[req[wenv]] = None
  /\ wpc \in {"reply", "return"} => environments[req[wenv]] = wenv
  /\ wpc = "done" /\ ~wpanic => \A n \in Names : environments[n] = None

\* The map holds environments under their own name, and every running thread
\* is in the map or in the welcome thread's hands.
ThreadsAccounted ==
  /\ \A n \in Names : environments[n] # None =>
       req[environments[n]] = n /\ epc[environments[n]] # "none"
  /\ \A e \in Clients : epc[e] # "none" => req[e] \in Names
  /\ \A e \in Clients : Running(e) =>
       \/ environments[req[e]] = e
       \/ wenv = e /\ wpc \in Handling \cup Joining

\* A connection is accepted once, and is the name of a thread only after that.
FreshConnections ==
  \A c \in Clients :
    /\ client[c] = "idle" => c \notin backlog /\ c # wclient
    /\ c \in backlog => c # wclient
    /\ (\/ client[c] = "idle" \/ c \in backlog
        \/ c = wclient /\ wpc \in {"request", "open"})
       => epc[c] = "none"

\* Close announcements: who may have sent one, that the event follows the
\* name, and that no announcement of a past environment is left over once the
\* welcome thread turns to a new connection.
CloseInStep ==
  /\ \A e \in closeChan :
       /\ epc[e] \in {"signal", "exit", "exited", "panicked"}
       /\ environments[req[e]] \in {None, e}
       /\ closeEvent \/ epc[e] = "signal" \/ wpc \in {"drain", "closing"}
       /\ wpc \in {"accept", "request", "open", "insert", "notify", "await"}
            => Owned(e)

\* At most one listener is on its way to one environment, and at most one
\* response back, both for the request the welcome thread waits on.
AddInStep ==
  \A e \in Clients :
    /\ epc[e] # "loop" => "add" \notin ready[e] /\ hups[e] = {} /\ ins[e] = {}
    /\ epc[e] = "none" => ~addEvent[e]
    /\ resp[e] # "none" => wpc = "await" /\ wenv = e
    /\ epc[e] \in {"start", "loop"} /\ (addEvent[e] \/ "add" \in ready[e])
         => wpc = "await" /\ wenv = e /\ resp[e] = "none"
    /\ addChan[e] # {} =>
         /\ wenv = e /\ addChan[e] = {wclient} /\ wpc \in {"notify", "await"}
         /\ Running(e) /\ resp[e] = "none"

\* Whose sockets a thread has, and whose mutex they were given.
SocketsInStep ==
  /\ \A e \in Clients :
       /\ sockets[e] # {} => Running(e)
       /\ sockets[e] \subseteq regs[e]
       /\ \A c \in regs[e] : c \notin sockets[e] => client[c] = "closed"
       /\ \A c \in hups[e] : client[c] = "closed"
       /\ ins[e] \subseteq sockets[e] \ hups[e]
       /\ \A c \in ins[e] : asked[c]
       /\ \A c \in sockets[e] : req[c] = req[e] /\ mutex[c] \in {None, e}
  /\ \A c \in Clients :
       (\/ client[c] = "idle" \/ c \in backlog
        \/ c = wclient /\ wpc # "return")
         => reply[c] # "ok" /\ ~asked[c] /\ mutex[c] = None

IInv ==
  /\ TypeOK /\ WelcomeLocals /\ ThreadsAccounted /\ FreshConnections
  /\ CloseInStep /\ AddInStep /\ SocketsInStep

-----------------------------------------------------------------------------
(* Two further invariants, inductive relative to IInv *)

\* insert_socket has sent the connection, or has had it acknowledged.
Underway     == wpc = "notify" \/ (wpc = "await" /\ resp[wenv] = "none")
Acknowledged ==
  wpc \in {"reply", "return"} \/ (wpc = "await" /\ resp[wenv] = "Ok")

\* A registration that epoll keeps although the thread has closed its socket is
\* of the connection in the welcome thread's hands, from the moment the thread
\* has acknowledged it.  So while a listener is on its way there is none.
LingerInStep ==
  /\ \A e \in Clients :
       /\ regs[e] \subseteq sockets[e] \cup {wclient}
       /\ wclient \in regs[e] => wenv = e /\ Acknowledged
       /\ \A c \in regs[e] : client[c] # "idle" /\ c \notin backlog
  /\ StaleHangUpHarmless

\* The thread of e has been, or is about to be, told to end.
Told(e) ==
  dropEvent[e] \/ "drop" \in ready[e] \/ (epc[e] = "exit" /\ sockets[e] # {})

\* Only an Environment that its owner has given up is told to end, and any
\* other thread that leaves its loop has no sockets left.
ToldInStep ==
  \A e \in Clients :
    /\ epc[e] \in {"start", "announce", "signal"} => sockets[e] = {}
    /\ epc[e] = "none" => ~dropEvent[e] /\ ready[e] = {}
    /\ Told(e) => ~Owned(e)

\* The connection under way is in the channel until it is in the socket set,
\* where it stays until it hangs up.
HandedOver ==
  /\ Underway /\ epc[wenv] \in {"start", "loop"} => addChan[wenv] = {wclient}
  /\ Acknowledged => wclient \in sockets[wenv] \/ client[wclient] = "closed"

\* An Environment that is given up while the daemon goes on has no sockets.
GivenUpEmpty ==
  /\ wpc \in {"closing", "discard"} => sockets[wenv] = {}
  /\ wpc \in {"insert", "notify", "await"} /\ ~Acknowledged
       /\ environments[req[wenv]] # wenv => sockets[wenv] = {}

Attached ==
  /\ ToldInStep /\ HandedOver /\ GivenUpEmpty
  /\ \A c \in Clients : reply[c] = "ok" => req[c] \in Names
  /\ AckedIsAttached

\* All this as long as no thread's epoll_wait fails.
AttachInStep == "wait" \notin Faults => Attached

-----------------------------------------------------------------------------
(* Wake-ups: what a thread waits for is on its way.  Inductive relative to  *)
(* IInv, under every fault.                                                 *)

Serving == {"start", "loop"}

\* While the welcome thread waits for a response, the connection is in the
\* channel and add_listener_event is raised or reported.
ListenerWakes ==
  Underway /\ epc[wenv] \in Serving =>
    /\ addChan[wenv] = {wclient}
    /\ wpc = "await" => addEvent[wenv] \/ "add" \in ready[wenv]

\* While it waits in a join, drop_event is raised or reported, which it never
\* is for a thread whose Environment lives.
DropWakes ==
  /\ wpc \in Joining /\ epc[wenv] \in Serving =>
       dropEvent[wenv] \/ "drop" \in ready[wenv]
  /\ \A e \in Clients : dropEvent[e] \/ "drop" \in ready[e] => ~Owned(e)
  /\ \A e \in Clients : epc[e] = "none" => ~dropEvent[e] /\ ready[e] = {}

\* An Environment whose thread has gone has its name in close_env_rx, and
\* close_env_event is raised, about to be, or being served.
CloseWakes ==
  closeRx => \A e \in Clients :
    Owned(e) /\ epc[e] \in {"signal", "exit", "exited", "panicked"} =>
      /\ e \in closeChan
      /\ closeEvent \/ epc[e] = "signal" \/ wpc \in {"drain", "closing"}

\* An Environment that serves on its own has a socket, whose hang-up ends it.
HangUpWakes ==
  \A e \in Clients :
    /\ epc[e] = "start" => sockets[e] = {}
    /\ /\ epc[e] \in Serving
       /\ \/ environments[req[e]] = e
          \/ wenv = e /\ Acknowledged
       => sockets[e] # {}

\* No wake-up between the welcome thread and a synchronization thread is lost,
\* although channels and eventfds are written and read in separate steps: each
\* side that waits for the other finds it at work, gone, or about to be woken.
NoLostWakeup == ListenerWakes /\ DropWakes /\ CloseWakes /\ HangUpWakes

-----------------------------------------------------------------------------
(* Liveness *)

\* A connected client that asked for an environment is answered, whatever
\* races with its request, unless it hangs up, the welcome thread ends or the
\* welcome socket breaks.
OpenAnswered ==
  \A c \in Clients \ Roots :
    (client[c] = "open" /\ req[c] # None)
      ~> (\/ reply[c] # "none" \/ client[c] = "closed"
          \/ wpc = "done" \/ sockBroken)

\* An environment whose clients are all gone is removed from the map, unless
\* a panic ends the welcome thread: the first one out of a JoinGuard leaks the
\* environments that the drop of the map has not reached (join_guard.rs).
IdleEnvironmentRemoved ==
  \A n \in Names, e \in Clients :
    environments[n] = e
      ~> (\/ environments[n] # e
          \/ wpc = "done" /\ wpanic
          \/ \E c \in Clients : req[c] = n /\ client[c] = "open")

\* A shutdown signal gets the welcome thread to its end, whatever handler or
\* join it was in.  That it joined every thread by then is AllJoined.
ShutdownServed == shutdownEvent ~> wpc = "done"

\* An attached client's request is answered while it stays connected.
MutexAnswered ==
  \A c \in Clients :
    asked[c] ~> (~asked[c] \/ client[c] = "closed"
                 \/ \A e \in Clients : c \notin sockets[e])

\* environment_synchronization_thread.rs, of drop_event: "Gracefully shut down
\* the environment".  A thread that is told to end does.
DropServed == \A e \in Clients : dropEvent[e] ~> Finished(e)

\* welcome_thread.rs, of a broken welcome socket: "We can't possibly recover
\* from this failure => shutdown".  The thread that says so should then end.
FailureEndsThread == request = "shutdown" ~> wpc = "done"
=============================================================================
