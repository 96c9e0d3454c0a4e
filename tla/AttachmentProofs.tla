-------------------------- MODULE AttachmentProofs --------------------------
(***************************************************************************)
(* What a connection goes through from the welcome thread's hands to an    *)
(* environment's socket set: LingerInStep and AttachInStep are inductive   *)
(* relative to IInv, which EnvironmentsProofs proves.  They imply that a   *)
(* stale hang-up does no harm and that a client that was told so is        *)
(* attached.                                                               *)
(***************************************************************************)
EXTENDS EnvironmentsProofs

-----------------------------------------------------------------------------
(* Registrations that outlive their socket *)

\* Initially nothing is registered.
LEMMA InitLinger == ASSUME Init PROVE LingerInStep
  BY DEF Init, LingerInStep, StaleHangUpHarmless

\* Steps of a client and signals: no registration changes, and a connection
\* that is new has none.
LEMMA OutsideLinger ==
  ASSUME IInv, LingerInStep,
         \/ \E c \in Clients : ClientStep(c)
         \/ RaiseShutdown \/ RaiseReload \/ BreakWelcomeSocket
  PROVE  LingerInStep'
  <1> USE DEF IInv, TypeOK, LingerInStep, StaleHangUpHarmless, Acknowledged,
          clientVars, signalVars, closeVars, batchVars, threadVars,
          welcomeVars
  <1>1. ASSUME NEW c \in Clients, Connect(c) PROVE LingerInStep'
    BY <1>1 DEF Connect
  <1>2. ASSUME NEW c \in Clients, SendOpenMutex(c) PROVE LingerInStep'
    BY <1>2 DEF SendOpenMutex
  <1>3. ASSUME NEW c \in Clients, HangUp(c) PROVE LingerInStep'
    BY <1>3 DEF HangUp
  <1>4. ASSUME NEW c \in Clients, NEW r, SendRequest(c, r)
        PROVE  LingerInStep'
    BY <1>4 DEF SendRequest
  <1>5. ASSUME NEW c \in Clients, StopReading(c) \/ ReadAnswers(c)
        PROVE  LingerInStep'
    BY <1>5 DEF StopReading, ReadAnswers
  <1>6. CASE RaiseShutdown \/ RaiseReload \/ BreakWelcomeSocket
    BY <1>6 DEF RaiseShutdown, RaiseReload, BreakWelcomeSocket
  <1> QED  BY <1>1, <1>2, <1>3, <1>4, <1>5, <1>6 DEF ClientStep

\* Where the welcome thread drops client_fd, what lingered is forgotten.
LEMMA DropClientFdLinger ==
  ASSUME IInv, LingerInStep, DropClientFd,
         UNCHANGED <<sockets, batchVars, client, backlog>>
  PROVE  LingerInStep'
  <1> USE ConstantsAssumption DEF IInv, TypeOK, DropClientFd, batchVars
  <1>1. \A e \in Clients : regs'[e] \subseteq regs[e]  OBVIOUS
  <1>2. \A e \in Clients : regs'[e] \subseteq sockets[e]
    BY DEF LingerInStep
  <1>3. \A e \in Clients : None \notin regs'[e]  BY <1>1
  <1> QED  BY <1>1, <1>2, <1>3 DEF LingerInStep, StaleHangUpHarmless

\* The welcome thread's statements.
LEMMA WelcomeLinger ==
  ASSUME IInv, LingerInStep,
         \/ WelcomeStep \/ PollFails \/ AcceptFails
         \/ ReceiveFails \/ OpenFails \/ ReplyFails
  PROVE  LingerInStep'
  <1> USE DEF clientVars, signalVars, closeVars, batchVars, threadVars,
          welcomeVars, Return
  <1>1. CASE PollShutdown \/ PollReload \/ PollClose \/ PollWelcome
             \/ PollFails
    <2>1. /\ wpc = "poll"
          /\ UNCHANGED <<regs, sockets, wclient, client, backlog, hups, ready>>
      BY <1>1 DEF PollShutdown, PollReload, PollClose, PollWelcome, PollFails
    <2> QED  BY <2>1 DEF LingerInStep, StaleHangUpHarmless, Acknowledged
  <1>2. CASE \/ \E e \in Clients : TakeClosed(e)
             \/ JoinClosed \/ DrainDone \/ SocketFailed \/ AcceptFails
             \/ FindOrSpawn \/ InsertNotify
             \/ \E n \in Names : DropEnvironment(n)
    <2>1. /\ ~Acknowledged
          /\ UNCHANGED <<regs, sockets, wclient, client, backlog, hups, ready>>
      BY <1>2 DEF TakeClosed, JoinClosed, DrainDone, SocketFailed,
         AcceptFails, FindOrSpawn, InsertNotify, DropEnvironment, Acknowledged
    <2> QED  BY <2>1 DEF LingerInStep, StaleHangUpHarmless
  <1>3. ASSUME NEW c \in Clients, Accept(c) PROVE LingerInStep'
    BY <1>3 DEF Accept, LingerInStep, StaleHangUpHarmless, Acknowledged,
       IInv, TypeOK
  <1>4. CASE ReceiveRequest
    <2>1. CASE req[wclient] \in Names
      BY <1>4, <2>1 DEF ReceiveRequest, LingerInStep, StaleHangUpHarmless,
         Acknowledged
    <2>2. CASE req[wclient] \notin Names
      BY <1>4, <2>2, DropClientFdLinger DEF ReceiveRequest
    <2> QED  BY <2>1, <2>2
  <1>5. CASE ReceiveFails \/ OpenFails \/ CloseClientFd \/ JoinDiscarded
    BY <1>5, DropClientFdLinger
       DEF ReceiveFails, OpenFails, CloseClientFd, JoinDiscarded
  <1>6. CASE InsertSend
    <2>1. CASE InsertFails
      <3>1. CASE environments[req[wenv]] = wenv
        BY <1>6, <2>1, <3>1, DropClientFdLinger DEF InsertSend, InsertFails
      <3>2. CASE environments[req[wenv]] # wenv
        BY <1>6, <2>1, <3>2
           DEF InsertSend, InsertFails, LingerInStep, StaleHangUpHarmless,
               Acknowledged
      <3> QED  BY <3>1, <3>2
    <2>2. CASE UNCHANGED <<wclient, wenv, regs, reply, dropEvent>>
      BY <1>6, <2>2 DEF InsertSend, LingerInStep, StaleHangUpHarmless,
         Acknowledged
    <2> QED  BY <1>6, <2>1, <2>2 DEF InsertSend
  <1>7. CASE InsertAwait
    <2>1. CASE resp[wenv] = "Ok"
      BY <1>7, <2>1 DEF InsertAwait, LingerInStep, StaleHangUpHarmless,
         Acknowledged
    <2>2. CASE resp[wenv] # "Ok"
      <3>1. CASE environments[req[wenv]] = wenv
        BY <1>7, <2>2, <3>1, DropClientFdLinger DEF InsertAwait, InsertFails
      <3>2. CASE environments[req[wenv]] # wenv
        BY <1>7, <2>2, <3>2
           DEF InsertAwait, InsertFails, LingerInStep, StaleHangUpHarmless,
               Acknowledged
      <3> QED  BY <3>1, <3>2
    <2> QED  BY <2>1, <2>2
  <1>8. CASE JoinDropped \/ WelcomeEnds
    <2>1. /\ ~Acknowledged
          /\ UNCHANGED <<regs, sockets, wclient, client, hups, ready>>
          /\ backlog' \subseteq backlog
      BY <1>8 DEF JoinDropped, WelcomeEnds, Acknowledged
    <2> QED  BY <2>1 DEF LingerInStep, StaleHangUpHarmless
  <1>9. CASE ReplyOk \/ ReplyFails
    BY <1>9 DEF ReplyOk, ReplyFails, LingerInStep, StaleHangUpHarmless,
       Acknowledged
  <1> QED
    BY <1>1, <1>2, <1>3, <1>4, <1>5, <1>6, <1>7, <1>8, <1>9 DEF WelcomeStep

\* An environment's thread, and what may fail in it.
LEMMA ThreadLinger ==
  ASSUME IInv, LingerInStep, NEW e \in Clients,
         \/ ThreadStep(e) \/ StartFails(e) \/ EpollWaitFails(e)
         \/ ThreadPanics(e)
         \/ \E c \in Clients : AddListenerFails(e, c) \/ ServeFails(e, c)
  PROVE  LingerInStep'
  <1> USE DEF IInv, TypeOK, clientVars, signalVars, closeVars, batchVars,
          threadVars, welcomeVars, Goto, ClearBatch
  <1>1. CASE \/ Start(e) \/ StartFails(e) \/ EpollWaitFails(e)
             \/ AnnounceName(e) \/ AnnounceEvent(e)
    BY <1>1 DEF Start, StartFails, EpollWaitFails, AnnounceName,
       AnnounceEvent, LingerInStep, StaleHangUpHarmless, Acknowledged
  <1>2. CASE EpollWait(e)
    <2>1. ASSUME "add" \in ready'[e] PROVE hups'[e] \subseteq sockets[e]
      <3>1. addEvent[e] /\ epc[e] = "loop"  BY <1>2, <2>1 DEF EpollWait
      <3>2. wpc = "await" /\ wenv = e /\ resp[e] = "none"
        BY <3>1 DEF AddInStep
      <3>3. wclient \notin regs[e]
        BY <3>2 DEF LingerInStep, Acknowledged
      <3>4. hups'[e] \subseteq regs[e]  BY <1>2 DEF EpollWait
      <3> QED  BY <3>3, <3>4 DEF LingerInStep
    <2> QED  BY <1>2, <2>1 DEF EpollWait, LingerInStep, StaleHangUpHarmless,
                Acknowledged
  <1>3. CASE AddListener(e)
    <2>1. wpc = "await" /\ wenv = e /\ resp[e] = "none"
      BY <1>3 DEF AddListener, AddInStep
    <2>2. addChan[e] \subseteq {wclient}  BY DEF AddInStep
    <2>3. Owned(e)  BY <2>1 DEF Owned
    <2>4. \A c \in regs'[e] : client[c] # "idle" /\ c \notin backlog
      BY <1>3, <2>2, <2>3
         DEF AddListener, LingerInStep, FreshConnections
    <2>5. resp'[e] = "Ok"  BY <1>3, <2>3 DEF AddListener
    <2>6. Acknowledged'
      BY <1>3, <2>1, <2>5 DEF AddListener, Acknowledged
    <2> QED  BY <1>3, <2>1, <2>2, <2>3, <2>4, <2>6
             DEF AddListener, LingerInStep, StaleHangUpHarmless, Acknowledged
  <1>4. ASSUME NEW c \in Clients, AddListenerFails(e, c)
        PROVE  LingerInStep'
    <2>1. wpc = "await" /\ wenv = e /\ resp[e] = "none"
      BY <1>4 DEF AddListenerFails, AddInStep
    <2> QED  BY <1>4, <2>1 DEF AddListenerFails, LingerInStep,
                StaleHangUpHarmless, Acknowledged
  <1>5. CASE HandleDrop(e)
    BY <1>5 DEF HandleDrop, LingerInStep, StaleHangUpHarmless, Acknowledged
  <1>6. ASSUME NEW c \in Clients, HandleHangUp(e, c) PROVE LingerInStep'
    BY <1>6 DEF HandleHangUp, LingerInStep, StaleHangUpHarmless, Acknowledged
  <1>7. ASSUME NEW c \in Clients, ServeOpenMutex(e, c) \/ ServeFails(e, c)
        PROVE  LingerInStep'
    BY <1>7 DEF ServeOpenMutex, ServeFails, LingerInStep,
       StaleHangUpHarmless, Acknowledged
  <1>8. CASE ThreadEnds(e) \/ ThreadPanics(e)
    BY <1>8 DEF ThreadEnds, ThreadPanics, DropLocals, AddInStep,
       LingerInStep, StaleHangUpHarmless, Acknowledged
  <1> QED
    BY <1>1, <1>2, <1>3, <1>4, <1>5, <1>6, <1>7, <1>8 DEF ThreadStep

\* What epoll still has registered, in every reachable state.
THEOREM Lingering == Spec => []LingerInStep
  <1>1. Init => LingerInStep  BY InitLinger
  <1>2. IInv /\ LingerInStep /\ [Next]_vars => LingerInStep'
    <2> SUFFICES ASSUME IInv, LingerInStep, [Next]_vars
                 PROVE  LingerInStep'
      OBVIOUS
    <2>1. CASE UNCHANGED vars
      BY <2>1 DEF vars, clientVars, signalVars, threadVars, batchVars,
         welcomeVars, LingerInStep, StaleHangUpHarmless, Acknowledged
    <2>2. CASE Next
      BY <2>1, <2>2, OutsideLinger, WelcomeLinger, ThreadLinger
         DEF Next, FaultStep, Over
    <2> QED  BY <2>1, <2>2
  <1> QED  BY <1>1, <1>2, Invariance, PTL DEF Spec

\* A hang-up reported on a descriptor that the thread has closed is handled
\* before a listener that may have been given its number is added.
THEOREM StaleHarmless == Spec => []StaleHangUpHarmless
  <1>1. LingerInStep => StaleHangUpHarmless  BY DEF LingerInStep
  <1> QED  BY <1>1, Lingering, PTL

-----------------------------------------------------------------------------
(* Clients that were told OpenEnvironmentOk *)

\* Initially no client was told anything.
LEMMA InitAttached == ASSUME Init PROVE Attached
  BY ConstantsAssumption
  DEF Init, Attached, ToldInStep, HandedOver, GivenUpEmpty,
      AckedIsAttached, Told, Underway, Acknowledged

\* While a connection is handed over the welcome thread holds both it and the
\* environment.
LEMMA InHands ==
  ASSUME IInv, Underway \/ Acknowledged
  PROVE  wclient \in Clients /\ wenv \in Clients /\ Owned(wenv)
  BY ConstantsAssumption DEF IInv, TypeOK, WelcomeLocals, Handling, Underway,
     Acknowledged, Owned

\* Steps of a client and signals.
LEMMA OutsideAttached ==
  ASSUME IInv, Attached,
         \/ \E c \in Clients : ClientStep(c)
         \/ RaiseShutdown \/ RaiseReload \/ BreakWelcomeSocket
  PROVE  Attached'
  <1> USE ConstantsAssumption
      DEF IInv, TypeOK, Attached, GivenUpEmpty, Told, Owned, Underway,
          Acknowledged, clientVars, signalVars, closeVars, batchVars,
          threadVars, welcomeVars
  <1>1. ASSUME NEW c \in Clients,
               Connect(c) \/ HangUp(c) \/ SendOpenMutex(c)
        PROVE  Attached'
    <2>1. /\ ToldInStep'
          /\ \A d \in Clients : reply'[d] = "ok" => req'[d] \in Names
      BY <1>1 DEF Connect, HangUp, SendOpenMutex, ToldInStep
    <2>2. HandedOver'
      BY <1>1 DEF Connect, HangUp, SendOpenMutex, HandedOver, WelcomeLocals,
         FreshConnections, Handling
    <2>3. AckedIsAttached'
      BY <1>1 DEF Connect, HangUp, SendOpenMutex, AckedIsAttached,
         SocketsInStep
    <2>4. GivenUpEmpty'  BY <1>1 DEF Connect, HangUp, SendOpenMutex
    <2> QED  BY <2>1, <2>2, <2>3, <2>4
  <1>2. ASSUME NEW c \in Clients, NEW r \in Names \cup {Malformed},
               SendRequest(c, r)
        PROVE  Attached'
    <2>1. \A e \in Clients : Owned(e)' => Owned(e)
      BY <1>2 DEF SendRequest, ThreadsAccounted
    <2>2. ToldInStep'  BY <1>2, <2>1 DEF SendRequest, ToldInStep
    <2>3. HandedOver'  BY <1>2 DEF SendRequest, HandedOver
    <2>4. \A d \in Clients : reply[d] = "ok" => req'[d] = req[d]
      BY <1>2 DEF SendRequest
    <2>5. GivenUpEmpty'
      BY <1>2 DEF SendRequest, WelcomeLocals, Handling, Joining
    <2> QED  BY <1>2, <2>2, <2>3, <2>4, <2>5 DEF SendRequest, AckedIsAttached
  <1>3. ASSUME NEW c \in Clients, StopReading(c) \/ ReadAnswers(c)
        PROVE  Attached'
    BY <1>3 DEF StopReading, ReadAnswers, ToldInStep, HandedOver,
       AckedIsAttached
  <1>4. CASE RaiseShutdown \/ RaiseReload \/ BreakWelcomeSocket
    BY <1>4 DEF RaiseShutdown, RaiseReload, BreakWelcomeSocket, ToldInStep,
       HandedOver, AckedIsAttached
  <1> QED  BY <1>1, <1>2, <1>3, <1>4 DEF ClientStep

\* An environment that is given up, because its close was announced or the
\* map is dropped, has no sockets or the welcome thread is ending; a client is
\* told OpenEnvironmentOk when its socket is in place.
LEMMA WelcomeAttached ==
  ASSUME IInv, Attached,
         \/ WelcomeStep \/ PollFails \/ AcceptFails
         \/ ReceiveFails \/ OpenFails \/ ReplyFails
  PROVE  Attached'
  <1> USE ConstantsAssumption
      DEF IInv, TypeOK, Attached, GivenUpEmpty, Told, Owned, Underway,
          Acknowledged, clientVars, signalVars, closeVars, batchVars,
          threadVars, welcomeVars, Return, Finished
  <1>1. CASE \/ PollShutdown \/ PollReload \/ PollClose \/ PollWelcome
             \/ PollFails \/ DrainDone \/ SocketFailed \/ AcceptFails
             \/ JoinClosed \/ JoinDropped \/ WelcomeEnds
    <2>1. /\ wpc \in {"poll", "drain", "failed", "accept", "closing",
                     "joinall", "dropall"}
          /\ wpc' \in {"poll", "drain", "failed", "accept", "dropall", "done"}
          /\ wpc \in {"joinall", "dropall"} => wpc' \in {"dropall", "done"}
          /\ UNCHANGED <<sockets, ready, client, req, reply, environments,
                         epc, dropEvent>>
      BY <1>1 DEF PollShutdown, PollReload, PollClose, PollWelcome, PollFails,
         DrainDone, SocketFailed, AcceptFails, JoinClosed, JoinDropped,
         WelcomeEnds, AfterClose, SocketEvents
    <2> QED  BY <2>1 DEF ToldInStep, HandedOver, AckedIsAttached
  <1>2. ASSUME NEW e \in Clients, TakeClosed(e) PROVE Attached'
    <2>1. environments[req[e]] \in {None, e} /\ req[e] \in Names
      BY <1>2 DEF TakeClosed, CloseInStep, ThreadsAccounted
    <2>2. CASE environments[req[e]] = None
      BY <1>2, <2>2 DEF TakeClosed, ToldInStep, HandedOver, AckedIsAttached
    <2>3. CASE environments[req[e]] = e
      <3>1. sockets[e] = {}
        BY <1>2, <2>1, <2>3 DEF TakeClosed, CloseInStep, SocketsInStep,
           ToldInStep, Running
      <3>2. ToldInStep'
        BY <1>2, <2>1, <2>3, <3>1 DEF TakeClosed, ToldInStep, ThreadsAccounted
      <3>3. HandedOver'  BY <1>2, <2>1, <2>3 DEF TakeClosed, HandedOver
      <3>4. AckedIsAttached'
        BY <1>2, <2>1, <2>3, <3>1 DEF TakeClosed, AckedIsAttached
      <3>5. GivenUpEmpty'  BY <1>2, <2>1, <2>3, <3>1 DEF TakeClosed
      <3> QED  BY <1>2, <3>2, <3>3, <3>4, <3>5 DEF TakeClosed
    <2> QED  BY <2>1, <2>2, <2>3
  <1>3. CASE \/ \E c \in Clients : Accept(c)
             \/ ReceiveRequest \/ ReceiveFails \/ OpenFails
    <2>1. /\ wpc \in {"accept", "request", "open"}
          /\ wpc' \in {"poll", "request", "open"}
          /\ UNCHANGED <<sockets, ready, client, req, environments,
                         epc, dropEvent>>
          /\ \A c \in Clients : reply'[c] = "ok" => reply[c] = "ok"
      BY <1>3 DEF Accept, ReceiveRequest, ReceiveFails, OpenFails,
         DropClientFd, ReportFailure
    <2> QED  BY <2>1 DEF ToldInStep, HandedOver, AckedIsAttached
  <1>4. CASE FindOrSpawn
    <2>1. \A e \in Clients : Owned(e)' => Owned(e) \/ epc[e] = "none"
      <3>1. /\ wclient \in Clients /\ req[wclient] \in Names
            /\ epc[wclient] = "none"
        BY <1>4 DEF FindOrSpawn, WelcomeLocals, Handling, FreshConnections
      <3> DEFINE env == environments[req[wclient]]
      <3>2. env # None => Owned(env)  BY <3>1 DEF ThreadsAccounted
      <3> QED  BY <1>4, <3>1, <3>2 DEF FindOrSpawn, Spawn
    <2>2. ToldInStep'
      BY <1>4, <2>1 DEF FindOrSpawn, Spawn, ToldInStep, SocketsInStep,
         Running, FreshConnections
    <2>3. GivenUpEmpty'
      <3>1. wclient \in Clients /\ epc[wclient] = "none"
        BY <1>4 DEF FindOrSpawn, WelcomeLocals, FreshConnections
      <3>2. sockets[wclient] = {}  BY <3>1 DEF SocketsInStep, Running
      <3>3. CASE environments[req[wclient]] = None
        BY <1>4, <3>2, <3>3 DEF FindOrSpawn, Spawn
      <3>4. CASE environments[req[wclient]] # None
        BY <1>4, <3>4
           DEF FindOrSpawn, WelcomeLocals, Handling, ThreadsAccounted
      <3> QED  BY <3>3, <3>4
    <2> QED  BY <1>4, <2>2, <2>3 DEF FindOrSpawn, HandedOver, AckedIsAttached
  <1>5. CASE InsertSend
    <2>1. CASE epc[wenv] \in {"exited", "panicked"}
      <3>1. InsertFails  BY <1>5, <2>1 DEF InsertSend
      <3>2. ToldInStep'
        BY <1>5, <3>1 DEF InsertSend, InsertFails, ToldInStep, DropClientFd,
           ReportFailure, WelcomeLocals, Handling
      <3>3. HandedOver'
        BY <1>5, <3>1 DEF InsertSend, InsertFails, HandedOver
      <3>4. AckedIsAttached'
        BY <1>5, <3>1 DEF InsertSend, InsertFails, AckedIsAttached,
           ReportFailure
      <3> QED  BY <1>5, <3>1, <3>2, <3>3, <3>4
               DEF InsertSend, InsertFails, ReportFailure
    <2>2. CASE epc[wenv] \notin {"exited", "panicked"}
      <3>1. ToldInStep'  BY <1>5, <2>2 DEF InsertSend, ToldInStep
      <3>2. HandedOver'
        BY <1>5, <2>2 DEF InsertSend, HandedOver, AddInStep, WelcomeLocals,
           Handling
      <3> QED  BY <1>5, <2>2, <3>1, <3>2 DEF InsertSend, AckedIsAttached
    <2> QED  BY <2>1, <2>2
  <1>6. CASE InsertNotify
    <2>1. resp[wenv] = "none" /\ wenv \in Clients
      BY <1>6 DEF InsertNotify, AddInStep, WelcomeLocals, Handling
    <2> QED  BY <1>6, <2>1 DEF InsertNotify, ToldInStep, HandedOver,
                AckedIsAttached
  <1>7. CASE InsertAwait
    <2>1. CASE resp[wenv] = "Ok"
      <3>1. ToldInStep'
        BY <1>7, <2>1 DEF InsertAwait, ToldInStep, WelcomeLocals, Handling
      <3>2. HandedOver'  BY <1>7, <2>1 DEF InsertAwait, HandedOver
      <3>3. AckedIsAttached'
        BY <1>7, <2>1 DEF InsertAwait, AckedIsAttached, WelcomeLocals,
           Handling
      <3> QED  BY <1>7, <2>1, <3>1, <3>2, <3>3 DEF InsertAwait
    <2>2. CASE resp[wenv] # "Ok"
      <3>1. InsertFails  BY <1>7, <2>2 DEF InsertAwait
      <3>2. ToldInStep'
        BY <1>7, <2>2, <3>1 DEF InsertAwait, InsertFails, ToldInStep,
           DropClientFd, ReportFailure, WelcomeLocals, Handling
      <3>3. HandedOver'
        BY <1>7, <2>2, <3>1 DEF InsertAwait, InsertFails, HandedOver
      <3>4. AckedIsAttached'
        BY <1>7, <2>2, <3>1 DEF InsertAwait, InsertFails, AckedIsAttached,
           ReportFailure
      <3> QED  BY <1>7, <2>2, <3>1, <3>2, <3>3, <3>4
               DEF InsertAwait, InsertFails, ReportFailure
    <2> QED  BY <2>1, <2>2
  <1>8. CASE ReplyOk
    <2>1. /\ environments[req[wclient]] = wenv /\ req[wclient] \in Names
          /\ wclient \in Clients /\ wenv \in Clients
      BY <1>8 DEF ReplyOk, WelcomeLocals, Handling
    <2>2. AckedIsAttached'
      <3> SUFFICES ASSUME NEW c \in Clients, reply'[c] = "ok",
                          client[c] = "open", "wait" \notin Faults
                   PROVE  /\ environments[req[c]] # None
                          /\ c \in sockets[environments[req[c]]]
        BY <1>8 DEF ReplyOk, AckedIsAttached
      <3>1. CASE c = wclient  BY <1>8, <2>1, <3>1 DEF ReplyOk, HandedOver
      <3>2. CASE c # wclient
        BY <1>8, <3>2 DEF ReplyOk, AckedIsAttached
      <3> QED  BY <3>1, <3>2
    <2> QED  BY <1>8, <2>1, <2>2 DEF ReplyOk, ToldInStep, HandedOver
  <1>9. CASE JoinDiscarded
    BY <1>9 DEF JoinDiscarded, ToldInStep, HandedOver, AckedIsAttached
  <1>10. ASSUME NEW n \in Names, DropEnvironment(n) PROVE Attached'
    <2>1. \A e \in Clients : Owned(e)' => Owned(e) /\ e # environments[n]
      BY <1>10 DEF DropEnvironment, ThreadsAccounted
    <2>2. ToldInStep'
      BY <1>10, <2>1 DEF DropEnvironment, ToldInStep, ThreadsAccounted
    <2> QED  BY <1>10, <2>2 DEF DropEnvironment, HandedOver, AckedIsAttached
  <1>11. CASE ReplyFails
    <2>1. \A c \in Clients : reply'[c] = "ok" => reply[c] = "ok"
      BY <1>11 DEF ReplyFails, ReportFailure
    <2> QED  BY <1>11, <2>1 DEF ReplyFails, ToldInStep, HandedOver,
                                AckedIsAttached
  <1>12. CASE CloseClientFd
    BY <1>12 DEF CloseClientFd, ToldInStep, HandedOver, AckedIsAttached
  <1> QED
    BY <1>1, <1>2, <1>3, <1>4, <1>5, <1>6, <1>7, <1>8, <1>9, <1>10, <1>11,
       <1>12
       DEF WelcomeStep

\* A thread keeps the sockets of those that have not hung up, and leaves its
\* loop without any unless it is told to.  EpollWaitFails is the exception.
LEMMA ThreadAttached ==
  ASSUME IInv, Attached, NEW e \in Clients,
         \/ ThreadStep(e) \/ StartFails(e) \/ ThreadPanics(e)
         \/ \E c \in Clients : AddListenerFails(e, c) \/ ServeFails(e, c)
  PROVE  Attached'
  <1> USE ConstantsAssumption
      DEF IInv, TypeOK, Attached, GivenUpEmpty, Told, Owned, Underway,
          Acknowledged, clientVars, signalVars, closeVars, batchVars,
          threadVars, welcomeVars, Goto, ClearBatch
  <1>1. CASE Start(e) \/ StartFails(e) \/ AnnounceName(e) \/ AnnounceEvent(e)
    <2>1. ToldInStep'
      BY <1>1 DEF Start, StartFails, AnnounceName, AnnounceEvent, ToldInStep
    <2>2. HandedOver'
      BY <1>1, InHands DEF Start, StartFails, AnnounceName, AnnounceEvent,
         HandedOver
    <2> QED  BY <1>1, <2>1, <2>2 DEF Start, StartFails, AnnounceName,
                AnnounceEvent, AckedIsAttached
  <1>2. CASE EpollWait(e)
    BY <1>2 DEF EpollWait, ToldInStep, HandedOver, AckedIsAttached
  <1>3. CASE AddListener(e)
    <2>1. wpc = "await" /\ wenv = e /\ resp[e] = "none"
      BY <1>3 DEF AddListener, AddInStep
    <2>2. Owned(e)  BY <2>1
    <2>3. addChan[e] = {wclient}
      BY <1>3, <2>1 DEF AddListener, HandedOver
    <2>4. ToldInStep'  BY <1>3, <2>2 DEF AddListener, ToldInStep
    <2>5. HandedOver'  BY <1>3, <2>1, <2>2, <2>3 DEF AddListener, HandedOver
    <2>6. AckedIsAttached'  BY <1>3, <2>2 DEF AddListener, AckedIsAttached
    <2>7. GivenUpEmpty'  BY <1>3, <2>1, <2>2 DEF AddListener
    <2> QED  BY <1>3, <2>4, <2>5, <2>6, <2>7 DEF AddListener
  <1>4. ASSUME NEW c \in Clients, AddListenerFails(e, c) PROVE Attached'
    <2>1. wpc = "await" /\ wenv = e /\ resp[e] = "none"
      BY <1>4 DEF AddListenerFails, AddInStep
    <2> QED  BY <1>4, <2>1 DEF AddListenerFails, ToldInStep, HandedOver,
                AckedIsAttached
  <1>5. CASE HandleDrop(e)
    BY <1>5 DEF HandleDrop, ToldInStep, HandedOver, AckedIsAttached
  <1>6. ASSUME NEW c \in Clients, HandleHangUp(e, c) PROVE Attached'
    <2>1. client[c] = "closed"  BY <1>6 DEF HandleHangUp, SocketsInStep
    <2>2. ToldInStep'  BY <1>6 DEF HandleHangUp, ToldInStep
    <2>3. HandedOver'
      BY <1>6, <2>1, InHands DEF HandleHangUp, HandedOver
    <2>4. AckedIsAttached'
      BY <1>6, <2>1 DEF HandleHangUp, AckedIsAttached
    <2> QED  BY <1>6, <2>2, <2>3, <2>4 DEF HandleHangUp
  <1>7. ASSUME NEW c \in Clients, ServeOpenMutex(e, c) \/ ServeFails(e, c)
        PROVE  Attached'
    BY <1>7 DEF ServeOpenMutex, ServeFails, ToldInStep, HandedOver,
       AckedIsAttached
  <1>8. CASE ThreadEnds(e) \/ ThreadPanics(e)
    <2>1. epc[e] = "exit"
      BY <1>8 DEF ThreadEnds, ThreadPanics, DropLocals
    <2>2. Owned(e) => sockets[e] = {}  BY <2>1 DEF ToldInStep
    <2>3. ToldInStep'
      BY <1>8 DEF ThreadEnds, ThreadPanics, DropLocals, ToldInStep
    <2>4. HandedOver'
      BY <1>8, <2>1, <2>2, InHands
         DEF ThreadEnds, ThreadPanics, DropLocals, HandedOver
    <2>5. AckedIsAttached'
      <3>1. \A n \in Names : environments[n] = e => Owned(e)
        BY DEF ThreadsAccounted
      <3> QED
        BY <1>8, <2>2, <3>1
           DEF ThreadEnds, ThreadPanics, DropLocals, AckedIsAttached
    <2>6. GivenUpEmpty'
      <3>1. wpc \in {"closing", "discard", "insert", "notify", "await"}
              => wenv \in Clients
        BY DEF WelcomeLocals, Handling, Joining
      <3>2. \A f \in Clients : sockets'[f] \in {{}, sockets[f]}
        BY <1>8 DEF ThreadEnds, ThreadPanics, DropLocals
      <3>3. UNCHANGED <<wpc, wenv, resp, environments, req>>
        BY <1>8 DEF ThreadEnds, ThreadPanics, DropLocals
      <3> QED  BY <3>1, <3>2, <3>3
    <2> QED  BY <1>8, <2>3, <2>4, <2>5, <2>6
             DEF ThreadEnds, ThreadPanics, DropLocals
  <1> QED
    BY <1>1, <1>2, <1>3, <1>4, <1>5, <1>6, <1>7, <1>8 DEF ThreadStep

\* Where a connection is, from insert_socket on.
THEOREM Attachment == Spec => []AttachInStep
  <1>1. Init => AttachInStep
    BY InitAttached DEF AttachInStep
  <1>2. IInv /\ AttachInStep /\ [Next]_vars => AttachInStep'
    <2> SUFFICES ASSUME IInv, Attached, [Next]_vars, "wait" \notin Faults
                 PROVE  Attached'
      BY DEF AttachInStep
    <2>1. CASE UNCHANGED vars
      BY <2>1 DEF vars, clientVars, signalVars, threadVars, batchVars,
         welcomeVars, Attached, ToldInStep, Told, Owned, HandedOver,
         GivenUpEmpty, Underway, Acknowledged, AckedIsAttached
    <2>2. CASE Next
      BY <2>1, <2>2, OutsideAttached, WelcomeAttached, ThreadAttached
         DEF Next, FaultStep, EpollWaitFails, Over
    <2> QED  BY <2>1, <2>2
  <1> QED  BY <1>1, <1>2, Invariance, PTL DEF Spec

\* A client that was told OpenEnvironmentOk is attached to the environment of
\* its name until it hangs up, the welcome thread ends or epoll_wait fails.
THEOREM AckHonoured == Spec => []AckedIsAttached
  <1>1. AttachInStep => AckedIsAttached
    BY DEF AttachInStep, Attached, AckedIsAttached
  <1> QED  BY <1>1, Attachment, PTL
=============================================================================
