--------------------------- MODULE ServiceProofs ---------------------------
(***************************************************************************)
(* The welcome thread and the synchronization threads implement Service.   *)
(* Most of their steps are not noticed by clients; each of the others is a *)
(* step of Service, whose guard follows from what IInv, LingerInStep and   *)
(* AttachInStep say of a connection on its way.                            *)
(***************************************************************************)
EXTENDS AttachmentProofs

InStepInv == IInv /\ LingerInStep /\ AttachInStep

\* A step of Service, or none.
Serves == Offered!Next \/ UNCHANGED Offered!vars

\* What a step must leave alone to go unnoticed.
LEMMA Unnoticed ==
  ASSUME UNCHANGED <<req, sockets, mutex>>,
         \A e \in Clients : /\ Running(e)' <=> Running(e)
                            /\ Finished(e)' <=> Finished(e)
                            /\ reply'[e] = "ok" <=> reply[e] = "ok"
                            /\ client'[e] = "closed" <=> client[e] = "closed",
         wpc' \in {"dropall", "joinall", "done"}
           <=> wpc \in {"dropall", "joinall", "done"}
  PROVE  Serves
  <1>1. /\ {e \in Clients : Running(e)}' = {e \in Clients : Running(e)}
        /\ {e \in Clients : Finished(e)}' = {e \in Clients : Finished(e)}
        /\ {c \in Clients : reply[c] = "ok"}'
             = {c \in Clients : reply[c] = "ok"}
        /\ {c \in Clients : client[c] = "closed"}'
             = {c \in Clients : client[c] = "closed"}
    OBVIOUS
  <1>2. (wpc \in {"dropall", "joinall", "done"})'
          = (wpc \in {"dropall", "joinall", "done"})
    OBVIOUS
  <1> QED  BY <1>1, <1>2 DEF Serves, Offered!vars

\* Clients ask and hang up; the rest of what they do, and signals, Service
\* does not speak of.
LEMMA OutsideServes ==
  ASSUME IInv,
         \/ \E c \in Clients : ClientStep(c)
         \/ RaiseShutdown \/ RaiseReload \/ BreakWelcomeSocket
  PROVE  Serves
  <1> USE DEF IInv, TypeOK, clientVars, signalVars, closeVars, batchVars,
          threadVars, welcomeVars
  <1>1. ASSUME NEW c \in Clients,
               Connect(c) \/ SendOpenMutex(c) \/ StopReading(c)
               \/ ReadAnswers(c)
        PROVE  Serves
    BY <1>1, Unnoticed DEF Connect, SendOpenMutex, StopReading, ReadAnswers,
       Running, Finished
  <1>2. ASSUME NEW c \in Clients, HangUp(c) PROVE Serves
    <2>1. Offered!HangUp(c)
      BY <1>2 DEF HangUp, Offered!HangUp, Running, Finished
    <2> QED  BY <2>1 DEF Serves, Offered!Next
  <1>3. ASSUME NEW c \in Clients, NEW r \in Names \cup {Malformed},
               SendRequest(c, r)
        PROVE  Serves
    <2>1. Offered!Ask(c, r)
      BY <1>3 DEF SendRequest, Offered!Ask, Running, Finished
    <2> QED  BY <2>1 DEF Serves, Offered!Next
  <1>4. CASE RaiseShutdown \/ RaiseReload \/ BreakWelcomeSocket
    BY <1>4, Unnoticed DEF RaiseShutdown, RaiseReload, BreakWelcomeSocket,
       Running, Finished
  <1> QED  BY <1>1, <1>2, <1>3, <1>4 DEF ClientStep

\* Where the welcome thread leaves its loop, the daemon stops.
LEMMA StopServes ==
  ASSUME UNCHANGED <<req, sockets, mutex, epc, reply, client>>,
         wpc' = "dropall"
  PROVE  Serves
  <1>1. Offered!Stop  BY DEF Offered!Stop, Running, Finished
  <1> QED  BY <1>1 DEF Serves, Offered!Next

\* The welcome thread opens environments, tells clients and stops.
LEMMA WelcomeServes ==
  ASSUME InStepInv,
         \/ WelcomeStep \/ PollFails \/ AcceptFails
         \/ ReceiveFails \/ OpenFails \/ ReplyFails
  PROVE  Serves
  <1> USE ConstantsAssumption
      DEF InStepInv, IInv, TypeOK, clientVars, signalVars, closeVars,
          batchVars, threadVars, welcomeVars
  <1>1. CASE PollShutdown \/ PollReload \/ PollFails
    BY <1>1, StopServes DEF PollShutdown, PollReload, PollFails, Return
  <1>2. CASE JoinClosed \/ JoinDiscarded
    <2>1. CASE epc[wenv] = "panicked"
      BY <1>2, <2>1, StopServes DEF JoinClosed, JoinDiscarded, Return
    <2>2. CASE epc[wenv] # "panicked"
      BY <1>2, <2>2, Unnoticed DEF JoinClosed, JoinDiscarded, Running,
         Finished
    <2> QED  BY <2>1, <2>2
  <1>3. CASE \/ PollClose \/ PollWelcome \/ DrainDone \/ SocketFailed
             \/ AcceptFails
             \/ \E e \in Clients : TakeClosed(e)
             \/ \E c \in Clients : Accept(c)
             \/ InsertNotify
             \/ \E n \in Names : DropEnvironment(n)
             \/ JoinDropped \/ WelcomeEnds \/ CloseClientFd
    <2>1. /\ UNCHANGED <<req, sockets, mutex, epc, reply, client>>
          /\ wpc' \in {"dropall", "joinall", "done"}
               <=> wpc \in {"dropall", "joinall", "done"}
      BY <1>3 DEF PollClose, PollWelcome, DrainDone, SocketFailed,
         AcceptFails, TakeClosed, Accept, InsertNotify, DropEnvironment,
         JoinDropped, WelcomeEnds, CloseClientFd, AfterClose, SocketEvents
    <2> QED  BY <2>1, Unnoticed DEF Running, Finished
  <1>4. CASE \/ ReceiveRequest \/ ReceiveFails \/ OpenFails
             \/ InsertSend \/ InsertAwait \/ ReplyFails
    <2>1. wclient \in Clients /\ reply[wclient] # "ok"
      BY <1>4 DEF ReceiveRequest, ReceiveFails, OpenFails, InsertSend,
         InsertAwait, ReplyFails, WelcomeLocals, Handling, SocketsInStep
    <2>2. /\ UNCHANGED <<req, sockets, mutex, epc, client>>
          /\ \A c \in Clients : reply'[c] = "ok" <=> reply[c] = "ok"
      BY <1>4, <2>1 DEF ReceiveRequest, ReceiveFails, OpenFails, InsertSend,
         InsertAwait, ReplyFails, InsertFails, ReportFailure
    <2>3. /\ wpc \notin {"dropall", "joinall", "done"}
          /\ wpc' \notin {"dropall", "joinall", "done"}
      BY <1>4 DEF ReceiveRequest, ReceiveFails, OpenFails, InsertSend,
         InsertAwait, ReplyFails, InsertFails
    <2> QED  BY <2>2, <2>3, Unnoticed DEF Running, Finished
  <1>5. CASE FindOrSpawn
    <2>1. /\ wclient \in Clients /\ req[wclient] \in Names
          /\ epc[wclient] = "none" /\ wpc = "open" /\ wpc' = "insert"
      BY <1>5 DEF FindOrSpawn, WelcomeLocals, FreshConnections
    <2>2. CASE environments[req[wclient]] = None
      <3>1. \A f \in Clients : Running(f) => req[f] # req[wclient]
        BY <2>1, <2>2 DEF ThreadsAccounted, Handling, Joining
      <3>2. epc' = [epc EXCEPT ![wclient] = "start"]
        BY <1>5, <2>2 DEF FindOrSpawn, Spawn
      <3>3. /\ {e \in Clients : Running(e)}'
                 = {e \in Clients : Running(e)} \cup {wclient}
            /\ {e \in Clients : Finished(e)}' = {e \in Clients : Finished(e)}
            /\ wclient \notin {e \in Clients : Running(e)}
                                \cup {e \in Clients : Finished(e)}
        BY <2>1, <3>2 DEF Running, Finished
      <3>4. UNCHANGED <<req, sockets, mutex, reply, client>>
        BY <1>5 DEF FindOrSpawn
      <3>5. Offered!Open(wclient)
        BY <2>1, <3>1, <3>3, <3>4 DEF Offered!Open
      <3> QED  BY <2>1, <3>5 DEF Serves, Offered!Next
    <2>3. CASE environments[req[wclient]] # None
      BY <1>5, <2>1, <2>3, Unnoticed DEF FindOrSpawn, Running, Finished
    <2> QED  BY <2>2, <2>3
  <1>6. CASE ReplyOk
    <2>1. wclient \in Clients /\ wenv \in Clients
      BY <1>6 DEF ReplyOk, WelcomeLocals, Handling
    <2>2. PICK c \in Clients : c = wclient  BY <2>1
    <2>3. \/ "wait" \in Faults \/ client[c] = "closed"
          \/ Running(wenv) /\ c \in sockets[wenv]
      BY <1>6, <2>1, <2>2 DEF ReplyOk, AttachInStep, Attached, HandedOver,
         Acknowledged, SocketsInStep
    <2>4. /\ {d \in Clients : reply[d] = "ok"}'
               = {d \in Clients : reply[d] = "ok"} \cup {c}
          /\ UNCHANGED <<req, sockets, mutex, epc, client>>
          /\ wpc = "reply" /\ wpc' = "return"
      BY <1>6, <2>2 DEF ReplyOk
    <2>5. Offered!Tell(c)
      BY <2>1, <2>3, <2>4 DEF Offered!Tell, Running, Finished
    <2> QED  BY <2>5 DEF Serves, Offered!Next
  <1> QED  BY <1>1, <1>2, <1>3, <1>4, <1>5, <1>6 DEF WelcomeStep

\* A thread that ends closes its environment: it has no sockets left, or the
\* daemon stops, or epoll_wait failed.
LEMMA EndServes ==
  ASSUME InStepInv, NEW e \in Clients, ThreadEnds(e) \/ ThreadPanics(e)
  PROVE  Serves
  <1> USE ConstantsAssumption
      DEF InStepInv, IInv, TypeOK, clientVars, signalVars, closeVars,
          batchVars, threadVars, welcomeVars, Goto
  <1>1. epc[e] = "exit" /\ epc'[e] \in {"exited", "panicked"}
    BY DEF ThreadEnds, ThreadPanics, DropLocals
  <1>2. "wait" \in Faults \/ sockets[e] = {}
        \/ wpc \in {"dropall", "joinall", "done"}
    <2> SUFFICES ASSUME "wait" \notin Faults, sockets[e] # {}
                 PROVE  wpc = "joinall"
      OBVIOUS
    <2>1. Running(e) /\ Told(e)  BY <1>1 DEF Running, Told
    <2>2. ~Owned(e)  BY <2>1 DEF AttachInStep, Attached, ToldInStep
    <2>3. req[e] \in Names  BY <1>1 DEF ThreadsAccounted
    <2>4. wenv = e /\ wpc \in Joining
      BY <2>1, <2>2, <2>3 DEF ThreadsAccounted, WelcomeLocals, Owned,
         Handling, Joining
    <2> QED  BY <2>4 DEF AttachInStep, Attached, GivenUpEmpty, Joining
  <1>3. /\ {f \in Clients : Running(f)}' = {f \in Clients : Running(f)} \ {e}
        /\ {f \in Clients : Finished(f)}'
             = {f \in Clients : Finished(f)} \cup {e}
    <2>1. \A f \in Clients \ {e} : epc'[f] = epc[f]
      BY DEF ThreadEnds, ThreadPanics, DropLocals
    <2> QED  BY <1>1, <2>1 DEF Running, Finished
  <1>4. /\ sockets' = [sockets EXCEPT ![e] = {}]
        /\ UNCHANGED <<req, reply, client, mutex, wpc>>
    BY DEF ThreadEnds, ThreadPanics, DropLocals
  <1>5. Offered!Close(e)
    BY <1>1, <1>2, <1>3, <1>4 DEF Offered!Close, Running
  <1> QED  BY <1>5 DEF Serves, Offered!Next

\* A thread attaches the connection it is sent, gives its mutex to those it
\* has, and detaches those that hung up.
LEMMA ThreadServes ==
  ASSUME InStepInv, NEW e \in Clients,
         \/ ThreadStep(e) \/ StartFails(e) \/ EpollWaitFails(e)
         \/ ThreadPanics(e)
         \/ \E c \in Clients : AddListenerFails(e, c) \/ ServeFails(e, c)
  PROVE  Serves
  <1> USE DEF InStepInv, IInv, TypeOK, clientVars, signalVars, closeVars,
          batchVars, threadVars, welcomeVars, Goto
  <1>1. CASE \/ Start(e) \/ StartFails(e) \/ EpollWait(e)
             \/ EpollWaitFails(e) \/ HandleDrop(e)
             \/ AnnounceName(e) \/ AnnounceEvent(e)
             \/ \E c \in Clients : AddListenerFails(e, c) \/ ServeFails(e, c)
    <2>1. /\ UNCHANGED <<req, sockets, mutex, reply, client, wpc>>
          /\ \A f \in Clients : /\ Running(f)' <=> Running(f)
                                /\ Finished(f)' <=> Finished(f)
      BY <1>1 DEF Start, StartFails, EpollWait, EpollWaitFails, HandleDrop,
         AnnounceName, AnnounceEvent, AddListenerFails, ServeFails, Running,
         Finished
    <2> QED  BY <2>1, Unnoticed
  <1>2. CASE AddListener(e)
    <2>1. wpc = "await" /\ wenv = e /\ resp[e] = "none"
      BY <1>2 DEF AddListener, AddInStep
    <2>2. wclient \in Clients /\ req[wclient] = req[e]
      BY <2>1 DEF WelcomeLocals, Handling
    <2>3. PICK c \in Clients : c = wclient  BY <2>2
    <2>4. addChan[e] = {} \/ addChan[e] = {c}  BY <2>3 DEF AddInStep
    <2>5. /\ sockets' = [sockets EXCEPT ![e] = @ \cup addChan[e]]
          /\ UNCHANGED <<req, reply, client, mutex, wpc, epc>>
      BY <1>2, <2>1 DEF AddListener, Owned
    <2>6. CASE addChan[e] = {}
      <3>1. sockets' = sockets  BY <2>5, <2>6
      <3> QED  BY <2>5, <3>1, Unnoticed DEF Running, Finished
    <2>7. CASE addChan[e] = {c}
      <3>1. Running(e)  BY <1>2 DEF AddListener, Running
      <3>2. mutex[c] = None  BY <2>1, <2>3 DEF SocketsInStep
      <3>3. \A f \in Clients : c \notin sockets[f]
        BY <2>1, <2>3 DEF LingerInStep, Acknowledged, SocketsInStep
      <3>4. Offered!Attach(c, e)
        BY <2>1, <2>2, <2>3, <2>5, <2>7, <3>1, <3>2, <3>3
           DEF Offered!Attach, Running, Finished
      <3> QED  BY <3>4 DEF Serves, Offered!Next
    <2> QED  BY <2>4, <2>6, <2>7
  <1>3. ASSUME NEW c \in Clients, HandleHangUp(e, c) PROVE Serves
    <2>1. client[c] = "closed"  BY <1>3 DEF HandleHangUp, SocketsInStep
    <2>2. /\ sockets' = [sockets EXCEPT ![e] = @ \ {c}]
          /\ UNCHANGED <<req, reply, client, mutex, wpc>>
          /\ \A f \in Clients : /\ Running(f)' <=> Running(f)
                                /\ Finished(f)' <=> Finished(f)
      BY <1>3 DEF HandleHangUp, Running, Finished
    <2>3. Offered!Leave(c, e)  BY <2>1, <2>2 DEF Offered!Leave
    <2> QED  BY <2>3 DEF Serves, Offered!Next
  <1>4. ASSUME NEW c \in Clients, ServeOpenMutex(e, c) PROVE Serves
    <2>1. Running(e) /\ c \in sockets[e] /\ mutex[c] \in {None, e}
      BY <1>4 DEF ServeOpenMutex, SocketsInStep, Running
    <2>2. Offered!Give(c, e)
      BY <1>4, <2>1 DEF ServeOpenMutex, Offered!Give, Running, Finished
    <2> QED  BY <2>2 DEF Serves, Offered!Next
  <1>5. CASE ThreadEnds(e) \/ ThreadPanics(e)  BY <1>5, EndServes
  <1> QED  BY <1>1, <1>2, <1>3, <1>4, <1>5 DEF ThreadStep

\* To its clients the daemon is a Service: whatever the welcome thread, the
\* synchronization threads, other clients, signals and failing calls do in
\* between, an environment name is served once at a time, a client is attached
\* where its name is served, is told so only then, and is detached only when
\* it hangs up, the daemon stops or an environment's epoll_wait fails.
THEOREM KeepsService == Spec => IsService
  <1>1. Init => Offered!Init
    BY DEF Init, Offered!Init, Running, Finished
  <1>2. InStepInv /\ [Next]_vars => [Offered!Next]_(Offered!vars)
    <2> SUFFICES ASSUME InStepInv, [Next]_vars PROVE Serves
      BY DEF Serves
    <2>1. CASE Over \/ UNCHANGED vars
      BY <2>1, Unnoticed DEF Over, vars, clientVars, threadVars, welcomeVars,
         Running, Finished
    <2>2. CASE Next
      BY <2>1, <2>2, OutsideServes, WelcomeServes, ThreadServes
         DEF Next, FaultStep, InStepInv
    <2> QED  BY <2>1, <2>2
  <1>3. Spec => []InStepInv
    BY Invariance, Lingering, Attachment, PTL DEF InStepInv
  <1> QED  BY <1>1, <1>2, <1>3, PTL DEF Spec, IsService, Offered!Spec
=============================================================================
