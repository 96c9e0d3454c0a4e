---------------------------- MODULE WakeupProofs ----------------------------
(***************************************************************************)
(* No wake-up between the welcome thread and a synchronization thread is   *)
(* lost.  This is the safety half of what the liveness properties say: the *)
(* rest is that threads that can run do.                                   *)
(***************************************************************************)
EXTENDS EnvironmentsProofs

\* The part of CloseWakes that IInv does not say.
NameSent ==
  closeRx => \A e \in Clients :
    Owned(e) /\ epc[e] \in {"signal", "exit", "exited", "panicked"}
      => e \in closeChan

Wakes == ListenerWakes /\ DropWakes /\ NameSent /\ HangUpWakes

\* With IInv that is all.
LEMMA WakesSuffices == ASSUME IInv, Wakes PROVE NoLostWakeup
  BY DEF IInv, Wakes, CloseInStep, NameSent, CloseWakes, NoLostWakeup

\* Initially nobody waits.
LEMMA InitWakes == ASSUME Init PROVE Wakes
  BY ConstantsAssumption
  DEF Init, Wakes, ListenerWakes, DropWakes, NameSent, HangUpWakes, Underway,
      Acknowledged, Joining, Serving, Owned

\* Clients and signals do not touch what the threads exchange.
LEMMA OutsideWakes ==
  ASSUME IInv, Wakes,
         \/ \E c \in Clients : ClientStep(c)
         \/ RaiseShutdown \/ RaiseReload \/ BreakWelcomeSocket
  PROVE  Wakes'
  <1> USE DEF clientVars, signalVars, closeVars, batchVars, threadVars,
          welcomeVars
  <1>1. /\ UNCHANGED <<closeRx, closeChan, sockets, ready, addChan, addEvent,
                       resp, wpc, wclient, wenv, environments, epc, dropEvent>>
        /\ \A c \in Clients : req'[c] = req[c] \/ req[c] = None
    <2>1. ASSUME NEW c \in Clients, NEW r, SendRequest(c, r)
          PROVE  \A d \in Clients : req'[d] = req[d] \/ req[d] = None
      BY <2>1 DEF SendRequest, IInv, TypeOK
    <2> QED
      BY <2>1 DEF ClientStep, Connect, SendRequest, SendOpenMutex, HangUp,
         StopReading, ReadAnswers, RaiseShutdown, RaiseReload,
         BreakWelcomeSocket
  <1>2. \A e \in Clients : epc[e] # "none" => req'[e] = req[e]
    BY <1>1, ConstantsAssumption DEF IInv, ThreadsAccounted
  <1>3. \A e \in Clients : Owned(e)' => Owned(e)
    BY <1>1, ConstantsAssumption
    DEF Owned, IInv, TypeOK, ThreadsAccounted
  <1> QED  BY <1>1, <1>2, <1>3
           DEF Wakes, ListenerWakes, DropWakes, NameSent, HangUpWakes,
               Underway, Acknowledged, Joining, Serving

\* The welcome thread's statements.
LEMMA WelcomeWakes ==
  ASSUME IInv, Wakes,
         \/ WelcomeStep \/ PollFails \/ AcceptFails
         \/ ReceiveFails \/ OpenFails \/ ReplyFails
  PROVE  Wakes'
  <1> USE ConstantsAssumption
      DEF IInv, TypeOK, Wakes, clientVars, signalVars, closeVars, batchVars,
          threadVars, welcomeVars, Return, Underway, Acknowledged
  <1>1. CASE \/ PollShutdown \/ PollReload \/ PollClose \/ PollWelcome
             \/ PollFails \/ DrainDone \/ SocketFailed \/ AcceptFails
             \/ JoinClosed \/ JoinDropped \/ WelcomeEnds \/ JoinDiscarded
             \/ \E c \in Clients : Accept(c)
             \/ ReceiveRequest \/ ReceiveFails \/ OpenFails
             \/ CloseClientFd
    <2>1. /\ wpc \notin {"insert", "notify", "await", "reply"}
          /\ wpc' \in {"poll", "drain", "failed", "accept", "request", "open",
                       "dropall", "done"}
          /\ UNCHANGED <<sockets, ready, req, environments, epc, dropEvent>>
          /\ closeRx' => closeRx /\ closeChan' = closeChan
      BY <1>1 DEF PollShutdown, PollReload, PollClose, PollWelcome, PollFails,
         DrainDone, SocketFailed, AcceptFails, JoinClosed, JoinDropped,
         WelcomeEnds, JoinDiscarded, Accept, ReceiveRequest, ReceiveFails,
         OpenFails, CloseClientFd, AfterClose, SocketEvents
    <2>2. \A e \in Clients : Owned(e)' => Owned(e)  BY <2>1 DEF Owned
    <2> QED  BY <2>1, <2>2
             DEF ListenerWakes, DropWakes, NameSent, HangUpWakes, Joining
  <1>2. ASSUME NEW e \in Clients, TakeClosed(e) PROVE Wakes'
    <2>1. environments[req[e]] \in {None, e} /\ req[e] \in Names
      BY <1>2 DEF TakeClosed, CloseInStep, ThreadsAccounted
    <2>2. ~Owned(e)'  BY <1>2, <2>1 DEF TakeClosed, Owned
    <2>3. \A f \in Clients : Owned(f)' => Owned(f)
      BY <1>2, <2>1 DEF TakeClosed, Owned
    <2>4. NameSent'  BY <1>2, <2>2, <2>3 DEF TakeClosed, NameSent
    <2>5. CASE environments[req[e]] = None
      BY <1>2, <2>3, <2>4, <2>5
         DEF TakeClosed, ListenerWakes, DropWakes, HangUpWakes, Joining
    <2>6. CASE environments[req[e]] = e
      <3>1. DropWakes'
        BY <1>2, <2>1, <2>2, <2>3, <2>6
           DEF TakeClosed, DropWakes, Joining, ThreadsAccounted
      <3>2. HangUpWakes'
        BY <1>2, <2>1, <2>6
           DEF TakeClosed, HangUpWakes, Serving, ThreadsAccounted
      <3> QED  BY <1>2, <2>1, <2>4, <2>6, <3>1, <3>2
               DEF TakeClosed, ListenerWakes
    <2> QED  BY <2>1, <2>5, <2>6
  <1>3. CASE FindOrSpawn
    <2>1. /\ wclient \in Clients /\ req[wclient] \in Names
          /\ epc[wclient] = "none" /\ wpc = "open" /\ wpc' = "insert"
      BY <1>3 DEF FindOrSpawn, WelcomeLocals, FreshConnections
    <2>2. \A e \in Clients :
            /\ epc[e] = "none" => epc'[e] \in {"none", "start"}
            /\ epc[e] # "none" => epc'[e] = epc[e]
      BY <1>3, <2>1 DEF FindOrSpawn, Spawn
    <2>3. \A e \in Clients : Owned(e)' => Owned(e) \/ epc[e] = "none"
      <3>1. environments[req[wclient]] # None
              => Owned(environments[req[wclient]])
        BY <2>1 DEF Owned, ThreadsAccounted
      <3> QED  BY <1>3, <2>1, <3>1 DEF FindOrSpawn, Spawn, Owned
    <2>4. DropWakes' /\ NameSent'
      BY <1>3, <2>1, <2>2, <2>3
         DEF FindOrSpawn, DropWakes, NameSent, Joining
    <2>5. HangUpWakes'
      <3>1. \A e \in Clients : epc[e] = "none" =>
              sockets[e] = {} /\ \A n \in Names : environments[n] # e
        BY DEF SocketsInStep, Running, ThreadsAccounted
      <3>2. \A e \in Clients : epc'[e] # "none" => req[e] \in Names
        BY <1>3, <2>1 DEF FindOrSpawn, Spawn, ThreadsAccounted
      <3> QED  BY <1>3, <2>1, <2>2, <3>1, <3>2
               DEF FindOrSpawn, HangUpWakes, Serving
    <2> QED  BY <2>1, <2>4, <2>5 DEF ListenerWakes
  <1>4. CASE InsertSend
    <2>1. wenv \in Clients /\ req[wenv] \in Names
      BY <1>4 DEF InsertSend, WelcomeLocals, Handling
    <2>2. CASE Finished(wenv)
      <3>1. InsertFails  BY <1>4, <2>2 DEF InsertSend
      <3>2. \A e \in Clients : Owned(e)' => Owned(e)
        BY <1>4, <3>1 DEF InsertSend, InsertFails, Owned
      <3>3. DropWakes'
        BY <1>4, <2>1, <2>2, <3>1, <3>2
           DEF InsertSend, InsertFails, DropWakes, Joining, Serving, Owned,
               Finished, DropClientFd
      <3> QED  BY <1>4, <3>1, <3>2, <3>3
               DEF InsertSend, InsertFails, ListenerWakes, NameSent,
                   HangUpWakes
    <2>3. CASE ~Finished(wenv)
      <3>1. \A e \in Clients : Owned(e)' => Owned(e)
        BY <1>4, <2>3 DEF InsertSend, Owned
      <3>2. ListenerWakes'
        BY <1>4, <2>1, <2>3 DEF InsertSend, ListenerWakes, AddInStep
      <3> QED  BY <1>4, <2>3, <3>1, <3>2
               DEF InsertSend, DropWakes, NameSent, HangUpWakes, Joining
    <2> QED  BY <2>2, <2>3
  <1>5. CASE InsertNotify
    <2>1. wenv \in Clients /\ resp[wenv] = "none"
      BY <1>5 DEF InsertNotify, WelcomeLocals, Handling, AddInStep
    <2>2. ListenerWakes'  BY <1>5, <2>1 DEF InsertNotify, ListenerWakes
    <2>3. \A e \in Clients : Owned(e)' => Owned(e)
      BY <1>5 DEF InsertNotify, Owned
    <2> QED  BY <1>5, <2>1, <2>2, <2>3
             DEF InsertNotify, DropWakes, NameSent, HangUpWakes, Joining
  <1>6. CASE InsertAwait
    <2>1. wenv \in Clients /\ req[wenv] \in Names
      BY <1>6 DEF InsertAwait, WelcomeLocals, Handling
    <2>2. CASE resp[wenv] = "Ok"
      <3>1. \A e \in Clients : Owned(e)' => Owned(e)
        BY <1>6, <2>1, <2>2 DEF InsertAwait, Owned
      <3>2. HangUpWakes'
        BY <1>6, <2>1, <2>2
           DEF InsertAwait, HangUpWakes, ThreadsAccounted, Serving
      <3> QED  BY <1>6, <2>2, <3>1, <3>2
               DEF InsertAwait, ListenerWakes, DropWakes, NameSent, Joining
    <2>3. CASE resp[wenv] # "Ok"
      <3>1. InsertFails  BY <1>6, <2>3 DEF InsertAwait
      <3>2. \A e \in Clients : Owned(e)' => Owned(e)
        BY <1>6, <2>3, <3>1 DEF InsertAwait, InsertFails, Owned
      <3>3. DropWakes'
        BY <1>6, <2>1, <2>3, <3>1, <3>2
           DEF InsertAwait, InsertFails, DropWakes, Joining, Owned,
               WelcomeLocals, Handling, DropClientFd
      <3> QED  BY <1>6, <2>3, <3>1, <3>2, <3>3
               DEF InsertAwait, InsertFails, ListenerWakes, NameSent,
                   HangUpWakes
    <2> QED  BY <2>2, <2>3
  <1>7. CASE ReplyOk \/ ReplyFails
    <2>1. \A e \in Clients : Owned(e)' => Owned(e)
      BY <1>7 DEF ReplyOk, ReplyFails, Owned
    <2> QED  BY <1>7, <2>1
             DEF ReplyOk, ReplyFails, ListenerWakes, DropWakes, NameSent,
                 HangUpWakes, Joining
  <1>8. ASSUME NEW n \in Names, DropEnvironment(n) PROVE Wakes'
    <2>1. \A e \in Clients : Owned(e)' => Owned(e) /\ e # environments[n]
      BY <1>8 DEF DropEnvironment, Owned, ThreadsAccounted
    <2>2. DropWakes'
      BY <1>8, <2>1 DEF DropEnvironment, DropWakes, ThreadsAccounted
    <2>3. HangUpWakes'
      BY <1>8 DEF DropEnvironment, HangUpWakes, ThreadsAccounted, Serving
    <2> QED  BY <1>8, <2>1, <2>2, <2>3
             DEF DropEnvironment, ListenerWakes, NameSent
  <1> QED  BY <1>1, <1>2, <1>3, <1>4, <1>5, <1>6, <1>7, <1>8 DEF WelcomeStep

\* An environment's thread, and what may fail in it.
LEMMA ThreadWakes ==
  ASSUME IInv, Wakes, NEW e \in Clients,
         \/ ThreadStep(e) \/ StartFails(e) \/ EpollWaitFails(e)
         \/ ThreadPanics(e)
         \/ \E c \in Clients : AddListenerFails(e, c) \/ ServeFails(e, c)
  PROVE  Wakes'
  <1> USE DEF IInv, TypeOK, Wakes, clientVars, signalVars, closeVars,
          batchVars, threadVars, welcomeVars, Goto, ClearBatch
  <1>1. /\ UNCHANGED <<req, wpc, wclient, wenv, environments, closeRx>>
        /\ \A f \in Clients \ {e} :
             /\ epc'[f] = epc[f] /\ ready'[f] = ready[f]
             /\ sockets'[f] = sockets[f] /\ addChan'[f] = addChan[f]
             /\ addEvent'[f] = addEvent[f] /\ dropEvent'[f] = dropEvent[f]
             /\ resp'[f] = resp[f]
        /\ closeChan \subseteq closeChan'
    BY DEF ThreadStep, Start, StartFails, EpollWait, EpollWaitFails,
       AddListener, AddListenerFails, HandleDrop, HandleHangUp,
       ServeOpenMutex, ServeFails, AnnounceName, AnnounceEvent, ThreadEnds,
       ThreadPanics, DropLocals
  <1>2. Owned(e)' <=> Owned(e)  BY <1>1 DEF Owned
  \* What is left to show is about e alone.
  <1> DEFINE Held == environments[req[e]] = e \/ (wenv = e /\ Acknowledged)
             Mine ==
               /\ wenv = e /\ Underway /\ epc[e] \in Serving =>
                    /\ addChan[e] = {wclient}
                    /\ wpc = "await" => addEvent[e] \/ "add" \in ready[e]
               /\ wenv = e /\ wpc \in Joining /\ epc[e] \in Serving =>
                    dropEvent[e] \/ "drop" \in ready[e]
               /\ dropEvent[e] \/ "drop" \in ready[e] => ~Owned(e)
               /\ epc[e] = "none" => ~dropEvent[e] /\ ready[e] = {}
               /\ /\ closeRx /\ Owned(e)
                  /\ epc[e] \in {"signal", "exit", "exited", "panicked"}
                  => e \in closeChan
               /\ epc[e] = "start" => sockets[e] = {}
               /\ epc[e] \in Serving /\ Held => sockets[e] # {}
  <1>3. SUFFICES Mine'
    <2>1. ASSUME Mine' PROVE ListenerWakes' /\ DropWakes'
      BY <1>1, <2>1, ConstantsAssumption
         DEF ListenerWakes, DropWakes, Underway, Joining, Owned,
             WelcomeLocals, Handling
    <2>2. ASSUME Mine' PROVE NameSent'
      BY <1>1, <2>2 DEF NameSent, Owned
    <2>3. ASSUME Mine' PROVE HangUpWakes'
      BY <1>1, <2>3 DEF HangUpWakes, Acknowledged
    <2> QED  BY <2>1, <2>2, <2>3
  <1>4. Mine
    BY DEF ListenerWakes, DropWakes, NameSent, HangUpWakes
  <1> HIDE DEF Wakes
  <1>5. CASE Start(e) \/ StartFails(e) \/ EpollWaitFails(e)
    BY <1>1, <1>2, <1>4, <1>5
       DEF Start, StartFails, EpollWaitFails, Underway, Acknowledged, Serving
  <1>6. CASE EpollWait(e)
    BY <1>1, <1>2, <1>4, <1>6
       DEF EpollWait, NoEvents, Underway, Acknowledged, Serving
  <1>7. CASE AddListener(e)
    <2>1. wpc = "await" /\ wenv = e /\ resp[e] = "none"
      BY <1>7 DEF AddListener, AddInStep
    <2>2. Owned(e)  BY <2>1 DEF Owned
    <2>3. addChan[e] = {wclient}
      BY <1>4, <1>7, <2>1 DEF AddListener, Underway, Serving
    <2>4. /\ resp'[e] = "Ok" /\ wclient \in sockets'[e]
          /\ epc[e] = "loop" /\ epc'[e] = "loop"
          /\ UNCHANGED dropEvent /\ ready'[e] \subseteq ready[e]
      BY <1>7, <2>2, <2>3 DEF AddListener
    <2> QED  BY <1>1, <1>2, <1>4, <2>1, <2>4 DEF Underway, Joining
  <1>8. ASSUME NEW c \in Clients, AddListenerFails(e, c) PROVE Mine'
    <2>1. wpc = "await" /\ wenv = e /\ resp[e] = "none"
      BY <1>8 DEF AddListenerFails, AddInStep
    <2> QED  BY <1>1, <1>2, <1>4, <1>8, <2>1
             DEF AddListenerFails, Underway, Acknowledged, Serving, Joining
  <1>9. CASE HandleDrop(e)
    BY <1>1, <1>2, <1>4, <1>9 DEF HandleDrop, Serving
  <1>10. ASSUME NEW c \in Clients, HandleHangUp(e, c) PROVE Mine'
    BY <1>1, <1>2, <1>4, <1>10
       DEF HandleHangUp, Underway, Acknowledged, Serving
  <1>11. ASSUME NEW c \in Clients, ServeOpenMutex(e, c) \/ ServeFails(e, c)
         PROVE  Mine'
    BY <1>1, <1>2, <1>4, <1>11
       DEF ServeOpenMutex, ServeFails, Underway, Acknowledged
  <1>12. CASE AnnounceName(e) \/ AnnounceEvent(e)
    BY <1>1, <1>2, <1>4, <1>12 DEF AnnounceName, AnnounceEvent, Serving
  <1>13. CASE ThreadEnds(e) \/ ThreadPanics(e)
    BY <1>1, <1>2, <1>4, <1>13
       DEF ThreadEnds, ThreadPanics, DropLocals, Serving
  <1> QED
    BY <1>5, <1>6, <1>7, <1>8, <1>9, <1>10, <1>11, <1>12, <1>13
       DEF ThreadStep

\* Whoever waits for the other side, the welcome thread for a response or in a
\* join, an environment for its removal, finds it at work, gone, or woken.
THEOREM Woken == Spec => []NoLostWakeup
  <1>1. Init => Wakes  BY InitWakes
  <1>2. IInv /\ Wakes /\ [Next]_vars => Wakes'
    <2> SUFFICES ASSUME IInv, Wakes, [Next]_vars PROVE Wakes'
      OBVIOUS
    <2>1. CASE UNCHANGED vars
      BY <2>1 DEF vars, clientVars, closeVars, threadVars, batchVars,
         welcomeVars, Wakes, ListenerWakes, DropWakes, NameSent, HangUpWakes,
         Underway, Acknowledged, Owned
    <2>2. CASE Next
      BY <2>1, <2>2, OutsideWakes, WelcomeWakes, ThreadWakes
         DEF Next, FaultStep, Over
    <2> QED  BY <2>1, <2>2
  <1>3. IInv /\ Wakes => NoLostWakeup  BY WakesSuffices
  <1> QED  BY <1>1, <1>2, <1>3, Invariance, PTL DEF Spec
=============================================================================
