--------------------------- MODULE WelcomeProofs ---------------------------
(***************************************************************************)
(* The welcome thread with its environments implements WelcomeThread: one  *)
(* step for each action of the detailed specification, which is a step of  *)
(* the abstract one or leaves all that the abstract one says unchanged.    *)
(***************************************************************************)
EXTENDS EnvironmentsProofs

\* Only a thread that is on its way out has panicked.
PanicEnds == wpanic => wpc \in {"dropall", "joinall", "done"}

\* What main sees does not change.
Unseen == UNCHANGED <<WelcomeState, request, WelcomeEvents>>

\* A step of the loop that does not leave it is not seen.
LEMMA LoopUnseen ==
  ASSUME PanicEnds,
         wpc \notin {"dropall", "joinall", "done"},
         wpc' \notin {"dropall", "joinall", "done"},
         UNCHANGED <<wpanic, request, shutdownEvent, reloadEvent>>
  PROVE  Unseen /\ PanicEnds'
  BY DEF Unseen, PanicEnds, WelcomeState, WelcomeEvents

\* Neither is one that has nothing to do with the welcome thread.
LEMMA ElsewhereUnseen ==
  ASSUME PanicEnds,
         UNCHANGED <<wpc, wpanic, request, shutdownEvent, reloadEvent>>
  PROVE  Unseen /\ PanicEnds'
  BY DEF Unseen, PanicEnds, WelcomeState, WelcomeEvents

\* The welcome thread's own steps.
LEMMA WelcomeStepImplements ==
  ASSUME TypeOK, PanicEnds, WelcomeStep
  PROVE  (Welcome!Next \/ Unseen) /\ PanicEnds'
  <1> USE DEF clientVars, signalVars, closeVars, threadVars, welcomeVars
  <1>1. CASE PollShutdown
    <2>1. Welcome!ServeShutdown /\ PanicEnds'
      BY <1>1 DEF PollShutdown, Return, Send, PanicEnds, TypeOK, WelcomeState,
         WelcomeEvents, Welcome!ServeShutdown, Welcome!Send
    <2> QED  BY <2>1 DEF Welcome!Next
  <1>2. CASE PollReload
    <2>1. Welcome!ServeReload /\ PanicEnds'
      BY <1>2 DEF PollReload, Return, Send, PanicEnds, TypeOK, WelcomeState,
         WelcomeEvents, Welcome!ServeReload, Welcome!Send
    <2> QED  BY <2>1 DEF Welcome!Next
  <1>3. CASE PollClose  BY <1>3, LoopUnseen DEF PollClose
  <1>4. CASE PollWelcome
    <2>1. wpc' \in {"failed", "accept", "poll"}
      BY <1>4 DEF PollWelcome, AfterClose, SocketEvents, TypeOK
    <2> QED  BY <1>4, <2>1, LoopUnseen DEF PollWelcome
  <1>5. ASSUME NEW e \in Clients, TakeClosed(e)
        PROVE  (Welcome!Next \/ Unseen) /\ PanicEnds'
    BY <1>5, LoopUnseen DEF TakeClosed
  <1>6. CASE JoinClosed
    <2>1. CASE epc[wenv] = "panicked"
      <3>1. Welcome!Panic /\ PanicEnds'
        BY <1>6, <2>1 DEF JoinClosed, Return, Send, PanicEnds, WelcomeState,
           WelcomeEvents, Welcome!Panic
      <3> QED  BY <3>1 DEF Welcome!Next
    <2>2. CASE epc[wenv] # "panicked"
      BY <1>6, <2>2, LoopUnseen DEF JoinClosed
    <2> QED  BY <2>1, <2>2
  <1>7. CASE DrainDone
    <2>1. wpc' \in {"failed", "accept", "poll"}
      BY <1>7 DEF DrainDone, AfterClose, TypeOK
    <2> QED  BY <1>7, <2>1, LoopUnseen DEF DrainDone
  <1>8. CASE SocketFailed
    <2>1. Welcome!Break /\ PanicEnds'
      BY <1>8 DEF SocketFailed, Send, PanicEnds, WelcomeState, WelcomeEvents,
         Welcome!Break, Welcome!Send
    <2> QED  BY <2>1 DEF Welcome!Next
  <1>9. ASSUME NEW c \in Clients, Accept(c)
        PROVE  (Welcome!Next \/ Unseen) /\ PanicEnds'
    BY <1>9, LoopUnseen DEF Accept
  <1>10. CASE ReceiveRequest  BY <1>10, LoopUnseen DEF ReceiveRequest
  <1>11. CASE FindOrSpawn  BY <1>11, LoopUnseen DEF FindOrSpawn
  <1>12. CASE InsertSend  BY <1>12, LoopUnseen DEF InsertSend, InsertFails
  <1>13. CASE InsertNotify  BY <1>13, LoopUnseen DEF InsertNotify
  <1>14. CASE InsertAwait  BY <1>14, LoopUnseen DEF InsertAwait, InsertFails
  <1>15. CASE ReplyOk \/ CloseClientFd
    BY <1>15, LoopUnseen DEF ReplyOk, CloseClientFd
  <1>16. CASE JoinDiscarded
    <2>1. CASE epc[wenv] = "panicked"
      <3>1. Welcome!Panic /\ PanicEnds'
        BY <1>16, <2>1 DEF JoinDiscarded, Return, Send, PanicEnds,
           WelcomeState, WelcomeEvents, Welcome!Panic
      <3> QED  BY <3>1 DEF Welcome!Next
    <2>2. CASE epc[wenv] # "panicked"
      BY <1>16, <2>2, LoopUnseen DEF JoinDiscarded
    <2> QED  BY <2>1, <2>2
  <1>17. ASSUME NEW n \in Names, DropEnvironment(n)
         PROVE  (Welcome!Next \/ Unseen) /\ PanicEnds'
    BY <1>17
    DEF DropEnvironment, PanicEnds, Unseen, WelcomeState, WelcomeEvents
  <1>18. CASE JoinDropped
    <2>1. CASE epc[wenv] = "panicked" /\ ~wpanic
      <3>1. Welcome!Panic /\ PanicEnds'
        BY <1>18, <2>1 DEF JoinDropped, PanicEnds, WelcomeState,
           WelcomeEvents, Welcome!Panic
      <3> QED  BY <3>1 DEF Welcome!Next
    <2>2. CASE ~(epc[wenv] = "panicked" /\ ~wpanic)
      BY <1>18, <2>2
      DEF JoinDropped, PanicEnds, Unseen, WelcomeState, WelcomeEvents
    <2> QED  BY <2>1, <2>2
  <1>19. CASE WelcomeEnds
    <2>1. Welcome!End /\ PanicEnds'
      BY <1>19 DEF WelcomeEnds, PanicEnds, TypeOK, WelcomeState,
         WelcomeEvents, Welcome!End
    <2> QED  BY <2>1 DEF Welcome!Next
  <1> QED  BY <1>1, <1>2, <1>3, <1>4, <1>5, <1>6, <1>7, <1>8, <1>9, <1>10,
              <1>11, <1>12, <1>13, <1>14, <1>15, <1>16, <1>17, <1>18, <1>19
           DEF WelcomeStep

\* The failures that the model provides for.
LEMMA FaultStepImplements ==
  ASSUME TypeOK, PanicEnds, FaultStep
  PROVE  (Welcome!Next \/ Unseen) /\ PanicEnds'
  <1> USE DEF clientVars, signalVars, closeVars, threadVars, welcomeVars
  <1>1. CASE PollFails
    <2>1. Welcome!Fail /\ PanicEnds'
      BY <1>1 DEF PollFails, Return, Send, PanicEnds, WelcomeState,
         WelcomeEvents, Welcome!Fail, Welcome!Send
    <2> QED  BY <2>1 DEF Welcome!Next
  <1>2. CASE AcceptFails  BY <1>2, LoopUnseen DEF AcceptFails
  <1>3. CASE ReceiveFails  BY <1>3, LoopUnseen DEF ReceiveFails
  <1>4. CASE OpenFails \/ ReplyFails
    BY <1>4, LoopUnseen DEF OpenFails, ReplyFails
  <1>5. CASE BreakWelcomeSocket
    BY <1>5, ElsewhereUnseen DEF BreakWelcomeSocket
  <1>6. ASSUME NEW e \in Clients,
               \/ StartFails(e) \/ EpollWaitFails(e) \/ ThreadPanics(e)
               \/ \E c \in Clients : AddListenerFails(e, c) \/ ServeFails(e, c)
        PROVE  (Welcome!Next \/ Unseen) /\ PanicEnds'
    BY <1>6, ElsewhereUnseen
    DEF StartFails, EpollWaitFails, ThreadPanics, DropLocals,
        AddListenerFails, ServeFails
  <1> QED  BY <1>1, <1>2, <1>3, <1>4, <1>5, <1>6 DEF FaultStep

\* Everything else happens out of main's sight, but for the signals.
LEMMA OtherStepImplements ==
  ASSUME PanicEnds,
         \/ \E e \in Clients : ThreadStep(e)
         \/ \E c \in Clients : ClientStep(c)
         \/ RaiseShutdown \/ RaiseReload \/ Over \/ UNCHANGED vars
  PROVE  (Welcome!Next \/ Unseen) /\ PanicEnds'
  <1> USE DEF clientVars, signalVars, closeVars, threadVars, welcomeVars
  <1>1. ASSUME NEW e \in Clients, ThreadStep(e) PROVE Unseen /\ PanicEnds'
    BY <1>1, ElsewhereUnseen
    DEF ThreadStep, Start, EpollWait, AddListener, HandleDrop, HandleHangUp,
        ServeOpenMutex, AnnounceName, AnnounceEvent, ThreadEnds, DropLocals
  <1>2. ASSUME NEW c \in Clients, ClientStep(c) PROVE Unseen /\ PanicEnds'
    BY <1>2, ElsewhereUnseen
    DEF ClientStep, Connect, SendOpenMutex, HangUp, SendRequest, StopReading,
        ReadAnswers
  <1>3. CASE RaiseShutdown
    <2>1. Welcome!Raise("shutdown") /\ PanicEnds'
      BY <1>3 DEF RaiseShutdown, PanicEnds, WelcomeState, WelcomeEvents,
         Welcome!Raise
    <2> QED  BY <2>1 DEF Welcome!Next
  <1>4. CASE RaiseReload
    <2>1. Welcome!Raise("reload") /\ PanicEnds'
      BY <1>4 DEF RaiseReload, PanicEnds, WelcomeState, WelcomeEvents,
         Welcome!Raise
    <2> QED  BY <2>1 DEF Welcome!Next
  <1>5. CASE Over \/ UNCHANGED vars
    BY <1>5, ElsewhereUnseen DEF Over, vars
  <1> QED  BY <1>1, <1>2, <1>3, <1>4, <1>5

\* To main, the welcome thread with all it owns is a WelcomeThread: whatever
\* clients, environments and their threads do, it ends only when it is asked
\* to, when it fails or with a panic, and asks main for one thing.
THEOREM Implements == Spec => IsWelcomeThread
  <1>1. Init => Welcome!Init /\ PanicEnds
    BY DEF Init, Welcome!Init, WelcomeState, PanicEnds
  <1>2. IInv /\ PanicEnds /\ [Next]_vars
          => [Welcome!Next]_(Welcome!vars) /\ PanicEnds'
    <2> SUFFICES ASSUME IInv, PanicEnds, [Next]_vars
                 PROVE  (Welcome!Next \/ Unseen) /\ PanicEnds'
      BY DEF Welcome!vars, Unseen
    <2> QED  BY WelcomeStepImplements, FaultStepImplements,
                OtherStepImplements DEF Next, IInv
  <1> QED  BY <1>1, <1>2, Invariance, PTL
           DEF Spec, IsWelcomeThread, Welcome!Spec
=============================================================================
