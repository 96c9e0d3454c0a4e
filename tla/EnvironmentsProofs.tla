------------------------- MODULE EnvironmentsProofs -------------------------
(***************************************************************************)
(* IInv is inductive: one lemma for each group of actions of Next, in them *)
(* one step for each action and, under it, one for each part of IInv that  *)
(* the action can disturb.  The theorems at the end are what it implies.   *)
(***************************************************************************)
EXTENDS Environments, TLAPS

\* Initially every part of the inductive invariant holds.
LEMMA InitIInv == ASSUME Init PROVE IInv
  <1> USE ConstantsAssumption DEF Init, Running, Owned
  <1>1. TypeOK  BY DEF TypeOK, WelcomePcs, ThreadPcs
  <1>2. WelcomeLocals  BY DEF WelcomeLocals, Handling, Joining
  <1>3. ThreadsAccounted  BY DEF ThreadsAccounted
  <1>4. FreshConnections  BY DEF FreshConnections
  <1>5. CloseInStep  BY DEF CloseInStep
  <1>6. AddInStep  BY DEF AddInStep
  <1>7. SocketsInStep  BY DEF SocketsInStep
  <1> QED  BY <1>1, <1>2, <1>3, <1>4, <1>5, <1>6, <1>7 DEF IInv

\* What the invariant says of two threads of the same name: both would have to
\* be the map's entry or the environment in the welcome thread's hands, and
\* the latter's entry is the environment itself or vacant.
LEMMA OneThread == ASSUME IInv PROVE OneThreadPerName
  BY ConstantsAssumption
  DEF IInv, OneThreadPerName, TypeOK, ThreadsAccounted, WelcomeLocals,
      Running, Handling, Joining

\* So a connection is in the socket set of one thread at most.
LEMMA OneSocket ==
  ASSUME IInv, NEW e \in Clients, NEW f \in Clients, NEW c \in sockets[e],
         c \in sockets[f]
  PROVE  e = f
  BY OneThread DEF IInv, SocketsInStep, OneThreadPerName

\* The types of what a return from welcome_thread_main changes.
LEMMA ReturnTypes ==
  ASSUME TypeOK, NEW msg \in {"none", "shutdown", "reload"}, Return(msg)
  PROVE  /\ request' \in {"none", "shutdown", "reload"}
         /\ wpc' \in WelcomePcs /\ closeRx' \in BOOLEAN
         /\ closeChan' \subseteq Clients
  BY DEF TypeOK, Return, Send, WelcomePcs

\* A client that connects, asks, reads or hangs up preserves the invariant.
LEMMA ClientSteps ==
  ASSUME IInv, NEW c \in Clients, ClientStep(c)
  PROVE  IInv'
  <1> USE ConstantsAssumption
      DEF IInv, Running, Finished, Owned, Handling, Joining, clientVars,
          signalVars, closeVars, batchVars, threadVars, welcomeVars
  <1>1. CASE Connect(c)
    <2> USE <1>1 DEF Connect, TypeOK
    <2>1. FreshConnections'  BY DEF FreshConnections
    <2>2. SocketsInStep'  BY DEF SocketsInStep
    <2> QED  BY <2>1, <2>2
             DEF WelcomePcs, ThreadPcs, WelcomeLocals, ThreadsAccounted,
                   CloseInStep, AddInStep
  <1>2. CASE SendOpenMutex(c)
    <2> USE <1>2 DEF SendOpenMutex, TypeOK
    <2>1. SocketsInStep'  BY DEF SocketsInStep
    <2> QED  BY <2>1
             DEF WelcomePcs, ThreadPcs, WelcomeLocals, ThreadsAccounted,
                   FreshConnections, CloseInStep, AddInStep
  <1>3. CASE HangUp(c)
    <2> USE <1>3 DEF HangUp, TypeOK
    <2>1. FreshConnections'  BY DEF FreshConnections
    <2>2. SocketsInStep'  BY DEF SocketsInStep
    <2> QED  BY <2>1, <2>2
             DEF WelcomePcs, ThreadPcs, WelcomeLocals, ThreadsAccounted,
                   CloseInStep, AddInStep
  <1>4. ASSUME NEW r \in Names \cup {Malformed}, SendRequest(c, r) PROVE IInv'
    <2> USE <1>4 DEF SendRequest, TypeOK
    <2>1. WelcomeLocals'  BY DEF WelcomeLocals
    <2>2. ThreadsAccounted'  BY DEF ThreadsAccounted
    <2>3. CloseInStep'  BY DEF CloseInStep, ThreadsAccounted
    <2>4. SocketsInStep'  BY DEF SocketsInStep, ThreadsAccounted
    <2> QED  BY <2>1, <2>2, <2>3, <2>4
             DEF WelcomePcs, ThreadPcs, FreshConnections, AddInStep
  <1>5. CASE StopReading(c) \/ ReadAnswers(c)
    BY <1>5 DEF StopReading, ReadAnswers, TypeOK, WelcomeLocals,
       ThreadsAccounted, FreshConnections, CloseInStep, AddInStep,
       SocketsInStep
  <1> QED  BY <1>1, <1>2, <1>3, <1>4, <1>5 DEF ClientStep

\* So does a signal: no part of the invariant mentions the signal events.
LEMMA SignalSteps ==
  ASSUME IInv, RaiseShutdown \/ RaiseReload
  PROVE  IInv'
  <1> USE ConstantsAssumption
      DEF IInv, Running, Finished, Owned, Handling, Joining, clientVars,
          signalVars, closeVars, batchVars, threadVars, welcomeVars
  <1>1. CASE RaiseShutdown
    BY <1>1 DEF RaiseShutdown, TypeOK, WelcomeLocals, ThreadsAccounted,
       FreshConnections, CloseInStep, AddInStep, SocketsInStep
  <1>2. CASE RaiseReload
    BY <1>2 DEF RaiseReload, TypeOK, WelcomeLocals, ThreadsAccounted,
       FreshConnections, CloseInStep, AddInStep, SocketsInStep
  <1> QED  BY <1>1, <1>2 DEF RaiseShutdown

\* The welcome thread's statements.
LEMMA WelcomeSteps ==
  ASSUME IInv, WelcomeStep
  PROVE  IInv'
  <1> USE ConstantsAssumption
      DEF IInv, Running, Finished, Owned, Handling, Joining, clientVars,
          signalVars, closeVars, batchVars, threadVars, welcomeVars
  <1>1. CASE PollShutdown
    <2> USE <1>1 DEF PollShutdown, Return, Send, TypeOK
    <2>1. TypeOK'  BY ReturnTypes DEF WelcomePcs, ThreadPcs
    <2>2. WelcomeLocals'  BY DEF WelcomeLocals
    <2>3. ThreadsAccounted'  BY DEF ThreadsAccounted
    <2>4. FreshConnections'  BY DEF FreshConnections
    <2>5. CloseInStep'  BY DEF CloseInStep
    <2>6. AddInStep'  BY DEF AddInStep
    <2> QED  BY <2>1, <2>2, <2>3, <2>4, <2>5, <2>6
             DEF SocketsInStep
  <1>2. CASE PollReload
    <2> USE <1>2 DEF PollReload, Return, Send, TypeOK
    <2>1. TypeOK'  BY ReturnTypes DEF WelcomePcs, ThreadPcs
    <2>2. WelcomeLocals'  BY DEF WelcomeLocals
    <2>3. ThreadsAccounted'  BY DEF ThreadsAccounted
    <2>4. FreshConnections'  BY DEF FreshConnections
    <2>5. CloseInStep'  BY DEF CloseInStep
    <2>6. AddInStep'  BY DEF AddInStep
    <2> QED  BY <2>1, <2>2, <2>3, <2>4, <2>5, <2>6
             DEF SocketsInStep
  <1>3. CASE PollClose
    <2> USE <1>3 DEF PollClose, SocketEvents, TypeOK
    <2>1. TypeOK'  BY DEF WelcomePcs, ThreadPcs
    <2>2. WelcomeLocals'  BY DEF WelcomeLocals
    <2>3. ThreadsAccounted'  BY DEF ThreadsAccounted
    <2>4. FreshConnections'  BY DEF FreshConnections
    <2>5. CloseInStep'  BY DEF CloseInStep
    <2>6. AddInStep'  BY DEF AddInStep
    <2> QED  BY <2>1, <2>2, <2>3, <2>4, <2>5, <2>6
             DEF SocketsInStep
  <1>4. CASE PollWelcome
    <2> USE <1>4 DEF PollWelcome, SocketEvents, AfterClose, TypeOK
    <2>1. TypeOK'  BY DEF WelcomePcs, ThreadPcs
    <2>2. WelcomeLocals'  BY DEF WelcomeLocals
    <2>3. ThreadsAccounted'  BY DEF ThreadsAccounted
    <2>4. FreshConnections'  BY DEF FreshConnections
    <2>5. CloseInStep'  BY DEF CloseInStep, ThreadsAccounted
    <2>6. AddInStep'  BY DEF AddInStep
    <2> QED  BY <2>1, <2>2, <2>3, <2>4, <2>5, <2>6
             DEF SocketsInStep
  <1>5. ASSUME NEW e \in Clients, TakeClosed(e) PROVE IInv'
    <2> USE <1>5 DEF TakeClosed, TypeOK
    <2>1. TypeOK'
      <3> USE DEF WelcomePcs, ThreadPcs, CloseInStep, ThreadsAccounted
      <3>1. environments' \in [Names -> Clients \cup {None}]  OBVIOUS
      <3>2. dropEvent' \in [Clients -> BOOLEAN]
        <4>1. dropEvent \in [Clients -> BOOLEAN]  OBVIOUS
        <4> HIDE DEF TypeOK, CloseInStep, ThreadsAccounted
        <4> QED  BY <4>1
      <3>3. wenv' \in Clients \cup {None}  OBVIOUS
      <3> QED  BY <3>1, <3>2, <3>3
    <2>2. WelcomeLocals'  BY DEF WelcomeLocals, CloseInStep, ThreadsAccounted
    <2>3. ThreadsAccounted'  BY DEF ThreadsAccounted, CloseInStep
    <2>4. FreshConnections'  BY DEF FreshConnections
    <2>5. CloseInStep'  BY DEF CloseInStep, ThreadsAccounted
    <2>6. AddInStep'  BY DEF AddInStep
    <2> QED  BY <2>1, <2>2, <2>3, <2>4, <2>5, <2>6
             DEF SocketsInStep
  <1>6. CASE JoinClosed
    <2> USE <1>6 DEF JoinClosed, Return, Send, TypeOK
    <2>1. TypeOK'
      <3>1. CASE epc[wenv] = "panicked"
        <4>1. Return("none") /\ wpanic' = TRUE  BY <3>1
        <4> QED  BY <3>1, <4>1, ReturnTypes DEF WelcomePcs, ThreadPcs
      <3>2. CASE epc[wenv] # "panicked"
        <4>1. /\ wenv' = None /\ wpc' = "drain"
              /\ UNCHANGED <<wpanic, request, closeVars>>
          BY <3>2
        <4> QED  BY <4>1 DEF WelcomePcs, ThreadPcs
      <3> QED  BY <3>1, <3>2
    <2>2. WelcomeLocals'  BY DEF WelcomeLocals
    <2>3. ThreadsAccounted'  BY DEF ThreadsAccounted, WelcomeLocals
    <2>4. FreshConnections'  BY DEF FreshConnections
    <2>5. CloseInStep'  BY DEF CloseInStep
    <2>6. AddInStep'  BY DEF AddInStep
    <2> QED  BY <2>1, <2>2, <2>3, <2>4, <2>5, <2>6
             DEF SocketsInStep
  <1>7. CASE DrainDone
    <2> USE <1>7 DEF DrainDone, AfterClose, TypeOK
    <2>1. TypeOK'  BY DEF WelcomePcs, ThreadPcs
    <2>2. WelcomeLocals'  BY DEF WelcomeLocals
    <2>3. ThreadsAccounted'  BY DEF ThreadsAccounted
    <2>4. FreshConnections'  BY DEF FreshConnections
    <2>5. CloseInStep'  BY DEF CloseInStep
    <2>6. AddInStep'  BY DEF AddInStep
    <2> QED  BY <2>1, <2>2, <2>3, <2>4, <2>5, <2>6
             DEF SocketsInStep
  <1>8. CASE SocketFailed
    <2> USE <1>8 DEF SocketFailed, Send, TypeOK
    <2>1. TypeOK'  BY DEF WelcomePcs, ThreadPcs
    <2>2. WelcomeLocals'  BY DEF WelcomeLocals
    <2>3. ThreadsAccounted'  BY DEF ThreadsAccounted
    <2>4. FreshConnections'  BY DEF FreshConnections
    <2>5. CloseInStep'  BY DEF CloseInStep
    <2>6. AddInStep'  BY DEF AddInStep
    <2> QED  BY <2>1, <2>2, <2>3, <2>4, <2>5, <2>6
             DEF SocketsInStep
  <1>9. ASSUME NEW c \in Clients, Accept(c) PROVE IInv'
    <2> USE <1>9 DEF Accept, TypeOK
    <2>1. TypeOK'  BY DEF WelcomePcs, ThreadPcs
    <2>2. WelcomeLocals'  BY DEF WelcomeLocals
    <2>3. ThreadsAccounted'  BY DEF ThreadsAccounted
    <2>4. FreshConnections'  BY DEF FreshConnections
    <2>5. CloseInStep'  BY DEF CloseInStep
    <2>6. AddInStep'  BY DEF AddInStep
    <2>7. SocketsInStep'  BY DEF SocketsInStep, FreshConnections
    <2> QED  BY <2>1, <2>2, <2>3, <2>4, <2>5, <2>6, <2>7
  <1>10. CASE ReceiveRequest
    <2> USE <1>10 DEF ReceiveRequest, DropClientFd, TypeOK
    <2>1. TypeOK'  BY DEF WelcomePcs, ThreadPcs, WelcomeLocals
    <2>2. WelcomeLocals'  BY DEF WelcomeLocals
    <2>3. ThreadsAccounted'  BY DEF ThreadsAccounted
    <2>4. FreshConnections'  BY DEF FreshConnections
    <2>5. CloseInStep'  BY DEF CloseInStep
    <2>6. AddInStep'  BY DEF AddInStep
    <2>7. SocketsInStep'  BY DEF SocketsInStep, WelcomeLocals
    <2> QED  BY <2>1, <2>2, <2>3, <2>4, <2>5, <2>6, <2>7
  <1>11. CASE FindOrSpawn
    <2> USE <1>11 DEF FindOrSpawn, Spawn, TypeOK
    <2>1. TypeOK'  BY DEF WelcomePcs, ThreadPcs, WelcomeLocals
    <2>2. WelcomeLocals'  BY DEF WelcomeLocals, ThreadsAccounted
    <2>3. ThreadsAccounted'  BY DEF ThreadsAccounted, WelcomeLocals
    <2>4. FreshConnections'  BY DEF FreshConnections, WelcomeLocals
    <2>5. CloseInStep'  BY DEF CloseInStep, FreshConnections
    <2>6. AddInStep'  BY DEF AddInStep, FreshConnections
    <2>7. SocketsInStep'  BY DEF SocketsInStep
    <2> QED  BY <2>1, <2>2, <2>3, <2>4, <2>5, <2>6, <2>7
  <1>12. CASE InsertSend
    <2> USE <1>12 DEF InsertSend, InsertFails, ReportFailure, DropClientFd,
                    TypeOK
    <2>1. TypeOK'
      <3> USE DEF WelcomePcs, ThreadPcs, WelcomeLocals
      <3>1. addChan' \in [Clients -> SUBSET Clients]  OBVIOUS
      <3>2. reply' \in [Clients -> {"none", "ok", "malformed", "internal"}]
            OBVIOUS
      <3>3. dropEvent' \in [Clients -> BOOLEAN]
        <4>1. dropEvent \in [Clients -> BOOLEAN]  OBVIOUS
        <4> HIDE DEF TypeOK
        <4> QED  BY <4>1
      <3>4. regs' \in [Clients -> SUBSET Clients]  OBVIOUS
      <3> QED  BY <3>1, <3>2, <3>3, <3>4
    <2>2. WelcomeLocals'  BY DEF WelcomeLocals
    <2>3. ThreadsAccounted'  BY DEF ThreadsAccounted, WelcomeLocals
    <2>4. FreshConnections'  BY DEF FreshConnections, WelcomeLocals
    <2>5. CloseInStep'  BY DEF CloseInStep, WelcomeLocals
    <2>6. AddInStep'  BY DEF AddInStep, WelcomeLocals
    <2>7. SocketsInStep'  BY DEF SocketsInStep, WelcomeLocals
    <2> QED  BY <2>1, <2>2, <2>3, <2>4, <2>5, <2>6, <2>7
  <1>13. CASE InsertNotify
    <2> USE <1>13 DEF InsertNotify, TypeOK
    <2>1. TypeOK'  BY DEF WelcomePcs, ThreadPcs, WelcomeLocals
    <2>2. WelcomeLocals'  BY DEF WelcomeLocals
    <2>3. ThreadsAccounted'  BY DEF ThreadsAccounted
    <2>4. FreshConnections'  BY DEF FreshConnections
    <2>5. CloseInStep'  BY DEF CloseInStep
    <2>6. AddInStep'  BY DEF AddInStep, WelcomeLocals
    <2> QED  BY <2>1, <2>2, <2>3, <2>4, <2>5, <2>6
             DEF SocketsInStep
  <1>14. CASE InsertAwait
    <2> USE <1>14 DEF InsertAwait, InsertFails, ReportFailure, DropClientFd,
                    TypeOK
    <2>1. TypeOK'
      <3> USE DEF WelcomePcs, ThreadPcs, WelcomeLocals
      <3>1. resp' \in [Clients -> {"none", "Ok", "Err"}]  OBVIOUS
      <3>2. environments' \in [Names -> Clients \cup {None}]  OBVIOUS
      <3>3. reply' \in [Clients -> {"none", "ok", "malformed", "internal"}]
            OBVIOUS
      <3>4. dropEvent' \in [Clients -> BOOLEAN]
        <4>1. dropEvent \in [Clients -> BOOLEAN]  OBVIOUS
        <4> HIDE DEF TypeOK
        <4> QED  BY <4>1
      <3>5. regs' \in [Clients -> SUBSET Clients]  OBVIOUS
      <3> QED  BY <3>1, <3>2, <3>3, <3>4, <3>5
    <2>2. WelcomeLocals'  BY DEF WelcomeLocals
    <2>3. ThreadsAccounted'  BY DEF ThreadsAccounted, WelcomeLocals
    <2>4. FreshConnections'  BY DEF FreshConnections, WelcomeLocals
    <2>5. CloseInStep'  BY DEF CloseInStep, WelcomeLocals
    <2>6. AddInStep'  BY DEF AddInStep, WelcomeLocals
    <2>7. SocketsInStep'  BY DEF SocketsInStep, WelcomeLocals
    <2> QED  BY <2>1, <2>2, <2>3, <2>4, <2>5, <2>6, <2>7
  <1>15. CASE ReplyOk
    <2> USE <1>15 DEF ReplyOk, TypeOK
    <2>1. TypeOK'  BY DEF WelcomePcs, ThreadPcs, WelcomeLocals
    <2>2. WelcomeLocals'  BY DEF WelcomeLocals
    <2>3. ThreadsAccounted'  BY DEF ThreadsAccounted
    <2>4. FreshConnections'  BY DEF FreshConnections
    <2>5. CloseInStep'  BY DEF CloseInStep
    <2>6. AddInStep'  BY DEF AddInStep
    <2>7. SocketsInStep'  BY DEF SocketsInStep, WelcomeLocals, FreshConnections
    <2> QED  BY <2>1, <2>2, <2>3, <2>4, <2>5, <2>6, <2>7
  <1>16. CASE JoinDiscarded
    <2> USE <1>16 DEF JoinDiscarded, DropClientFd, Return, Send, TypeOK
    <2>1. TypeOK'
      <3> USE DEF WelcomePcs, ThreadPcs
      <3>1. regs' \in [Clients -> SUBSET Clients]  OBVIOUS
      <3>2. CASE epc[wenv] = "panicked"
        <4>1. Return("none") /\ wpanic' = TRUE  BY <3>2
        <4> QED  BY <3>1, <4>1, ReturnTypes
      <3>3. CASE epc[wenv] # "panicked"  BY <3>1, <3>3
      <3> QED  BY <3>2, <3>3
    <2>2. WelcomeLocals'  BY DEF WelcomeLocals
    <2>3. ThreadsAccounted'  BY DEF ThreadsAccounted, WelcomeLocals
    <2>4. FreshConnections'  BY DEF FreshConnections, WelcomeLocals
    <2>5. CloseInStep'  BY DEF CloseInStep
    <2>6. AddInStep'  BY DEF AddInStep
    <2>7. SocketsInStep'  BY DEF SocketsInStep, WelcomeLocals
    <2> QED  BY <2>1, <2>2, <2>3, <2>4, <2>5, <2>6, <2>7
  <1>17. ASSUME NEW n \in Names, DropEnvironment(n) PROVE IInv'
    <2> USE <1>17 DEF DropEnvironment, TypeOK
    <2>1. TypeOK'  BY DEF WelcomePcs, ThreadPcs
    <2>2. WelcomeLocals'  BY DEF WelcomeLocals, ThreadsAccounted
    <2>3. ThreadsAccounted'  BY DEF ThreadsAccounted
    <2>4. FreshConnections'  BY DEF FreshConnections
    <2>5. CloseInStep'  BY DEF CloseInStep
    <2>6. AddInStep'  BY DEF AddInStep
    <2> QED  BY <2>1, <2>2, <2>3, <2>4, <2>5, <2>6
             DEF SocketsInStep
  <1>18. CASE JoinDropped
    <2> USE <1>18 DEF JoinDropped, TypeOK
    <2>1. TypeOK'
      <3>1. CASE epc[wenv] = "panicked" /\ ~wpanic
        BY <3>1 DEF WelcomePcs, ThreadPcs
      <3>2. CASE ~(epc[wenv] = "panicked" /\ ~wpanic)
        BY <3>2 DEF WelcomePcs, ThreadPcs
      <3> QED  BY <3>1, <3>2
    <2>2. WelcomeLocals'  BY DEF WelcomeLocals
    <2>3. ThreadsAccounted'  BY DEF ThreadsAccounted, WelcomeLocals
    <2>4. FreshConnections'  BY DEF FreshConnections
    <2>5. CloseInStep'  BY DEF CloseInStep
    <2>6. AddInStep'  BY DEF AddInStep
    <2>7. SocketsInStep'  BY DEF SocketsInStep
    <2> QED  BY <2>1, <2>2, <2>3, <2>4, <2>5, <2>6, <2>7
  <1>19. CASE WelcomeEnds
    <2> USE <1>19 DEF WelcomeEnds, TypeOK
    <2>1. TypeOK'  BY DEF WelcomePcs, ThreadPcs
    <2>2. WelcomeLocals'  BY DEF WelcomeLocals
    <2>3. ThreadsAccounted'  BY DEF ThreadsAccounted
    <2>4. FreshConnections'  BY DEF FreshConnections
    <2>5. CloseInStep'  BY DEF CloseInStep
    <2>6. AddInStep'  BY DEF AddInStep
    <2>7. SocketsInStep'  BY DEF SocketsInStep
    <2> QED  BY <2>1, <2>2, <2>3, <2>4, <2>5, <2>6, <2>7
  <1>20. CASE CloseClientFd
    <2> USE <1>20 DEF CloseClientFd, DropClientFd, TypeOK
    <2>1. TypeOK'  BY DEF WelcomePcs, ThreadPcs, WelcomeLocals
    <2>2. WelcomeLocals'  BY DEF WelcomeLocals
    <2>3. ThreadsAccounted'  BY DEF ThreadsAccounted, WelcomeLocals
    <2>4. FreshConnections'  BY DEF FreshConnections, WelcomeLocals
    <2>5. CloseInStep'  BY DEF CloseInStep
    <2>6. AddInStep'  BY DEF AddInStep
    <2>7. SocketsInStep'  BY DEF SocketsInStep, WelcomeLocals, FreshConnections
    <2> QED  BY <2>1, <2>2, <2>3, <2>4, <2>5, <2>6, <2>7
  <1> QED  BY <1>1, <1>2, <1>3, <1>4, <1>5, <1>6, <1>7, <1>8, <1>9, <1>10,
        <1>11, <1>12, <1>13, <1>14, <1>15, <1>16, <1>17, <1>18, <1>19, <1>20
        DEF WelcomeStep

\* The statements of one synchronization thread.
LEMMA ThreadSteps ==
  ASSUME IInv, NEW e \in Clients, ThreadStep(e)
  PROVE  IInv'
  <1> USE ConstantsAssumption
      DEF IInv, Running, Finished, Owned, Handling, Joining, clientVars,
          signalVars, closeVars, batchVars, threadVars, welcomeVars
  <1>1. CASE Start(e)
    <2> USE <1>1 DEF Start, Goto, TypeOK
    <2>1. TypeOK'  BY DEF WelcomePcs, ThreadPcs
    <2>2. WelcomeLocals'  BY DEF WelcomeLocals
    <2>3. ThreadsAccounted'  BY DEF ThreadsAccounted
    <2>4. FreshConnections'  BY DEF FreshConnections
    <2>5. CloseInStep'  BY DEF CloseInStep
    <2>6. AddInStep'  BY DEF AddInStep
    <2>7. SocketsInStep'  BY DEF SocketsInStep
    <2> QED  BY <2>1, <2>2, <2>3, <2>4, <2>5, <2>6, <2>7
  <1>2. CASE EpollWait(e)
    <2> USE <1>2 DEF EpollWait, Requests, TypeOK
    <2>1. TypeOK'  BY DEF WelcomePcs, ThreadPcs
    <2>2. AddInStep'  BY DEF AddInStep
    <2>3. SocketsInStep'  BY DEF SocketsInStep
    <2> QED  BY <2>1, <2>2, <2>3
             DEF WelcomeLocals, ThreadsAccounted, FreshConnections, CloseInStep
  <1>3. CASE AddListener(e)
    <2> USE <1>3 DEF AddListener, Goto, ClearBatch, TypeOK
    <2>1. TypeOK'
      <3> USE DEF WelcomePcs, ThreadPcs
      <3>1. addEvent' \in [Clients -> BOOLEAN]  OBVIOUS
      <3>2. addChan' \in [Clients -> SUBSET Clients]  OBVIOUS
      <3>3. addChan[e] \subseteq Clients /\ sockets[e] \subseteq Clients
            /\ regs[e] \subseteq Clients
        OBVIOUS
      <3>4. CASE Owned(e)
        <4>1. /\ sockets' = [sockets EXCEPT ![e] = @ \cup addChan[e]]
              /\ regs' = [regs EXCEPT ![e] = @ \cup addChan[e]]
              /\ ready' = [ready EXCEPT ![e] = @ \ {"add"}]
              /\ resp' = [resp EXCEPT ![e] = "Ok"]
              /\ UNCHANGED <<epc, hups, ins>>
          BY <3>4
        <4> HIDE DEF AddListener
        <4>2. sockets' \in [Clients -> SUBSET Clients]  BY <3>3, <4>1
        <4>3. regs' \in [Clients -> SUBSET Clients]  BY <3>3, <4>1
        <4>4. ready' \in [Clients -> SUBSET {"add", "drop"}]  BY <4>1
        <4>5. resp' \in [Clients -> {"none", "Ok", "Err"}]  BY <4>1
        <4> QED  BY <3>1, <3>2, <4>1, <4>2, <4>3, <4>4, <4>5 DEF AddListener
      <3>5. CASE ~Owned(e)
        <4>1. /\ sockets' = [sockets EXCEPT ![e] = {}]
              /\ regs' = [regs EXCEPT ![e] = {}]
              /\ epc' = [epc EXCEPT ![e] = "panicked"]
              /\ ClearBatch(e) /\ UNCHANGED resp
          BY <3>5
        <4> HIDE DEF AddListener
        <4>2. /\ sockets' \in [Clients -> SUBSET Clients]
              /\ regs' \in [Clients -> SUBSET Clients]
              /\ epc' \in [Clients -> ThreadPcs]
          BY <4>1
        <4>3. /\ ready' \in [Clients -> SUBSET {"add", "drop"}]
              /\ hups' \in [Clients -> SUBSET Clients]
              /\ ins' \in [Clients -> SUBSET Clients]
          BY <4>1
        <4> QED  BY <3>1, <3>2, <4>1, <4>2, <4>3 DEF AddListener
      <3> QED  BY <3>4, <3>5
    <2>2. WelcomeLocals'  BY DEF WelcomeLocals, AddInStep
    <2>3. ThreadsAccounted'  BY DEF ThreadsAccounted, AddInStep
    <2>4. FreshConnections'  BY DEF FreshConnections, AddInStep
    <2>5. CloseInStep'  BY DEF CloseInStep, AddInStep
    <2>6. AddInStep'  BY DEF AddInStep
    <2>7. SocketsInStep'  BY DEF SocketsInStep, AddInStep, WelcomeLocals
    <2> QED  BY <2>1, <2>2, <2>3, <2>4, <2>5, <2>6, <2>7
  <1>4. CASE HandleDrop(e)
    <2> USE <1>4 DEF HandleDrop, Goto, ClearBatch, TypeOK
    <2>1. TypeOK'  BY DEF WelcomePcs, ThreadPcs
    <2>2. WelcomeLocals'  BY DEF WelcomeLocals
    <2>3. ThreadsAccounted'  BY DEF ThreadsAccounted
    <2>4. FreshConnections'  BY DEF FreshConnections
    <2>5. CloseInStep'  BY DEF CloseInStep
    <2>6. AddInStep'  BY DEF AddInStep
    <2>7. SocketsInStep'  BY DEF SocketsInStep
    <2> QED  BY <2>1, <2>2, <2>3, <2>4, <2>5, <2>6, <2>7
  <1>5. ASSUME NEW c \in Clients, HandleHangUp(e, c) PROVE IInv'
    <2> USE <1>5 DEF HandleHangUp, Goto, ClearBatch, TypeOK
    <2>1. TypeOK'
      <3> USE DEF WelcomePcs, ThreadPcs
      <3>1. sockets' \in [Clients -> SUBSET Clients]  OBVIOUS
      <3>2. regs' \in [Clients -> SUBSET Clients]  OBVIOUS
      <3>3. epc' \in [Clients -> ThreadPcs]  OBVIOUS
      <3>4. ready' \in [Clients -> SUBSET {"add", "drop"}]  OBVIOUS
      <3>5. hups' \in [Clients -> SUBSET Clients]  OBVIOUS
      <3>6. ins' \in [Clients -> SUBSET Clients]  OBVIOUS
      <3> QED  BY <3>1, <3>2, <3>3, <3>4, <3>5, <3>6
    <2>2. WelcomeLocals'  BY DEF WelcomeLocals
    <2>3. ThreadsAccounted'  BY DEF ThreadsAccounted
    <2>4. FreshConnections'  BY DEF FreshConnections
    <2>5. CloseInStep'  BY DEF CloseInStep
    <2>6. AddInStep'  BY DEF AddInStep
    <2>7. SocketsInStep'  BY DEF SocketsInStep
    <2> QED  BY <2>1, <2>2, <2>3, <2>4, <2>5, <2>6, <2>7
  <1>6. ASSUME NEW c \in Clients, ServeOpenMutex(e, c) PROVE IInv'
    <2> USE <1>6 DEF ServeOpenMutex, TypeOK
    <2>1. TypeOK'  BY DEF WelcomePcs, ThreadPcs
    <2>2. AddInStep'  BY DEF AddInStep
    <2>3. SocketsInStep'
      <3>1. c \in sockets[e] /\ asked[c]  BY DEF SocketsInStep
      <3>2. \A f \in Clients : c \in sockets[f] => f = e
        BY <3>1, OneSocket
      <3> QED  BY <3>1, <3>2 DEF SocketsInStep
    <2> QED  BY <2>1, <2>2, <2>3
             DEF WelcomeLocals, ThreadsAccounted, FreshConnections, CloseInStep
  <1>7. CASE AnnounceName(e)
    <2> USE <1>7 DEF AnnounceName, Goto, TypeOK
    <2>1. TypeOK'  BY DEF WelcomePcs, ThreadPcs
    <2>2. WelcomeLocals'  BY DEF WelcomeLocals
    <2>3. ThreadsAccounted'  BY DEF ThreadsAccounted
    <2>4. FreshConnections'  BY DEF FreshConnections
    <2>5. CloseInStep'  BY DEF CloseInStep, ThreadsAccounted, WelcomeLocals
    <2>6. AddInStep'  BY DEF AddInStep
    <2>7. SocketsInStep'  BY DEF SocketsInStep
    <2> QED  BY <2>1, <2>2, <2>3, <2>4, <2>5, <2>6, <2>7
  <1>8. CASE AnnounceEvent(e)
    <2> USE <1>8 DEF AnnounceEvent, Goto, TypeOK
    <2>1. TypeOK'  BY DEF WelcomePcs, ThreadPcs
    <2>2. WelcomeLocals'  BY DEF WelcomeLocals
    <2>3. ThreadsAccounted'  BY DEF ThreadsAccounted
    <2>4. FreshConnections'  BY DEF FreshConnections
    <2>5. CloseInStep'  BY DEF CloseInStep
    <2>6. AddInStep'  BY DEF AddInStep
    <2>7. SocketsInStep'  BY DEF SocketsInStep
    <2> QED  BY <2>1, <2>2, <2>3, <2>4, <2>5, <2>6, <2>7
  <1>9. CASE ThreadEnds(e)
    <2> USE <1>9 DEF ThreadEnds, DropLocals, Goto, TypeOK
    <2>1. TypeOK'  BY DEF WelcomePcs, ThreadPcs
    <2>2. WelcomeLocals'  BY DEF WelcomeLocals
    <2>3. ThreadsAccounted'  BY DEF ThreadsAccounted
    <2>4. FreshConnections'  BY DEF FreshConnections
    <2>5. CloseInStep'  BY DEF CloseInStep
    <2>6. AddInStep'  BY DEF AddInStep
    <2>7. SocketsInStep'
      <3>1. /\ sockets'[e] = {} /\ regs'[e] = {} /\ hups[e] = {} /\ ins[e] = {}
            /\ \A f \in Clients \ {e} :
                 /\ sockets'[f] = sockets[f] /\ regs'[f] = regs[f]
                 /\ epc'[f] = epc[f]
        BY DEF AddInStep
      <3> QED  BY <3>1 DEF SocketsInStep
    <2> QED  BY <2>1, <2>2, <2>3, <2>4, <2>5, <2>6, <2>7
  <1> QED  BY <1>1, <1>2, <1>3, <1>4, <1>5, <1>6, <1>7, <1>8, <1>9 DEF
        ThreadStep

\* The failures of system calls and destructors, and how they are handled.
LEMMA FaultSteps ==
  ASSUME IInv, FaultStep
  PROVE  IInv'
  <1> USE ConstantsAssumption
      DEF IInv, Running, Finished, Owned, Handling, Joining, clientVars,
          signalVars, closeVars, batchVars, threadVars, welcomeVars
  <1>1. CASE BreakWelcomeSocket
    BY <1>1 DEF BreakWelcomeSocket, TypeOK, WelcomeLocals, ThreadsAccounted,
       FreshConnections, CloseInStep, AddInStep, SocketsInStep
  <1>2. CASE PollFails
    <2> USE <1>2 DEF PollFails, Return, Send, TypeOK
    <2>1. TypeOK'
      <3>1. Return("reload")  OBVIOUS
      <3> HIDE DEF Return
      <3> QED  BY <3>1, ReturnTypes DEF WelcomePcs, ThreadPcs
    <2>2. WelcomeLocals'  BY DEF WelcomeLocals
    <2>3. ThreadsAccounted'  BY DEF ThreadsAccounted
    <2>4. FreshConnections'  BY DEF FreshConnections
    <2>5. CloseInStep'  BY DEF CloseInStep
    <2>6. AddInStep'  BY DEF AddInStep
    <2> QED  BY <2>1, <2>2, <2>3, <2>4, <2>5, <2>6
             DEF SocketsInStep
  <1>3. CASE AcceptFails
    <2> USE <1>3 DEF AcceptFails, TypeOK
    <2>1. TypeOK'  BY DEF WelcomePcs, ThreadPcs
    <2>2. WelcomeLocals'  BY DEF WelcomeLocals
    <2>3. ThreadsAccounted'  BY DEF ThreadsAccounted
    <2>4. FreshConnections'  BY DEF FreshConnections
    <2>5. CloseInStep'  BY DEF CloseInStep
    <2>6. AddInStep'  BY DEF AddInStep
    <2> QED  BY <2>1, <2>2, <2>3, <2>4, <2>5, <2>6
             DEF SocketsInStep
  <1>4. CASE OpenFails
    <2> USE <1>4 DEF OpenFails, ReportFailure, DropClientFd, TypeOK
    <2>1. TypeOK'  BY DEF WelcomePcs, ThreadPcs, WelcomeLocals
    <2>2. WelcomeLocals'  BY DEF WelcomeLocals
    <2>3. ThreadsAccounted'  BY DEF ThreadsAccounted
    <2>4. FreshConnections'  BY DEF FreshConnections
    <2>5. CloseInStep'  BY DEF CloseInStep
    <2>6. AddInStep'  BY DEF AddInStep
    <2>7. SocketsInStep'  BY DEF SocketsInStep, WelcomeLocals
    <2> QED  BY <2>1, <2>2, <2>3, <2>4, <2>5, <2>6, <2>7
  <1>5. ASSUME NEW e \in Clients, StartFails(e) PROVE IInv'
    <2> USE <1>5 DEF StartFails, Goto, TypeOK
    <2>1. TypeOK'  BY DEF WelcomePcs, ThreadPcs
    <2>2. WelcomeLocals'  BY DEF WelcomeLocals
    <2>3. ThreadsAccounted'  BY DEF ThreadsAccounted
    <2>4. FreshConnections'  BY DEF FreshConnections
    <2>5. CloseInStep'  BY DEF CloseInStep
    <2>6. AddInStep'  BY DEF AddInStep
    <2>7. SocketsInStep'  BY DEF SocketsInStep
    <2> QED  BY <2>1, <2>2, <2>3, <2>4, <2>5, <2>6, <2>7
  <1>6. ASSUME NEW e \in Clients, EpollWaitFails(e) PROVE IInv'
    <2> USE <1>6 DEF EpollWaitFails, Goto, NoEvents, TypeOK
    <2>1. TypeOK'  BY DEF WelcomePcs, ThreadPcs
    <2>2. WelcomeLocals'  BY DEF WelcomeLocals
    <2>3. ThreadsAccounted'  BY DEF ThreadsAccounted
    <2>4. FreshConnections'  BY DEF FreshConnections
    <2>5. CloseInStep'  BY DEF CloseInStep
    <2>6. AddInStep'  BY DEF AddInStep
    <2>7. SocketsInStep'  BY DEF SocketsInStep
    <2> QED  BY <2>1, <2>2, <2>3, <2>4, <2>5, <2>6, <2>7
  <1>7. ASSUME NEW e \in Clients, ThreadPanics(e) PROVE IInv'
    <2> USE <1>7 DEF ThreadPanics, DropLocals, Goto, TypeOK
    <2>1. TypeOK'  BY DEF WelcomePcs, ThreadPcs
    <2>2. WelcomeLocals'  BY DEF WelcomeLocals
    <2>3. ThreadsAccounted'  BY DEF ThreadsAccounted
    <2>4. FreshConnections'  BY DEF FreshConnections
    <2>5. CloseInStep'  BY DEF CloseInStep
    <2>6. AddInStep'
      <3>1. /\ addChan'[e] = {} /\ epc[e] = "exit" /\ epc'[e] = "panicked"
            /\ \A f \in Clients \ {e} :
                 addChan'[f] = addChan[f] /\ epc'[f] = epc[f]
            /\ UNCHANGED <<batchVars, addEvent, resp, wpc, wenv, wclient>>
        OBVIOUS
      <3> HIDE DEF ThreadPanics, DropLocals, TypeOK
      <3> QED  BY <3>1 DEF AddInStep
    <2>7. SocketsInStep'
      <3>1. /\ sockets'[e] = {} /\ regs'[e] = {} /\ hups[e] = {} /\ ins[e] = {}
            /\ \A f \in Clients \ {e} :
                 /\ sockets'[f] = sockets[f] /\ regs'[f] = regs[f]
                 /\ epc'[f] = epc[f]
        BY DEF AddInStep
      <3> QED  BY <3>1 DEF SocketsInStep
    <2> QED  BY <2>1, <2>2, <2>3, <2>4, <2>5, <2>6, <2>7
  <1>8. ASSUME NEW e \in Clients, NEW c \in Clients, AddListenerFails(e, c)
        PROVE IInv'
    <2> USE <1>8 DEF AddListenerFails, TypeOK
    <2>1. TypeOK'  BY DEF WelcomePcs, ThreadPcs
    <2>2. AddInStep'  BY DEF AddInStep
    <2>3. SocketsInStep'  BY DEF SocketsInStep
    <2> QED  BY <2>1, <2>2, <2>3
             DEF WelcomeLocals, ThreadsAccounted, FreshConnections, CloseInStep
  <1>9. ASSUME NEW e \in Clients, NEW c \in Clients, ServeFails(e, c)
        PROVE IInv'
    <2> USE <1>9 DEF ServeFails, TypeOK
    <2>1. TypeOK'  BY DEF WelcomePcs, ThreadPcs
    <2>2. AddInStep'  BY DEF AddInStep
    <2>3. SocketsInStep'
      <3>1. c \in sockets[e] /\ asked[c]  BY DEF SocketsInStep
      <3>2. \A f \in Clients : c \in sockets[f] => f = e
        BY <3>1, OneSocket
      <3> QED  BY <3>1, <3>2 DEF SocketsInStep
    <2> QED  BY <2>1, <2>2, <2>3
             DEF WelcomeLocals, ThreadsAccounted, FreshConnections, CloseInStep
  <1>10. CASE ReceiveFails
    <2> USE <1>10 DEF ReceiveFails, DropClientFd, TypeOK
    <2>1. TypeOK'  BY DEF WelcomePcs, ThreadPcs, WelcomeLocals
    <2>2. WelcomeLocals'  BY DEF WelcomeLocals
    <2>3. ThreadsAccounted'  BY DEF ThreadsAccounted
    <2>4. FreshConnections'  BY DEF FreshConnections
    <2>5. CloseInStep'  BY DEF CloseInStep
    <2>6. AddInStep'  BY DEF AddInStep
    <2>7. SocketsInStep'  BY DEF SocketsInStep, WelcomeLocals
    <2> QED  BY <2>1, <2>2, <2>3, <2>4, <2>5, <2>6, <2>7
  <1>11. CASE ReplyFails
    <2> USE <1>11 DEF ReplyFails, ReportFailure, TypeOK
    <2>1. TypeOK'  BY DEF WelcomePcs, ThreadPcs, WelcomeLocals
    <2>2. WelcomeLocals'  BY DEF WelcomeLocals
    <2>3. ThreadsAccounted'  BY DEF ThreadsAccounted
    <2>4. FreshConnections'  BY DEF FreshConnections
    <2>5. CloseInStep'  BY DEF CloseInStep
    <2>6. AddInStep'  BY DEF AddInStep
    <2>7. SocketsInStep'  BY DEF SocketsInStep, WelcomeLocals, FreshConnections
    <2> QED  BY <2>1, <2>2, <2>3, <2>4, <2>5, <2>6, <2>7
  <1> QED  BY <1>1, <1>2, <1>3, <1>4, <1>5, <1>6, <1>7, <1>8, <1>9, <1>10,
        <1>11 DEF FaultStep

\* IInv is inductive, so it holds in every reachable state.
THEOREM Invariance == Spec => []IInv
  <1>1. Init => IInv  BY InitIInv
  <1>2. IInv /\ [Next]_vars => IInv'
    <2> SUFFICES ASSUME IInv, [Next]_vars PROVE IInv'  OBVIOUS
    <2>1. CASE UNCHANGED vars
      BY <2>1 DEF IInv, TypeOK, WelcomeLocals, ThreadsAccounted,
         FreshConnections, CloseInStep, AddInStep, SocketsInStep, Running,
         Owned, vars, clientVars, signalVars, closeVars, batchVars,
         threadVars, welcomeVars
    <2>2. CASE WelcomeStep  BY <2>2, WelcomeSteps
    <2>3. ASSUME NEW e \in Clients, ThreadStep(e) PROVE IInv'
      BY <2>3, ThreadSteps
    <2>4. ASSUME NEW c \in Clients, ClientStep(c) PROVE IInv'
      BY <2>4, ClientSteps
    <2>5. CASE RaiseShutdown \/ RaiseReload  BY <2>5, SignalSteps
    <2>6. CASE FaultStep  BY <2>6, FaultSteps
    <2>7. CASE Over  BY <2>1, <2>7 DEF Over
    <2> QED  BY <2>1, <2>2, <2>3, <2>4, <2>5, <2>6, <2>7 DEF Next
  <1> QED  BY <1>1, <1>2, PTL DEF Spec

\* Every variable keeps its type: in particular no handler ever indexes the
\* map, or drops or joins, with a name or an environment that does not exist.
THEOREM TypeCorrect == Spec => []TypeOK
  BY Invariance, PTL DEF IInv

\* Two synchronization threads never run for one name, whatever fails and
\* whenever clients come and go: JoinGuard::drop makes it so.
THEOREM Exclusive == Spec => []OneThreadPerName
  BY Invariance, OneThread, PTL

\* insert_socket's response channel never holds the answer to another request.
THEOREM InStep == Spec => []ResponsesInStep
  <1>1. IInv => ResponsesInStep  BY DEF IInv, AddInStep, ResponsesInStep
  <1> QED  BY <1>1, Invariance, PTL

\* add_listener never finds its sender gone, so its panic is unreachable.
THEOREM SenderLives == Spec => []SenderOutlivesAdd
  <1>1. IInv => SenderOutlivesAdd
    BY DEF IInv, AddInStep, SenderOutlivesAdd, Owned
  <1> QED  BY <1>1, Invariance, PTL

\* Clients attached to one name hold the same mutex: their sockets belong to
\* running threads of that name, of which there is one.
THEOREM Shared == Spec => []MutexShared
  <1>1. IInv => MutexShared
    BY OneThread DEF IInv, SocketsInStep, MutexShared, OneThreadPerName
  <1> QED  BY <1>1, Invariance, PTL

\* No request is read from a descriptor the thread has closed, also when the
\* welcome thread's client_fd keeps it registered with epoll.
THEOREM NoStaleRead == Spec => []NoUseAfterClose
  <1>1. IInv => NoUseAfterClose
    BY DEF IInv, SocketsInStep, NoUseAfterClose
  <1> QED  BY <1>1, Invariance, PTL

\* A welcome thread that ends without a panic leaves no thread behind.
THEOREM Joined == Spec => []AllJoined
  <1>1. IInv => AllJoined
    BY ConstantsAssumption
    DEF IInv, TypeOK, WelcomeLocals, ThreadsAccounted, AllJoined, Running,
        Handling, Joining
  <1> QED  BY <1>1, Invariance, PTL

\* Only the end of the welcome thread takes an environment whose thread still
\* serves out of the map: an announcement names the environment it is from.
THEOREM Stays == Spec => LiveEnvironmentStays
  <1> DEFINE Stay ==
        \A n \in Names :
          /\ environments[n] # None
          /\ environments'[n] # environments[n]
          /\ epc[environments[n]] \in {"start", "loop"}
          => wpc = "dropall"
  <1>1. IInv /\ [Next]_vars => [Stay]_vars
    <2> SUFFICES ASSUME IInv, Next, environments' # environments PROVE Stay
      BY DEF vars, welcomeVars
    <2> USE ConstantsAssumption DEF IInv, TypeOK
    <2>1. ASSUME NEW e \in Clients, TakeClosed(e) PROVE Stay
      BY <2>1 DEF TakeClosed, CloseInStep, ThreadsAccounted
    <2>2. CASE InsertAwait  BY <2>2 DEF InsertAwait, WelcomeLocals, Handling
    <2>3. ASSUME NEW n \in Names, DropEnvironment(n) PROVE Stay
      BY <2>3 DEF DropEnvironment
    <2> HIDE DEF IInv, TypeOK, Stay
    <2>4. CASE WelcomeStep
      BY <2>1, <2>2, <2>3, <2>4
      DEF WelcomeStep, PollShutdown, PollReload, PollClose, PollWelcome,
          JoinClosed, DrainDone, SocketFailed, Accept, ReceiveRequest,
          FindOrSpawn, InsertSend, InsertNotify, ReplyOk, CloseClientFd,
          JoinDiscarded, JoinDropped, WelcomeEnds
    <2>5. ASSUME NEW e \in Clients, ThreadStep(e) PROVE FALSE
      BY <2>5
      DEF ThreadStep, Start, EpollWait, AddListener, HandleDrop,
          HandleHangUp, ServeOpenMutex, AnnounceName, AnnounceEvent,
          ThreadEnds, DropLocals, welcomeVars
    <2>6. ASSUME NEW c \in Clients, ClientStep(c) PROVE FALSE
      BY <2>6
      DEF ClientStep, Connect, SendOpenMutex, HangUp, SendRequest,
          StopReading, ReadAnswers, welcomeVars
    <2>7. CASE RaiseShutdown \/ RaiseReload \/ Over
      BY <2>7 DEF RaiseShutdown, RaiseReload, Over, vars, welcomeVars
    <2>8. CASE FaultStep
      BY <2>8
      DEF FaultStep, BreakWelcomeSocket, PollFails, AcceptFails, ReceiveFails,
          OpenFails, ReplyFails, StartFails, EpollWaitFails, ThreadPanics,
          DropLocals, AddListenerFails, ServeFails, welcomeVars
    <2> QED  BY <2>4, <2>5, <2>6, <2>7, <2>8 DEF Next
  <1> QED  BY <1>1, Invariance, PTL DEF Spec, LiveEnvironmentStays
=============================================================================
