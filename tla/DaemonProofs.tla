---------------------------- MODULE DaemonProofs ----------------------------
(***************************************************************************)
(* The safety properties of the daemon's life, for any number of signals   *)
(* and failures: IInv is inductive and implies them.                       *)
(***************************************************************************)
EXTENDS Daemon, TLAPS

\* What main does when it sets a Runtime up.
LEMMA SetupSteps ==
  ASSUME IInv,
         \/ Start \/ CheckPrivileges \/ SetupSocket \/ SetupEvents
         \/ (\E sig \in Sigs : InstallHandler(sig)) \/ Listen
  PROVE  IInv'
  <1> USE DaemonAssumption
      DEF IInv, TypeOK, Causes, ReloadsDue, Due, At, Kinds, Sigs, SetupPcs,
          ThreadStates, mainVars, staticVars, causeVars, threadVars
  <1>1. CASE Start  BY <1>1 DEF Start, Phases
  <1>2. CASE CheckPrivileges  BY <1>2 DEF CheckPrivileges, Phases
  <1>3. CASE SetupSocket  BY <1>3 DEF SetupSocket, Phases
  <1>4. CASE SetupEvents
    <2> USE <1>4 DEF SetupEvents
    <2>1. \A k \in Kinds : /\ static'[k] \in 1..turn
                           /\ static[k] # 0 => static'[k] = static[k]
      OBVIOUS
    <2>2. TypeOK'  BY <2>1
    <2>3. \A k \in Kinds, t \in 1..turn :
            <<k, t>> \in readable => static'[k] = static[k] /\ t = static[k]
      BY <2>1 DEF Phases
    <2>4. Phases'  BY <2>1, <2>3 DEF Phases
    <2>5. <<"reload", static'["reload"]>> \in readable =>
            <<"reload", static["reload"]>> \in readable
      BY <2>1, <2>3
    <2> QED  BY <2>2, <2>4, <2>5
  <1>5. ASSUME NEW sig \in Sigs, InstallHandler(sig) PROVE IInv'
    BY <1>5 DEF InstallHandler, Phases
  <1>6. CASE Listen  BY <1>6 DEF Listen, Phases
  <1> QED  BY <1>1, <1>2, <1>3, <1>4, <1>5, <1>6

\* What it does once the welcome thread runs.
LEMMA WaitSteps ==
  ASSUME IInv, NotifyListening \/ Receive \/ Join \/ JoinAndReturn
  PROVE  IInv'
  <1> USE DaemonAssumption
      DEF IInv, TypeOK, Causes, ReloadsDue, Due, At, Kinds, SetupPcs,
          ThreadStates, mainVars, staticVars, causeVars, threadVars
  <1>1. CASE NotifyListening  BY <1>1 DEF NotifyListening, Phases
  <1>2. CASE Receive  BY <1>2 DEF Receive, Phases
  <1>3. CASE Join
    <2> USE <1>3 DEF Join, Ended
    <2>1. CASE thread = "done" /\ reloadRequested
      <3>1. /\ mpc' = "starting" /\ turn' = turn + 1 /\ thread' = "none"
            /\ request = "reload" /\ ~interrupted /\ ~bound
            /\ UNCHANGED <<exit, reloadRequested, staticVars, bound,
                           interrupted, causeVars, request, readable,
                           shutdownFd, reloadFd>>
        BY <2>1 DEF Phases
      <3> HIDE DEF Join, Ended
      <3>2. TypeOK'  BY <3>1
      <3>3. Phases'  BY <3>1 DEF Phases
      <3>4. Causes'  BY <2>1, <3>1
      <3> QED  BY <3>2, <3>3, <3>4
    <2>2. CASE ~(thread = "done" /\ reloadRequested)
      BY <2>2 DEF Phases
    <2> QED  BY <2>1, <2>2
  <1>4. CASE JoinAndReturn  BY <1>4 DEF JoinAndReturn, Ended, Phases
  <1> QED  BY <1>1, <1>2, <1>3, <1>4

\* The welcome thread's steps, its failures included.
LEMMA ThreadSteps ==
  ASSUME IInv,
         ThreadStep \/ PollFails \/ SocketBreaks \/ ThreadPanics
  PROVE  IInv'
  <1> USE DaemonAssumption
      DEF IInv, TypeOK, Causes, ReloadsDue, Due, Kinds, SetupPcs, ThreadUp,
          ThreadStates, mainVars, staticVars, causeVars, threadVars,
          Welcome!Send
  <1>1. CASE Serve
    <2>1. CASE Welcome!ServeShutdown
      BY <1>1, <2>1 DEF Serve, Welcome!ServeShutdown, Phases
    <2>2. CASE Welcome!ServeReload
      BY <1>1, <2>2 DEF Serve, Welcome!ServeReload, Phases
    <2> QED  BY <1>1, <2>1, <2>2 DEF Serve
  <1>2. CASE PollInterrupted
    <2> USE <1>2 DEF PollInterrupted, Welcome!Fail
    <2>1. TypeOK'  OBVIOUS
    <2>2. Phases'  BY DEF Phases
    <2>3. Causes'  OBVIOUS
    <2> QED  BY <2>1, <2>2, <2>3
  <1>3. CASE ThreadEnds  BY <1>3 DEF ThreadEnds, Welcome!End, Phases
  <1>4. CASE PollFails  BY <1>4 DEF PollFails, Welcome!Fail, Phases
  <1>5. CASE SocketBreaks  BY <1>5 DEF SocketBreaks, Welcome!Break, Phases
  <1>6. CASE ThreadPanics  BY <1>6 DEF ThreadPanics, Welcome!Panic, Phases
  <1> QED  BY <1>1, <1>2, <1>3, <1>4, <1>5, <1>6 DEF ThreadStep

\* Signals, whichever thread they arrive on.
LEMMA SignalSteps ==
  ASSUME IInv, SignalStep
  PROVE  IInv'
  <1> USE DaemonAssumption
      DEF IInv, TypeOK, Causes, ReloadsDue, Due, Kinds, Sigs, SetupPcs,
          ThreadStates, mainVars, staticVars, causeVars, threadVars, KindOf,
          Counted
  <1>1. ASSUME NEW sig \in Sigs, SignalKills(sig) PROVE IInv'
    BY <1>1 DEF SignalKills, Phases
  <1>2. ASSUME NEW sig \in Sigs, SignalHandled(sig) PROVE IInv'
    <2>1. static[KindOf(sig)] # 0  BY <1>2 DEF SignalHandled, Phases
    <2> USE <1>2, <2>1 DEF SignalHandled, Welcome!Raise
    <2>2. TypeOK'
      <3>1. readable' \subseteq Kinds \X (1..turn)  OBVIOUS
      <3>2. interrupted' \in {interrupted, thread = "running"}  OBVIOUS
      <3>3. interrupted' \in BOOLEAN
        <4> HIDE DEF SignalHandled
        <4> QED  BY <3>2
      <3> QED  BY <3>1, <3>3
    <2>3. Phases'  BY DEF Phases
    <2>4. Causes'  BY DEF Phases
    <2> QED  BY <2>2, <2>3, <2>4
  <1> QED  BY <1>1, <1>2 DEF SignalStep

\* IInv is inductive.
THEOREM DaemonInvariance == Spec => []IInv
  <1>1. Init => IInv
    <2> USE DaemonAssumption DEF Init, Kinds, Sigs, SetupPcs
    <2>1. ASSUME Init PROVE TypeOK
      <3> USE <2>1
      <3>1. static \in [Kinds -> 0..turn]  OBVIOUS
      <3>2. shutdownFd \in {"shutdown"} \X (0..turn)
        <4>1. 0 \in 0..turn  OBVIOUS
        <4> QED  BY <4>1
      <3>3. reloadFd \in {"reload"} \X (0..turn)
        <4>1. 0 \in 0..turn  OBVIOUS
        <4> QED  BY <4>1
      <3>4. /\ mpc \in SetupPcs \cup {"listening", "recv", "join", "giveup"}
            /\ turn \in Nat \ {0} /\ exit = "none"
            /\ hups \in Nat /\ terms \in Nat /\ fails \in Nat
        OBVIOUS
      <3>5. handlers \subseteq Sigs /\ readable \subseteq Kinds \X (1..turn)
        OBVIOUS
      <3>6. thread \in ThreadStates /\ request = "none"
        BY DEF ThreadStates
      <3>7. /\ reloadRequested \in BOOLEAN /\ bound \in BOOLEAN
            /\ interrupted \in BOOLEAN
        <4>1. /\ reloadRequested = FALSE /\ bound = FALSE
              /\ interrupted = FALSE
          BY Zenon
        <4> HIDE DEF Init
        <4> QED  BY <4>1, Zenon
      <3> HIDE DEF Init, Kinds, Sigs, SetupPcs
      <3> QED  BY <3>1, <3>2, <3>3, <3>4, <3>5, <3>6, <3>7 DEF TypeOK
    <2>2. Init => Phases  BY DEF Phases
    <2>3. Init => Causes  BY DEF Causes, ReloadsDue, Due
    <2> QED  BY <2>1, <2>2, <2>3 DEF IInv
  <1>2. IInv /\ [Next]_vars => IInv'
    <2> SUFFICES ASSUME IInv, [Next]_vars PROVE IInv'  OBVIOUS
    <2> USE DEF IInv, TypeOK, Phases, Causes, ReloadsDue, Due, mainVars,
                staticVars, causeVars, threadVars, At
    <2>1. CASE MainStep
      BY <2>1, SetupSteps, WaitSteps DEF MainStep
    <2>2. CASE ThreadStep  BY <2>2, ThreadSteps
    <2>3. CASE SignalStep  BY <2>3, SignalSteps
    <2>4. CASE SetupFails  BY <2>4 DEF SetupFails
    <2>5. CASE NotifyListeningFails
      BY <2>5 DEF NotifyListeningFails, SetupPcs
    <2>6. CASE BreakerTrips  BY <2>6 DEF BreakerTrips
    <2>7. CASE PollFails \/ SocketBreaks \/ ThreadPanics
      BY <2>7, ThreadSteps
    <2>8. CASE UNCHANGED vars  BY <2>8 DEF vars
    <2> HIDE DEF IInv
    <2> QED  BY <2>1, <2>2, <2>3, <2>4, <2>5, <2>6, <2>7, <2>8
             DEF Next, FaultStep
  <1> QED  BY <1>1, <1>2, PTL DEF Spec

\* A handler never finds its static unset and never writes to an eventfd that
\* the running welcome thread does not poll.
THEOREM Reach == Spec => []SignalsReachThread
  <1>1. IInv => SignalsReachThread
    BY DEF IInv, TypeOK, Phases, SignalsReachThread, KindOf, Kinds, Sigs,
       SetupPcs
  <1> QED  BY <1>1, DaemonInvariance, PTL

\* However often the daemon reloads, it never meets its own old socket.
THEOREM Rebind == Spec => []RebindSucceeds
  <1>1. IInv => RebindSucceeds
    BY DEF IInv, Phases, RebindSucceeds, SetupPcs
  <1> QED  BY <1>1, DaemonInvariance, PTL

\* send_error! on the welcome thread never finds its receiver gone.
THEOREM Receiver == Spec => []ReceiverOutlivesThread
  <1>1. IInv => ReceiverOutlivesThread
    BY DEF IInv, TypeOK, Phases, ReceiverOutlivesThread, SetupPcs
  <1> QED  BY <1>1, DaemonInvariance, PTL

\* Every reload has its cause, so the daemon does not reload by itself.
THEOREM Accounted == Spec => []ReloadsAccounted
  <1>1. IInv => ReloadsAccounted
    BY DEF IInv, TypeOK, Causes, ReloadsDue, Due, ReloadsAccounted
  <1> QED  BY <1>1, DaemonInvariance, PTL
=============================================================================
