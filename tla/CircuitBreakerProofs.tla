------------------------ MODULE CircuitBreakerProofs ------------------------
(***************************************************************************)
(* The circuit breaker keeps its promises for every epoch length, every    *)
(* limit above one and every clock resolution, hence for the constants of  *)
(* constants.rs: 3 seconds, 100 reloads.                                   *)
(***************************************************************************)
EXTENDS CircuitBreaker, TLAPS

\* Times are ordered.
LEMMA Order ==
  ASSUME NEW t \in Times, NEW u \in Times, NEW v \in Times, NEW s \in Nat
  PROVE  /\ NotAfter(t, t)
         /\ NotAfter(t, u) /\ NotAfter(u, v) => NotAfter(t, v)
         /\ NotAfter(t, u) /\ Apart(u, v, s) => Apart(t, v, s)
         /\ Apart(t, u, s) /\ NotAfter(u, v) => Apart(t, v, s)
  BY BreakerAssumption DEF Times, NotAfter, Apart

\* The difference of the seconds, with the borrow of the nanoseconds, exceeds
\* EpochSeconds exactly when a whole second more has passed.
LEMMA EpochOverExact ==
  ASSUME now \in Times, epochStart \in Times
  PROVE  EpochOver <=> Apart(epochStart, now, EpochSeconds + 1)
  BY BreakerAssumption
  DEF Times, EpochOver, SecondsSinceEpochStart, Apart, NotAfter

\* A reload that is let through is the last entry of the log, and the others
\* stay where they are.
LEMMA Logged ==
  ASSUME TypeOK, log' = Append(log, now)
  PROVE  /\ log' \in Seq(Times)
         /\ Len(log') = Len(log) + 1
         /\ log'[Len(log) + 1] = now
         /\ \A i \in 1..Len(log) : log'[i] = log[i] /\ log[i] \in Times
  BY DEF TypeOK

\* A reload after the epoch is over opens the next one.
LEMMA OpenEpochKeeps ==
  ASSUME Inv, OpenEpoch
  PROVE  Inv'
  <1> USE BreakerAssumption
  <1>1. TypeOK /\ EpochsApart /\ StormStopped /\ now \in Times
        /\ epochStart \in Times /\ reloads \in Nat /\ Len(log) \in Nat
        /\ reloads < ReloadsPerEpoch
    BY DEF Inv, TypeOK
  <1>2. now' = now /\ epochStart' = now /\ reloads' = 1 /\ process' = "up"
    BY DEF OpenEpoch, FirstOfEpoch
  <1>3. /\ log' \in Seq(Times)
        /\ Len(log') = Len(log) + 1
        /\ log'[Len(log) + 1] = now
        /\ \A i \in 1..Len(log) : log'[i] = log[i] /\ log[i] \in Times
    BY <1>1, Logged DEF OpenEpoch
  <1>4. Apart(epochStart, now, EpochSeconds + 1)
    BY <1>1, EpochOverExact DEF OpenEpoch
  <1>5. NotAfter(now, now) /\ ~Apart(now, now, EpochSeconds + 1)
    <2>1. NotAfter(now, now)  BY <1>1, Order
    <2>2. ~Apart(now, now, EpochSeconds + 1)
      <3>1. now.sec \in Nat /\ now.nsec \in Nat  BY <1>1 DEF Times
      <3>2. [now EXCEPT !.sec = @ + (EpochSeconds + 1)].sec
              = now.sec + (EpochSeconds + 1)
        BY <1>1 DEF Times
      <3> QED  BY <3>1, <3>2 DEF Apart, NotAfter
    <2> QED  BY <2>1, <2>2
  <1>6. TypeOK'  BY <1>1, <1>2, <1>3 DEF TypeOK
  <1>7. \A i \in 1..Len(log) :
          i + ReloadsPerEpoch - 1 <= Len(log)
            => Apart(log[i], now, EpochSeconds + 1)
    <2> SUFFICES ASSUME NEW i \in 1..Len(log),
                        i + ReloadsPerEpoch - 1 <= Len(log)
                 PROVE  Apart(log[i], now, EpochSeconds + 1)
      OBVIOUS
    <2>1. NotAfter(log[i], epochStart)
      BY <1>1 DEF EpochsApart, OfEpoch
    <2> QED  BY <1>1, <1>3, <1>4, <2>1, Order
  <1>8. EpochsApart'
    <2>1. reloads' <= Len(log') /\ NotAfter(epochStart', now')
      BY <1>1, <1>2, <1>3, <1>5
    <2>2. ASSUME NEW i \in 1..Len(log')
          PROVE  /\ NotAfter(log'[i], now')
                 /\ i > Len(log') - reloads' =>
                      /\ NotAfter(epochStart', log'[i])
                      /\ ~Apart(epochStart', log'[i], EpochSeconds + 1)
                 /\ ~(i > Len(log') - reloads') =>
                      NotAfter(log'[i], epochStart')
                 /\ i + reloads' + ReloadsPerEpoch - 1 <= Len(log')
                      => Apart(log'[i], epochStart', EpochSeconds + 1)
      <3>1. CASE i = Len(log) + 1  BY <3>1, <1>1, <1>2, <1>3, <1>5
      <3>2. CASE i \in 1..Len(log)
        <4>1. NotAfter(log[i], now)  BY <3>2, <1>1 DEF EpochsApart
        <4> QED  BY <3>2, <4>1, <1>1, <1>2, <1>3, <1>7
      <3> QED  BY <3>1, <3>2, <1>1, <1>3
    <2> QED  BY <2>1, <2>2 DEF EpochsApart, OfEpoch
  <1>9. StormStopped'
    <2> SUFFICES ASSUME NEW i \in 1..Len(log'), NEW j \in 1..Len(log'),
                        j = i + 2 * ReloadsPerEpoch - 2
                 PROVE  Apart(log'[i], log'[j], EpochSeconds + 1)
      BY DEF StormStopped
    <2>1. CASE j \in 1..Len(log)  BY <2>1, <1>1, <1>3 DEF StormStopped
    <2>2. CASE j = Len(log) + 1
      <3>1. i \in 1..Len(log) /\ i + ReloadsPerEpoch - 1 <= Len(log)
        BY <2>2, <1>1
      <3> QED  BY <2>2, <3>1, <1>3, <1>7
    <2> QED  BY <2>1, <2>2, <1>1, <1>3
  <1> QED  BY <1>2, <1>6, <1>8, <1>9 DEF Inv, OnlyStormsTrip

\* A reload within the epoch is counted.
LEMMA CountReloadKeeps ==
  ASSUME Inv, CountReload
  PROVE  Inv'
  <1> USE BreakerAssumption
  <1>1. TypeOK /\ EpochsApart /\ StormStopped /\ now \in Times
        /\ epochStart \in Times /\ reloads \in Nat /\ Len(log) \in Nat
    BY DEF Inv, TypeOK
  <1>2. now' = now /\ epochStart' = epochStart /\ reloads' = reloads + 1
        /\ process' = "up" /\ reloads + 1 < ReloadsPerEpoch
    BY <1>1 DEF CountReload, TooMany
  <1>3. /\ log' \in Seq(Times)
        /\ Len(log') = Len(log) + 1
        /\ log'[Len(log) + 1] = now
        /\ \A i \in 1..Len(log) : log'[i] = log[i] /\ log[i] \in Times
    BY <1>1, Logged DEF CountReload
  <1>4. ~Apart(epochStart, now, EpochSeconds + 1)
    BY <1>1, EpochOverExact DEF CountReload
  <1>5. NotAfter(now, now) /\ NotAfter(epochStart, now)
    BY <1>1 DEF NotAfter, Times, EpochsApart
  <1>6. TypeOK'  BY <1>1, <1>2, <1>3 DEF TypeOK
  <1>7. EpochsApart'
    <2>1. reloads' <= Len(log') /\ NotAfter(epochStart', now')
      BY <1>1, <1>2, <1>3, <1>5 DEF EpochsApart
    <2>2. ASSUME NEW i \in 1..Len(log')
          PROVE  /\ NotAfter(log'[i], now')
                 /\ i > Len(log') - reloads' =>
                      /\ NotAfter(epochStart', log'[i])
                      /\ ~Apart(epochStart', log'[i], EpochSeconds + 1)
                 /\ ~(i > Len(log') - reloads') =>
                      NotAfter(log'[i], epochStart')
                 /\ i + reloads' + ReloadsPerEpoch - 1 <= Len(log')
                      => Apart(log'[i], epochStart', EpochSeconds + 1)
      <3>1. CASE i = Len(log) + 1  BY <3>1, <1>1, <1>2, <1>3, <1>4, <1>5
      <3>2. CASE i \in 1..Len(log)
        BY <3>2, <1>1, <1>2, <1>3 DEF EpochsApart, OfEpoch
      <3> QED  BY <3>1, <3>2, <1>1, <1>3
    <2> QED  BY <2>1, <2>2 DEF EpochsApart, OfEpoch
  <1>8. StormStopped'
    <2> SUFFICES ASSUME NEW i \in 1..Len(log'), NEW j \in 1..Len(log'),
                        j = i + 2 * ReloadsPerEpoch - 2
                 PROVE  Apart(log'[i], log'[j], EpochSeconds + 1)
      BY DEF StormStopped
    <2>1. CASE j \in 1..Len(log)  BY <2>1, <1>1, <1>3 DEF StormStopped
    <2>2. CASE j = Len(log) + 1
      <3>1. i \in 1..Len(log) /\ i + reloads + ReloadsPerEpoch - 1 <= Len(log)
        BY <2>2, <1>1, <1>2
      <3>2. Apart(log[i], epochStart, EpochSeconds + 1)
        BY <3>1, <1>1 DEF EpochsApart
      <3>3. Apart(log[i], now, EpochSeconds + 1)
        BY <3>1, <3>2, <1>1, <1>3, <1>5, Order
      <3> QED  BY <2>2, <3>1, <3>3, <1>3
    <2> QED  BY <2>1, <2>2, <1>1, <1>3
  <1> QED  BY <1>2, <1>6, <1>7, <1>8 DEF Inv, OnlyStormsTrip

\* The breaker trips inside an epoch of ReloadsPerEpoch - 1 reloads.
LEMMA TripKeeps ==
  ASSUME Inv, Trip
  PROVE  Inv'
  <1> USE BreakerAssumption
  <1>1. TypeOK /\ EpochsApart /\ now \in Times /\ epochStart \in Times
        /\ Len(log) \in Nat /\ reloads = ReloadsPerEpoch - 1
    BY DEF Inv, TypeOK, Trip, TooMany
  <1>2. UNCHANGED <<now, epochStart, reloads, log>> /\ process' = "tripped"
    BY DEF Trip
  <1>3. ~Apart(epochStart, now, EpochSeconds + 1)
    BY <1>1, EpochOverExact DEF Trip
  <1> DEFINE first == Len(log) - ReloadsPerEpoch + 2
  <1>4. first \in 1..Len(log) /\ first > Len(log) - reloads
        /\ Len(log) >= ReloadsPerEpoch - 1
    BY <1>1 DEF EpochsApart
  <1>5. log[first] \in Times /\ NotAfter(epochStart, log[first])
    <2> HIDE DEF first
    <2> QED  BY <1>1, <1>4 DEF TypeOK, EpochsApart, OfEpoch
  <1>6. ~Apart(log[first], now, EpochSeconds + 1)
    <2> HIDE DEF first
    <2> QED  BY <1>1, <1>3, <1>5, Order
  <1>7. OnlyStormsTrip'  BY <1>2, <1>4, <1>6 DEF OnlyStormsTrip
  <1> QED  BY <1>2, <1>7 DEF Inv, TypeOK, EpochsApart, OfEpoch, StormStopped

\* The clock only moves on, and what lies in the past stays there.
LEMMA TickKeeps ==
  ASSUME Inv, Tick
  PROVE  Inv'
  <1> USE BreakerAssumption
  <1>1. now \in Times /\ epochStart \in Times /\ TypeOK
        /\ \A i \in 1..Len(log) : log[i] \in Times
    BY DEF Inv, TypeOK
  <1>2. now' \in Times /\ NotAfter(now, now') /\ process = "up"
        /\ UNCHANGED <<epochStart, reloads, process, log>>
    BY <1>1 DEF Tick, Times
  <1>3. TypeOK'  BY <1>1, <1>2 DEF TypeOK
  <1>4. NotAfter(epochStart, now')
    BY <1>1, <1>2, Order DEF Inv, EpochsApart
  <1>5. \A i \in 1..Len(log) : NotAfter(log[i], now')
    BY <1>1, <1>2, Order DEF Inv, EpochsApart
  <1>6. EpochsApart'
    BY <1>2, <1>4, <1>5 DEF Inv, EpochsApart, OfEpoch
  <1> QED  BY <1>2, <1>3, <1>6 DEF Inv, StormStopped, OnlyStormsTrip

\* Inv is inductive.
THEOREM BreakerInvariance == Spec => []Inv
  <1>1. Init => Inv
    BY BreakerAssumption
    DEF Init, Inv, TypeOK, EpochsApart, StormStopped, OnlyStormsTrip, Times,
        NotAfter
  <1>2. Inv /\ [Next]_vars => Inv'
    <2> SUFFICES ASSUME Inv, [Next]_vars PROVE Inv'  OBVIOUS
    <2>1. CASE ClockFails
      BY <2>1 DEF ClockFails, Inv, TypeOK, EpochsApart, OfEpoch,
         StormStopped, OnlyStormsTrip
    <2>2. CASE UNCHANGED vars
      BY <2>2 DEF vars, Inv, TypeOK, EpochsApart, OfEpoch, StormStopped,
         OnlyStormsTrip
    <2> QED  BY <2>1, <2>2, OpenEpochKeeps, CountReloadKeeps, TripKeeps,
                TickKeeps DEF Next
  <1> QED  BY <1>1, <1>2, PTL DEF Spec

\* An epoch never lets its limit of reloads through.
THEOREM BreakerTypes == Spec => []TypeOK
  BY BreakerInvariance, PTL DEF Inv

\* The log and the statics agree: the last reloads of the log are the epoch's,
\* and those R - 1 before them lie a whole epoch before its start.
THEOREM BreakerEpochs == Spec => []EpochsApart
  BY BreakerInvariance, PTL DEF Inv

\* However fast the daemon asks for reloads, 2 * ReloadsPerEpoch - 1 of them
\* take at least the length of an epoch and a second.
THEOREM BreakerStops == Spec => []StormStopped
  BY BreakerInvariance, PTL DEF Inv

\* However long it runs, a daemon that does not reload that fast is not killed
\* for it.
THEOREM BreakerSpares == Spec => []OnlyStormsTrip
  BY BreakerInvariance, PTL DEF Inv
=============================================================================
