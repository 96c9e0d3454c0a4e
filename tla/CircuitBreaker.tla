--------------------------- MODULE CircuitBreaker ---------------------------
(***************************************************************************)
(* circuit_breaker.rs: main calls circuit_breaker() at every reload, and   *)
(* it kills the process once reloads come too fast.  The reloads are       *)
(* counted in epochs: the first reload after an epoch is over opens the    *)
(* next one.  The three statics are only used by main.                     *)
(*                                                                         *)
(* A time is a timespec.  What the breaker promises is said of the times   *)
(* of the reloads that it let through, which only the model remembers.     *)
(***************************************************************************)
EXTENDS Integers, Sequences

CONSTANTS
  EpochSeconds,     \* CIRCUIT_BREAKER_EPOCH_SECONDS
  ReloadsPerEpoch,  \* CIRCUIT_BREAKER_RELOADS_PER_EPOCH
  TicksPerSecond,   \* what tv_nsec counts: one billion on a real machine
  MaxSeconds,       \* bound on the clock
  MaxReloads        \* bound on the reloads that are let through

ASSUME BreakerAssumption ==
  /\ EpochSeconds \in Nat
  /\ ReloadsPerEpoch \in Nat /\ ReloadsPerEpoch > 1
  /\ TicksPerSecond \in Nat \ {0}
  /\ MaxSeconds \in Nat /\ MaxReloads \in Nat

VARIABLES
  now,         \* CLOCK_MONOTONIC_COARSE
  epochStart,  \* EPOCH_START_SECONDS and EPOCH_START_NANOSECONDS
  reloads,     \* RELOADS_SINCE_EPOCH_START
  process,     \* "up", or killed: "tripped", or "clock" when that failed
  log          \* the times of the reloads let through

vars == <<now, epochStart, reloads, process, log>>

Times == [sec : Nat, nsec : 0..TicksPerSecond-1]

NotAfter(t, u) == t.sec < u.sec \/ (t.sec = u.sec /\ t.nsec <= u.nsec)

\* At least s seconds lie between t and u, to the nanosecond.
Apart(t, u, s) == NotAfter([t EXCEPT !.sec = @ + s], u)

TypeOK ==
  /\ now \in Times
  /\ epochStart \in Times
  /\ reloads \in 0..ReloadsPerEpoch-1
  /\ process \in {"up", "tripped", "clock"}
  /\ log \in Seq(Times)

\* The daemon starts any time after boot, which is time 0.
Init ==
  /\ now \in [sec : 0..MaxSeconds, nsec : 0..TicksPerSecond-1]
  /\ epochStart = [sec |-> 0, nsec |-> 0]
  /\ reloads = 0
  /\ process = "up"
  /\ log = <<>>

Tick ==
  /\ process = "up"
  /\ now' \in [sec : now.sec..MaxSeconds, nsec : 0..TicksPerSecond-1]
  /\ now' # now /\ NotAfter(now, now')
  /\ UNCHANGED <<epochStart, reloads, process, log>>

\* Mutant: the borrow is taken the wrong way round.
SwappedBorrow ==
  now.sec - epochStart.sec - (IF epochStart.nsec < now.nsec THEN 1 ELSE 0)

SecondsSinceEpochStart ==
  now.sec - epochStart.sec - (IF epochStart.nsec > now.nsec THEN 1 ELSE 0)

\* Mutant: the epoch is over a second early.
EpochOverEarly == SecondsSinceEpochStart >= EpochSeconds

EpochOver == SecondsSinceEpochStart > EpochSeconds

\* Mutant: the epoch's last reload is let through.
TooManyByOne == reloads >= ReloadsPerEpoch

TooMany == reloads + 1 >= ReloadsPerEpoch

\* Mutant: the count goes on from one epoch to the next.
CountsOn == IF reloads + 1 < ReloadsPerEpoch THEN reloads + 1 ELSE reloads

FirstOfEpoch == 1

OpenEpoch ==
  /\ process = "up"
  /\ Len(log) < MaxReloads
  /\ EpochOver
  /\ epochStart' = now
  /\ reloads' = FirstOfEpoch
  /\ log' = Append(log, now)
  /\ UNCHANGED <<now, process>>

CountReload ==
  /\ process = "up"
  /\ Len(log) < MaxReloads
  /\ ~EpochOver /\ ~TooMany
  /\ reloads' = reloads + 1
  /\ log' = Append(log, now)
  /\ UNCHANGED <<now, epochStart, process>>

\* instant_exit: SIGKILL, and pause until it is delivered.
Trip ==
  /\ process = "up"
  /\ ~EpochOver /\ TooMany
  /\ process' = "tripped"
  /\ UNCHANGED <<now, epochStart, reloads, log>>

\* clock_gettime fails.
ClockFails ==
  /\ process = "up"
  /\ process' = "clock"
  /\ UNCHANGED <<now, epochStart, reloads, log>>

Next == Tick \/ OpenEpoch \/ CountReload \/ Trip \/ ClockFails

Spec == Init /\ [][Next]_vars

-----------------------------------------------------------------------------
(* What the breaker promises *)

\* circuit_breaker.rs: "Exits the program immediately if too many reloads
\* happened in a short time".  Two epochs may meet, so the bound on any short
\* time is twice the bound on an epoch: 2 * ReloadsPerEpoch - 1 reloads that
\* all were let through take at least EpochSeconds and a whole second.
StormStopped ==
  \A i, j \in 1..Len(log) :
    j = i + 2 * ReloadsPerEpoch - 2
      => Apart(log[i], log[j], EpochSeconds + 1)

\* It kills a process only for that: the reload that trips the breaker and
\* the ReloadsPerEpoch - 1 before it came within the epoch's length.
OnlyStormsTrip ==
  process = "tripped" =>
    /\ Len(log) >= ReloadsPerEpoch - 1
    /\ ~Apart(log[Len(log) - ReloadsPerEpoch + 2], now, EpochSeconds + 1)

-----------------------------------------------------------------------------
(* The inductive invariant behind the two promises *)

\* The last reloads entries of the log are the epoch's.
OfEpoch(i) == i > Len(log) - reloads

\* Where the entries of the log lie.  The third part is what keeps two epochs
\* apart: what was logged before the last one started lies a whole epoch before
\* the start of this one.
EpochsApart ==
  /\ reloads <= Len(log)
  /\ NotAfter(epochStart, now)
  /\ \A i \in 1..Len(log) :
       /\ NotAfter(log[i], now)
       /\ OfEpoch(i) => /\ NotAfter(epochStart, log[i])
                        /\ ~Apart(epochStart, log[i], EpochSeconds + 1)
       /\ ~OfEpoch(i) => NotAfter(log[i], epochStart)
       /\ i + reloads + ReloadsPerEpoch - 1 <= Len(log)
            => Apart(log[i], epochStart, EpochSeconds + 1)

Inv == TypeOK /\ EpochsApart /\ StormStopped /\ OnlyStormsTrip
=============================================================================
