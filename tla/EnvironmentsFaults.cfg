SPECIFICATION Spec
CONSTANTS
  Names = {n1}
  Clients = {c1, c2, r}
  Roots = {r}
  Signals = {"reload"}
  Faults = {"start", "wait", "add", "poll", "socket", "destructor", "serve",
            "reply"}
  Malformed = Malformed
  None = None
SYMMETRY Symmetry
INVARIANTS
  OneThreadPerName
  ResponsesInStep
  SenderOutlivesAdd
  MutexShared
  NoUseAfterClose
  AllJoined
  StaleHangUpHarmless
  LingerInStep
  NoLostWakeup
PROPERTIES
  LiveEnvironmentStays
  IsWelcomeThread
