--------------------------- MODULE WelcomeThread ---------------------------
(***************************************************************************)
(* What main relies on of a welcome thread (welcome_thread.rs): when it    *)
(* ends and what it asks main for.  It polls two eventfds that outlive it, *)
(* asks main to shut down or to reload, and ends.  Connections and         *)
(* environments are not said here: module Environments implements this one *)
(* with them, module Daemon uses it as the thread that main owns.          *)
(***************************************************************************)

VARIABLES
  thread,     \* "running"; "ending", or "unwinding" after a panic, while the
              \* environments are dropped; "done" or "panicked"
  request,    \* the first ShutdownSignal or ReloadRequest sent to main
  readable,   \* the eventfds that are readable
  shutdownFd, reloadFd   \* the ones this thread polls

vars == <<thread, request, readable, shutdownFd, reloadFd>>

Init == thread = "running" /\ request = "none"

Send(msg) == request' = IF request = "none" THEN msg ELSE request

\* The shutdown event is readable: it is read, and the loop left.
ServeShutdown ==
  /\ thread = "running"
  /\ shutdownFd \in readable
  /\ readable' = readable \ {shutdownFd}
  /\ Send("shutdown")
  /\ thread' = "ending"
  /\ UNCHANGED <<shutdownFd, reloadFd>>

\* Mutant: the reload event is not read, so it stays readable.
ServeReloadUnread ==
  /\ thread = "running"
  /\ shutdownFd \notin readable /\ reloadFd \in readable
  /\ Send("reload")
  /\ thread' = "ending"
  /\ UNCHANGED <<readable, shutdownFd, reloadFd>>

\* The reload event is, and a shutdown is not due.
ServeReload ==
  /\ thread = "running"
  /\ shutdownFd \notin readable /\ reloadFd \in readable
  /\ readable' = readable \ {reloadFd}
  /\ Send("reload")
  /\ thread' = "ending"
  /\ UNCHANGED <<shutdownFd, reloadFd>>

\* A system call without which the loop cannot go on fails, poll for one.
Fail ==
  /\ thread = "running"
  /\ Send("reload")
  /\ thread' = "ending"
  /\ UNCHANGED <<readable, shutdownFd, reloadFd>>

\* The welcome socket is found broken; the loop goes on.
Break ==
  /\ thread = "running"
  /\ Send("shutdown")
  /\ UNCHANGED <<thread, readable, shutdownFd, reloadFd>>

\* A panic out of the join of an environment's thread: from the loop it
\* unwinds the thread, from the drop of the environments it ends it.
Panic ==
  /\ \/ thread = "running" /\ thread' = "unwinding"
     \/ thread = "ending" /\ thread' = "panicked"
  /\ UNCHANGED <<request, readable, shutdownFd, reloadFd>>

\* The environments are dropped.
End ==
  /\ \/ thread = "ending" /\ thread' = "done"
     \/ thread = "unwinding" /\ thread' = "panicked"
  /\ UNCHANGED <<request, readable, shutdownFd, reloadFd>>

\* A signal handler writes an event.
Raise(fd) ==
  /\ readable' = readable \cup {fd}
  /\ UNCHANGED <<thread, request, shutdownFd, reloadFd>>

Next ==
  \/ ServeShutdown \/ ServeReload \/ Fail \/ Break \/ Panic \/ End
  \/ \E fd \in {shutdownFd, reloadFd} : Raise(fd)

Spec == Init /\ [][Next]_vars
=============================================================================
