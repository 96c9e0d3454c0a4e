------------------------------ MODULE Service ------------------------------
(***************************************************************************)
(* What garnd promises the processes that use it.  A connection asks for   *)
(* an environment by name and is attached to the one that serves that      *)
(* name, where it is given a mutex.  There is one environment at a time    *)
(* for a name, and it is closed when no connection is attached to it or    *)
(* the daemon stops.  Threads, channels, events and requests under way are *)
(* not said here: module Environments implements this one with them.       *)
(*                                                                         *)
(* An environment is named by the connection it was opened for.            *)
(***************************************************************************)
CONSTANTS
  Names, Clients, Malformed, None,
  MayFail    \* an environment may be lost, and its connections with it

VARIABLES
  name,      \* the name that a connection asked for
  serving,   \* the environments that exist
  past,      \* those that existed
  members,   \* the connections attached to an environment
  told,      \* connections that were told that they are attached
  gone,      \* connections that were hung up
  mutex,     \* the environment whose mutex a connection was given
  stopping   \* the daemon stops or reloads

vars == <<name, serving, past, members, told, gone, mutex, stopping>>

Init ==
  /\ name = [c \in Clients |-> None]
  /\ serving = {} /\ past = {}
  /\ members = [e \in Clients |-> {}]
  /\ told = {} /\ gone = {}
  /\ mutex = [c \in Clients |-> None]
  /\ stopping = FALSE

Ask(c, r) ==
  /\ name[c] = None
  /\ name' = [name EXCEPT ![c] = r]
  /\ UNCHANGED <<serving, past, members, told, gone, mutex, stopping>>

HangUp(c) ==
  /\ gone' = gone \cup {c}
  /\ UNCHANGED <<name, serving, past, members, told, mutex, stopping>>

\* A name is served once at a time, by an environment that is new.
Open(e) ==
  /\ ~stopping
  /\ e \notin serving \cup past
  /\ name[e] \in Names
  /\ \A f \in serving : name[f] # name[e]
  /\ serving' = serving \cup {e}
  /\ UNCHANGED <<name, past, members, told, gone, mutex, stopping>>

Attach(c, e) ==
  /\ ~stopping
  /\ e \in serving
  /\ name[c] = name[e]
  /\ mutex[c] = None
  /\ \A f \in Clients : c \notin members[f]
  /\ members' = [members EXCEPT ![e] = @ \cup {c}]
  /\ UNCHANGED <<name, serving, past, told, gone, mutex, stopping>>

\* Nobody is told so who is not attached.
Tell(c) ==
  /\ ~stopping
  /\ MayFail \/ c \in gone \/ \E e \in serving : c \in members[e]
  /\ told' = told \cup {c}
  /\ UNCHANGED <<name, serving, past, members, gone, mutex, stopping>>

\* A connection that was given a mutex is never given another's.
Give(c, e) ==
  /\ e \in serving /\ c \in members[e]
  /\ mutex[c] \in {None, e}
  /\ mutex' = [mutex EXCEPT ![c] = e]
  /\ UNCHANGED <<name, serving, past, members, told, gone, stopping>>

\* Nobody is detached who has not hung up ...
Leave(c, e) ==
  /\ c \in gone
  /\ members' = [members EXCEPT ![e] = @ \ {c}]
  /\ UNCHANGED <<name, serving, past, told, gone, mutex, stopping>>

\* ... and no environment is closed on its connections, except by a stop.
Close(e) ==
  /\ e \in serving
  /\ MayFail \/ stopping \/ members[e] = {}
  /\ serving' = serving \ {e}
  /\ past' = past \cup {e}
  /\ members' = [members EXCEPT ![e] = {}]
  /\ UNCHANGED <<name, told, gone, mutex, stopping>>

Stop ==
  /\ stopping' = TRUE
  /\ UNCHANGED <<name, serving, past, members, told, gone, mutex>>

Next ==
  \/ \E c \in Clients : \/ HangUp(c) \/ Tell(c) \/ Open(c) \/ Close(c)
                        \/ \E r \in Names \cup {Malformed} : Ask(c, r)
  \/ \E c, e \in Clients : Attach(c, e) \/ Give(c, e) \/ Leave(c, e)
  \/ Stop

Spec == Init /\ [][Next]_vars
=============================================================================
