----------------------------- MODULE Directory -----------------------------
(***************************************************************************)
(* What an environment promises its clients about the resources they share *)
(* (the mutexes of handle_open_mutex): a name is bound once, to memory     *)
(* that belongs to no other name, and stays bound to it until the          *)
(* environment closes.  Then the destructor of every resource runs once,   *)
(* and the memory is released after the last of them.  How the memory is   *)
(* found, and what a destructor does, is not said here.                    *)
(***************************************************************************)
EXTENDS Naturals

CONSTANTS
  Names,   \* resource names
  Size,    \* the size in bytes of each type of resource
  None

VARIABLES
  directory,  \* where each name's resource is: its type, page and offset
  open,       \* the environment still answers requests
  destroyed,  \* the names whose resource has been destroyed
  released    \* the memory has been given back

vars == <<directory, open, destroyed, released>>

Overlap(a, b) ==
  /\ a.page = b.page
  /\ a.offset < b.offset + Size[b.type]
  /\ b.offset < a.offset + Size[a.type]

Init ==
  /\ directory = [n \in Names |-> None] /\ open = TRUE
  /\ destroyed = {} /\ released = FALSE

Bind(n) ==
  /\ open
  /\ directory[n] = None /\ directory'[n] # None
  /\ directory' = [directory EXCEPT ![n] = directory'[n]]
  /\ \A m \in Names \ {n} :
       directory[m] # None => ~Overlap(directory[m], directory'[n])
  /\ UNCHANGED <<open, destroyed, released>>

Close == open /\ open' = FALSE /\ UNCHANGED <<directory, destroyed, released>>

Destroy(n) ==
  /\ ~open /\ ~released
  /\ directory[n] # None /\ n \notin destroyed
  /\ destroyed' = destroyed \cup {n}
  /\ UNCHANGED <<directory, open, released>>

Release ==
  /\ ~open /\ ~released
  /\ \A n \in Names : directory[n] # None => n \in destroyed
  /\ released' = TRUE
  /\ UNCHANGED <<directory, open, destroyed>>

Next == (\E n \in Names : Bind(n) \/ Destroy(n)) \/ Close \/ Release

Spec == Init /\ [][Next]_vars
=============================================================================
