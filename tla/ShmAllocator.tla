---------------------------- MODULE ShmAllocator ----------------------------
(***************************************************************************)
(* The allocator of an environment's shared memory (shm_allocator.rs) with *)
(* the one caller it has, handle_open_mutex of its environment's thread.   *)
(*                                                                         *)
(* Memory is handed out from the last page by moving free_ptr up; a page   *)
(* that has no room left is followed by a new one and never looked at      *)
(* again, and nothing is given back before the allocator is dropped.  A    *)
(* page is its index: each is one memfd, sealed against resizing and       *)
(* mapped once.  A call that fails before it changes the allocator (name   *)
(* of another type, resource too large, no memory for a page) is a         *)
(* stuttering step and has no action.                                      *)
(***************************************************************************)
EXTENDS Naturals

CONSTANTS
  Names,     \* resource names
  Types,     \* types T of construct_in_shm::<T>
  Size,      \* size_of::<T>()
  Align,     \* align_of::<T>()
  PageSize,  \* sysconf(PAGE_SIZE)
  MaxPages,  \* bound: with so many pages memfd_create fails
  None

ASSUME AllocatorAssumption ==
  /\ PageSize \in Nat \ {0}  \* ShmAllocator::new refuses 0
  /\ MaxPages \in Nat
  /\ Size \in [Types -> Nat]
  /\ Align \in [Types -> Nat \ {0}]
  /\ None \notin [type : Types, page : Nat, offset : Nat]

VARIABLES
  phase,       \* "live", then the steps of drop; "crashed" by an unwrap
  resources,   \* HashMap<String, ResourceMetadata>
  pages,       \* pages.len()
  freePtr,     \* free_ptr, an offset in the last page
  told,        \* the locations sent to clients
  drained,     \* resources that drop has taken out of the map
  firstPanic,  \* drop: first_panic.is_some()
  unwinding    \* drop runs while the thread is panicking

vars == <<phase, resources, pages, freePtr, told, drained, firstPanic,
          unwinding>>

Locations == [type : Types, page : Nat, offset : Nat]
End(r)    == r.offset + Size[r.type]
Over      == phase \in {"dropped", "panicked"}

TypeOK ==
  /\ phase \in {"live", "draining", "dropped", "panicked", "crashed"}
  /\ resources \in [Names -> Locations \cup {None}]
  /\ pages \in 0..MaxPages
  /\ freePtr \in 0..PageSize
  /\ told \subseteq [name : Names, at : Locations]
  /\ drained \subseteq Names
  /\ firstPanic \in BOOLEAN
  /\ unwinding \in BOOLEAN

Init ==
  /\ phase = "live"
  /\ resources = [n \in Names |-> None]
  /\ pages = 0 /\ freePtr = 0
  /\ told = {} /\ drained = {}
  /\ firstPanic = FALSE /\ unwinding = FALSE

-----------------------------------------------------------------------------
(* Allocation *)

\* Mutant: the pointer is not aligned.
Unaligned(ptr, align) == ptr

\* get_aligned_free_pointer, before its check against the page size ...
AlignUp(ptr, align) ==
  IF ptr % align = 0 THEN ptr ELSE ptr + (align - (ptr % align))

\* Mutant: only the start of the resource has to be in the page.
FitsStart(ptr, t) == AlignUp(ptr, Align[t]) <= PageSize

\* ... and the check.
Fits(ptr, t) == AlignUp(ptr, Align[t]) + Size[t] <= PageSize

\* construct_in_shm makes a new page when there is none or the last is full.
\* The first page is empty, so a second is never made by the same call.
NeedsPage(t) == pages = 0 \/ ~Fits(freePtr, t)

\* Where the resource goes, once the new page, if needed, is there.
Base(t)   == IF NeedsPage(t) THEN 0 ELSE freePtr
Offset(t) == AlignUp(Base(t), Align[t])

\* Mutant: a resource as large as the page plus its alignment is let through.
AdmitsLarger(t) == Size[t] <= 2 * PageSize

\* The checks of construct_in_shm before it touches the allocator.
Admits(t) == Size[t] <= PageSize /\ Align[t] <= PageSize

\* Mutant: free_ptr is not moved to the start of a new page's free memory.
ReserveKeeps(t) ==
  /\ pages' = IF NeedsPage(t) THEN pages + 1 ELSE pages
  /\ freePtr' = IF NeedsPage(t) THEN freePtr ELSE Offset(t) + Size[t]

\* The memory is taken whether or not the constructor then succeeds.
Reserve(t) ==
  /\ pages' = IF NeedsPage(t) THEN pages + 1 ELSE pages
  /\ freePtr' = Offset(t) + Size[t]

\* Mutant: a resource is looked for in the last page.
RespondLastPage(n, r) ==
  told' = told \cup {[name |-> n, at |-> [r EXCEPT !.page = pages' - 1]]}

\* The response of handle_open_mutex; a client that does not get it is not
\* told, but the resource stays.
Respond(n, r) ==
  \E ok \in BOOLEAN :
    told' = IF ok THEN told \cup {[name |-> n, at |-> r]} ELSE told

\* find_resource finds the name, with the type asked for.
OpenExisting(n, t) ==
  /\ phase = "live"
  /\ resources[n] # None
  /\ resources[n].type = t
  /\ UNCHANGED <<phase, resources, pages, freePtr, drained, firstPanic,
                 unwinding>>
  /\ Respond(n, resources[n])

\* find_resource finds nothing and construct_in_shm succeeds.  It unwraps the
\* pointer it got from the new page: without one the thread panics.
Construct(n, t) ==
  /\ phase = "live"
  /\ resources[n] = None
  /\ Admits(t)
  /\ NeedsPage(t) => pages < MaxPages
  /\ IF Fits(Base(t), t)
     THEN LET r == [type |-> t, offset |-> Offset(t),
                    page |-> IF NeedsPage(t) THEN pages ELSE pages - 1]
          IN /\ Reserve(t)
             /\ resources' = [resources EXCEPT ![n] = r]
             /\ Respond(n, r)
             /\ UNCHANGED phase
     ELSE phase' = "crashed" /\ UNCHANGED <<resources, pages, freePtr, told>>
  /\ UNCHANGED <<drained, firstPanic, unwinding>>

\* The placement constructor (PthreadMutex::init) fails.
ConstructorFails(n, t) ==
  /\ phase = "live"
  /\ resources[n] = None
  /\ Admits(t)
  /\ NeedsPage(t) => pages < MaxPages
  /\ Fits(Base(t), t)
  /\ Reserve(t)
  /\ UNCHANGED <<phase, resources, told, drained, firstPanic, unwinding>>

-----------------------------------------------------------------------------
(* Drop *)

BeginDrop ==
  /\ phase = "live"
  /\ phase' = "draining"
  /\ unwinding' \in BOOLEAN
  /\ UNCHANGED <<resources, pages, freePtr, told, drained, firstPanic>>

\* One resource's destructor runs; its panic is caught and the first is kept.
Destroy(n) ==
  /\ phase = "draining"
  /\ resources[n] # None /\ n \notin drained
  /\ drained' = drained \cup {n}
  /\ firstPanic' \in {firstPanic, TRUE}
  /\ UNCHANGED <<phase, resources, pages, freePtr, told, unwinding>>

\* Mutant: a destructor's panic ends the loop over the resources.
FinishAtPanic ==
  /\ phase = "draining"
  /\ firstPanic \/ \A n \in Names : resources[n] # None => n \in drained
  /\ phase' = IF firstPanic /\ ~unwinding THEN "panicked" ELSE "dropped"
  /\ UNCHANGED <<resources, pages, freePtr, told, drained, firstPanic,
                 unwinding>>

\* The pages are unmapped and the first panic, if any, resumed, unless the
\* thread is panicking already.
FinishDrop ==
  /\ phase = "draining"
  /\ \A n \in Names : resources[n] # None => n \in drained
  /\ phase' = IF firstPanic /\ ~unwinding THEN "panicked" ELSE "dropped"
  /\ UNCHANGED <<resources, pages, freePtr, told, drained, firstPanic,
                 unwinding>>

\* The allocator is gone.
Gone == Over /\ UNCHANGED vars

Next ==
  \/ \E n \in Names, t \in Types :
       OpenExisting(n, t) \/ Construct(n, t) \/ ConstructorFails(n, t)
  \/ BeginDrop
  \/ \E n \in Names : Destroy(n)
  \/ FinishDrop
  \/ Gone

Spec == Init /\ [][Next]_vars

-----------------------------------------------------------------------------
(* Properties *)

\* The safety comments of construct_in_shm: a resource is inside a page that
\* exists and at an offset its type may be read from.
WellPlaced ==
  \A n \in Names : resources[n] # None =>
    /\ resources[n].page < pages
    /\ End(resources[n]) <= PageSize
    /\ resources[n].offset % Align[resources[n].type] = 0

\* No byte belongs to two resources, through full pages, failed constructors
\* and mixed alignments.
NoOverlap ==
  \A m, n \in Names :
    /\ m # n /\ resources[m] # None /\ resources[n] # None
    /\ resources[m].page = resources[n].page
    => \/ End(resources[m]) <= resources[n].offset
       \/ End(resources[n]) <= resources[m].offset

\* The unwrap of construct_in_shm never fails: a resource that passed the
\* checks fits into an empty page.
NeverCrashes == phase # "crashed"

\* Two clients that were given the same name were given the same memory, and
\* it is where the allocator still has it.
ClientsAgree ==
  /\ \A a, b \in told : a.name = b.name => a = b
  /\ \A a \in told : resources[a.name] = a.at

\* Everything in the last page is below free_ptr, so what is handed out next
\* is free.
BelowFreePtr ==
  /\ pages = 0 => freePtr = 0
  /\ \A n \in Names :
       resources[n] # None /\ resources[n].page + 1 = pages
         => End(resources[n]) <= freePtr

\* The inductive invariant: WellPlaced and NoOverlap need BelowFreePtr.
IInv ==
  /\ TypeOK /\ BelowFreePtr /\ WellPlaced /\ NoOverlap
  /\ NeverCrashes /\ ClientsAgree

\* The allocator keeps the promise of Directory: a name is bound once, to
\* memory of its own, and never moved; and, whatever destructor panics, what
\* the comment in drop says: "Catch the first panic and later resume it [...]
\* but free all the shared resources first".
Promise == INSTANCE Directory WITH directory <- resources,
                                   open <- phase = "live",
                                   destroyed <- drained,
                                   released <- Over
KeepsPromise == Promise!Spec
=============================================================================
