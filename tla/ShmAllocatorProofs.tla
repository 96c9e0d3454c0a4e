------------------------- MODULE ShmAllocatorProofs -------------------------
(***************************************************************************)
(* For every page size, every set of types and every alignment (a power of *)
(* two or not): resources are aligned, inside their page and apart, the    *)
(* allocator's unwrap never fails, and it implements Directory.            *)
(***************************************************************************)
EXTENDS ShmAllocator, Integers, TLAPS

-----------------------------------------------------------------------------
(* Arithmetic of get_aligned_free_pointer *)

\* No multiple of a but 0 is in 0 .. a-1.
LEMMA SmallMultiple ==
  ASSUME NEW a \in Nat \ {0}, NEW k \in Int, NEW r \in Nat, r < a, a * k = r
  PROVE  k = 0
  <1>1. ASSUME k >= 1 PROVE FALSE
    <2>1. a * k >= a  BY <1>1
    <2> QED  BY <2>1
  <1>2. ASSUME k <= -1 PROVE FALSE
    <2>1. a * k <= -a  BY <1>2
    <2> QED  BY <2>1
  <1> QED  BY <1>1, <1>2

\* A multiple of a leaves no remainder.
LEMMA MultipleMod ==
  ASSUME NEW a \in Nat \ {0}, NEW k \in Nat
  PROVE  (a * k) % a = 0
  <1> DEFINE m == a * k
  <1>1. m \in Nat  OBVIOUS
  <1>2. /\ m = a * (m \div a) + (m % a)
        /\ m % a \in Nat /\ m % a < a /\ m \div a \in Int
    BY <1>1
  <1>3. a * (k - (m \div a)) = m % a  BY <1>2
  <1>4. k - (m \div a) = 0  BY <1>2, <1>3, SmallMultiple
  <1> QED  BY <1>2, <1>3, <1>4

\* AlignUp returns an aligned pointer that is not before the one it got, and
\* leaves the start of a page where it is.
LEMMA AlignUpFacts ==
  ASSUME NEW p \in Nat, NEW a \in Nat \ {0}
  PROVE  /\ AlignUp(p, a) \in Nat
         /\ p <= AlignUp(p, a)
         /\ p = 0 => AlignUp(p, a) = 0
         /\ AlignUp(p, a) % a = 0
  <1>1. /\ AlignUp(p, a) \in Nat /\ p <= AlignUp(p, a)
        /\ p = 0 => AlignUp(p, a) = 0
    BY DEF AlignUp
  <1>2. AlignUp(p, a) % a = 0
    <2>1. CASE p % a = 0  BY <2>1 DEF AlignUp
    <2>2. CASE p % a # 0
      <3>1. p = a * (p \div a) + (p % a) /\ p \div a \in Nat  OBVIOUS
      <3>2. AlignUp(p, a) = a * ((p \div a) + 1)  BY <2>2, <3>1 DEF AlignUp
      <3> QED  BY <3>1, <3>2, MultipleMod
    <2> QED  BY <2>1, <2>2
  <1> QED  BY <1>1, <1>2

\* Where an admitted type is placed: in the page, aligned, and past free_ptr
\* unless it is the first in its page.
LEMMA Placement ==
  ASSUME TypeOK, NEW t \in Types, Admits(t)
  PROVE  /\ Fits(Base(t), t)
         /\ Offset(t) \in Nat /\ Offset(t) + Size[t] \in 0..PageSize
         /\ Offset(t) % Align[t] = 0
         /\ ~NeedsPage(t) => pages > 0 /\ freePtr <= Offset(t)
  <1> USE AllocatorAssumption DEF TypeOK
  <1>1. /\ Base(t) \in Nat /\ Align[t] \in Nat \ {0} /\ Size[t] \in Nat
        /\ NeedsPage(t) => Base(t) = 0
        /\ ~NeedsPage(t) => Base(t) = freePtr /\ pages > 0 /\ Fits(freePtr, t)
    BY DEF Base, NeedsPage
  <1>2. /\ Offset(t) \in Nat /\ Base(t) <= Offset(t)
        /\ Base(t) = 0 => Offset(t) = 0
        /\ Offset(t) % Align[t] = 0
    BY <1>1, AlignUpFacts DEF Offset
  <1>3. Fits(Base(t), t)  BY <1>1, <1>2 DEF Fits, Offset, Admits
  <1>4. Offset(t) + Size[t] \in 0..PageSize
    BY <1>1, <1>2, <1>3 DEF Fits, Offset
  <1> QED  BY <1>1, <1>2, <1>3, <1>4

-----------------------------------------------------------------------------
(* The inductive invariant *)

\* The allocator starts empty.
LEMMA InitIInv == ASSUME Init PROVE IInv
  <1>1. TypeOK
    <2>1. PageSize \in Nat /\ MaxPages \in Nat  BY AllocatorAssumption
    <2>2. pages \in 0..MaxPages /\ freePtr \in 0..PageSize  BY <2>1 DEF Init
    <2>3. resources \in [Names -> Locations \cup {None}]  BY DEF Init
    <2> QED  BY <2>2, <2>3 DEF Init, TypeOK
  <1>2. BelowFreePtr /\ WellPlaced /\ NoOverlap
    BY DEF Init, BelowFreePtr, WellPlaced, NoOverlap
  <1>3. NeverCrashes /\ ClientsAgree
    BY DEF Init, NeverCrashes, ClientsAgree
  <1> QED  BY <1>1, <1>2, <1>3 DEF IInv

\* A new resource keeps every other one apart, whichever page it is in.
LEMMA ConstructStep ==
  ASSUME IInv, NEW n \in Names, NEW t \in Types, Construct(n, t)
  PROVE  IInv'
  <1> DEFINE r == [type |-> t, offset |-> Offset(t),
                   page |-> IF NeedsPage(t) THEN pages ELSE pages - 1]
  <1> USE AllocatorAssumption DEF IInv, TypeOK
  <1>1. /\ Fits(Base(t), t)
        /\ Offset(t) \in Nat /\ Offset(t) + Size[t] \in 0..PageSize
        /\ Offset(t) % Align[t] = 0
        /\ ~NeedsPage(t) => pages > 0 /\ freePtr <= Offset(t)
    BY Placement DEF Construct
  <1>2. /\ phase = "live" /\ resources[n] = None
        /\ NeedsPage(t) => pages < MaxPages
        /\ resources' = [resources EXCEPT ![n] = r]
        /\ pages' = IF NeedsPage(t) THEN pages + 1 ELSE pages
        /\ freePtr' = Offset(t) + Size[t]
        /\ told' \in {told, told \cup {[name |-> n, at |-> r]}}
        /\ UNCHANGED <<phase, drained, firstPanic, unwinding>>
    BY <1>1 DEF Construct, Reserve, Respond
  <1>3. r \in Locations /\ r # None /\ Size[t] \in Nat
        /\ r.type = t /\ r.offset = Offset(t) /\ r.page + 1 = pages'
    BY <1>1, <1>2 DEF Locations
  <1>4. \A m \in Names \ {n} : resources'[m] = resources[m]  BY <1>2
  <1>5. resources'[n] = r  BY <1>2
  <1> HIDE DEF r
  <1>6. TypeOK'
    <2>1. resources' \in [Names -> Locations \cup {None}]  BY <1>2, <1>3
    <2>2. told' \subseteq [name : Names, at : Locations]  BY <1>2, <1>3
    <2> QED  BY <1>1, <1>2, <2>1, <2>2
  <1>7. WellPlaced'
    BY <1>1, <1>2, <1>3, <1>4, <1>5 DEF WellPlaced, End, Locations
  <1>8. BelowFreePtr'
    BY <1>1, <1>2, <1>3, <1>4, <1>5
    DEF BelowFreePtr, WellPlaced, End, Locations
  <1>9. NoOverlap'
    <2>1. ASSUME NEW m \in Names \ {n}, resources[m] # None,
                 resources[m].page = r.page
          PROVE  End(resources[m]) <= r.offset
      BY <1>1, <1>2, <1>3, <2>1
      DEF BelowFreePtr, WellPlaced, End, Locations
    <2> QED  BY <1>3, <1>4, <1>5, <2>1 DEF NoOverlap, End
  <1>10. ClientsAgree'
    <2>1. \A a \in told : a.name # n /\ resources'[a.name] = a.at
      BY <1>2, <1>4 DEF ClientsAgree, Locations
    <2> QED  BY <1>2, <1>5, <2>1 DEF ClientsAgree
  <1>11. NeverCrashes'  BY <1>2 DEF NeverCrashes
  <1> QED  BY <1>6, <1>7, <1>8, <1>9, <1>10, <1>11

\* Memory that a failed constructor leaves behind belongs to nobody.
LEMMA ConstructorFailsStep ==
  ASSUME IInv, NEW n \in Names, NEW t \in Types, ConstructorFails(n, t)
  PROVE  IInv'
  <1> USE AllocatorAssumption DEF IInv, TypeOK
  <1>1. /\ Offset(t) \in Nat /\ Offset(t) + Size[t] \in 0..PageSize
        /\ ~NeedsPage(t) => pages > 0 /\ freePtr <= Offset(t)
        /\ Size[t] \in Nat
    BY Placement DEF ConstructorFails
  <1>2. /\ NeedsPage(t) => pages < MaxPages
        /\ pages' = IF NeedsPage(t) THEN pages + 1 ELSE pages
        /\ freePtr' = Offset(t) + Size[t]
        /\ UNCHANGED <<phase, resources, told, drained, firstPanic,
                       unwinding>>
    BY DEF ConstructorFails, Reserve
  <1>3. TypeOK'  BY <1>1, <1>2
  <1>4. WellPlaced'  BY <1>1, <1>2 DEF WellPlaced, End, Locations
  <1>5. BelowFreePtr'
    BY <1>1, <1>2 DEF BelowFreePtr, WellPlaced, End, Locations
  <1>6. NoOverlap' /\ NeverCrashes' /\ ClientsAgree'
    BY <1>2 DEF NoOverlap, End, NeverCrashes, ClientsAgree
  <1> QED  BY <1>3, <1>4, <1>5, <1>6

\* IInv holds in every reachable state.
THEOREM Invariance == Spec => []IInv
  <1>1. Init => IInv  BY InitIInv
  <1>2. IInv /\ [Next]_vars => IInv'
    <2> SUFFICES ASSUME IInv, [Next]_vars PROVE IInv'  OBVIOUS
    <2> USE AllocatorAssumption
        DEF IInv, TypeOK, BelowFreePtr, WellPlaced, NoOverlap, NeverCrashes,
            ClientsAgree, End
    <2>1. CASE UNCHANGED vars  BY <2>1 DEF vars
    <2>2. ASSUME NEW n \in Names, NEW t \in Types, OpenExisting(n, t)
          PROVE  IInv'
      BY <2>2 DEF OpenExisting, Respond, Locations
    <2>3. ASSUME NEW n \in Names, NEW t \in Types, Construct(n, t)
          PROVE  IInv'
      BY <2>3, ConstructStep
    <2>4. ASSUME NEW n \in Names, NEW t \in Types, ConstructorFails(n, t)
          PROVE  IInv'
      BY <2>4, ConstructorFailsStep
    <2>5. CASE BeginDrop  BY <2>5 DEF BeginDrop
    <2>6. ASSUME NEW n \in Names, Destroy(n) PROVE IInv'
      BY <2>6 DEF Destroy
    <2>7. CASE FinishDrop  BY <2>7 DEF FinishDrop
    <2> HIDE DEF IInv
    <2> QED  BY <2>1, <2>2, <2>3, <2>4, <2>5, <2>6, <2>7 DEF Next, Gone
  <1> QED  BY <1>1, <1>2, PTL DEF Spec

-----------------------------------------------------------------------------
(* What follows *)

\* Types: in particular free_ptr never leaves the page.
THEOREM TypeCorrect == Spec => []TypeOK
  BY Invariance, PTL DEF IInv

\* Every resource is inside an existing page and aligned for its type.
THEOREM Placed == Spec => []WellPlaced
  BY Invariance, PTL DEF IInv

\* What get_aligned_free_pointer hands out next lies past every resource of
\* the page.
THEOREM FreeAbove == Spec => []BelowFreePtr
  BY Invariance, PTL DEF IInv

\* No two resources share a byte.
THEOREM Apart == Spec => []NoOverlap
  BY Invariance, PTL DEF IInv

\* The unwrap of construct_in_shm never fails.
THEOREM UnwrapSafe == Spec => []NeverCrashes
  BY Invariance, PTL DEF IInv

\* Clients that were given the same name were given the same memory.
THEOREM Agreement == Spec => []ClientsAgree
  BY Invariance, PTL DEF IInv

\* The allocator implements Directory: a name is bound once, to memory of its
\* own, and stays there until the environment closes; its memory is released
\* after each resource was destroyed, once, whatever destructor panics.
THEOREM Implements == Spec => KeepsPromise
  <1>1. Init => Promise!Init  BY DEF Init, Promise!Init, Over
  <1>2. IInv /\ IInv' /\ [Next]_vars => [Promise!Next]_(Promise!vars)
    <2> SUFFICES ASSUME IInv, IInv', [Next]_vars
                 PROVE  [Promise!Next]_(Promise!vars)
      OBVIOUS
    <2>1. ASSUME NEW n \in Names, NEW t \in Types, Construct(n, t)
          PROVE  Promise!Bind(n)
      <3>1. Fits(Base(t), t)  BY <2>1, Placement DEF Construct, IInv
      <3>2. /\ phase = "live" /\ phase' = "live" /\ resources[n] = None
            /\ drained' = drained
            /\ resources' = [resources EXCEPT ![n] = resources'[n]]
            /\ resources'[n] # None
        BY <2>1, <3>1, AllocatorAssumption, Placement
        DEF Construct, Locations, IInv, TypeOK
      <3>3. ASSUME NEW m \in Names \ {n}, resources[m] # None
            PROVE  ~Promise!Overlap(resources[m], resources'[n])
        <4>1. resources'[m] = resources[m]  BY <3>2 DEF IInv, TypeOK
        <4> QED
          BY <3>2, <3>3, <4>1, AllocatorAssumption
          DEF IInv, NoOverlap, End, TypeOK, Locations, Promise!Overlap
      <3> QED  BY <3>2, <3>3 DEF Promise!Bind, Over
    <2>2. CASE UNCHANGED <<resources, phase, drained>>
      BY <2>2 DEF Promise!vars, Over
    <2>3. ASSUME BeginDrop PROVE Promise!Close
      <3>1. /\ phase = "live" /\ (phase' = "live") = FALSE
            /\ ~Over /\ ~Over' /\ UNCHANGED <<resources, drained>>
        BY <2>3 DEF BeginDrop, Over
      <3>2. Over' = Over  BY <3>1 DEF Over
      <3> QED  BY <3>1, <3>2 DEF Promise!Close
    <2>4. ASSUME NEW n \in Names, NEW t \in Types,
                 OpenExisting(n, t) \/ ConstructorFails(n, t)
          PROVE  UNCHANGED <<resources, phase, drained>>
      BY <2>4 DEF OpenExisting, ConstructorFails
    <2>5. ASSUME NEW n \in Names, Destroy(n) PROVE Promise!Destroy(n)
      BY <2>5 DEF Destroy, Promise!Destroy, Over
    <2>6. ASSUME FinishDrop PROVE Promise!Release
      <3>1. /\ phase = "draining" /\ phase' \in {"dropped", "panicked"}
            /\ \A n \in Names : resources[n] # None => n \in drained
            /\ UNCHANGED <<resources, drained>>
        BY <2>6 DEF FinishDrop
      <3>2. /\ phase # "live" /\ (phase' = "live") = FALSE
            /\ ~Over /\ Over' = TRUE
        BY <3>1 DEF Over
      <3>3. (phase' = "live") = (phase = "live")  BY <3>2
      <3> QED  BY <3>1, <3>2, <3>3 DEF Promise!Release
    <2> QED
      BY <2>1, <2>2, <2>3, <2>4, <2>5, <2>6 DEF Next, Gone, vars, Promise!Next
  <1> QED  BY <1>1, <1>2, Invariance, PTL DEF Spec, KeepsPromise, Promise!Spec
=============================================================================
