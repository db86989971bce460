------------------------- MODULE PortAllocatorProofs -------------------------
(***************************************************************************)
(* Proofs about PortAllocator, for any number of ports and workers: tests  *)
(* that end within the TTL of a reservation never share a port.            *)
(***************************************************************************)
EXTENDS PortAllocator, TLAPS

\* Why ports are exclusive: a port that is held is reserved, for as long as it
\* has been held, and by one worker only.
OneHolder ==
  \A v, w \in Worker : v # w /\ Holding(v) /\ Holding(w) => port[v] # port[w]

Sound == TypeOK /\ HeldIsReserved /\ OneHolder

LEMMA InitType == Init => TypeOK
  BY PortAssumption DEF Init, TypeOK, MaxAge, States

LEMMA TypeStep == TypeOK /\ [Next]_vars => TypeOK'
<1> SUFFICES ASSUME TypeOK, [Next]_vars PROVE TypeOK'
  OBVIOUS
<1> USE PortAssumption
<1> USE DEF TypeOK, MaxAge, States, Kept, Expired
<1>1. CASE Tick
  <2>1. age' \in [Port -> 0..MaxAge]
    BY <1>1 DEF Tick
  <2>2. \A w \in Worker : Holding(w) => held[w] < MaxHold
    BY <1>1 DEF Tick, Patience
  <2>3. held' \in [Worker -> 0..MaxHold]
    BY <1>1, <2>2 DEF Tick
  <2> QED
    BY <1>1, <2>1, <2>3 DEF Tick
<1>2. ASSUME NEW w \in Worker, Step(w) PROVE TypeOK'
  <2>1. CASE Allocate(w)
    BY <2>1 DEF Allocate, Available
  <2>2. CASE AllocateFails(w)
    BY <2>2 DEF AllocateFails
  <2>3. CASE Listen(w) \/ NotStarted(w) \/ Close(w)
    BY <2>3 DEF Listen, NotStarted, Close
  <2>4. CASE Release(w)
    BY <2>4 DEF Release
  <2>5. CASE Panic(w)
    BY <2>5 DEF Panic
  <2> QED
    BY <1>2, <2>1, <2>2, <2>3, <2>4, <2>5 DEF Step
<1>3. CASE UNCHANGED vars
  BY <1>3 DEF vars
<1> QED
  BY <1>1, <1>2, <1>3 DEF Next

\* Ages and holding times keep within their bounds.
THEOREM PortTypes == Spec => []TypeOK
  BY InitType, TypeStep, PTL DEF Spec

\* With the assumption on the TTL no entry that is held expires.
LEMMA HeldIsKept ==
  ASSUME Sound, MaxHold <= TTL, NEW w \in Worker, Holding(w)
  PROVE  port[w] \in Kept
  BY PortAssumption DEF Sound, TypeOK, HeldIsReserved, Kept, Expired, Old

LEMMA SoundStep == MaxHold <= TTL /\ Sound /\ [Next]_vars => Sound'
<1> SUFFICES ASSUME MaxHold <= TTL, Sound, [Next]_vars
             PROVE  HeldIsReserved' /\ OneHolder'
  BY TypeStep DEF Sound
<1> USE PortAssumption
<1> USE DEF Sound, TypeOK, HeldIsReserved, OneHolder, Holding
<1>1. CASE Tick
  <2>1. \A w \in Worker : Holding(w) => held[w] < MaxHold
    BY <1>1 DEF Tick, Patience
  <2> QED
    BY <1>1, <2>1 DEF Tick, MaxAge
<1>2. ASSUME NEW w \in Worker, Step(w) PROVE HeldIsReserved' /\ OneHolder'
  <2>1. CASE Allocate(w)
    <3>1. PICK p \in Available :
            /\ reserved' = Kept \union {p}
            /\ age' = [q \in Port |-> IF q = p \/ q \in Expired THEN 0 ELSE age[q]]
            /\ port' = [port EXCEPT ![w] = p]
      BY <2>1 DEF Allocate
    <3>2. /\ state' = [state EXCEPT ![w] = "allocated"]
          /\ held' = [held EXCEPT ![w] = 0]
      BY <2>1 DEF Allocate
    <3>3. \A v \in Worker \ {w} : Holding(v) => port[v] \in Kept /\ port[v] # p
      BY <3>1, HeldIsKept DEF Available
    <3> QED
      BY <3>1, <3>2, <3>3 DEF Available, Kept, States
  <2>2. CASE AllocateFails(w)
    <3>1. \A v \in Worker : Holding(v) => port[v] \in Kept
      BY HeldIsKept
    <3> QED
      BY <2>2, <3>1 DEF AllocateFails, Kept
  <2>3. CASE Listen(w) \/ NotStarted(w) \/ Close(w)
    BY <2>3 DEF Listen, NotStarted, Close, States
  <2>4. CASE Release(w)
    <3>1. \A v \in Worker \ {w} : Holding(v) => port[v] # port[w]
      BY <2>4 DEF Release
    <3> QED
      BY <2>4, <3>1 DEF Release, States
  <2>5. CASE Panic(w)
    BY <2>5 DEF Panic, States
  <2> QED
    BY <1>2, <2>1, <2>2, <2>3, <2>4, <2>5 DEF Step
<1>3. CASE UNCHANGED vars
  BY <1>3 DEF vars
<1> QED
  BY <1>1, <1>2, <1>3 DEF Next

\* With every test shorter than portTtl, two tests never have one port and no
\* release deletes the entry of another: for any number of ports and workers,
\* panics included.
THEOREM Exclusive ==
  ASSUME MaxHold <= TTL
  PROVE  Spec => [](PortsExclusive /\ HeldIsReserved)
<1>1. Init => Sound
  BY InitType DEF Init, Sound, HeldIsReserved, OneHolder, Holding
<1>2. Sound /\ [Next]_vars => Sound'
  BY SoundStep
<1>3. Sound => PortsExclusive /\ HeldIsReserved
  BY DEF Sound, OneHolder, PortsExclusive, Holding
<1> QED
  BY <1>1, <1>2, <1>3, PTL DEF Spec
=============================================================================
