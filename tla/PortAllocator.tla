---------------------------- MODULE PortAllocator ----------------------------
(***************************************************************************)
(* The reservations of local ports, pkg/netutil/port.go, and the tests     *)
(* that use them (TestNode and Runner.Run in internal/sandbox).            *)
(*                                                                         *)
(* A worker asks the operating system for a free port, enters it in the    *)
(* map allocatedPorts with the time, lets sing-box listen on it, and       *)
(* deletes the entry.  Entries older than portTtl are deleted by the next  *)
(* allocation, whoever made them.  A panic skips the deletion.             *)
(*                                                                         *)
(* Every operation holds portMu throughout, so it is one action.  Time is  *)
(* kept as ages, and a test ends after at most MaxHold.                    *)
(***************************************************************************)
EXTENDS Integers, FiniteSets

CONSTANTS
  Port,     \* the ports the operating system hands out
  Worker,   \* the goroutines of the verification pool
  TTL,      \* portTtl
  MaxStart, \* the longest time between an allocation and the bind of box.Start
  MaxHold,  \* the longest time between an allocation and its release
  Panics    \* may a test panic?

ASSUME PortAssumption ==
  /\ TTL \in Nat
  /\ MaxStart \in Nat
  /\ MaxHold \in Nat
  /\ MaxStart <= MaxHold
  /\ Panics \in BOOLEAN

VARIABLES
  reserved,  \* the keys of allocatedPorts
  age,       \* how long ago each of them was entered, 0 for the others
  state,     \* where each worker is
  port,      \* the port of a worker that has one
  held       \* how long it has had it

vars == <<reserved, age, state, port, held>>

States == {"idle", "allocated", "listening", "closed"}

\* Ages past the TTL are not told apart.
MaxAge == TTL + 1

Holding(w) == state[w] # "idle"

-----------------------------------------------------------------------------

\* now.Sub(ts) > portTtl
Old(p) == age[p] > TTL

\* Bug: the expired entries are not cleaned.
NothingExpires == {}

\* The entries cleanExpiredPortsLocked deletes.
Expired == {p \in reserved : Old(p)}

Kept == reserved \ Expired

\* A port somebody listens on is not handed out by the operating system.
Bound == {port[w] : w \in {v \in Worker : state[v] = "listening"}}

\* Bug: what is reserved is not looked at.
AnyUnbound == Port \ Bound

\* What GetFreePort may return: free for the operating system and not reserved.
Available == Port \ (Bound \union Kept)

\* GetFreePort, reached through AllocatePort.
Allocate(w) ==
  /\ state[w] = "idle"
  /\ \E p \in Available :
       /\ reserved' = Kept \union {p}
       /\ age' = [q \in Port |-> IF q = p \/ q \in Expired THEN 0 ELSE age[q]]
       /\ port' = [port EXCEPT ![w] = p]
  /\ state' = [state EXCEPT ![w] = "allocated"]
  /\ held' = [held EXCEPT ![w] = 0]

\* None of the 25 attempts gave an unreserved port: the mode is skipped, but
\* the expired entries are gone.
AllocateFails(w) ==
  /\ state[w] = "idle"
  /\ reserved' = Kept
  /\ age' = [q \in Port |-> IF q \in Expired THEN 0 ELSE age[q]]
  /\ UNCHANGED <<state, port, held>>

\* box.Start binds the port.
Listen(w) ==
  /\ state[w] = "allocated"
  /\ port[w] \notin Bound
  /\ state' = [state EXCEPT ![w] = "listening"]
  /\ UNCHANGED <<reserved, age, port, held>>

\* No configuration, or box.New or box.Start fails.
NotStarted(w) ==
  /\ state[w] = "allocated"
  /\ state' = [state EXCEPT ![w] = "closed"]
  /\ UNCHANGED <<reserved, age, port, held>>

\* The deferred boxInstance.Close when Run returns.
Close(w) ==
  /\ state[w] = "listening"
  /\ state' = [state EXCEPT ![w] = "closed"]
  /\ UNCHANGED <<reserved, age, port, held>>

\* The release callback deletes the entry of its port, whoever made it.
Release(w) ==
  /\ state[w] = "closed"
  /\ reserved' = reserved \ {port[w]}
  /\ age' = [age EXCEPT ![port[w]] = 0]
  /\ state' = [state EXCEPT ![w] = "idle"]
  /\ held' = [held EXCEPT ![w] = 0]
  /\ UNCHANGED port

\* A panic closes the box, whose Close is deferred, but skips releasePort.
Panic(w) ==
  /\ Panics
  /\ state[w] \in {"allocated", "listening"}
  /\ state' = [state EXCEPT ![w] = "idle"]
  /\ held' = [held EXCEPT ![w] = 0]
  /\ UNCHANGED <<reserved, age, port>>

\* How long a worker may go on as it is.
Patience(w) == IF state[w] = "allocated" THEN MaxStart ELSE MaxHold

\* Time passes for everybody, unless somebody has to move first.
Tick ==
  /\ \A w \in Worker : Holding(w) => held[w] < Patience(w)
  /\ age' = [p \in Port |->
               IF p \in reserved /\ age[p] < MaxAge THEN age[p] + 1 ELSE age[p]]
  /\ held' = [w \in Worker |-> IF Holding(w) THEN held[w] + 1 ELSE held[w]]
  /\ UNCHANGED <<reserved, state, port>>

Init ==
  /\ reserved = {}
  /\ age = [p \in Port |-> 0]
  /\ state = [w \in Worker |-> "idle"]
  /\ port \in [Worker -> Port]
  /\ held = [w \in Worker |-> 0]

Step(w) ==
  \/ Allocate(w) \/ AllocateFails(w) \/ Listen(w) \/ NotStarted(w)
  \/ Close(w) \/ Release(w) \/ Panic(w)

Next == Tick \/ \E w \in Worker : Step(w)

Spec == Init /\ [][Next]_vars

\* Clocks go on and every test makes progress; some worker keeps on testing.
FairSpec == Spec /\ WF_vars(Tick) /\ \A w \in Worker : WF_vars(Step(w))

-----------------------------------------------------------------------------

TypeOK ==
  /\ reserved \subseteq Port
  /\ age \in [Port -> 0..MaxAge]
  /\ state \in [Worker -> States]
  /\ port \in [Worker -> Port]
  /\ held \in [Worker -> 0..MaxHold]

\* README.md:16, "ephemeral port isolation": two tests never have one port while
\* one is about to bind it or has bound it.  Otherwise the second box does not
\* start and its node is counted as dead.
PortsExclusive ==
  \A v, w \in Worker :
    v # w /\ {state[v], state[w]} \subseteq {"allocated", "listening"} =>
      port[v] # port[w]

\* The entry of a port stays until its holder releases it, and the release
\* deletes no entry but its own: what a test holds is reserved since it holds it.
HeldIsReserved ==
  \A w \in Worker :
    Holding(w) => port[w] \in reserved /\ age[port[w]] = held[w]

Leaked(p) == p \in reserved /\ \A w \in Worker : Holding(w) => port[w] # p

\* An entry left behind by a panic does not block its port for ever.
LeakedPortsRecover == \A p \in Port : Leaked(p) ~> ~Leaked(p)
=============================================================================
