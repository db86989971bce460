------------------------- MODULE TranslationProofs -------------------------
(***************************************************************************)
(* Deduplication for lists of every length and fields of every content;    *)
(* the configuration of every node, in every mode; every setting; the      *)
(* verdict of any number of answers, the accounts of any number of nodes,  *)
(* and the links of a body of any length.                                  *)
(***************************************************************************)
EXTENDS MCTranslation, FiniteSetTheorems, SequenceTheorems, WellFoundedInduction, TLAPS

-----------------------------------------------------------------------------
\* Deduplication.

Lists ==
  /\ nodes \in Seq(Gathered)
  /\ at \in 1..(Len(nodes) + 1)
  /\ unique \in Seq(1..(at - 1))

\* The map holds the fingerprints of the nodes the loop has passed.
SeenPassed == seen = {NodeFingerprint(nodes[i]) : i \in 1..(at - 1)}

\* Each of them has a first node of its fingerprint.
FirstExists ==
  \A k \in 1..(at - 1) : \E i \in 1..k :
    IsFirst(i) /\ NodeFingerprint(nodes[i]) = NodeFingerprint(nodes[k])

Deduped == Lists /\ SeenPassed /\ FirstExists /\ FirstOfEachKept

\* So it is before the loop.
LEMMA InitDeduped == Init => Deduped
<1> SUFFICES ASSUME Init PROVE Deduped
  OBVIOUS
<1>1. PICK k \in 0..MaxNodes : nodes \in [1..k -> Gathered]
  BY DEF Init
<1>2. k \in Nat
  BY IdentityAssumption
<1>3. Lists
  BY <1>1, <1>2 DEF Init, Lists
<1>4. SeenPassed /\ FirstExists /\ FirstOfEachKept
  BY DEF Init, SeenPassed, FirstExists, FirstOfEachKept
<1> QED
  BY <1>3, <1>4 DEF Deduped

\* A node of a new fingerprint is the first of it.
LEMMA KeepDeduped == Deduped /\ Keep => Deduped'
<1> SUFFICES ASSUME Deduped, Keep PROVE Deduped'
  OBVIOUS
<1> USE DEF Deduped
<1>1. /\ at <= Len(nodes) /\ at \in Nat \ {0} /\ Len(nodes) \in Nat
      /\ at' = at + 1 /\ nodes' = nodes /\ unique' = Append(unique, at)
  BY DEF Keep, Lists
<1>2. Lists'
  <2>1. unique \in Seq(1..at)
    BY <1>1 DEF Lists
  <2> QED
    BY <1>1, <2>1 DEF Lists
<1>3. SeenPassed'
  <2>1. 1..(at' - 1) = 1..(at - 1) \union {at}
    BY <1>1
  <2> QED
    BY <1>1, <2>1 DEF SeenPassed, Keep, Noted, NodeFingerprint
<1>4. IsFirst(at)
  BY <1>1 DEF IsFirst, SeenPassed, Keep
<1>5. \A k : IsFirst(k)' <=> IsFirst(k)
  BY <1>1 DEF IsFirst, NodeFingerprint
<1>6. FirstExists'
  <2> SUFFICES ASSUME NEW k \in 1..at
               PROVE  \E i \in 1..k : /\ IsFirst(i)
                                      /\ NodeFingerprint(nodes[i]) = NodeFingerprint(nodes[k])
    BY <1>1, <1>5 DEF FirstExists, NodeFingerprint
  <2>1. CASE k = at
    BY <1>1, <1>4, <2>1
  <2>2. CASE k # at
    BY <1>1, <2>2 DEF FirstExists
  <2> QED
    BY <2>1, <2>2
<1>7. FirstOfEachKept'
  <2>1. /\ DOMAIN unique' = DOMAIN unique \union {Len(unique) + 1}
        /\ unique'[Len(unique) + 1] = at
        /\ \A u \in DOMAIN unique : unique'[u] = unique[u] /\ unique[u] \in 1..(at - 1)
        /\ Len(unique) \in Nat /\ DOMAIN unique = 1..Len(unique)
    BY <1>1 DEF Lists
  <2>2. ASSUME NEW k \in 1..at
        PROVE  IsFirst(k) <=> \E u \in DOMAIN unique' : unique'[u] = k
    <3>1. CASE k = at
      BY <1>4, <2>1, <3>1
    <3>2. CASE k # at
      BY <1>1, <2>1, <3>2 DEF FirstOfEachKept
    <3> QED
      BY <3>1, <3>2
  <2>3. \A u, v \in DOMAIN unique' : u < v => unique'[u] < unique'[v]
    BY <1>1, <2>1 DEF FirstOfEachKept
  <2> QED
    BY <1>1, <1>5, <2>2, <2>3 DEF FirstOfEachKept
<1> QED
  BY <1>2, <1>3, <1>6, <1>7

\* A node of a known fingerprint has a first one before it.
LEMMA DropDeduped == Deduped /\ Drop => Deduped'
<1> SUFFICES ASSUME Deduped, Drop PROVE Deduped'
  OBVIOUS
<1> USE DEF Deduped
<1>1. /\ at <= Len(nodes) /\ at \in Nat \ {0} /\ Len(nodes) \in Nat
      /\ at' = at + 1 /\ nodes' = nodes /\ unique' = unique /\ seen' = seen
  BY DEF Drop, Lists
<1>2. Lists'
  <2>1. unique \in Seq(1..at)
    BY <1>1 DEF Lists
  <2> QED
    BY <1>1, <2>1 DEF Lists
<1>3. PICK j \in 1..(at - 1) : NodeFingerprint(nodes[j]) = NodeFingerprint(nodes[at])
  BY <1>1 DEF Drop, SeenPassed
<1>4. SeenPassed'
  <2>1. 1..(at' - 1) = 1..(at - 1) \union {at}
    BY <1>1
  <2> QED
    BY <1>1, <1>3, <2>1 DEF SeenPassed, NodeFingerprint
<1>5. ~IsFirst(at)
  BY <1>1, <1>3 DEF IsFirst
<1>6. \A k : IsFirst(k)' <=> IsFirst(k)
  BY <1>1 DEF IsFirst, NodeFingerprint
<1>7. FirstExists'
  <2> SUFFICES ASSUME NEW k \in 1..at
               PROVE  \E i \in 1..k : /\ IsFirst(i)
                                      /\ NodeFingerprint(nodes[i]) = NodeFingerprint(nodes[k])
    BY <1>1, <1>6 DEF FirstExists, NodeFingerprint
  <2>1. CASE k = at
    BY <1>1, <1>3, <2>1 DEF FirstExists
  <2>2. CASE k # at
    BY <1>1, <2>2 DEF FirstExists
  <2> QED
    BY <2>1, <2>2
<1>8. FirstOfEachKept'
  <2>1. \A u \in DOMAIN unique : unique[u] \in 1..(at - 1)
    BY <1>1 DEF Lists
  <2>2. ASSUME NEW k \in 1..at
        PROVE  IsFirst(k) <=> \E u \in DOMAIN unique : unique[u] = k
    <3>1. CASE k = at
      BY <1>1, <1>5, <2>1, <3>1
    <3>2. CASE k # at
      BY <1>1, <3>2 DEF FirstOfEachKept
    <3> QED
      BY <3>1, <3>2
  <2> QED
    BY <1>1, <1>6, <2>2 DEF FirstOfEachKept
<1> QED
  BY <1>2, <1>4, <1>7, <1>8

\* So it is all along the loop of DeduplicateNodes.
LEMMA AlwaysDeduped == Spec => []Deduped
<1>1. Deduped /\ [Next]_vars => Deduped'
  <2> SUFFICES ASSUME Deduped, [Next]_vars PROVE Deduped'
    OBVIOUS
  <2>1. CASE UNCHANGED vars
    BY <2>1 DEF vars, Deduped, Lists, SeenPassed, FirstExists, FirstOfEachKept,
      IsFirst, NodeFingerprint
  <2> QED
    BY <2>1, KeepDeduped, DropDeduped DEF Next, Terminated
<1> QED
  BY <1>1, InitDeduped, PTL DEF Spec

\* DeduplicateNodes keeps the first node of each fingerprint and no other, in the
\* order of the list.
THEOREM FirstKept == Spec => []FirstOfEachKept
<1>1. Deduped => FirstOfEachKept
  BY DEF Deduped
<1> QED
  BY <1>1, AlwaysDeduped, PTL

\* One fingerprint and one method are one hash: what HashNode trims and lowers
\* beyond NodeFingerprint joins nodes and never parts them.
LEMMA SameFingerprintSameHash ==
  ASSUME NEW m \in ProxyNode, NEW n \in ProxyNode,
         NodeFingerprint(m) = NodeFingerprint(n), m.method = n.method
  PROVE  HashNode(m) = HashNode(n)
<1>1. /\ m.server \in Text /\ n.server \in Text
      /\ m.port = n.port /\ m.password = n.password
      /\ Lower(m.server) = Lower(n.server)
  BY DEF NodeFingerprint, ProxyNode
<1>2. m.server.word = n.server.word
  BY <1>1 DEF Lower, Text
<1>3. Lower(Trim(m.server)) = Lower(Trim(n.server))
  BY <1>1, <1>2 DEF Lower, Trim, Text
<1> QED
  BY <1>1, <1>3 DEF HashNode

\* Whatever feed comes first, a node dropped as a duplicate is blacklisted with
\* the one that is kept, unless their methods differ.
THEOREM DuplicatesBlacklistedTogether == Spec => []DuplicatesShareHash
<1>1. Deduped => DuplicatesShareHash
  <2> SUFFICES ASSUME Deduped, NEW k \in DOMAIN nodes, Dropped(k),
                      nodes[k].method = nodes[KeptFor(k)].method
               PROVE  HashNode(nodes[k]) = HashNode(nodes[KeptFor(k)])
    BY DEF DuplicatesShareHash
  <2>1. k \in 1..(at - 1) /\ nodes \in Seq(Gathered)
    BY DEF Deduped, Lists, Dropped
  <2>2. /\ KeptFor(k) \in 1..k
        /\ NodeFingerprint(nodes[KeptFor(k)]) = NodeFingerprint(nodes[k])
    BY <2>1 DEF Deduped, FirstExists, KeptFor
  <2>3. nodes[k] \in ProxyNode /\ nodes[KeptFor(k)] \in ProxyNode
    BY <2>1, <2>2, IdentityAssumption
  <2> QED
    BY <2>2, <2>3, SameFingerprintSameHash
<1> QED
  BY <1>1, AlwaysDeduped, PTL

-----------------------------------------------------------------------------
\* The configuration of a node.

\* For every node and all hosts a mode is about the node itself: in CDN mode it
\* shows its own names, in SNI mode it is reached at its own address.
THEOREM ModesAreAboutTheNode == \A node \in TestedNode : ModesKeepNode(node)
<1> SUFFICES ASSUME NEW node \in TestedNode PROVE ModesKeepNode(node)
  OBVIOUS
<1> DEFINE direct == Outbound(node, "direct")
           cdn    == Outbound(node, "cdn")
           sni    == Outbound(node, "sni")
<1> USE HostAssumption DEF TestedNode, Outbound, nodeToOutboundMap,
      applyModeMutation, applyTLS, applyTransport, TransportType, TunnelVPN, Default
<1>1. /\ SNIHost # "" /\ SNIHost # Absent /\ CDNHost # Absent /\ Absent # ""
  BY DEF SNIHost, CDNHost
<1>2. cdn.server = CDNHost /\ Shown(cdn) = Shown(direct)
  BY DEF Shown
<1>3. Shown(direct) \subseteq {node.Server, node.Host, node.SNI} /\ "" \notin Shown(direct)
  BY DEF Shown
<1>4. sni.server = node.Server /\ Shown(sni) \subseteq {SNIHost}
  BY DEF Shown
<1>5. node.VPN \in TunnelVPN => (Shown(sni) = {} <=> ~node.TLS /\ node.Transport # "ws")
  <2> SUFFICES ASSUME node.VPN \in TunnelVPN
               PROVE  Shown(sni) = {} <=> ~node.TLS /\ node.Transport # "ws"
    OBVIOUS
  <2>1. node.TLS => sni.server_name = SNIHost
    OBVIOUS
  <2>2. node.Transport = "ws" => sni.host = SNIHost
    BY <1>1
  <2>3. ~node.TLS => sni.server_name = Absent
    OBVIOUS
  <2>4. node.Transport # "ws" => sni.host = Absent
    OBVIOUS
  <2> HIDE DEF sni
  <2>5. Shown(sni) = {} <=> sni.server_name = Absent /\ sni.host = Absent
    BY DEF Shown
  <2> QED
    BY <1>1, <2>1, <2>2, <2>3, <2>4, <2>5
<1>6. Shown(sni) = {} => sni = direct
  <2> SUFFICES ASSUME Shown(sni) = {} PROVE sni = direct
    OBVIOUS
  <2>1. sni.server_name = Absent /\ sni.host = Absent
    BY DEF Shown
  <2>2. ~node.TLS
    BY <1>1, <2>1
  <2>3. direct.server_name = Absent
    BY <2>2
  <2>4. direct.transport # "ws"
    BY <1>1, <2>1
  <2> QED
    BY <2>2, <2>3, <2>4
<1> HIDE DEF Outbound
<1>7. "" \notin Shown(direct) \union Shown(cdn) \union Shown(sni)
  BY <1>1, <1>2, <1>3, <1>4
<1> QED
  BY <1>2, <1>3, <1>4, <1>5, <1>6, <1>7 DEF ModesKeepNode

-----------------------------------------------------------------------------
\* Settings.

Setting == [Numbers -> [valid : BOOLEAN, value : Int]]

\* For every setting there is, zero and less included, and any number of nodes, the
\* pools have a slot, testing stops only where collecting does, and no client gives
\* up before its context.
THEOREM SettingsAlwaysFit ==
  \A env, flags \in Setting, total \in Nat \ {0} : SettingsFitFor(env, flags, total)
<1> SUFFICES ASSUME NEW env \in Setting, NEW flags \in Setting, NEW total \in Nat \ {0}
             PROVE  SettingsFitFor(env, flags, total)
  OBVIOUS
<1> DEFINE cfg == LoadConfig(env, flags)
<1>1. \A k \in Numbers : cfg[k] \in Int
  BY DEF LoadConfig, getEnvAsInt, Documented, Setting, Numbers
<1>2. /\ cfg["MAX_NODES"] \in Int /\ cfg["CONCURRENCY_WORKERS"] \in Int
      /\ cfg["TEST_TIMEOUT_SECONDS"] \in Int
  BY <1>1 DEF Numbers
<1> HIDE DEF cfg
<1>3. Slots(cfg, total) \in 1..total /\ Workers(cfg) > 0
  BY <1>2 DEF Slots, Pool, Workers
<1>4. ASSUME NEW passed \in 0..total, ~Dispatches(cfg, passed),
             NEW more \in 0..(2 * passed)
      PROVE  ~Collects(cfg, passed + more)
  BY <1>2, <1>4 DEF Dispatches, Collects
<1>5. ContextTimeout(cfg) <= ClientTimeout(cfg)
  BY <1>2 DEF ClientTimeout, ContextTimeout
<1> QED
  BY <1>3, <1>4, <1>5 DEF SettingsFitFor, cfg
-----------------------------------------------------------------------------
\* Induction.  A property of all numbers up to n is a set that has them all.

\* Of the natural numbers that are not in T one would be the smallest.
LEMMA InductionOnSets ==
  ASSUME NEW T, NEW n \in Nat, 0 \in T, \A m \in 1..n : m - 1 \in T => m \in T
  PROVE  \A m \in 0..n : m \in T
<1> DEFINE less == OpToRel(<, Nat)
           missing == {m \in 0..n : m \notin T}
<1>1. IsWellFoundedOn(less, Nat)
  BY NatLessThanWellFounded
<1>2. \A x, y \in Nat : x < y => <<x, y>> \in less
  BY DEF OpToRel
<1>3. missing \subseteq Nat
  OBVIOUS
<1> HIDE DEF less
<1> SUFFICES ASSUME missing # {} PROVE FALSE
  OBVIOUS
<1>4. PICK m \in missing : \A k \in missing : ~(<<k, m>> \in less)
  <2> HIDE DEF missing
  <2> QED
    BY <1>1, <1>3, WFMin
<1>5. m \in 1..n /\ m - 1 \in 0..n /\ m - 1 \notin T
  OBVIOUS
<1>6. <<m - 1, m>> \in less
  BY <1>2, <1>5
<1> QED
  BY <1>4, <1>5, <1>6

-----------------------------------------------------------------------------
\* The verdict of a test.

\* The last of some positions, and what is left of them without it.
LEMMA MaxFacts ==
  /\ \A k \in Nat : \A s \in SUBSET (1..k) : k \in s => Max(s) = k
  /\ \A k \in Nat \ {0} : Max(1..k) = k /\ 1..k # {} /\ (1..k) \ {k} = 1..(k - 1)
<1>1. ASSUME NEW k \in Nat, NEW s \in SUBSET (1..k), k \in s
      PROVE  Max(s) = k
  <2>1. \A y \in s : k >= y
    OBVIOUS
  <2>2. \A x \in s : (\A y \in s : x >= y) => x = k
    BY <1>1
  <2> QED
    BY <1>1, <2>1, <2>2 DEF Max
<1>2. ASSUME NEW k \in Nat \ {0}
      PROVE  Max(1..k) = k /\ 1..k # {} /\ (1..k) \ {k} = 1..(k - 1)
  <2>1. k \in 1..k /\ 1..k \in SUBSET (1..k) /\ (1..k) \ {k} = 1..(k - 1)
    OBVIOUS
  <2>2. Max(1..k) = k
    BY <1>1, <2>1
  <2> QED
    BY <2>1, <2>2
<1> QED
  BY <1>1, <1>2

\* The function that FoldLeft recurs through is there.
IsFold(iter, F, base, seq, m) ==
  \A s \in SUBSET (1..m) :
    iter[s] = IF s = {} THEN base ELSE F[<<iter[s \ {Max(s)}], seq[Max(s)]>>]

HasFold(S, F, base, seq, m) ==
  \E iter \in [SUBSET (1..m) -> S] : IsFold(iter, F, base, seq, m)

\* There is a function that folds over every set of positions.
LEMMA FoldExists ==
  ASSUME NEW S, NEW E, NEW base \in S, NEW F \in [S \X E -> S], NEW seq \in Seq(E)
  PROVE  HasFold(S, F, base, seq, Len(seq))
<1> DEFINE n == Len(seq)
           T == {m \in Nat : HasFold(S, F, base, seq, m)}
<1>1. n \in Nat
  OBVIOUS
<1>2. 0 \in T
  <2>1. [s \in SUBSET (1..0) |-> base] \in [SUBSET (1..0) -> S]
    OBVIOUS
  <2>2. \A s \in SUBSET (1..0) : s = {}
    OBVIOUS
  <2>3. IsFold([s \in SUBSET (1..0) |-> base], F, base, seq, 0)
    BY <2>2 DEF IsFold
  <2> QED
    BY <2>1, <2>3 DEF HasFold
<1>3. ASSUME NEW m \in 1..n, m - 1 \in T PROVE m \in T
  <2>1. PICK g \in [SUBSET (1..(m - 1)) -> S] : IsFold(g, F, base, seq, m - 1)
    BY <1>1, <1>3 DEF HasFold
  <2> DEFINE h == [s \in SUBSET (1..m) |-> IF m \in s THEN F[<<g[s \ {m}], seq[m]>>] ELSE g[s]]
  <2>2. m \in Nat /\ seq[m] \in E
    BY <1>1
  <2>3. \A s \in SUBSET (1..m) : s \ {m} \in SUBSET (1..(m - 1))
    BY <1>1
  <2>4. \A s \in SUBSET (1..m) : m \notin s => s \in SUBSET (1..(m - 1))
    BY <1>1
  <2>5. h \in [SUBSET (1..m) -> S]
    BY <2>2, <2>3, <2>4
  <2>6. ASSUME NEW s \in SUBSET (1..m)
        PROVE  h[s] = IF s = {} THEN base ELSE F[<<h[s \ {Max(s)}], seq[Max(s)]>>]
    <3>1. CASE m \in s
      <4>1. Max(s) = m
        BY <2>2, <3>1, MaxFacts
      <4>2. h[s \ {m}] = g[s \ {m}]
        BY <2>3
      <4> QED
        BY <3>1, <4>1, <4>2
    <3>2. CASE m \notin s
      <4>1. s \in SUBSET (1..(m - 1)) /\ s \ {Max(s)} \in SUBSET (1..(m - 1))
        BY <2>4, <3>2
      <4>2. h[s] = g[s] /\ h[s \ {Max(s)}] = g[s \ {Max(s)}]
        <5>1. s \ {Max(s)} \in SUBSET (1..m) /\ m \notin s \ {Max(s)}
          BY <3>2
        <5> QED
          BY <3>2, <5>1
      <4> HIDE DEF h
      <4> QED
        BY <2>1, <4>1, <4>2 DEF IsFold
    <3> QED
      BY <3>1, <3>2
  <2> HIDE DEF h
  <2>7. IsFold(h, F, base, seq, m)
    BY <2>6 DEF IsFold
  <2> QED
    BY <2>2, <2>5, <2>7 DEF HasFold
<1> HIDE DEF T
<1>4. \A m \in 0..n : m \in T
  BY <1>1, <1>2, <1>3, InductionOnSets
<1>5. n \in T
  BY <1>1, <1>4
<1> QED
  BY <1>1, <1>5 DEF T

\* The last of some positions is one of them.
LEMMA MaxIsIn ==
  ASSUME NEW n \in Nat
  PROVE  \A s \in SUBSET (1..n) : s # {} => Max(s) \in s
<1> DEFINE T == {m \in Nat : \A s \in SUBSET (1..m) : s # {} => \E x \in s : \A y \in s : x >= y}
<1>1. 0 \in T
  <2>1. \A s \in SUBSET (1..0) : s = {}
    OBVIOUS
  <2> QED
    BY <2>1
<1>2. ASSUME NEW m \in 1..n, m - 1 \in T PROVE m \in T
  <2> SUFFICES ASSUME NEW s \in SUBSET (1..m), s # {} PROVE \E x \in s : \A y \in s : x >= y
    OBVIOUS
  <2>1. CASE m \in s
    BY <2>1
  <2>2. CASE m \notin s
    <3>1. s \in SUBSET (1..(m - 1))
      BY <2>2
    <3> QED
      BY <1>2, <3>1
  <2> QED
    BY <2>1, <2>2
<1>3. \A m \in 0..n : m \in T
  <2> HIDE DEF T
  <2> QED
    BY <1>1, <1>2, InductionOnSets
<1>4. n \in T
  BY <1>3
<1> QED
  BY <1>4 DEF Max

Verdict == [geo : {"", "ID", "SG"}, success : BOOLEAN]
NoVerdict == [geo |-> "", success |-> FALSE]

\* What one answer makes of a verdict is a verdict.
LEMMA TryType ==
  ASSUME NEW run \in Verdict, NEW answer \in Answer
  PROVE  Try(run, answer) \in Verdict
BY DEF Verdict, Answer, Try, Decoded

\* Run goes through the answers one by one.
Tried(runs, answers) ==
  /\ runs \in [0..Len(answers) -> Verdict]
  /\ runs[0] = NoVerdict
  /\ \A k \in 1..Len(answers) : runs[k] = Try(runs[k - 1], answers[k])
  /\ runs[Len(answers)] = Run(answers)

\* FoldLeft of Run is that loop.
LEMMA RunSteps ==
  ASSUME NEW answers \in Seq(Answer)
  PROVE  \E runs : Tried(runs, answers)
<1> DEFINE n == Len(answers)
           F == [p \in Verdict \X Answer |-> Try(p[1], p[2])]
           Step(iter) ==
             [s \in SUBSET (1..n) |->
                IF s = {} THEN NoVerdict ELSE Try(iter[s \ {Max(s)}], answers[Max(s)])]
           it == CHOOSE iter : iter = Step(iter)
<1>1. n \in Nat /\ DOMAIN answers = 1..n
  OBVIOUS
<1>2. Run(answers) = it[1..n]
  BY <1>1 DEF Run, FoldLeft, MapThenFoldSet, NoVerdict
<1>3. F \in [Verdict \X Answer -> Verdict] /\ NoVerdict \in Verdict
  BY TryType DEF Verdict, NoVerdict
<1>4. HasFold(Verdict, F, NoVerdict, answers, n)
  <2> HIDE DEF F
  <2> QED
    BY <1>3, FoldExists
<1>5. PICK iter \in [SUBSET (1..n) -> Verdict] : IsFold(iter, F, NoVerdict, answers, n)
  <2> HIDE DEF F
  <2> QED
    BY <1>4 DEF HasFold
<1>6. ASSUME NEW s \in SUBSET (1..n), s # {}
      PROVE  F[<<iter[s \ {Max(s)}], answers[Max(s)]>>] = Try(iter[s \ {Max(s)}], answers[Max(s)])
  <2>1. Max(s) \in 1..n /\ s \ {Max(s)} \in SUBSET (1..n)
    BY <1>1, <1>6, MaxIsIn
  <2>2. iter[s \ {Max(s)}] \in Verdict /\ answers[Max(s)] \in Answer
    BY <2>1
  <2> QED
    BY <2>2
<1>7. iter = Step(iter)
  <2>1. \A s \in SUBSET (1..n) : iter[s] = Step(iter)[s]
    <3> HIDE DEF F
    <3> QED
      BY <1>5, <1>6 DEF IsFold
  <2> QED
    BY <2>1
<1>8. it = Step(it)
  <2> HIDE DEF Step
  <2> QED
    BY <1>7
<1> DEFINE runs == [k \in 0..n |-> it[1..k]]
<1>9. ASSUME NEW k \in 1..n PROVE runs[k] = Try(runs[k - 1], answers[k])
  <2>0. runs[k] = it[1..k] /\ runs[k - 1] = it[1..(k - 1)]
    <3>1. k \in 0..n /\ k - 1 \in 0..n
      BY <1>1
    <3> HIDE DEF it
    <3> QED
      BY <3>1
  <2>1. 1..k \in SUBSET (1..n) /\ k \in Nat \ {0}
    BY <1>1
  <2>2. Max(1..k) = k /\ 1..k # {} /\ (1..k) \ {k} = 1..(k - 1)
    BY <2>1, MaxFacts
  <2>3. Step(it)[1..k] = Try(it[1..(k - 1)], answers[k])
    <3> HIDE DEF it
    <3> QED
      BY <2>1, <2>2
  <2>4. it[1..k] = Step(it)[1..k]
    <3> HIDE DEF Step, it
    <3> QED
      BY <1>8
  <2> HIDE DEF it, Step, runs
  <2> QED
    BY <2>0, <2>3, <2>4
<1>10. runs[0] = NoVerdict
  <2>1. 1..0 = {} /\ {} \in SUBSET (1..n)
    OBVIOUS
  <2>2. Step(it)[{}] = NoVerdict
    <3> HIDE DEF it
    <3> QED
      BY <2>1
  <2>3. it[{}] = Step(it)[{}]
    <3> HIDE DEF Step, it
    <3> QED
      BY <1>8
  <2>4. runs[0] = it[{}]
    <3>1. 0 \in 0..n
      BY <1>1
    <3> HIDE DEF it
    <3> QED
      BY <2>1, <3>1
  <2> HIDE DEF it, Step, runs
  <2> QED
    BY <2>2, <2>3, <2>4
<1>11. runs \in [0..n -> Verdict]
  <2> DEFINE T == {k \in Nat : k <= n => runs[k] \in Verdict}
  <2> HIDE DEF runs
  <2>1. 0 \in T
    BY <1>3, <1>10
  <2>2. ASSUME NEW k \in 1..n, k - 1 \in T PROVE k \in T
    BY <1>1, <1>9, <2>2, TryType
  <2>3. \A k \in 0..n : k \in T
    <3> HIDE DEF T
    <3> QED
      BY <1>1, <2>1, <2>2, InductionOnSets
  <2>4. \A k \in 0..n : runs[k] \in Verdict
    BY <1>1, <2>3
  <2> QED
    BY <2>4 DEF runs
<1>12. runs[n] = Run(answers)
  BY <1>1, <1>2
<1> QED
  <2> HIDE DEF runs
  <2> QED
    BY <1>9, <1>10, <1>11, <1>12 DEF Tried

\* The verdict after some of the answers.
VerdictAfter(run, answers, k) ==
  /\ \A b \in 1..k : Named(answers[b]) => run.geo # ""
  /\ \A a \in 1..k : Whole(answers[a]) /\ (\E b \in 1..a : Named(answers[b]))
                    => run.success
  /\ run.geo # "" =>
       \E b \in 1..k : Named(answers[b]) /\ answers[b].country = run.geo
  /\ run.success =>
       \E a \in 1..k :
         /\ Whole(answers[a])
         /\ \E b \in 1..a : Named(answers[b]) /\ answers[b].country = run.geo

\* An answer adds itself to what the verdict is about.
LEMMA VerdictStep ==
  ASSUME NEW answers \in Seq(Answer), NEW k \in 1..Len(answers), NEW run \in Verdict,
         VerdictAfter(run, answers, k - 1)
  PROVE  VerdictAfter(Try(run, answers[k]), answers, k)
<1>1. answers[k] \in Answer /\ k \in Nat
  OBVIOUS
<1>2. \A a \in 1..k : a = k \/ a \in 1..(k - 1)
  BY <1>1
<1>3. \A a \in 1..(k - 1) : a \in 1..k
  BY <1>1
<1>4. CASE run.success
  <2>1. Try(run, answers[k]) = run
    BY <1>4 DEF Try
  <2>2. run.geo # ""
    <3>1. PICK a \in 1..(k - 1) :
            \E b \in 1..a : Named(answers[b]) /\ answers[b].country = run.geo
      BY <1>4 DEF VerdictAfter
    <3> QED
      BY <3>1 DEF Named
  <2> QED
    BY <1>3, <1>4, <2>1, <2>2 DEF VerdictAfter
<1>5. CASE ~run.success /\ ~Readable(answers[k])
  <2>1. Try(run, answers[k]) = run /\ ~Whole(answers[k]) /\ ~Named(answers[k])
    BY <1>5 DEF Try, Readable, Whole, Named
  <2> QED
    BY <1>2, <1>3, <1>5, <2>1 DEF VerdictAfter
<1>6. CASE ~run.success /\ Readable(answers[k])
  <2> DEFINE geo == Decoded(run.geo, answers[k])
             wins == answers[k].decodes /\ geo # ""
  <2>1. Try(run, answers[k]) = [geo |-> geo, success |-> wins]
    BY <1>6 DEF Try
  <2>2. geo # "" => \E b \in 1..k : Named(answers[b]) /\ answers[b].country = geo
    <3>1. CASE answers[k].country = ""
      <4>1. geo = run.geo
        BY <3>1 DEF Decoded
      <4>2. run.geo # "" =>
              \E b \in 1..(k - 1) : Named(answers[b]) /\ answers[b].country = run.geo
        BY DEF VerdictAfter
      <4> QED
        BY <1>3, <4>1, <4>2
    <3>2. CASE answers[k].country # ""
      <4>1. geo = answers[k].country
        BY <3>2 DEF Decoded
      <4>2. Named(answers[k])
        BY <1>6, <3>2 DEF Readable, Named
      <4>3. k \in 1..k
        BY <1>1
      <4> QED
        BY <4>1, <4>2, <4>3
    <3> QED
      BY <3>1, <3>2
  <2>3. \A b \in 1..k : Named(answers[b]) => geo # ""
    <3>1. run.geo # "" => geo # ""
      BY DEF Decoded
    <3>2. Named(answers[k]) => geo # ""
      BY DEF Named, Decoded
    <3> QED
      BY <1>2, <3>1, <3>2 DEF VerdictAfter
  <2>4. \A a \in 1..(k - 1) :
          ~(Whole(answers[a]) /\ (\E b \in 1..a : Named(answers[b])))
    BY <1>6 DEF VerdictAfter
  <2>5. (Whole(answers[k]) <=> answers[k].decodes) /\ k \in 1..k
    BY <1>1, <1>6 DEF Readable, Whole
  <2> HIDE DEF geo
  <2>6. PICK next : next = Try(run, answers[k])
    OBVIOUS
  <2>7. next.geo = geo /\ (next.success <=> answers[k].decodes /\ geo # "")
    <3>1. next.geo = geo /\ next.success = wins
      <4> HIDE DEF wins
      <4> QED
        BY <2>1, <2>6
    <3> QED
      BY <3>1
  <2>8. \A a \in 1..k :
          Whole(answers[a]) /\ (\E b \in 1..a : Named(answers[b])) => next.success
    <3>1. Whole(answers[k]) /\ (\E b \in 1..k : Named(answers[b])) => next.success
      BY <2>3, <2>5, <2>7
    <3> QED
      BY <1>2, <2>4, <3>1
  <2>9. next.geo # "" =>
          \E b \in 1..k : Named(answers[b]) /\ answers[b].country = next.geo
    BY <2>2, <2>7
  <2>10. next.success =>
           \E a \in 1..k :
             /\ Whole(answers[a])
             /\ \E b \in 1..a : Named(answers[b]) /\ answers[b].country = next.geo
    BY <2>5, <2>7, <2>9
  <2>11. \A b \in 1..k : Named(answers[b]) => next.geo # ""
    BY <2>3, <2>7
  <2> QED
    BY <2>6, <2>8, <2>9, <2>10, <2>11 DEF VerdictAfter
<1> QED
  BY <1>4, <1>5, <1>6

\* Whatever the endpoints answer, and however many there are, a mode is verified
\* exactly if one of them gave a whole answer when a country had come in, from it or
\* left from one before it.
THEOREM VerdictOfAny == \A answers \in Seq(Answer) : ProbeVerdictOf(answers)
<1> SUFFICES ASSUME NEW answers \in Seq(Answer) PROVE ProbeVerdictOf(answers)
  OBVIOUS
<1> DEFINE n == Len(answers)  run == Run(answers)
<1>1. n \in Nat /\ DOMAIN answers = 1..n
  OBVIOUS
<1>2. PICK runs : Tried(runs, answers)
  BY RunSteps
<1> DEFINE T == {k \in 0..n : VerdictAfter(runs[k], answers, k)}
<1>3. 0 \in T
  <2>1. runs[0] = NoVerdict /\ 0 \in 0..n
    BY <1>1, <1>2 DEF Tried
  <2>2. VerdictAfter(NoVerdict, answers, 0)
    BY DEF VerdictAfter, NoVerdict
  <2> QED
    BY <2>1, <2>2
<1>4. ASSUME NEW k \in 1..n, k - 1 \in T PROVE k \in T
  <2>1. runs[k - 1] \in Verdict /\ runs[k] = Try(runs[k - 1], answers[k])
    BY <1>1, <1>2 DEF Tried
  <2> QED
    BY <1>4, <2>1, VerdictStep
<1>5. \A k \in 0..n : k \in T
  <2> HIDE DEF T
  <2> QED
    BY <1>1, <1>3, <1>4, InductionOnSets
<1>6. VerdictAfter(run, answers, n)
  BY <1>1, <1>2, <1>5 DEF Tried
<1>7. n = 1 => run = Try(NoVerdict, answers[1]) /\ answers[1] \in Answer
  BY <1>1, <1>2 DEF Tried
<1>8. ASSUME n = 1
      PROVE  /\ run.success <=> Good(answers[1])
             /\ run.success => run.geo = answers[1].country
  <2> HIDE DEF run
  <2>1. run = Try(NoVerdict, answers[1]) /\ ~NoVerdict.success /\ NoVerdict.geo = ""
    BY <1>7, <1>8 DEF NoVerdict
  <2>2. CASE Readable(answers[1])
    <3>1. /\ run.geo = Decoded("", answers[1])
          /\ run.success <=> answers[1].decodes /\ Decoded("", answers[1]) # ""
      BY <2>1, <2>2 DEF Try
    <3> QED
      BY <2>2, <3>1 DEF Decoded, Readable, Good, Whole, Named
  <2>3. CASE ~Readable(answers[1])
    <3>1. run = NoVerdict
      BY <2>1, <2>3 DEF Try
    <3> QED
      BY <2>1, <2>3, <3>1 DEF Readable, Good, Whole, Named
  <2> QED
    BY <2>2, <2>3
<1> HIDE DEF run
<1>9. (\E a \in 1..n : Whole(answers[a]) /\ \E b \in 1..a : Named(answers[b]))
        => run.success
  BY <1>6 DEF VerdictAfter
<1>10. run.success =>
         \E a \in 1..n :
           /\ Whole(answers[a])
           /\ \E b \in 1..a : Named(answers[b]) /\ answers[b].country = run.geo
  BY <1>6 DEF VerdictAfter
<1>11. run.success <=>
         \E a \in 1..n : Whole(answers[a]) /\ \E b \in 1..a : Named(answers[b])
  BY <1>9, <1>10
<1> QED
  BY <1>1, <1>8, <1>10, <1>11 DEF ProbeVerdictOf, run

-----------------------------------------------------------------------------
\* Accounts.

\* The function that FlattenSeq recurs through.
IsFlat(f, seqs, m) ==
  \A i \in 1..m : f[i] = IF i = 1 THEN seqs[i] ELSE f[i - 1] \o seqs[i]

HasFlat(E, seqs, m) == \E f \in [1..m -> Seq(E)] : IsFlat(f, seqs, m)

Flattens(f, seqs) == IsFlat(f, seqs, Len(seqs)) /\ FlattenSeq(seqs) = f[Len(seqs)]

\* There is a function that strings the lists together one by one.
LEMMA FlatExists ==
  ASSUME NEW E, NEW seqs \in Seq(Seq(E))
  PROVE  HasFlat(E, seqs, Len(seqs))
<1> DEFINE n == Len(seqs)
           T == {m \in Nat : HasFlat(E, seqs, m)}
<1>1. n \in Nat
  OBVIOUS
<1>2. 0 \in T
  <2>1. [i \in 1..0 |-> <<>>] \in [1..0 -> Seq(E)]
    OBVIOUS
  <2>2. IsFlat([i \in 1..0 |-> <<>>], seqs, 0)
    BY DEF IsFlat
  <2> QED
    BY <2>1, <2>2 DEF HasFlat
<1>3. ASSUME NEW m \in 1..n, m - 1 \in T PROVE m \in T
  <2>1. PICK g \in [1..(m - 1) -> Seq(E)] : IsFlat(g, seqs, m - 1)
    BY <1>1, <1>3 DEF HasFlat
  <2> DEFINE h == [i \in 1..m |-> IF i < m THEN g[i]
                                  ELSE IF m = 1 THEN seqs[m] ELSE g[m - 1] \o seqs[m]]
  <2>2. m \in Nat /\ seqs[m] \in Seq(E)
    BY <1>1
  <2>3. \A i \in 1..m : i < m => i \in 1..(m - 1) /\ h[i] = g[i]
    BY <1>1
  <2>4. m # 1 => m - 1 \in 1..(m - 1) /\ g[m - 1] \in Seq(E) /\ h[m - 1] = g[m - 1]
    BY <1>1
  <2>5. m # 1 => g[m - 1] \o seqs[m] \in Seq(E)
    <3> HIDE DEF h
    <3> QED
      BY <2>2, <2>4
  <2>6. h[m] = IF m = 1 THEN seqs[m] ELSE g[m - 1] \o seqs[m]
    BY <1>1
  <2>7. h \in [1..m -> Seq(E)]
    BY <2>2, <2>3, <2>5
  <2> HIDE DEF h
  <2>8. ASSUME NEW i \in 1..m
        PROVE  h[i] = IF i = 1 THEN seqs[i] ELSE h[i - 1] \o seqs[i]
    <3>1. CASE i = m
      BY <2>4, <2>6, <3>1
    <3>2. CASE i < m
      <4>1. i \in 1..(m - 1) /\ (i # 1 => i - 1 \in 1..m /\ i - 1 < m)
        BY <2>3, <3>2
      <4>2. g[i] = IF i = 1 THEN seqs[i] ELSE g[i - 1] \o seqs[i]
        BY <2>1, <4>1 DEF IsFlat
      <4> QED
        BY <2>3, <3>2, <4>1, <4>2
    <3> QED
      BY <2>2, <3>1, <3>2
  <2>9. IsFlat(h, seqs, m)
    BY <2>8 DEF IsFlat
  <2> QED
    BY <2>2, <2>7, <2>9 DEF HasFlat
<1> HIDE DEF T
<1>4. \A m \in 0..n : m \in T
  BY <1>1, <1>2, <1>3, InductionOnSets
<1>5. n \in T
  BY <1>1, <1>4
<1> QED
  BY <1>5 DEF T

\* FlattenSeq is the last value of it.
LEMMA FlattenSteps ==
  ASSUME NEW E, NEW seqs \in Seq(Seq(E)), Len(seqs) # 0
  PROVE  \E f \in [1..Len(seqs) -> Seq(E)] : Flattens(f, seqs)
<1> DEFINE n == Len(seqs)
           Step(f) == [i \in 1..n |-> IF i = 1 THEN seqs[i] ELSE f[i - 1] \o seqs[i]]
           it == CHOOSE f : f = Step(f)
<1>1. PICK f \in [1..n -> Seq(E)] : IsFlat(f, seqs, n)
  BY FlatExists DEF HasFlat
<1>2. f = Step(f)
  BY <1>1 DEF IsFlat
<1>3. it = Step(it)
  <2> HIDE DEF Step
  <2> QED
    BY <1>2
<1>4. FlattenSeq(seqs) = it[n]
  BY DEF FlattenSeq
<1>5. n \in Nat \ {0}
  OBVIOUS
<1>6. \A i \in 1..n : it[i] = IF i = 1 THEN seqs[i] ELSE it[i - 1] \o seqs[i]
  <2>1. \A i \in 1..n : Step(it)[i] = IF i = 1 THEN seqs[i] ELSE it[i - 1] \o seqs[i]
    <3> HIDE DEF it
    <3> QED
      OBVIOUS
  <2>2. \A i \in 1..n : it[i] = Step(it)[i]
    <3> HIDE DEF Step, it
    <3> QED
      BY <1>3
  <2> HIDE DEF Step, it
  <2> QED
    BY <2>1, <2>2
<1>7. DOMAIN it = 1..n /\ it = [i \in 1..n |-> it[i]]
  <2>1. Step(it) = [i \in 1..n |-> Step(it)[i]] /\ DOMAIN Step(it) = 1..n
    <3> HIDE DEF it
    <3> QED
      OBVIOUS
  <2> HIDE DEF Step, it
  <2> QED
    BY <1>3, <2>1
<1> HIDE DEF it
<1>8. \A i \in 1..n : it[i] \in Seq(E)
  <2> DEFINE T == {i \in Nat : i # 0 => it[i] \in Seq(E)}
  <2>1. 0 \in T
    OBVIOUS
  <2>2. ASSUME NEW i \in 1..n, i - 1 \in T PROVE i \in T
    <3>1. i \in Nat /\ seqs[i] \in Seq(E)
      BY <1>5
    <3>2. i # 1 => it[i - 1] \in Seq(E)
      BY <2>2
    <3>3. CASE i = 1
      <4>1. it[i] = seqs[i]
        BY <1>6, <3>3
      <4> QED
        BY <3>1, <4>1
    <3>4. CASE i # 1
      <4>1. it[i] = it[i - 1] \o seqs[i]
        BY <1>6, <3>4
      <4>2. it[i - 1] \o seqs[i] \in Seq(E)
        BY <3>1, <3>2, <3>4
      <4> QED
        BY <3>1, <4>1, <4>2
    <3> QED
      BY <3>3, <3>4
  <2> HIDE DEF T
  <2>3. \A i \in 0..n : i \in T
    BY <1>5, <2>1, <2>2, InductionOnSets
  <2> QED
    BY <1>5, <2>3 DEF T
<1>9. it \in [1..n -> Seq(E)]
  BY <1>7, <1>8
<1>10. IsFlat(it, seqs, n)
  BY <1>6 DEF IsFlat
<1> QED
  BY <1>4, <1>9, <1>10 DEF Flattens

\* The two parts of a concatenation.
LEMMA Joined ==
  ASSUME NEW E, NEW s \in Seq(E), NEW t \in Seq(E)
  PROVE  /\ s \o t \in Seq(E)
         /\ Len(s \o t) = Len(s) + Len(t)
         /\ \A k \in 1..Len(s) : (s \o t)[k] = s[k]
         /\ \A k \in 1..Len(t) : (s \o t)[Len(s) + k] = t[k]
         /\ \A k \in 1..Len(s \o t) :
              k \in 1..Len(s) \/ \E j \in 1..Len(t) : k = Len(s) + j
<1>1. Len(s) \in Nat /\ Len(t) \in Nat
  OBVIOUS
<1>2. /\ s \o t \in Seq(E) /\ Len(s \o t) = Len(s) + Len(t)
      /\ \A i \in 1..(Len(s) + Len(t)) :
           (s \o t)[i] = IF i <= Len(s) THEN s[i] ELSE t[i - Len(s)]
  BY ConcatProperties
<1>3. \A k \in 1..Len(s) : (s \o t)[k] = s[k]
  BY <1>1, <1>2
<1>4. ASSUME NEW k \in 1..Len(t) PROVE (s \o t)[Len(s) + k] = t[k]
  <2>1. /\ Len(s) + k \in 1..(Len(s) + Len(t)) /\ ~(Len(s) + k <= Len(s))
        /\ (Len(s) + k) - Len(s) = k
    BY <1>1
  <2> QED
    BY <1>2, <2>1
<1>5. ASSUME NEW k \in 1..Len(s \o t), k \notin 1..Len(s)
      PROVE  \E j \in 1..Len(t) : k = Len(s) + j
  <2>1. k - Len(s) \in 1..Len(t) /\ k = Len(s) + (k - Len(s))
    BY <1>1, <1>2, <1>5
  <2> QED
    BY <2>1
<1> QED
  BY <1>2, <1>3, <1>4, <1>5

\* Where the elements of two lists of lists come from, if those have the same
\* lengths.
Meet(p, q, a, b) ==
  /\ Len(p) = Len(q)
  /\ \A k \in 1..Len(p) : \E i \in 1..Len(a) : \E j \in 1..Len(a[i]) :
       p[k] = a[i][j] /\ q[k] = b[i][j]

\* One more list each, of the same length.
LEMMA MeetOn ==
  ASSUME NEW D, NEW E, NEW a, NEW b, NEW p \in Seq(D), NEW q \in Seq(E),
         NEW m \in 1..Len(a), a[m] \in Seq(D), b[m] \in Seq(E), Len(a[m]) = Len(b[m]),
         Meet(p, q, a, b)
  PROVE  Meet(p \o a[m], q \o b[m], a, b)
<1>1. PICK s \in Seq(D), t \in Seq(E) : s = a[m] /\ t = b[m]
  OBVIOUS
<1>2. Len(p) = Len(q) /\ Len(s) = Len(t) /\ Len(p) \in Nat /\ Len(s) \in Nat
  BY <1>1 DEF Meet
<1>3. /\ Len(p \o s) = Len(p) + Len(s)
      /\ \A k \in 1..Len(p) : (p \o s)[k] = p[k]
      /\ \A k \in 1..Len(s) : (p \o s)[Len(p) + k] = s[k]
      /\ \A k \in 1..Len(p \o s) :
           k \in 1..Len(p) \/ \E j \in 1..Len(s) : k = Len(p) + j
  BY Joined
<1>4. /\ Len(q \o t) = Len(q) + Len(t)
      /\ \A k \in 1..Len(q) : (q \o t)[k] = q[k]
      /\ \A k \in 1..Len(t) : (q \o t)[Len(q) + k] = t[k]
  BY Joined
<1>5. ASSUME NEW k \in 1..Len(p \o s)
      PROVE  \E i \in 1..Len(a) : \E j \in 1..Len(a[i]) :
               (p \o s)[k] = a[i][j] /\ (q \o t)[k] = b[i][j]
  <2>1. CASE k \in 1..Len(p)
    <3>1. (p \o s)[k] = p[k] /\ (q \o t)[k] = q[k]
      BY <1>2, <1>3, <1>4, <2>1
    <3> QED
      BY <2>1, <3>1 DEF Meet
  <2>2. ASSUME NEW j \in 1..Len(s), k = Len(p) + j
        PROVE  (p \o s)[k] = a[m][j] /\ (q \o t)[k] = b[m][j] /\ j \in 1..Len(a[m])
    BY <1>1, <1>2, <1>3, <1>4, <2>2
  <2> QED
    BY <1>3, <2>1, <2>2
<1> QED
  BY <1>1, <1>2, <1>3, <1>4, <1>5 DEF Meet

\* Lists of lists of the same lengths, flattened, meet all along.
LEMMA FlattenTogether ==
  ASSUME NEW D, NEW E, NEW a \in Seq(Seq(D)), NEW b \in Seq(Seq(E)), Len(a) = Len(b),
         \A i \in 1..Len(a) : Len(a[i]) = Len(b[i])
  PROVE  /\ FlattenSeq(a) \in Seq(D) /\ FlattenSeq(b) \in Seq(E)
         /\ Meet(FlattenSeq(a), FlattenSeq(b), a, b)
<1>1. CASE Len(a) = 0
  <2>1. FlattenSeq(a) = a /\ FlattenSeq(b) = b
    BY <1>1 DEF FlattenSeq
  <2>2. a = <<>> /\ b = <<>>
    BY <1>1, EmptySeq
  <2>3. <<>> \in Seq(D) /\ <<>> \in Seq(E) /\ Len(<<>>) = 0
    OBVIOUS
  <2> QED
    BY <2>1, <2>2, <2>3 DEF Meet
<1>2. CASE Len(a) # 0
  <2> DEFINE n == Len(a)
  <2>1. n \in Nat \ {0} /\ n = Len(b)
    BY <1>2
  <2>2. PICK f \in [1..n -> Seq(D)] : Flattens(f, a)
    BY <1>2, FlattenSteps
  <2>3. PICK g \in [1..n -> Seq(E)] : Flattens(g, b)
    BY <1>2, FlattenSteps
  <2>4. \A m \in 1..n : /\ f[m] = IF m = 1 THEN a[m] ELSE f[m - 1] \o a[m]
                        /\ g[m] = IF m = 1 THEN b[m] ELSE g[m - 1] \o b[m]
    BY <2>1, <2>2, <2>3 DEF Flattens, IsFlat
  <2> DEFINE T == {m \in Nat : m # 0 => Meet(f[m], g[m], a, b)}
  <2>5. 0 \in T
    OBVIOUS
  <2>6. ASSUME NEW m \in 1..n, m - 1 \in T PROVE m \in T
    <3>1. a[m] \in Seq(D) /\ b[m] \in Seq(E) /\ Len(a[m]) = Len(b[m]) /\ m \in 1..Len(a) /\ m \in Nat
      BY <2>1
    <3>2. CASE m = 1
      <4>1. f[m] = a[m] /\ g[m] = b[m]
        BY <2>4, <3>2
      <4>2. Meet(a[m], b[m], a, b)
        BY <3>1 DEF Meet
      <4> QED
        BY <3>1, <4>1, <4>2
    <3>3. CASE m # 1
      <4>1. f[m] = f[m - 1] \o a[m] /\ g[m] = g[m - 1] \o b[m]
        BY <2>4, <3>3
      <4>2. m - 1 \in 1..n
        BY <2>1, <3>3
      <4>3. f[m - 1] \in Seq(D) /\ g[m - 1] \in Seq(E)
        BY <4>2
      <4>4. Meet(f[m - 1], g[m - 1], a, b)
        BY <2>6, <4>2
      <4>5. Meet(f[m - 1] \o a[m], g[m - 1] \o b[m], a, b)
        BY <3>1, <4>3, <4>4, MeetOn
      <4> QED
        BY <3>1, <4>1, <4>5
    <3> QED
      BY <3>2, <3>3
  <2> HIDE DEF T
  <2>7. \A m \in 0..n : m \in T
    <3> HIDE DEF n
    <3> QED
      BY <2>1, <2>5, <2>6, InductionOnSets
  <2>8. n \in 0..n /\ n \in 1..n
    BY <2>1
  <2>9. Meet(f[n], g[n], a, b)
    BY <2>1, <2>7, <2>8 DEF T
  <2>10. f[n] \in Seq(D) /\ g[n] \in Seq(E)
    BY <2>8
  <2> QED
    BY <2>1, <2>2, <2>3, <2>9, <2>10 DEF Flattens
<1> QED
  BY <1>1, <1>2

\* A list of lists of one element each.
LEMMA FlattenSingles ==
  ASSUME NEW E, NEW s \in Seq(E)
  PROVE  FlattenSeq([k \in DOMAIN s |-> <<s[k]>>]) = s
<1> DEFINE n == Len(s)
           singles == [k \in 1..n |-> <<s[k]>>]
<1>1. n \in Nat /\ DOMAIN s = 1..n
  OBVIOUS
<1>2. singles \in Seq(Seq(E)) /\ Len(singles) = n
  <2>1. \A k \in 1..n : <<s[k]>> \in Seq(E)
    OBVIOUS
  <2> QED
    BY <1>1, <2>1
<1>3. \A k \in 1..n : singles[k] = <<s[k]>>
  OBVIOUS
<1> HIDE DEF singles
<1>4. CASE n = 0
  <2>1. FlattenSeq(singles) = singles
    BY <1>2, <1>4 DEF FlattenSeq
  <2>2. singles = <<>> /\ s = <<>>
    BY <1>2, <1>4, EmptySeq
  <2> QED
    BY <1>1, <2>1, <2>2 DEF singles
<1>5. CASE n # 0
  <2>1. PICK f \in [1..n -> Seq(E)] : Flattens(f, singles)
    BY <1>2, <1>5, FlattenSteps
  <2>2. \A m \in 1..n : f[m] = IF m = 1 THEN <<s[m]>> ELSE f[m - 1] \o <<s[m]>>
    BY <1>2, <1>3, <2>1 DEF Flattens, IsFlat
  <2> DEFINE T == {m \in Nat : m # 0 => Len(f[m]) = m /\ \A k \in 1..m : f[m][k] = s[k]}
  <2>3. 0 \in T
    OBVIOUS
  <2>4. ASSUME NEW m \in 1..n, m - 1 \in T PROVE m \in T
    <3>1. m \in Nat /\ s[m] \in E
      BY <1>1, ElementOfSeq
    <3> PICK t \in Seq(E) : t = <<s[m]>>
      <4>1. <<s[m]>> \in Seq(E)
        BY <3>1
      <4> QED
        BY <4>1
    <3>2. Len(t) = 1 /\ t[1] = s[m]
      OBVIOUS
    <3>3. CASE m = 1
      <4>1. f[m] = t
        BY <2>2, <3>3
      <4>2. \A k \in 1..m : k = m
        BY <3>3
      <4>3. Len(f[m]) = m /\ \A k \in 1..m : f[m][k] = s[k]
        BY <3>3, <3>2, <4>1, <4>2
      <4> QED
        BY <3>1, <4>3
    <3>4. CASE m # 1
      <4>1. f[m] = f[m - 1] \o <<s[m]>>
        BY <2>2, <3>4
      <4>2. m - 1 \in 1..n /\ m - 1 \in Nat
        BY <1>1, <3>4
      <4>3. Len(f[m - 1]) = m - 1 /\ \A k \in 1..(m - 1) : f[m - 1][k] = s[k]
        BY <2>4, <4>2
      <4>4. PICK p \in Seq(E) : p = f[m - 1]
        BY <4>2
      <4>6. /\ Len(p \o t) = Len(p) + Len(t)
            /\ \A k \in 1..Len(p) : (p \o t)[k] = p[k]
            /\ \A k \in 1..Len(t) : (p \o t)[Len(p) + k] = t[k]
        BY Joined
      <4>7. Len(p \o t) = m
        BY <3>1, <4>2, <4>3, <4>4, <3>2, <4>6
      <4>8. ASSUME NEW k \in 1..m PROVE (p \o t)[k] = s[k]
        <5>1. CASE k = m
          <6>1. 1 \in 1..Len(t) /\ Len(p) + 1 = m
            BY <3>1, <4>2, <4>3, <3>2, <4>4
          <6> QED
            BY <3>2, <4>6, <5>1, <6>1
        <5>2. CASE k # m
          <6>1. k \in 1..(m - 1)
            BY <3>1, <5>2
          <6> QED
            BY <4>3, <4>4, <4>6, <6>1
        <5> QED
          BY <5>1, <5>2
      <4> QED
        BY <3>1, <4>1, <4>4, <4>7, <4>8
    <3> QED
      BY <3>3, <3>4
  <2> HIDE DEF T
  <2>5. \A m \in 0..n : m \in T
    <3> HIDE DEF n
    <3> QED
      BY <1>1, <2>3, <2>4, InductionOnSets
  <2>6. f[n] \in Seq(E) /\ Len(f[n]) = n /\ \A k \in 1..n : f[n][k] = s[k]
    <3>1. n \in 1..n /\ n \in 0..n
      BY <1>1, <1>5
    <3> QED
      BY <1>5, <2>5, <3>1 DEF T
  <2>7. f[n] = s
    BY <2>6, SeqEqual
  <2> QED
    BY <1>1, <1>2, <2>1, <2>7 DEF Flattens, singles
<1> QED
  BY <1>4, <1>5

-----------------------------------------------------------------------------

\* Of an organisation SanitizeOrg leaves no comma, so that no word of it is a
\* list of modes.
OrgWord(L) == {<<l>> : l \in L}
Tested(L) == [org : Seq(OrgWord(L)), tls : BOOLEAN, connMode : {<<>>}, remark : {<<>>}]
Passed == Seq(Mode) \ {<<>>}
VerifiedNodes(L) ==
  {EnrichNode(i, node, passed) : i \in Nat, node \in Tested(L), passed \in Passed}

RemarkWord(L, index) == OrgWord(L) \union Passed \union {<<index>>, <<"tls">>}

\* What stands where in a remark.
Shaped(L, r, index, node, mode) ==
  LET o == Len(node.org)
  IN  /\ r \in Seq(RemarkWord(L, index))
      /\ o \in Nat
      /\ Len(r) = IF node.tls THEN o + 3 ELSE o + 2
      /\ r[1] = <<index>>
      /\ \A k \in 1..o : r[1 + k] \in OrgWord(L) /\ r[1 + k] = node.org[k]
      /\ r[o + 2] = mode
      /\ node.tls => r[o + 3] = <<"tls">>

\* The remark that is made for a node has that shape.
LEMMA RemarkShape ==
  ASSUME NEW L, NEW index \in Nat, NEW node, node.org \in Seq(OrgWord(L)), node.tls \in BOOLEAN,
         NEW mode \in Passed
  PROVE  Shaped(L, FormatRemark(index, node, mode), index, node, mode)
<1> DEFINE W == RemarkWord(L, index)
           org == node.org
           o == Len(org)
<1>1. PICK a \in Seq(W), b \in Seq(W), c \in Seq(W) :
        a = << <<index>> >> /\ b = <<mode>> /\ c = << <<"tls">> >>
  <2>1. << <<index>> >> \in Seq(W)
    BY DEF RemarkWord
  <2>2. <<mode>> \in Seq(W) /\ << <<"tls">> >> \in Seq(W)
    BY DEF RemarkWord
  <2> QED
    BY <2>1, <2>2
<1>2. /\ Len(a) = 1 /\ a[1] = <<index>> /\ Len(b) = 1 /\ b[1] = mode
      /\ Len(c) = 1 /\ c[1] = <<"tls">> /\ 1 \in 1..1
  BY <1>1
<1>3. org \in Seq(W) /\ o \in Nat /\ \A k \in 1..o : org[k] \in OrgWord(L)
  <2>1. OrgWord(L) \subseteq W
    BY DEF OrgWord, RemarkWord
  <2> QED
    BY <2>1, SeqMonotonic, ElementOfSeq
<1> HIDE DEF W, org, o
<1>4. PICK p \in Seq(W) : p = a \o org
  BY <1>3, ConcatProperties
<1>5. Len(p) = 1 + o /\ p[1] = <<index>> /\ \A k \in 1..o : p[1 + k] = org[k]
  <2>1. /\ Len(p) = Len(a) + Len(org)
        /\ \A k \in 1..Len(a) : p[k] = a[k]
        /\ \A k \in 1..Len(org) : p[Len(a) + k] = org[k]
    BY <1>3, <1>4, Joined
  <2> QED
    BY <1>2, <2>1 DEF o
<1>6. PICK q \in Seq(W) : q = p \o b
  BY <1>3, ConcatProperties
<1>7. /\ \A k \in 1..Len(p) : q[k] = p[k]
      /\ \A k \in 1..Len(b) : q[Len(p) + k] = b[k]
      /\ Len(q) = Len(p) + Len(b)
  BY <1>6, Joined
<1>8. Len(q) = o + 2 /\ q[o + 2] = mode
  BY <1>2, <1>3, <1>5, <1>7
<1>9. q[1] = <<index>> /\ \A k \in 1..o : q[1 + k] = org[k]
  <2>1. 1 \in 1..Len(p) /\ \A k \in 1..o : 1 + k \in 1..Len(p)
    BY <1>3, <1>5
  <2> QED
    BY <1>5, <1>7, <2>1
<1>10. CASE ~node.tls
  <2>1. FormatRemark(index, node, mode) = q \o <<>>
    BY <1>1, <1>4, <1>6, <1>10 DEF FormatRemark, Passed, org
  <2>2. q \o <<>> = q
    BY ConcatEmptySeq
  <2> QED
    BY <1>3, <1>8, <1>9, <1>10, <2>1, <2>2 DEF Shaped, W, org, o
<1>11. CASE node.tls
  <2>1. FormatRemark(index, node, mode) = q \o c
    BY <1>1, <1>4, <1>6, <1>11 DEF FormatRemark, Passed, org
  <2>2. PICK r \in Seq(W) : r = q \o c
    BY ConcatProperties
  <2>3. /\ \A k \in 1..Len(q) : r[k] = q[k]
        /\ \A k \in 1..Len(c) : r[Len(q) + k] = c[k]
        /\ Len(r) = Len(q) + Len(c)
    BY <2>2, Joined
  <2>4. Len(r) = o + 3 /\ r[o + 3] = <<"tls">>
    BY <1>2, <1>3, <1>8, <2>3
  <2>5. 1 \in 1..Len(q) /\ o + 2 \in 1..Len(q) /\ \A k \in 1..o : 1 + k \in 1..Len(q)
    BY <1>3, <1>8
  <2>6. r[1] = <<index>> /\ r[o + 2] = mode /\ \A k \in 1..o : r[1 + k] = org[k]
    BY <1>8, <1>9, <2>3, <2>5
  <2> QED
    BY <1>3, <1>11, <2>1, <2>2, <2>4, <2>6 DEF Shaped, W, org, o
<1> QED
  BY <1>10, <1>11

\* Remarks that differ in their first word only.
LEMMA TailsAgree ==
  ASSUME NEW V, NEW W, NEW r \in Seq(V), NEW s \in Seq(W), Len(r) = Len(s), Len(r) # 0,
         \A k \in 2..Len(r) : r[k] = s[k]
  PROVE  Tail(r) = Tail(s)
<1> DEFINE U == V \union W
<1>1. r \in Seq(U) /\ s \in Seq(U) /\ r # <<>> /\ s # <<>>
  <2>1. V \subseteq U /\ W \subseteq U
    OBVIOUS
  <2> HIDE DEF U
  <2>2. r \in Seq(U) /\ s \in Seq(U)
    BY <2>1, SeqMonotonic
  <2> QED
    BY <2>2
<1> HIDE DEF U
<1>2. /\ Tail(r) \in Seq(U) /\ Len(Tail(r)) = Len(r) - 1
      /\ \A k \in 1..Len(Tail(r)) : Tail(r)[k] = r[k + 1]
  BY <1>1, HeadTailProperties
<1>3. /\ Tail(s) \in Seq(U) /\ Len(Tail(s)) = Len(s) - 1
      /\ \A k \in 1..Len(Tail(s)) : Tail(s)[k] = s[k + 1]
  BY <1>1, HeadTailProperties
<1>4. ASSUME NEW k \in 1..Len(Tail(r)) PROVE Tail(r)[k] = Tail(s)[k]
  <2>1. k + 1 \in 2..Len(r)
    BY <1>2
  <2> QED
    BY <1>2, <1>3, <2>1
<1> QED
  BY <1>2, <1>3, <1>4, SeqEqual

\* The word that names several modes is the one behind the organisation.
LEMMA ReplacedMode ==
  ASSUME NEW L, NEW index \in Nat, NEW r \in Seq(RemarkWord(L, index)), NEW node,
         NEW modes \in Passed, Len(modes) > 1, NEW mode, Shaped(L, r, index, node, modes)
  PROVE  /\ Contains(r, modes)
         /\ ReplaceWord(r, modes, mode) = [r EXCEPT ![Len(node.org) + 2] = mode]
<1>1. PICK o \in Nat : o = Len(node.org)
  BY DEF Shaped
<1> DEFINE found == {i \in DOMAIN r : r[i] = modes}
<1>2. Len(r) \in Nat /\ (Len(r) = o + 2 \/ (Len(r) = o + 3 /\ node.tls))
  BY <1>1 DEF Shaped
<1>3. DOMAIN r = 1..Len(r) /\ o + 2 \in 1..Len(r) /\ r[o + 2] = modes
  BY <1>1, <1>2 DEF Shaped
<1>4. Len(r[1]) = 1
  BY DEF Shaped
<1>5. \A k \in 1..o : Len(r[1 + k]) = 1
  BY <1>1 DEF Shaped, OrgWord
<1>6. node.tls => Len(r[o + 3]) = 1
  <2>1. node.tls => r[o + 3] = <<"tls">>
    BY <1>1 DEF Shaped
  <2>2. Len(<<"tls">>) = 1
    OBVIOUS
  <2> QED
    BY <2>1, <2>2
<1>7. ASSUME NEW i \in 1..Len(r), i # o + 2 PROVE Len(r[i]) = 1
  <2>1. CASE i = 1
    BY <1>4, <2>1
  <2>2. CASE i \in 2..(o + 1)
    <3>1. i - 1 \in 1..o /\ 1 + (i - 1) = i
      BY <2>2
    <3> QED
      BY <1>5, <3>1
  <2>3. CASE i = o + 3
    BY <1>2, <1>6, <2>3
  <2>4. i = 1 \/ i \in 2..(o + 1) \/ i = o + 3
    BY <1>2, <1>7
  <2> QED
    BY <2>1, <2>2, <2>3, <2>4
<1>8. found = {o + 2}
  <2>1. ASSUME NEW i \in 1..Len(r), i # o + 2, r[i] = modes PROVE FALSE
    <3>1. Len(modes) = 1
      BY <1>7, <2>1
    <3> QED
      BY <3>1
  <2> QED
    BY <1>3, <2>1
<1>9. Contains(r, modes)
  BY <1>3 DEF Contains
<1>10. Min({o + 2}) = o + 2
  BY DEF Min
<1> HIDE DEF found
<1> QED
  BY <1>1, <1>8, <1>9, <1>10 DEF ReplaceWord, found

\* The row of a mode is the account of that mode, apart from its number.
LEMMA RowIsAccount ==
  ASSUME NEW L, NEW node \in VerifiedNodes(L), NEW k \in Nat
  PROVE  /\ node.connMode \in Passed /\ node.org \in Seq(OrgWord(L)) /\ node.tls \in BOOLEAN
         /\ RowsOf(node) \in Seq(Range(RowsOf(node)))
         /\ Len(RowsOf(node)) = Len(node.connMode)
         /\ \A m \in DOMAIN node.connMode :
              SameButIndex(Clone(node, k, node.connMode[m]), RowsOf(node)[m])
<1>1. PICK i \in Nat, t \in Tested(L), modes \in Passed : node = EnrichNode(i, t, modes)
  BY DEF VerifiedNodes
<1>2. PICK org \in Seq(OrgWord(L)), tls \in BOOLEAN :
        t = [org |-> org, tls |-> tls, connMode |-> <<>>, remark |-> <<>>]
  BY DEF Tested
<1>3. PICK r : r = FormatRemark(i, t, modes)
  OBVIOUS
<1>4. node = [org |-> org, tls |-> tls, connMode |-> modes, remark |-> r]
  BY <1>1, <1>2, <1>3 DEF EnrichNode
<1>5. node.connMode = modes /\ node.org = org /\ node.tls = tls /\ node.remark = r
  BY <1>4
<1>6. \A j \in Nat : \A mode : FormatRemark(j, node, mode) = FormatRemark(j, t, mode)
  BY <1>2, <1>5 DEF FormatRemark
<1>7. Shaped(L, r, i, node, modes)
  <2>1. Shaped(L, FormatRemark(i, node, modes), i, node, modes)
    BY <1>5, RemarkShape
  <2> QED
    BY <1>3, <1>6, <2>1
<1>8. modes \in Seq(Mode) /\ Len(modes) \in Nat \ {0} /\ DOMAIN modes = 1..Len(modes)
  BY EmptySeq DEF Passed
<1>9. ASSUME NEW mode \in Mode, NEW q, NEW W, q \in Seq(W), Len(q) = Len(r), Len(q) # 0,
             Len(org) + 2 \in 1..Len(q), q[Len(org) + 2] = <<mode>>,
             \A p \in 2..Len(q) : p # Len(org) + 2 => q[p] = r[p]
      PROVE  SameButIndex(Clone(node, k, mode), [node EXCEPT !.connMode = <<mode>>, !.remark = q])
  <2> DEFINE s == FormatRemark(k, node, <<mode>>)
             o == Len(org)
  <2>1. Shaped(L, s, k, node, <<mode>>)
    <3>1. <<mode>> \in Passed
      BY DEF Passed
    <3> QED
      BY <1>5, <3>1, RemarkShape
  <2> HIDE DEF s
  <2>2. Len(s) = Len(q) /\ s \in Seq(RemarkWord(L, k))
    BY <1>5, <1>7, <1>9, <2>1 DEF Shaped
  <2>3. ASSUME NEW p \in 2..Len(s) PROVE s[p] = q[p]
    <3>0. o \in Nat /\ o = Len(node.org) /\ Len(s) = IF tls THEN o + 3 ELSE o + 2
      BY <1>5, <2>1 DEF Shaped
    <3>1. CASE p = o + 2
      BY <1>5, <1>9, <2>1, <3>1 DEF Shaped
    <3>2. CASE p \in 2..(o + 1)
      <4>1. p - 1 \in 1..o /\ 1 + (p - 1) = p /\ p # o + 2
        BY <3>0, <3>2
      <4>2. s[1 + (p - 1)] = node.org[p - 1] /\ r[1 + (p - 1)] = node.org[p - 1]
        BY <1>7, <2>1, <3>0, <4>1 DEF Shaped
      <4> QED
        BY <1>9, <2>2, <4>1, <4>2
    <3>3. CASE p = o + 3 /\ tls
      <4>1. s[o + 3] = <<"tls">> /\ r[o + 3] = <<"tls">>
        BY <1>5, <1>7, <2>1, <3>0, <3>3 DEF Shaped
      <4>2. p # o + 2
        BY <3>0, <3>3
      <4> QED
        BY <1>9, <2>2, <3>3, <4>1, <4>2
    <3> QED
      BY <3>0, <3>1, <3>2, <3>3
  <2>4. Tail(s) = Tail(q)
    BY <1>9, <2>2, <2>3, TailsAgree
  <2> QED
    BY <1>4, <2>4 DEF SameButIndex, Clone, s
<1>10. CASE Len(modes) = 1
  <2>1. RowsOf(node) = <<node>>
    BY <1>5, <1>10 DEF RowsOf
  <2>2. PICK mode \in Mode : modes[1] = mode /\ modes = <<mode>>
    BY <1>8, <1>10
  <2>3. node = [node EXCEPT !.connMode = <<mode>>, !.remark = r]
    <3>1. PICK x : x = [node EXCEPT !.connMode = modes, !.remark = r]
      OBVIOUS
    <3>2. x = [org |-> org, tls |-> tls, connMode |-> modes, remark |-> r]
      BY <1>4, <3>1
    <3> QED
      BY <1>4, <2>2, <3>1, <3>2
  <2>4. SameButIndex(Clone(node, k, mode), node)
    <3>1. r \in Seq(RemarkWord(L, i)) /\ r[Len(org) + 2] = <<mode>> /\ Len(org) \in Nat
      BY <1>5, <1>7, <2>2 DEF Shaped
    <3>2. Len(r) # 0 /\ Len(org) + 2 \in 1..Len(r)
      BY <1>5, <1>7, <3>1 DEF Shaped
    <3> QED
      BY <1>9, <2>3, <3>1, <3>2
  <2>5. DOMAIN modes = {1}
    BY <1>8, <1>10
  <2> QED
    BY <1>5, <1>10, <2>1, <2>2, <2>4, <2>5 DEF Range
<1>11. CASE Len(modes) > 1
  <2> DEFINE Row(m) == [node EXCEPT !.connMode = <<node.connMode[m]>>,
                                    !.remark = SplitRemark(node, node.connMode[m])]
  <2>1. RowsOf(node) = [m \in 1..Len(modes) |-> Row(m)]
    <3>1. ~(Len(node.connMode) <= 1) /\ DOMAIN node.connMode = 1..Len(modes)
      BY <1>5, <1>8, <1>11
    <3>2. RowsOf(node) = [m \in DOMAIN node.connMode |-> Row(m)]
      BY <3>1 DEF RowsOf
    <3> QED
      BY <3>1, <3>2
  <2>2. RowsOf(node) \in Seq(Range(RowsOf(node))) /\ Len(RowsOf(node)) = Len(modes)
    <3> HIDE DEF Row
    <3> QED
      BY <1>8, <2>1 DEF Range
  <2>3. ASSUME NEW m \in 1..Len(modes)
        PROVE  SameButIndex(Clone(node, k, modes[m]), Row(m))
    <3> DEFINE mode == modes[m]
               q == [r EXCEPT ![Len(org) + 2] = <<mode>>]
    <3>1. r \in Seq(RemarkWord(L, i)) /\ Len(org) \in Nat /\ mode \in Mode
      BY <1>5, <1>7, <1>8 DEF Shaped
    <3>2. Len(r) # 0 /\ Len(org) + 2 \in 1..Len(r)
      BY <1>5, <1>7, <3>1 DEF Shaped
    <3>3. SplitRemark(node, mode) = q
      BY <1>5, <1>7, <1>11, <3>1, ReplacedMode DEF SplitRemark
    <3>4. <<mode>> \in RemarkWord(L, i)
      BY <3>1 DEF RemarkWord, Passed
    <3>5. /\ q \in Seq(RemarkWord(L, i)) /\ Len(q) = Len(r)
          /\ \A p \in 1..Len(r) : q[p] = IF p = Len(org) + 2 THEN <<mode>> ELSE r[p]
      BY <3>1, <3>2, <3>4, ExceptSeq
    <3>6. \A p \in 2..Len(q) : p # Len(org) + 2 => q[p] = r[p]
      BY <3>1, <3>5
    <3> HIDE DEF q
    <3> QED
      BY <1>5, <1>9, <3>1, <3>2, <3>3, <3>5, <3>6
  <2> HIDE DEF Row
  <2> QED
    BY <1>5, <1>8, <2>1, <2>2, <2>3
<1>12. Len(modes) = 1 \/ Len(modes) > 1
  BY <1>8
<1> QED
  BY <1>5, <1>10, <1>11, <1>12

\* The account of one mode.
LEMMA AccountIsOne ==
  ASSUME NEW L, NEW node \in VerifiedNodes(L), NEW k \in Nat, NEW mode \in Mode
  PROVE  LET account == Clone(node, k, mode)
         IN  /\ account.connMode = <<mode>> /\ account.remark[1] = <<k>>
             /\ NamesMode(account) /\ RowsOf(account) = <<account>>
<1>1. PICK i \in Nat, t \in Tested(L), modes \in Passed : node = EnrichNode(i, t, modes)
  BY DEF VerifiedNodes
<1>2. PICK org \in Seq(OrgWord(L)), tls \in BOOLEAN :
        t = [org |-> org, tls |-> tls, connMode |-> <<>>, remark |-> <<>>]
  BY DEF Tested
<1>3. node = [org |-> org, tls |-> tls, connMode |-> modes,
              remark |-> FormatRemark(i, t, modes)]
  BY <1>1, <1>2 DEF EnrichNode
<1>4. PICK s : s = FormatRemark(k, node, <<mode>>)
  OBVIOUS
<1>5. PICK account : account = Clone(node, k, mode)
  OBVIOUS
<1>6. /\ account.org = org /\ account.connMode = <<mode>> /\ account.remark = s
      /\ node.org = org /\ node.tls = tls
  BY <1>3, <1>4, <1>5 DEF Clone
<1>7. <<mode>> \in Passed /\ Len(<<mode>>) = 1
  BY DEF Passed
<1>8. Shaped(L, s, k, node, <<mode>>)
  BY <1>4, <1>6, <1>7, RemarkShape
<1>9. RowsOf(account) = <<account>>
  <2>1. Len(account.connMode) <= 1
    BY <1>6, <1>7
  <2> QED
    BY <2>1 DEF RowsOf
<1>10. NamesMode(account)
  <2> DEFINE W == RemarkWord(L, k)
  <2>1. PICK o \in Nat : o = Len(org)
    OBVIOUS
  <2>2. /\ s \in Seq(W) /\ Len(s) \in Nat /\ s[o + 2] = <<mode>>
        /\ Len(s) = (IF tls THEN o + 3 ELSE o + 2) /\ (tls => s[o + 3] = <<"tls">>)
    BY <1>6, <1>8, <2>1 DEF Shaped
  <2>3. <<mode>> \in W /\ <<"tls">> \in W
    BY <1>7 DEF RemarkWord
  <2> HIDE DEF W
  <2> DEFINE part == SubSeq(s, o + 2, Len(s))
  <2>4. \A j \in (o + 2)..Len(s) : s[j] \in W
    <3>1. \A j \in (o + 2)..Len(s) : j \in 1..Len(s)
      BY <2>2
    <3> QED
      BY <2>2, <3>1, ElementOfSeq
  <2>5. /\ part \in Seq(W)
        /\ Len(part) = IF o + 2 <= Len(s) THEN Len(s) - (o + 2) + 1 ELSE 0
        /\ \A j \in 1..(Len(s) - (o + 2) + 1) : part[j] = s[(o + 2) + j - 1]
    <3>1. o + 2 \in Int /\ Len(s) \in Int
      BY <2>2
    <3> QED
      BY <2>4, <3>1, SubSeqProperties
  <2> HIDE DEF part
  <2>6. CASE ~tls
    <3>1. Len(part) = 1 /\ 1 \in 1..(Len(s) - (o + 2) + 1) /\ (o + 2) + 1 - 1 = o + 2
      BY <2>2, <2>5, <2>6
    <3>2. part[1] = <<mode>>
      BY <2>2, <2>5, <3>1
    <3>3. PICK q \in Seq(W) : q = << <<mode>> >>
      <4>1. << <<mode>> >> \in Seq(W)
        BY <2>3
      <4> QED
        BY <4>1
    <3>4. Len(q) = 1 /\ q[1] = <<mode>>
      BY <3>3
    <3>5. \A j \in 1..Len(part) : j = 1
      BY <3>1
    <3>6. part = q
      BY <2>5, <3>1, <3>2, <3>4, <3>5, SeqEqual
    <3> QED
      BY <1>6, <2>1, <3>3, <3>6 DEF NamesMode, part
  <2>7. CASE tls
    <3>1. /\ Len(part) = 2 /\ 1 \in 1..(Len(s) - (o + 2) + 1) /\ 2 \in 1..(Len(s) - (o + 2) + 1)
          /\ (o + 2) + 1 - 1 = o + 2 /\ (o + 2) + 2 - 1 = o + 3
      BY <2>2, <2>5, <2>7
    <3>2. part[1] = <<mode>> /\ part[2] = <<"tls">>
      BY <2>2, <2>5, <2>7, <3>1
    <3>3. PICK q \in Seq(W) : q = << <<mode>>, <<"tls">> >>
      <4>1. << <<mode>>, <<"tls">> >> \in Seq(W)
        BY <2>3
      <4> QED
        BY <4>1
    <3>4. Len(q) = 2 /\ q[1] = <<mode>> /\ q[2] = <<"tls">>
      BY <3>3
    <3>5. \A j \in 1..Len(part) : j = 1 \/ j = 2
      BY <3>1
    <3>6. part = q
      BY <2>5, <3>1, <3>2, <3>4, <3>5, SeqEqual
    <3> QED
      BY <1>6, <2>1, <3>3, <3>6 DEF NamesMode, part
  <2> QED
    BY <2>6, <2>7
<1>11. s[1] = <<k>>
  BY <1>8 DEF Shaped
<1> QED
  BY <1>5, <1>6, <1>9, <1>10, <1>11

\* However many nodes passed, in whatever modes, wherever they are and whatever
\* the limit, an account is one node in one mode and says so.
THEOREM AccountsOfAny ==
  ASSUME NEW L, NEW results \in Seq(VerifiedNodes(L)), NEW limit \in Int
  PROVE  AccountPerModeOf(results, limit)
<1> DEFINE n == Len(results)
           ours == [r \in DOMAIN results |->
                      [m \in DOMAIN results[r].connMode |-> <<r, results[r].connMode[m]>>]]
           theirs == [r \in DOMAIN results |-> RowsOf(results[r])]
           pairs == FlattenSeq(ours)
           rows == ExpandNodesByMode(results)
           all == [k \in DOMAIN pairs |-> Clone(results[pairs[k][1]], k, pairs[k][2])]
           active == ActiveNodes(results, limit)
           E == UNION {Range(RowsOf(results[r])) : r \in 1..n}
<1>1. n \in Nat /\ DOMAIN results = 1..n /\ \A r \in 1..n : results[r] \in VerifiedNodes(L)
  BY ElementOfSeq
<1>2. \A r \in 1..n : results[r].connMode \in Seq(Mode)
  BY <1>1, RowIsAccount DEF Passed
<1>3. \A r \in 1..n : /\ RowsOf(results[r]) \in Seq(Range(RowsOf(results[r])))
                      /\ Len(RowsOf(results[r])) = Len(results[r].connMode)
  BY <1>1, RowIsAccount
<1>4. ours \in Seq(Seq((1..n) \X Mode)) /\ Len(ours) = n
  <2>1. ASSUME NEW r \in 1..n
        PROVE  [m \in DOMAIN results[r].connMode |-> <<r, results[r].connMode[m]>>]
                 \in Seq((1..n) \X Mode)
    <3>1. PICK cm \in Seq(Mode) : cm = results[r].connMode
      BY <1>2
    <3>2. [m \in 1..Len(cm) |-> <<r, cm[m]>>] \in Seq((1..n) \X Mode)
      OBVIOUS
    <3>3. DOMAIN cm = 1..Len(cm)
      OBVIOUS
    <3> QED
      BY <3>1, <3>2, <3>3
  <2> QED
    BY <1>1, <2>1
<1>5. \A r \in 1..n : Len(ours[r]) = Len(results[r].connMode)
  <2> SUFFICES ASSUME NEW r \in 1..n PROVE Len(ours[r]) = Len(results[r].connMode)
    OBVIOUS
  <2>1. PICK cm \in Seq(Mode) : cm = results[r].connMode
    BY <1>2
  <2>2. ours[r] = [m \in 1..Len(cm) |-> <<r, cm[m]>>]
    BY <1>1, <2>1
  <2> HIDE DEF ours
  <2> QED
    BY <2>1, <2>2
<1>6. theirs \in Seq(Seq(E)) /\ Len(theirs) = n
  <2>1. ASSUME NEW r \in 1..n PROVE RowsOf(results[r]) \in Seq(E)
    <3>1. Range(RowsOf(results[r])) \subseteq E
      OBVIOUS
    <3> HIDE DEF E
    <3> QED
      BY <1>3, <3>1, SeqMonotonic
  <2> HIDE DEF E
  <2> QED
    BY <1>1, <2>1
<1> HIDE DEF E
<1>7. \A r \in 1..n : theirs[r] = RowsOf(results[r])
  BY <1>1
<1>8. \A r \in 1..n : \A m \in 1..Len(results[r].connMode) : ours[r][m] = <<r, results[r].connMode[m]>>
  BY <1>1, <1>2
<1>9. rows = FlattenSeq(theirs)
  BY DEF ExpandNodesByMode
<1>10. active = SubSeq(all, 1, Min({Len(all), Max({1, limit})}))
  BY DEF ActiveNodes
<1> HIDE DEF ours, theirs, rows, active
<1>11. pairs \in Seq((1..n) \X Mode) /\ Meet(pairs, rows, ours, theirs)
  BY <1>3, <1>4, <1>5, <1>6, <1>7, <1>9, FlattenTogether
<1> HIDE DEF pairs
<1>12. DOMAIN pairs = 1..Len(pairs) /\ Len(pairs) \in Nat
  BY <1>11
<1>13. ASSUME NEW k \in 1..Len(pairs)
       PROVE  \E r \in 1..n : \E m \in 1..Len(results[r].connMode) :
                /\ all[k] = Clone(results[r], k, results[r].connMode[m])
                /\ results[r].connMode[m] \in Mode
                /\ rows[k] = RowsOf(results[r])[m]
  <2>1. PICK r \in 1..n : \E m \in 1..Len(ours[r]) : pairs[k] = ours[r][m] /\ rows[k] = theirs[r][m]
    BY <1>4, <1>11 DEF Meet
  <2>2. PICK m \in 1..Len(ours[r]) : pairs[k] = ours[r][m] /\ rows[k] = theirs[r][m]
    BY <2>1
  <2>3. m \in 1..Len(results[r].connMode) /\ pairs[k] = <<r, results[r].connMode[m]>>
    BY <1>5, <1>8, <2>2
  <2>4. results[r].connMode[m] \in Mode
    BY <1>2, <2>3, ElementOfSeq
  <2>5. all[k] = Clone(results[r], k, results[r].connMode[m])
    BY <1>12, <2>3
  <2>6. rows[k] = RowsOf(results[r])[m]
    BY <1>7, <2>2
  <2> QED
    BY <2>3, <2>4, <2>5, <2>6
<1>14. PICK A : A = {all[k] : k \in 1..Len(pairs)}
  OBVIOUS
<1>15. all \in Seq(A) /\ Len(all) = Len(pairs)
  BY <1>12, <1>14
<1> HIDE DEF all
<1>16. PICK v \in 0..Len(pairs) : v = Min({Len(all), Max({1, limit})})
  <2>1. Max({1, limit}) \in Nat
    <3>1. CASE limit >= 1
      <4>1. Max({1, limit}) = limit
        BY <3>1 DEF Max
      <4> QED
        BY <3>1, <4>1
    <3>2. CASE limit < 1
      <4>1. Max({1, limit}) = 1
        BY <3>2 DEF Max
      <4> QED
        BY <4>1
    <3> QED
      BY <3>1, <3>2
  <2>2. PICK u \in Nat : u = Max({1, limit})
    BY <2>1
  <2>3. PICK w \in Nat : w = Len(all)
    BY <1>12, <1>15
  <2>4. Min({w, u}) \in 0..w
    <3>1. CASE u <= w
      <4>1. Min({w, u}) = u
        BY <3>1 DEF Min
      <4> QED
        BY <3>1, <4>1
    <3>2. CASE u > w
      <4>1. Min({w, u}) = w
        BY <3>2 DEF Min
      <4> QED
        BY <4>1
    <3> QED
      BY <3>1, <3>2
  <2> QED
    BY <1>15, <2>2, <2>3, <2>4
<1>17. active \in Seq(A) /\ Len(active) = v /\ \A k \in 1..v : active[k] = all[k]
  <2>1. \A k \in 1..v : all[k] \in A /\ k \in 1..Len(pairs)
    BY <1>12, <1>14, <1>16
  <2>2. /\ SubSeq(all, 1, v) \in Seq(A)
        /\ Len(SubSeq(all, 1, v)) = IF 1 <= v THEN v - 1 + 1 ELSE 0
        /\ \A k \in 1..(v - 1 + 1) : SubSeq(all, 1, v)[k] = all[1 + k - 1]
    <3>1. v \in Int
      BY <1>12
    <3>2. \A k \in 1..v : all[k] \in A
      BY <2>1
    <3> QED
      BY <3>1, <3>2, SubSeqProperties
  <2>3. active = SubSeq(all, 1, v)
    BY <1>10, <1>16
  <2>4. Len(active) = v
    BY <1>12, <1>16, <2>2, <2>3
  <2>5. ASSUME NEW k \in 1..v PROVE active[k] = all[k]
    <3>1. k \in 1..(v - 1 + 1) /\ 1 + k - 1 = k
      BY <1>12, <1>16
    <3> QED
      BY <2>2, <2>3, <3>1
  <2> QED
    BY <2>2, <2>3, <2>4, <2>5
<1>18. ASSUME NEW k \in 1..v
       PROVE  /\ \E m \in Mode : active[k].connMode = <<m>>
              /\ NamesMode(active[k]) /\ active[k].remark[1] = <<k>>
              /\ RowsOf(active[k]) = <<active[k]>>
              /\ SameButIndex(active[k], rows[k])
  <2>1. k \in 1..Len(pairs) /\ k \in Nat
    BY <1>12, <1>16
  <2>2. PICK r \in 1..n : \E m \in 1..Len(results[r].connMode) :
          /\ all[k] = Clone(results[r], k, results[r].connMode[m])
          /\ results[r].connMode[m] \in Mode
          /\ rows[k] = RowsOf(results[r])[m]
    BY <1>13, <2>1
  <2>3. PICK m \in 1..Len(results[r].connMode) :
          /\ all[k] = Clone(results[r], k, results[r].connMode[m])
          /\ results[r].connMode[m] \in Mode
          /\ rows[k] = RowsOf(results[r])[m]
    BY <2>2
  <2>4. active[k] = Clone(results[r], k, results[r].connMode[m])
    BY <1>17, <2>3
  <2>5. /\ active[k].connMode = <<results[r].connMode[m]>> /\ active[k].remark[1] = <<k>>
        /\ NamesMode(active[k]) /\ RowsOf(active[k]) = <<active[k]>>
    BY <1>1, <2>1, <2>3, <2>4, AccountIsOne
  <2>6. m \in DOMAIN results[r].connMode
    BY <1>2
  <2>7. SameButIndex(active[k], rows[k])
    BY <1>1, <2>1, <2>3, <2>4, <2>6, RowIsAccount
  <2> QED
    BY <2>3, <2>5, <2>7
<1>19. DOMAIN active = 1..v
  BY <1>17
<1>20. ExpandNodesByMode(active) = active
  <2>1. [k \in DOMAIN active |-> RowsOf(active[k])] = [k \in DOMAIN active |-> <<active[k]>>]
    BY <1>18, <1>19
  <2>2. FlattenSeq([k \in DOMAIN active |-> <<active[k]>>]) = active
    BY <1>17, FlattenSingles
  <2> QED
    BY <2>1, <2>2 DEF ExpandNodesByMode
<1> QED
  BY <1>18, <1>19, <1>20 DEF AccountPerModeOf, active, rows

-----------------------------------------------------------------------------

\* Links: from the body of a feed, whatever is in it.

\* What the recursion of FoldLeft does where it is defined, and the values it
\* goes through.
Follows(it, S, F, base, seq) ==
  /\ it[{}] = base
  /\ \A s \in SUBSET (1..Len(seq)) :
       s # {} /\ it[s \ {Max(s)}] \in S => it[s] = F[<<it[s \ {Max(s)}], seq[Max(s)]>>]

IsRun(runs, F, base, seq) ==
  /\ runs[0] = base
  /\ \A k \in 1..Len(seq) : runs[k] = F[<<runs[k - 1], seq[k]>>]

HasRun(S, F, base, seq, result) ==
  \E runs \in [0..Len(seq) -> S] : IsRun(runs, F, base, seq) /\ runs[Len(seq)] = result

\* Such a recursion has its values in S, one step after the other.
LEMMA FoldRuns ==
  ASSUME NEW S, NEW E, NEW base \in S, NEW F \in [S \X E -> S], NEW seq \in Seq(E),
         NEW it, Follows(it, S, F, base, seq)
  PROVE  HasRun(S, F, base, seq, it[1..Len(seq)])
<1> DEFINE n == Len(seq)
           T == {k \in Nat : it[1..k] \in S}
           runs == [k \in 0..n |-> it[1..k]]
<1>1. n \in Nat /\ \A k \in 1..n : seq[k] \in E
  BY ElementOfSeq
<1>2. 1..0 = {}
  OBVIOUS
<1>3. ASSUME NEW k \in 1..n
      PROVE  it[1..(k - 1)] \in S => it[1..k] = F[<<it[1..(k - 1)], seq[k]>>]
  <2>1. 1..k \in SUBSET (1..n) /\ k \in Nat \ {0}
    BY <1>1
  <2>2. Max(1..k) = k /\ 1..k # {} /\ (1..k) \ {k} = 1..(k - 1)
    BY <2>1, MaxFacts
  <2> QED
    BY <2>1, <2>2 DEF Follows
<1>4. 0 \in T
  BY <1>2 DEF Follows
<1>5. ASSUME NEW k \in 1..n, k - 1 \in T PROVE k \in T
  <2>1. k \in Nat /\ it[1..(k - 1)] \in S /\ seq[k] \in E
    BY <1>1, <1>5
  <2>2. F[<<it[1..(k - 1)], seq[k]>>] \in S
    BY <2>1
  <2> QED
    BY <1>3, <2>1, <2>2
<1> HIDE DEF T
<1>6. \A k \in 0..n : k \in T
  <2> HIDE DEF n
  <2> QED
    BY <1>1, <1>4, <1>5, InductionOnSets
<1>7. \A k \in 0..n : runs[k] = it[1..k] /\ it[1..k] \in S
  BY <1>6 DEF T
<1>8. runs \in [0..n -> S]
  BY <1>7
<1> HIDE DEF runs
<1>9. runs[0] = base
  BY <1>1, <1>2, <1>7 DEF Follows
<1>10. ASSUME NEW k \in 1..n PROVE runs[k] = F[<<runs[k - 1], seq[k]>>]
  <2>1. k \in 0..n /\ k - 1 \in 0..n
    BY <1>1
  <2> QED
    BY <1>3, <1>7, <2>1
<1>11. runs[n] = it[1..n]
  BY <1>1, <1>7
<1> QED
  BY <1>8, <1>9, <1>10, <1>11 DEF IsRun, HasRun

\* One more element is one more step.
LEMMA RunOfAppend ==
  ASSUME NEW E, NEW F, NEW base, NEW seq \in Seq(E), NEW e \in E
  PROVE  \A p, q : IsRun(p, F, base, seq) /\ IsRun(q, F, base, Append(seq, e))
                     => q[Len(seq) + 1] = F[<<p[Len(seq)], e>>]
<1> SUFFICES ASSUME NEW p, NEW q, IsRun(p, F, base, seq), IsRun(q, F, base, Append(seq, e))
             PROVE  q[Len(seq) + 1] = F[<<p[Len(seq)], e>>]
  OBVIOUS
<1> DEFINE n == Len(seq)
           T == {k \in Nat : q[k] = p[k]}
<1>1. /\ n \in Nat /\ Len(Append(seq, e)) = n + 1 /\ Append(seq, e)[n + 1] = e
      /\ \A k \in 1..n : Append(seq, e)[k] = seq[k]
  BY AppendProperties
<1>2. 0 \in T
  BY DEF IsRun
<1>3. ASSUME NEW k \in 1..n, k - 1 \in T PROVE k \in T
  <2>1. k \in 1..(n + 1) /\ k \in Nat
    BY <1>1
  <2>2. q[k] = F[<<q[k - 1], seq[k]>>]
    BY <1>1, <2>1 DEF IsRun
  <2>3. p[k] = F[<<p[k - 1], seq[k]>>]
    BY DEF IsRun
  <2> QED
    BY <1>3, <2>1, <2>2, <2>3
<1> HIDE DEF T
<1>4. \A k \in 0..n : k \in T
  <2> HIDE DEF n
  <2> QED
    BY <1>1, <1>2, <1>3, InductionOnSets
<1>5. q[n] = p[n]
  BY <1>1, <1>4 DEF T
<1>6. n + 1 \in 1..(n + 1) /\ (n + 1) - 1 = n
  BY <1>1
<1>7. q[n + 1] = F[<<q[n], e>>]
  BY <1>1, <1>6 DEF IsRun
<1> QED
  BY <1>5, <1>7

\* Induction over sequences, of which each is a prefix of a longer one.
LEMMA SeqInduction ==
  ASSUME NEW E, NEW T, <<>> \in T,
         \A s \in Seq(E) : \A e \in E : s \in T => Append(s, e) \in T
  PROVE  \A s \in Seq(E) : s \in T
<1> SUFFICES ASSUME NEW s \in Seq(E) PROVE s \in T
  OBVIOUS
<1> DEFINE n == Len(s)
           U == {k \in Nat : SubSeq(s, 1, k) \in T}
<1>1. n \in Nat
  OBVIOUS
<1>2. 0 \in U
  <2>1. SubSeq(s, 1, 0) = <<>>
    BY SubSeqEmpty
  <2> QED
    BY <2>1
<1>3. ASSUME NEW k \in 1..n, k - 1 \in U PROVE k \in U
  <2>1. k \in Nat /\ k - 1 \in 0..n /\ s[k] \in E
    BY <1>1, ElementOfSeq
  <2>2. SubSeq(s, 1, k - 1) \in Seq(E)
    <3>1. \A j \in 1..(k - 1) : s[j] \in E
      BY <1>1, ElementOfSeq
    <3> QED
      BY <2>1, <3>1, SubSeqProperties
  <2>3. SubSeq(s, 1, k) = Append(SubSeq(s, 1, k - 1), s[k])
    <3>1. SubSeq(s, 1, k) = SubSeq(s, 1, k - 1) \o << s[k] >>
      <4>1. 1 \in 1..Len(s) /\ k \in 1..Len(s)
        BY <1>1
      <4> QED
        BY <4>1, SubSeqRecursiveSecond
    <3> QED
      BY <2>1, <2>2, <3>1, AppendIsConcat
  <2> QED
    BY <1>3, <2>1, <2>2, <2>3
<1> HIDE DEF U
<1>4. \A k \in 0..n : k \in U
  <2> HIDE DEF n
  <2> QED
    BY <1>1, <1>2, <1>3, InductionOnSets
<1>5. SubSeq(s, 1, n) \in T
  BY <1>1, <1>4 DEF U
<1> QED
  BY <1>5, SubSeqFull

-----------------------------------------------------------------------------

\* What Append does to a sequence.
LEMMA Appended ==
  ASSUME NEW Q, NEW s \in Seq(Q), NEW x \in Q
  PROVE  /\ Append(s, x) \in Seq(Q) /\ Append(s, x) # <<>>
         /\ Len(s) \in Nat /\ Len(Append(s, x)) = Len(s) + 1
         /\ \A k \in 1..Len(s) : Append(s, x)[k] = s[k]
         /\ Append(s, x)[Len(s) + 1] = x
  BY AppendProperties

\* What the folds of the decoder do with one more element.
LEMMA RunOfMore ==
  ASSUME NEW S, NEW E, NEW F, NEW base, NEW seq \in Seq(E), NEW e \in E, NEW r, NEW more,
         HasRun(S, F, base, seq, r), HasRun(S, F, base, Append(seq, e), more)
  PROVE  r \in S /\ more = F[<<r, e>>]
<1>1. PICK p \in [0..Len(seq) -> S] : IsRun(p, F, base, seq) /\ p[Len(seq)] = r
  BY DEF HasRun
<1>2. PICK q \in [0..Len(Append(seq, e)) -> S] :
        IsRun(q, F, base, Append(seq, e)) /\ q[Len(Append(seq, e))] = more
  BY DEF HasRun
<1>3. Len(seq) \in Nat /\ Len(Append(seq, e)) = Len(seq) + 1
  BY Appended
<1>4. q[Len(seq) + 1] = F[<<p[Len(seq)], e>>]
  <2>1. IsRun(p, F, base, seq) /\ IsRun(q, F, base, Append(seq, e))
    BY <1>1, <1>2
  <2>2. \A a, b : IsRun(a, F, base, seq) /\ IsRun(b, F, base, Append(seq, e))
                     => b[Len(seq) + 1] = F[<<a[Len(seq)], e>>]
    BY RunOfAppend
  <2> QED
    BY <2>1, <2>2, Zenon
<1>5. p[Len(seq)] \in S
  BY <1>1, <1>3
<1> QED
  BY <1>1, <1>2, <1>3, <1>4, <1>5

\* The values of a fold over nothing.
LEMMA RunOfNone ==
  ASSUME NEW S, NEW F, NEW base, NEW r, HasRun(S, F, base, <<>>, r)
  PROVE  r = base
BY DEF HasRun, IsRun

\* What Cut does as a function: it leaves a part to go on with.
PartLists == Seq(Seq(Piece)) \ {<<>>}
Cutting == [a \in PartLists \X Piece |-> Cut(a[1], a[2])]

\* RawParts goes through the values of such a run.
LEMMA RawPartsRun ==
  ASSUME NEW text \in Seq(Piece)
  PROVE  HasRun(PartLists, Cutting, << <<>> >>, text, RawParts(text))
<1> DEFINE n == Len(text)
           S == PartLists
           F == Cutting
           Step(iter) ==
             [s \in SUBSET (1..n) |->
                IF s = {} THEN << <<>> >> ELSE Cut(iter[s \ {Max(s)}], text[Max(s)])]
           it == CHOOSE iter : iter = Step(iter)
<1>1. n \in Nat /\ DOMAIN text = 1..n /\ \A k \in 1..n : text[k] \in Piece
  BY ElementOfSeq
<1>2. RawParts(text) = it[1..n]
  BY <1>1 DEF RawParts, FoldLeft, MapThenFoldSet
<1>3. \A parts \in S : \A p \in Piece : Cut(parts, p) \in S
  <2> SUFFICES ASSUME NEW parts \in S, NEW p \in Piece PROVE Cut(parts, p) \in S
    OBVIOUS
  <2>1. parts \in Seq(Seq(Piece)) /\ Len(parts) \in Nat \ {0}
    BY EmptySeq DEF PartLists
  <2>2. Last(parts) \in Seq(Piece)
    BY <2>1, ElementOfSeq DEF Last
  <2>3. Front(parts) \in Seq(Seq(Piece))
    <3>1. \A j \in 1..(Len(parts) - 1) : parts[j] \in Seq(Piece)
      BY <2>1, ElementOfSeq
    <3> QED
      BY <2>1, <3>1, SubSeqProperties DEF Front
  <2>4. Append(parts, <<>>) \in S
    <3>1. <<>> \in Seq(Piece)
      OBVIOUS
    <3> QED
      BY <2>1, <3>1, Appended DEF PartLists
  <2>5. Append(Last(parts), p) \in Seq(Piece)
    BY <2>2, AppendProperties
  <2>6. Append(Front(parts), Append(Last(parts), p)) \in S
    <3>1. PICK f \in Seq(Seq(Piece)), l \in Seq(Piece) : f = Front(parts) /\ l = Append(Last(parts), p)
      BY <2>3, <2>5
    <3>2. Append(f, l) \in Seq(Seq(Piece)) /\ Append(f, l) # <<>>
      BY Appended
    <3> QED
      BY <3>1, <3>2 DEF PartLists
  <2> QED
    BY <2>4, <2>6 DEF Cut
<1>4. << <<>> >> \in S
  BY DEF PartLists
<1>5. F \in [S \X Piece -> S]
  BY <1>3 DEF Cutting
<1>6. \A parts \in S : \A p \in Piece : F[<<parts, p>>] = Cut(parts, p)
  BY DEF Cutting
<1> HIDE DEF S, F
<1>7. PICK iter \in [SUBSET (1..n) -> S] : IsFold(iter, F, << <<>> >>, text, n)
  BY <1>4, <1>5, FoldExists DEF HasFold
<1>8. iter = Step(iter)
  <2>1. ASSUME NEW s \in SUBSET (1..n) PROVE iter[s] = Step(iter)[s]
    <3>1. s # {} => Max(s) \in 1..n /\ s \ {Max(s)} \in SUBSET (1..n)
      BY <1>1, MaxIsIn
    <3>2. s # {} => iter[s \ {Max(s)}] \in S /\ text[Max(s)] \in Piece
      BY <1>1, <3>1
    <3>3. iter[s] = IF s = {} THEN << <<>> >> ELSE F[<<iter[s \ {Max(s)}], text[Max(s)]>>]
      BY <1>7 DEF IsFold
    <3> QED
      BY <1>6, <3>2, <3>3
  <2> QED
    BY <2>1
<1>9. it = Step(it)
  <2> HIDE DEF Step
  <2> QED
    BY <1>8
<1>10. \A s \in SUBSET (1..n) : it[s] = IF s = {} THEN << <<>> >> ELSE Cut(it[s \ {Max(s)}], text[Max(s)])
  <2>1. \A s \in SUBSET (1..n) : it[s] = Step(it)[s]
    <3> HIDE DEF Step, it
    <3> QED
      BY <1>9
  <2> HIDE DEF it
  <2> QED
    BY <2>1
<1> HIDE DEF it
<1>11. Follows(it, S, F, << <<>> >>, text)
  <2>1. ASSUME NEW s \in SUBSET (1..n), s # {}, it[s \ {Max(s)}] \in S
        PROVE  it[s] = F[<<it[s \ {Max(s)}], text[Max(s)]>>]
    <3>1. Max(s) \in 1..n
      BY <1>1, <2>1, MaxIsIn
    <3> QED
      BY <1>1, <1>6, <1>10, <2>1, <3>1
  <2>2. it[{}] = << <<>> >>
    BY <1>10
  <2> QED
    BY <2>1, <2>2 DEF Follows
<1>12. HasRun(S, F, << <<>> >>, text, it[1..n])
  BY <1>4, <1>5, <1>11, FoldRuns
<1> QED
  BY <1>2, <1>12 DEF S, F

\* strings.Split: one part of nothing, and a Cut for each piece of a text.
LEMMA RawPartsOf ==
  /\ RawParts(<<>>) = << <<>> >>
  /\ \A text \in Seq(Piece) : RawParts(text) \in PartLists
  /\ \A text \in Seq(Piece) : \A p \in Piece :
       RawParts(Append(text, p)) = Cut(RawParts(text), p)
<1>1. <<>> \in Seq(Piece)
  OBVIOUS
<1>2. RawParts(<<>>) = << <<>> >>
  BY <1>1, RawPartsRun, RunOfNone
<1>3. ASSUME NEW text \in Seq(Piece), NEW p \in Piece
      PROVE  /\ RawParts(text) \in PartLists
             /\ RawParts(Append(text, p)) = Cut(RawParts(text), p)
  <2>1. Append(text, p) \in Seq(Piece)
    BY Appended
  <2>2. /\ HasRun(PartLists, Cutting, << <<>> >>, text, RawParts(text))
        /\ HasRun(PartLists, Cutting, << <<>> >>, Append(text, p), RawParts(Append(text, p)))
    BY <2>1, RawPartsRun
  <2>3. /\ RawParts(text) \in PartLists
        /\ RawParts(Append(text, p)) = Cutting[<<RawParts(text), p>>]
    BY <2>2, RunOfMore
  <2> QED
    BY <2>3 DEF Cutting
<1>4. "x" \in Piece
  BY DEF Piece
<1> QED
  BY <1>2, <1>3, <1>4

\* What Kept does as a function.
Keeping(E) == [a \in Seq(Seq(E)) \X Seq(E) |-> Kept(a[1], a[2])]

\* NonEmpty goes through the values of such a run.
LEMMA NonEmptyRun ==
  ASSUME NEW E, NEW seq \in Seq(Seq(E))
  PROVE  HasRun(Seq(Seq(E)), Keeping(E), <<>>, seq, NonEmpty(seq))
<1> DEFINE n == Len(seq)
           S == Seq(Seq(E))
           F == Keeping(E)
           Step(iter) ==
             [s \in SUBSET (1..n) |->
                IF s = {} THEN <<>> ELSE Kept(iter[s \ {Max(s)}], seq[Max(s)])]
           it == CHOOSE iter : iter = Step(iter)
<1>1. n \in Nat /\ DOMAIN seq = 1..n /\ \A k \in 1..n : seq[k] \in Seq(E)
  BY ElementOfSeq
<1>2. NonEmpty(seq) = it[1..n]
  BY <1>1 DEF NonEmpty, FoldLeft, MapThenFoldSet
<1>3. \A done \in S : \A x \in Seq(E) : Kept(done, x) \in S
  BY Appended DEF Kept
<1>4. <<>> \in S
  OBVIOUS
<1>5. F \in [S \X Seq(E) -> S]
  BY <1>3 DEF Keeping
<1>6. \A done \in S : \A x \in Seq(E) : F[<<done, x>>] = Kept(done, x)
  BY DEF Keeping
<1> HIDE DEF S, F
<1>7. PICK iter \in [SUBSET (1..n) -> S] : IsFold(iter, F, <<>>, seq, n)
  BY <1>4, <1>5, FoldExists DEF HasFold
<1>8. iter = Step(iter)
  <2>1. ASSUME NEW s \in SUBSET (1..n) PROVE iter[s] = Step(iter)[s]
    <3>1. s # {} => Max(s) \in 1..n /\ s \ {Max(s)} \in SUBSET (1..n)
      BY <1>1, MaxIsIn
    <3>2. s # {} => iter[s \ {Max(s)}] \in S /\ seq[Max(s)] \in Seq(E)
      BY <1>1, <3>1
    <3>3. iter[s] = IF s = {} THEN <<>> ELSE F[<<iter[s \ {Max(s)}], seq[Max(s)]>>]
      BY <1>7 DEF IsFold
    <3> QED
      BY <1>6, <3>2, <3>3
  <2> QED
    BY <2>1
<1>9. it = Step(it)
  <2> HIDE DEF Step
  <2> QED
    BY <1>8
<1>10. \A s \in SUBSET (1..n) : it[s] = IF s = {} THEN <<>> ELSE Kept(it[s \ {Max(s)}], seq[Max(s)])
  <2>1. \A s \in SUBSET (1..n) : it[s] = Step(it)[s]
    <3> HIDE DEF Step, it
    <3> QED
      BY <1>9
  <2> HIDE DEF it
  <2> QED
    BY <2>1
<1> HIDE DEF it
<1>11. Follows(it, S, F, <<>>, seq)
  <2>1. ASSUME NEW s \in SUBSET (1..n), s # {}, it[s \ {Max(s)}] \in S
        PROVE  it[s] = F[<<it[s \ {Max(s)}], seq[Max(s)]>>]
    <3>1. Max(s) \in 1..n
      BY <1>1, <2>1, MaxIsIn
    <3> QED
      BY <1>1, <1>6, <1>10, <2>1, <3>1
  <2>2. it[{}] = <<>>
    BY <1>10
  <2> QED
    BY <2>1, <2>2 DEF Follows
<1>12. HasRun(S, F, <<>>, seq, it[1..n])
  BY <1>4, <1>5, <1>11, FoldRuns
<1> QED
  BY <1>2, <1>12 DEF S, F

\* Nothing is kept of nothing, and what is empty is not kept (SplitLines).
LEMMA NonEmptyOf ==
  ASSUME NEW E
  PROVE  /\ NonEmpty(<<>>) = <<>>
         /\ \A seq \in Seq(Seq(E)) : NonEmpty(seq) \in Seq(Seq(E))
         /\ \A seq \in Seq(Seq(E)) : \A x \in Seq(E) :
              NonEmpty(Append(seq, x)) = Kept(NonEmpty(seq), x)
<1>1. <<>> \in Seq(Seq(E)) /\ <<>> \in Seq(E)
  OBVIOUS
<1>2. NonEmpty(<<>>) = <<>>
  BY <1>1, NonEmptyRun, RunOfNone
<1>3. ASSUME NEW seq \in Seq(Seq(E)), NEW x \in Seq(E)
      PROVE  /\ NonEmpty(seq) \in Seq(Seq(E))
             /\ NonEmpty(Append(seq, x)) = Kept(NonEmpty(seq), x)
  <2>1. Append(seq, x) \in Seq(Seq(E))
    BY Appended
  <2>2. /\ HasRun(Seq(Seq(E)), Keeping(E), <<>>, seq, NonEmpty(seq))
        /\ HasRun(Seq(Seq(E)), Keeping(E), <<>>, Append(seq, x), NonEmpty(Append(seq, x)))
    BY <2>1, NonEmptyRun
  <2>3. /\ NonEmpty(seq) \in Seq(Seq(E))
        /\ NonEmpty(Append(seq, x)) = Keeping(E)[<<NonEmpty(seq), x>>]
    BY <2>2, RunOfMore
  <2> QED
    BY <2>3 DEF Keeping
<1> QED
  BY <1>1, <1>2, <1>3

\* What a loop makes of each of its elements.
Each(h, s) == [k \in DOMAIN s |-> h[s[k]]]

\* Each of a list of sequences is such a list.
LEMMA EachType ==
  ASSUME NEW X, NEW Y, NEW h \in [X -> Y]
  PROVE  \A s \in Seq(X) : Each(h, s) \in Seq(Y)
<1> SUFFICES ASSUME NEW s \in Seq(X) PROVE Each(h, s) \in Seq(Y)
  OBVIOUS
<1>1. \A k \in 1..Len(s) : s[k] \in X /\ h[s[k]] \in Y
  BY ElementOfSeq
<1>2. DOMAIN s = 1..Len(s) /\ Len(s) \in Nat
  OBVIOUS
<1>3. Each(h, s) = [k \in 1..Len(s) |-> h[s[k]]]
  BY <1>2 DEF Each
<1>4. [k \in 1..Len(s) |-> h[s[k]]] \in [1..Len(s) -> Y]
  BY <1>1
<1> QED
  BY <1>2, <1>3, <1>4, SeqDef

\* Each of a longer list.
LEMMA EachOfMore ==
  ASSUME NEW X, NEW Y, NEW h \in [X -> Y], NEW s \in Seq(X), NEW x \in X
  PROVE  Each(h, s) \in Seq(Y) /\ Each(h, Append(s, x)) = Append(Each(h, s), h[x])
<1>1. Each(h, s) \in Seq(Y)
  BY EachType
<1>2. /\ Append(s, x) \in Seq(X) /\ Len(s) \in Nat /\ Len(Append(s, x)) = Len(s) + 1
      /\ \A k \in 1..Len(s) : Append(s, x)[k] = s[k]
      /\ Append(s, x)[Len(s) + 1] = x
  BY Appended
<1>3. Len(Each(h, s)) = Len(s) /\ \A k \in 1..Len(s) : Each(h, s)[k] = h[s[k]]
  BY <1>1, <1>2 DEF Each
<1>4. h[x] \in Y
  OBVIOUS
<1>5. /\ Append(Each(h, s), h[x]) \in Seq(Y)
      /\ Len(Append(Each(h, s), h[x])) = Len(s) + 1
      /\ \A k \in 1..Len(s) : Append(Each(h, s), h[x])[k] = h[s[k]]
      /\ Append(Each(h, s), h[x])[Len(s) + 1] = h[x]
  <2> DEFINE e == Each(h, s)
  <2> HIDE DEF e
  <2>1. e \in Seq(Y) /\ Len(e) = Len(s) /\ \A k \in 1..Len(s) : e[k] = h[s[k]]
    BY <1>1, <1>3 DEF e
  <2>2. /\ Append(e, h[x]) \in Seq(Y)
        /\ Len(Append(e, h[x])) = Len(e) + 1
        /\ \A k \in 1..Len(e) : Append(e, h[x])[k] = e[k]
        /\ Append(e, h[x])[Len(e) + 1] = h[x]
    BY <1>4, <2>1, Appended
  <2> QED
    BY <2>1, <2>2 DEF e
<1>6. /\ DOMAIN Append(s, x) = 1..(Len(s) + 1)
      /\ \A k \in 1..(Len(s) + 1) : h[Append(s, x)[k]] = Append(Each(h, s), h[x])[k]
  <2>1. \A k \in 1..(Len(s) + 1) : k \in 1..Len(s) \/ k = Len(s) + 1
    BY <1>2
  <2> QED
    BY <1>2, <1>5, <2>1
<1>7. DOMAIN Append(Each(h, s), h[x]) = 1..(Len(s) + 1)
  BY <1>5
<1>8. Append(Each(h, s), h[x]) = [k \in 1..(Len(s) + 1) |-> Append(Each(h, s), h[x])[k]]
  BY <1>5, <1>7
<1>9. Each(h, Append(s, x)) = [k \in 1..(Len(s) + 1) |-> h[Append(s, x)[k]]]
  BY <1>6 DEF Each
<1> QED
  BY <1>1, <1>6, <1>8, <1>9

\* To drop what is empty before a loop, or only after it, is the same.
LEMMA NonEmptyTwice ==
  ASSUME NEW E, NEW h \in [Seq(E) -> Seq(E)], h[<<>>] = <<>>
  PROVE  \A s \in Seq(Seq(E)) : NonEmpty(Each(h, NonEmpty(s))) = NonEmpty(Each(h, s))
<1> DEFINE T == {s \in Seq(Seq(E)) : NonEmpty(Each(h, NonEmpty(s))) = NonEmpty(Each(h, s))}
<1>0. \A a \in Seq(Seq(E)) : \A x \in Seq(E) :
        Each(h, a) \in Seq(Seq(E)) /\ Each(h, Append(a, x)) = Append(Each(h, a), h[x])
  BY EachOfMore
<1>1. <<>> \in T
  <2>1. <<>> \in Seq(Seq(E)) /\ NonEmpty(<<>>) = <<>>
    BY NonEmptyOf
  <2> QED
    BY <2>1
<1>2. ASSUME NEW s \in Seq(Seq(E)), NEW x \in Seq(E), s \in T
      PROVE  Append(s, x) \in T
  <2>1. Append(s, x) \in Seq(Seq(E)) /\ NonEmpty(Append(s, x)) = Kept(NonEmpty(s), x)
    BY Appended, NonEmptyOf
  <2>2. Each(h, s) \in Seq(Seq(E)) /\ Each(h, Append(s, x)) = Append(Each(h, s), h[x])
    BY <1>0
  <2>3. h[x] \in Seq(E)
    OBVIOUS
  <2>4. NonEmpty(Each(h, Append(s, x))) = Kept(NonEmpty(Each(h, s)), h[x])
    BY <2>2, <2>3, NonEmptyOf
  <2>5. CASE x = <<>>
    BY <1>2, <2>1, <2>4, <2>5 DEF Kept
  <2>6. CASE x # <<>>
    <3>1. NonEmpty(s) \in Seq(Seq(E))
      BY NonEmptyOf
    <3>2. /\ Each(h, NonEmpty(s)) \in Seq(Seq(E))
          /\ Each(h, Append(NonEmpty(s), x)) = Append(Each(h, NonEmpty(s)), h[x])
      BY <1>0, <3>1
    <3>3. NonEmpty(Each(h, Append(NonEmpty(s), x))) = Kept(NonEmpty(Each(h, NonEmpty(s))), h[x])
      BY <2>3, <3>2, NonEmptyOf
    <3>4. NonEmpty(Append(s, x)) = Append(NonEmpty(s), x)
      BY <2>1, <2>6 DEF Kept
    <3> QED
      BY <1>2, <2>1, <2>4, <3>3, <3>4
  <2> QED
    BY <2>5, <2>6
<1> HIDE DEF T
<1>3. \A s \in Seq(Seq(E)) : s \in T
  BY <1>1, <1>2, SeqInduction
<1> QED
  BY <1>3 DEF T

\* The elements that are kept, and where they are then.
Filled(s, k) == {i \in 1..k : s[i] # <<>>}

\* There are finitely many of them.
LEMMA FilledFacts ==
  ASSUME NEW s, NEW k \in Nat
  PROVE  /\ IsFiniteSet(Filled(s, k)) /\ Cardinality(Filled(s, k)) \in 0..k
         /\ \A j \in 0..k : Cardinality(Filled(s, j)) <= Cardinality(Filled(s, k))
<1>1. \A j \in 0..k : IsFiniteSet(1..j) /\ Cardinality(1..j) = j
  BY FS_Interval
<1>2. \A j \in 0..k : /\ IsFiniteSet(Filled(s, j)) /\ Cardinality(Filled(s, j)) \in Nat
                      /\ Cardinality(Filled(s, j)) <= j
  <2> SUFFICES ASSUME NEW j \in 0..k
               PROVE  /\ IsFiniteSet(Filled(s, j)) /\ Cardinality(Filled(s, j)) \in Nat
                      /\ Cardinality(Filled(s, j)) <= j
    OBVIOUS
  <2>1. Filled(s, j) \in SUBSET (1..j)
    BY DEF Filled
  <2> QED
    BY <1>1, <2>1, FS_Subset, FS_CardinalityType
<1>3. ASSUME NEW j \in 0..k PROVE Cardinality(Filled(s, j)) <= Cardinality(Filled(s, k))
  <2>1. Filled(s, j) \in SUBSET Filled(s, k)
    BY DEF Filled
  <2>2. IsFiniteSet(Filled(s, k))
    BY <1>2
  <2> QED
    BY <2>1, <2>2, FS_Subset
<1> QED
  BY <1>2, <1>3

\* Those of a longer list.
LEMMA FilledOfMore ==
  ASSUME NEW X, NEW s \in Seq(X), NEW x \in X
  PROVE  /\ \A k \in 0..Len(s) : Filled(Append(s, x), k) = Filled(s, k)
         /\ Cardinality(Filled(Append(s, x), Len(s) + 1)) =
              IF x = <<>> THEN Cardinality(Filled(s, Len(s))) ELSE Cardinality(Filled(s, Len(s))) + 1
         /\ (Len(s) + 1 \in Filled(Append(s, x), Len(s) + 1)) <=> x # <<>>
<1> DEFINE n == Len(s)
<1>1. /\ n \in Nat /\ Append(s, x)[n + 1] = x
      /\ \A k \in 1..n : Append(s, x)[k] = s[k]
  BY Appended
<1> HIDE DEF n
<1>2. \A k \in 0..n : Filled(Append(s, x), k) = Filled(s, k)
  <2>1. PICK m : m = Append(s, x)
    OBVIOUS
  <2>2. \A k \in 0..n : \A i \in 1..k : i \in 1..n
    BY <1>1
  <2>3. \A i \in 1..n : m[i] = s[i]
    BY <1>1, <2>1
  <2>4. \A k \in 0..n : Filled(m, k) = Filled(s, k)
    BY <2>2, <2>3 DEF Filled
  <2> QED
    BY <2>1, <2>4
<1>3. Filled(Append(s, x), n + 1) = IF x = <<>> THEN Filled(s, n) ELSE Filled(s, n) \union {n + 1}
  <2>1. \A i : i \in 1..(n + 1) <=> i \in 1..n \/ i = n + 1
    BY <1>1
  <2> QED
    BY <1>1, <2>1 DEF Filled
<1>4. n + 1 \notin Filled(s, n) /\ IsFiniteSet(Filled(s, n))
  <2>1. IsFiniteSet(Filled(s, n))
    BY <1>1, FilledFacts
  <2>2. n + 1 \notin 1..n
    BY <1>1
  <2> QED
    BY <2>1, <2>2 DEF Filled
<1>5. Cardinality(Filled(s, n) \union {n + 1}) = Cardinality(Filled(s, n)) + 1
  BY <1>4, FS_AddElement
<1>6. (n + 1 \in Filled(Append(s, x), n + 1)) <=> x # <<>>
  BY <1>3, <1>4
<1> QED
  BY <1>2, <1>3, <1>5, <1>6 DEF n

\* What is not empty is kept, in its order.
ArePlaced(s, kept) ==
  /\ Len(kept) = Cardinality(Filled(s, Len(s)))
  /\ \A i \in Filled(s, Len(s)) : kept[Cardinality(Filled(s, i))] = s[i]
  /\ \A l \in 1..Len(kept) : \E i \in Filled(s, Len(s)) : kept[l] = s[i]

\* What NonEmpty keeps, and where.
LEMMA NonEmptyPlaces ==
  ASSUME NEW E
  PROVE  \A s \in Seq(Seq(E)) : ArePlaced(s, NonEmpty(s))
<1> DEFINE T == {s \in Seq(Seq(E)) : ArePlaced(s, NonEmpty(s))}
<1>1. <<>> \in T
  <2>1. <<>> \in Seq(Seq(E)) /\ NonEmpty(<<>>) = <<>>
    BY NonEmptyOf
  <2>2. Filled(<<>>, 0) = {}
    BY DEF Filled
  <2>3. Cardinality({}) = 0
    BY FS_EmptySet
  <2>4. Len(<<>>) = 0
    OBVIOUS
  <2>5. ArePlaced(<<>>, <<>>)
    BY <2>2, <2>3, <2>4 DEF ArePlaced
  <2> QED
    BY <2>1, <2>5
<1>2. ASSUME NEW s \in Seq(Seq(E)), NEW x \in Seq(E), s \in T
      PROVE  Append(s, x) \in T
  <2> DEFINE n == Len(s)
             kept == NonEmpty(s)
             m == Append(s, x)
  <2>1. /\ m \in Seq(Seq(E)) /\ n \in Nat /\ Len(m) = n + 1 /\ m[n + 1] = x
        /\ \A k \in 1..n : m[k] = s[k]
    BY Appended
  <2>2. NonEmpty(m) = Kept(kept, x) /\ kept \in Seq(Seq(E))
    BY NonEmptyOf
  <2>3. /\ Len(kept) = Cardinality(Filled(s, n))
        /\ \A i \in Filled(s, n) : kept[Cardinality(Filled(s, i))] = s[i]
        /\ \A l \in 1..Len(kept) : \E i \in Filled(s, n) : kept[l] = s[i]
    BY <1>2 DEF ArePlaced
  <2>4. /\ \A k \in 0..n : Filled(m, k) = Filled(s, k)
        /\ Cardinality(Filled(m, n + 1)) = IF x = <<>> THEN Cardinality(Filled(s, n)) ELSE Cardinality(Filled(s, n)) + 1
        /\ (n + 1 \in Filled(m, n + 1)) <=> x # <<>>
    BY FilledOfMore
  <2>5. \A i \in Filled(m, n + 1) : i = n + 1 \/ (i \in Filled(s, n) /\ i \in 1..n)
    BY <2>1 DEF Filled
  <2>6. \A i \in Filled(s, n) : i \in Filled(m, n + 1) /\ i \in 1..n /\ m[i] = s[i] /\ Filled(m, i) = Filled(s, i)
    BY <2>1, <2>4 DEF Filled
  <2>7. \A i \in Filled(s, n) : Cardinality(Filled(s, i)) \in 1..Cardinality(Filled(s, n))
    <3> SUFFICES ASSUME NEW i \in Filled(s, n)
                 PROVE  Cardinality(Filled(s, i)) \in 1..Cardinality(Filled(s, n))
      OBVIOUS
    <3>1. i \in 1..n /\ i \in Filled(s, i)
      BY <2>1 DEF Filled
    <3>2. IsFiniteSet(Filled(s, i)) /\ Cardinality(Filled(s, i)) \in Nat /\ Cardinality(Filled(s, n)) \in Nat
      BY <2>1, <3>1, FilledFacts
    <3>3. Cardinality(Filled(s, i)) <= Cardinality(Filled(s, n))
      BY <2>1, <3>1, FilledFacts
    <3>4. Cardinality(Filled(s, i)) # 0
      BY <3>1, <3>2, FS_EmptySet
    <3> QED
      BY <3>2, <3>3, <3>4
  <2> HIDE DEF n, m, kept
  <2>8. CASE x = <<>>
    <3>1. NonEmpty(m) = kept
      BY <2>2, <2>8 DEF Kept
    <3>2. Filled(m, n + 1) = Filled(s, n)
      BY <2>4, <2>5, <2>6, <2>8
    <3>3. ArePlaced(m, kept)
      BY <2>1, <2>3, <2>6, <3>2 DEF ArePlaced
    <3> QED
      BY <2>1, <3>1, <3>3 DEF m
  <2>9. CASE x # <<>>
    <3>1. NonEmpty(m) = Append(kept, x)
      BY <2>2, <2>9 DEF Kept
    <3>2. /\ Len(kept) \in Nat /\ Len(Append(kept, x)) = Len(kept) + 1
          /\ \A k \in 1..Len(kept) : Append(kept, x)[k] = kept[k]
          /\ Append(kept, x)[Len(kept) + 1] = x
      BY <2>2, Appended
    <3>3. PICK more : more = Append(kept, x)
      OBVIOUS
    <3>4. Len(more) = Cardinality(Filled(m, Len(m)))
      BY <2>1, <2>3, <2>4, <2>9, <3>2, <3>3
    <3>5. ASSUME NEW i \in Filled(m, n + 1) PROVE more[Cardinality(Filled(m, i))] = m[i]
      <4>1. CASE i = n + 1
        <5>1. Cardinality(Filled(m, i)) = Len(kept) + 1
          BY <2>3, <2>4, <2>9, <4>1
        <5> QED
          BY <2>1, <3>2, <3>3, <4>1, <5>1
      <4>2. CASE i \in Filled(s, n)
        <5>1. Filled(m, i) = Filled(s, i) /\ m[i] = s[i]
          BY <2>6, <4>2
        <5>2. Cardinality(Filled(s, i)) \in 1..Len(kept)
          BY <2>3, <2>7, <4>2
        <5> QED
          BY <2>3, <3>2, <3>3, <4>2, <5>1, <5>2
      <4> QED
        BY <2>5, <4>1, <4>2
    <3>6. ASSUME NEW l \in 1..Len(more) PROVE \E i \in Filled(m, n + 1) : more[l] = m[i]
      <4>1. CASE l = Len(kept) + 1
        <5>1. n + 1 \in Filled(m, n + 1)
          BY <2>4, <2>9
        <5> QED
          BY <2>1, <3>2, <3>3, <4>1, <5>1
      <4>2. CASE l \in 1..Len(kept)
        <5>1. PICK i \in Filled(s, n) : kept[l] = s[i]
          BY <2>3, <4>2
        <5>2. i \in Filled(m, n + 1) /\ m[i] = s[i]
          BY <2>6
        <5> QED
          BY <3>2, <3>3, <4>2, <5>1, <5>2
      <4> QED
        BY <3>2, <3>3, <4>1, <4>2
    <3>7. ArePlaced(m, more)
      BY <2>1, <3>4, <3>5, <3>6 DEF ArePlaced
    <3> QED
      BY <2>1, <3>1, <3>3, <3>7 DEF m
  <2> QED
    BY <2>8, <2>9
<1> HIDE DEF T
<1>3. \A s \in Seq(Seq(E)) : s \in T
  BY <1>1, <1>2, SeqInduction
<1> QED
  BY <1>3 DEF T

\* Where the parts of a text begin in it: st[k] is the first position of part k,
\* which may be empty, and two before st[k + 1] is the last.
AreCuts(t, parts, st) ==
  /\ parts \in PartLists /\ st \in Seq(Nat \ {0}) /\ Len(st) = Len(parts) + 1
  /\ st[1] = 1 /\ st[Len(parts) + 1] = Len(t) + 2
  /\ \A k \in 1..Len(parts) : \A m \in 1..(Len(parts) + 1) : k < m => st[k] < st[m]
  /\ \A k \in 1..Len(parts) :
       /\ Len(parts[k]) = st[k + 1] - 1 - st[k]
       /\ \A j \in 1..Len(parts[k]) : parts[k][j] = t[st[k] + j - 1]
                                      /\ parts[k][j] \notin ConfigSeparators
       /\ k > 1 => t[st[k] - 1] \in ConfigSeparators
  /\ \A i \in 1..Len(t) : t[i] \notin ConfigSeparators =>
       \E k \in 1..Len(parts) : st[k] <= i /\ i <= st[k + 1] - 2

HasCuts(t, parts) == \E st \in Seq(Nat \ {0}) : AreCuts(t, parts, st)

\* A separator begins a new part.
LEMMA CutHere ==
  ASSUME NEW t \in Seq(Piece), NEW p \in Piece, p \in ConfigSeparators,
         NEW parts, HasCuts(t, parts)
  PROVE  HasCuts(Append(t, p), Append(parts, <<>>))
<1> DEFINE n == Len(parts)
           more == Append(parts, <<>>)
           u == Append(t, p)
<1>1. PICK st \in Seq(Nat \ {0}) : AreCuts(t, parts, st)
  BY DEF HasCuts
<1>2. /\ parts \in Seq(Seq(Piece)) /\ parts # <<>> /\ n \in Nat \ {0} /\ Len(st) = n + 1
      /\ st[1] = 1 /\ st[n + 1] = Len(t) + 2
  <2>1. parts \in Seq(Seq(Piece)) /\ parts # <<>>
    BY <1>1 DEF AreCuts, PartLists
  <2> QED
    BY <1>1, <2>1, EmptySeq DEF AreCuts
<1>3. /\ \A k \in 1..n : \A m \in 1..(n + 1) : k < m => st[k] < st[m]
      /\ \A k \in 1..n :
           /\ Len(parts[k]) = st[k + 1] - 1 - st[k]
           /\ \A j \in 1..Len(parts[k]) : parts[k][j] = t[st[k] + j - 1]
                                          /\ parts[k][j] \notin ConfigSeparators
           /\ k > 1 => t[st[k] - 1] \in ConfigSeparators
      /\ \A i \in 1..Len(t) : t[i] \notin ConfigSeparators =>
           \E k \in 1..n : st[k] <= i /\ i <= st[k + 1] - 2
  BY <1>1 DEF AreCuts
<1>4. /\ Len(t) \in Nat /\ Len(u) = Len(t) + 1 /\ u[Len(t) + 1] = p
      /\ \A i \in 1..Len(t) : u[i] = t[i]
  BY Appended
<1>5. /\ more \in PartLists /\ Len(more) = n + 1 /\ more[n + 1] = <<>>
      /\ \A k \in 1..n : more[k] = parts[k]
  <2>1. <<>> \in Seq(Piece)
    OBVIOUS
  <2> QED
    BY <1>2, <2>1, Appended DEF PartLists
<1>6. PICK ends \in Seq(Nat \ {0}) : /\ Len(ends) = n + 2 /\ ends[n + 2] = Len(t) + 3
                                     /\ \A k \in 1..(n + 1) : ends[k] = st[k]
  <2>1. Len(t) + 3 \in Nat \ {0}
    BY <1>4
  <2>2. Append(st, Len(t) + 3) \in Seq(Nat \ {0})
    BY <2>1, Appended
  <2>3. PICK ends \in Seq(Nat \ {0}) : ends = Append(st, Len(t) + 3)
    BY <2>2
  <2>4. /\ Len(ends) = Len(st) + 1 /\ ends[Len(st) + 1] = Len(t) + 3
        /\ \A k \in 1..Len(st) : ends[k] = st[k]
    BY <2>1, <2>3, Appended
  <2>5. Len(st) + 1 = n + 2
    BY <1>2
  <2> QED
    BY <1>2, <2>4, <2>5
<1>7. \A k \in 1..(n + 1) : st[k] \in Nat \ {0}
  BY <1>2, ElementOfSeq
<1>8. \A k \in 1..n : st[k] <= Len(t) + 1
  <2> SUFFICES ASSUME NEW k \in 1..n PROVE st[k] <= Len(t) + 1
    OBVIOUS
  <2>1. k \in Nat /\ n + 1 \in 1..(n + 1) /\ k < n + 1 /\ k \in 1..(n + 1)
    BY <1>2
  <2>2. st[k] < st[n + 1] /\ st[k] \in Nat
    BY <1>3, <1>7, <2>1
  <2> QED
    BY <1>2, <1>4, <2>2
<1> HIDE DEF n, more, u
<1>9. ASSUME NEW k \in 1..(n + 1), NEW m \in 1..(n + 2), k < m PROVE ends[k] < ends[m]
  <2>1. CASE m = n + 2
    <3>1. k \in 1..n \/ k = n + 1
      BY <1>2
    <3>2. st[k] <= Len(t) + 2
      BY <1>2, <1>4, <1>7, <1>8, <3>1
    <3> QED
      BY <1>4, <1>6, <1>7, <2>1, <3>2
  <2>2. CASE m \in 1..(n + 1)
    <3>1. k \in 1..n
      BY <1>2, <1>9, <2>2
    <3> QED
      BY <1>3, <1>6, <1>9, <2>2, <3>1
  <2> QED
    BY <1>2, <2>1, <2>2
<1>10. ASSUME NEW k \in 1..(n + 1)
       PROVE  /\ Len(more[k]) = ends[k + 1] - 1 - ends[k]
              /\ \A j \in 1..Len(more[k]) : more[k][j] = u[ends[k] + j - 1]
                                            /\ more[k][j] \notin ConfigSeparators
              /\ k > 1 => u[ends[k] - 1] \in ConfigSeparators
  <2>1. CASE k = n + 1
    <3>1. Len(more[k]) = 0
      BY <1>5, <2>1
    <3>2. ends[k + 1] = Len(t) + 3 /\ ends[k] = Len(t) + 2
      BY <1>2, <1>6, <2>1
    <3>3. u[ends[k] - 1] = p
      BY <1>4, <3>2
    <3> QED
      BY <1>4, <3>1, <3>2, <3>3
  <2>2. CASE k \in 1..n
    <3>0. /\ Len(parts[k]) = st[k + 1] - 1 - st[k]
          /\ \A j \in 1..Len(parts[k]) : parts[k][j] = t[st[k] + j - 1]
                                          /\ parts[k][j] \notin ConfigSeparators
          /\ k > 1 => t[st[k] - 1] \in ConfigSeparators
      BY <1>3, <2>2
    <3>1. ends[k] = st[k] /\ ends[k + 1] = st[k + 1] /\ more[k] = parts[k]
      <4>1. k \in 1..(n + 1) /\ k + 1 \in 1..(n + 1)
        BY <1>2, <2>2
      <4>2. \A l \in 1..(n + 1) : ends[l] = st[l]
        BY <1>6
      <4> QED
        BY <1>5, <2>2, <4>1, <4>2
    <3>2. st[k] \in Nat \ {0} /\ st[k] <= Len(t) + 1 /\ st[k + 1] \in Nat /\ st[k + 1] <= Len(t) + 2
      <4>1. k + 1 \in 1..(n + 1) /\ (k + 1 \in 1..n \/ k + 1 = n + 1)
        BY <1>2, <2>2
      <4> QED
        BY <1>2, <1>4, <1>7, <1>8, <2>2, <4>1
    <3>3. ASSUME NEW j \in 1..Len(more[k])
          PROVE  more[k][j] = u[ends[k] + j - 1] /\ more[k][j] \notin ConfigSeparators
      <4>1. j \in 1..(st[k + 1] - 1 - st[k]) /\ j \in 1..Len(parts[k])
        BY <3>0, <3>1
      <4>2. st[k] + j - 1 \in 1..Len(t)
        <5>1. PICK a \in Nat \ {0}, b \in Nat, c \in Nat : a = st[k] /\ b = st[k + 1] /\ c = Len(t)
          BY <1>4, <3>2
        <5>2. j \in Nat /\ 1 <= j /\ j <= b - 1 - a /\ b <= c + 2
          BY <3>2, <4>1, <5>1
        <5>3. a + j - 1 \in 1..c
          BY <5>2
        <5> QED
          BY <5>1, <5>3
      <4> QED
        BY <1>4, <3>0, <3>1, <4>1, <4>2
    <3>4. k > 1 => u[ends[k] - 1] \in ConfigSeparators
      <4>1. ASSUME k > 1 PROVE st[k] - 1 \in 1..Len(t)
        <5>1. st[1] < st[k]
          BY <1>2, <1>3, <2>2, <4>1
        <5> QED
          BY <1>2, <1>4, <3>2, <5>1
      <4> QED
        BY <1>4, <3>0, <3>1, <4>1
    <3> QED
      BY <3>0, <3>1, <3>3, <3>4
  <2> QED
    BY <1>2, <2>1, <2>2
<1>11. ASSUME NEW i \in 1..(Len(t) + 1), u[i] \notin ConfigSeparators
       PROVE  \E k \in 1..(n + 1) : ends[k] <= i /\ i <= ends[k + 1] - 2
  <2>1. i \in 1..Len(t)
    BY <1>4, <1>11
  <2>2. PICK k \in 1..n : st[k] <= i /\ i <= st[k + 1] - 2
    BY <1>3, <1>4, <1>11, <2>1
  <2>3. k \in 1..(n + 1) /\ ends[k] = st[k] /\ ends[k + 1] = st[k + 1]
    BY <1>2, <1>6
  <2> QED
    BY <2>2, <2>3
<1>12. ends[1] = 1 /\ ends[Len(more) + 1] = Len(u) + 2
  BY <1>2, <1>4, <1>5, <1>6
<1>13. AreCuts(u, more, ends)
  BY <1>2, <1>4, <1>5, <1>6, <1>9, <1>10, <1>11, <1>12 DEF AreCuts
<1>14. HasCuts(u, more)
  BY <1>13 DEF HasCuts
<1> QED
  BY <1>14 DEF u, more

\* Any other piece goes to the last part.
LEMMA CutLater ==
  ASSUME NEW t \in Seq(Piece), NEW p \in Piece, p \notin ConfigSeparators,
         NEW parts, HasCuts(t, parts)
  PROVE  HasCuts(Append(t, p), Append(Front(parts), Append(Last(parts), p)))
<1> DEFINE n == Len(parts)
           more == Append(Front(parts), Append(Last(parts), p))
           u == Append(t, p)
<1>1. PICK st \in Seq(Nat \ {0}) : AreCuts(t, parts, st)
  BY DEF HasCuts
<1>2. /\ parts \in Seq(Seq(Piece)) /\ parts # <<>> /\ n \in Nat \ {0} /\ Len(st) = n + 1
      /\ st[1] = 1 /\ st[n + 1] = Len(t) + 2
  <2>1. parts \in Seq(Seq(Piece)) /\ parts # <<>>
    BY <1>1 DEF AreCuts, PartLists
  <2> QED
    BY <1>1, <2>1, EmptySeq DEF AreCuts
<1>3. /\ \A k \in 1..n : \A m \in 1..(n + 1) : k < m => st[k] < st[m]
      /\ \A k \in 1..n :
           /\ Len(parts[k]) = st[k + 1] - 1 - st[k]
           /\ \A j \in 1..Len(parts[k]) : parts[k][j] = t[st[k] + j - 1]
                                          /\ parts[k][j] \notin ConfigSeparators
           /\ k > 1 => t[st[k] - 1] \in ConfigSeparators
      /\ \A i \in 1..Len(t) : t[i] \notin ConfigSeparators =>
           \E k \in 1..n : st[k] <= i /\ i <= st[k + 1] - 2
  BY <1>1 DEF AreCuts
<1>4. /\ Len(t) \in Nat /\ Len(u) = Len(t) + 1 /\ u[Len(t) + 1] = p
      /\ \A i \in 1..Len(t) : u[i] = t[i]
  BY Appended
<1>5. /\ more \in PartLists /\ Len(more) = n /\ more[n] = Append(parts[n], p)
      /\ parts[n] \in Seq(Piece)
      /\ \A k \in 1..(n - 1) : more[k] = parts[k]
  <2>1. \A k \in 1..n : parts[k] \in Seq(Piece)
    BY <1>2, ElementOfSeq
  <2>2. Last(parts) = parts[n] /\ Append(parts[n], p) \in Seq(Piece)
    BY <1>2, <2>1, Appended DEF Last
  <2>3. /\ Front(parts) \in Seq(Seq(Piece)) /\ Len(Front(parts)) = n - 1
        /\ \A k \in 1..(n - 1) : Front(parts)[k] = parts[k]
    <3>1. n - 1 \in Int /\ 1 \in Int /\ \A k \in 1..(n - 1) : parts[k] \in Seq(Piece)
      BY <1>2, <2>1
    <3>2. PICK m \in Int : m = n - 1
      BY <3>1
    <3>3. /\ SubSeq(parts, 1, m) \in Seq(Seq(Piece))
          /\ Len(SubSeq(parts, 1, m)) = IF 1 <= m THEN m - 1 + 1 ELSE 0
          /\ \A k \in 1..(m - 1 + 1) : SubSeq(parts, 1, m)[k] = parts[1 + k - 1]
      BY <3>1, <3>2, SubSeqProperties
    <3>4. Front(parts) = SubSeq(parts, 1, m)
      BY <3>2 DEF Front
    <3>5. m \in Nat /\ m - 1 + 1 = m
      BY <1>2, <3>2
    <3>6. \A k \in 1..m : 1 + k - 1 = k
      OBVIOUS
    <3> HIDE DEF n
    <3> QED
      BY <3>2, <3>3, <3>4, <3>5, <3>6
  <2>4. PICK f \in Seq(Seq(Piece)), l \in Seq(Piece) : f = Front(parts) /\ l = Append(parts[n], p)
    BY <2>2, <2>3
  <2>5. /\ Append(f, l) \in Seq(Seq(Piece)) /\ Append(f, l) # <<>>
        /\ Len(Append(f, l)) = Len(f) + 1
        /\ \A k \in 1..Len(f) : Append(f, l)[k] = f[k]
        /\ Append(f, l)[Len(f) + 1] = l
    BY Appended
  <2>6. more = Append(f, l) /\ Len(f) + 1 = n /\ Len(f) = n - 1
    BY <1>2, <2>2, <2>3, <2>4
  <2>7. more \in PartLists /\ Len(more) = n
    BY <2>5, <2>6 DEF PartLists
  <2>8. more[n] = Append(parts[n], p) /\ \A k \in 1..(n - 1) : more[k] = parts[k]
    <3> HIDE DEF more, n
    <3> QED
      BY <2>3, <2>4, <2>5, <2>6
  <2>9. parts[n] \in Seq(Piece)
    BY <1>2, <2>1
  <2> QED
    BY <2>7, <2>8, <2>9
<1>6. PICK ends \in Seq(Nat \ {0}) : /\ Len(ends) = n + 1 /\ ends[n + 1] = Len(t) + 3
                                     /\ \A k \in 1..n : ends[k] = st[k]
  <2>1. Len(t) + 3 \in Nat \ {0} /\ n + 1 \in 1..Len(st)
    BY <1>2, <1>4
  <2>2. PICK ends : ends = [st EXCEPT ![n + 1] = Len(t) + 3]
    OBVIOUS
  <2>3. ends \in Seq(Nat \ {0})
    BY <2>1, <2>2, ExceptSeq
  <2>4. Len(ends) = n + 1 /\ ends[n + 1] = Len(t) + 3 /\ \A k \in 1..n : ends[k] = st[k]
    <3>1. \A k \in 1..n : k \in 1..Len(st) /\ k # n + 1
      BY <1>2
    <3> QED
      BY <1>2, <2>1, <2>2, <3>1, ExceptSeq
  <2> QED
    BY <2>3, <2>4
<1>7. \A k \in 1..(n + 1) : st[k] \in Nat \ {0}
  BY <1>2, ElementOfSeq
<1>8. \A k \in 1..n : st[k] <= Len(t) + 1
  <2> SUFFICES ASSUME NEW k \in 1..n PROVE st[k] <= Len(t) + 1
    OBVIOUS
  <2>1. k \in Nat /\ n + 1 \in 1..(n + 1) /\ k < n + 1 /\ k \in 1..(n + 1)
    BY <1>2
  <2>2. st[k] < st[n + 1] /\ st[k] \in Nat
    BY <1>3, <1>7, <2>1
  <2> QED
    BY <1>2, <1>4, <2>2
<1> HIDE DEF n, more, u
<1>9. ASSUME NEW k \in 1..n, NEW m \in 1..(n + 1), k < m PROVE ends[k] < ends[m]
  <2>1. CASE m = n + 1
    <3>1. st[k] <= Len(t) + 1 /\ st[k] \in Nat
      BY <1>2, <1>7, <1>8
    <3> QED
      BY <1>4, <1>6, <2>1, <3>1
  <2>2. CASE m \in 1..n
    <3>1. st[k] < st[m]
      BY <1>2, <1>3, <1>9
    <3> QED
      BY <1>6, <2>2, <3>1
  <2> QED
    BY <1>2, <2>1, <2>2
<1>10. ASSUME NEW k \in 1..n
       PROVE  /\ Len(more[k]) = ends[k + 1] - 1 - ends[k]
              /\ \A j \in 1..Len(more[k]) : more[k][j] = u[ends[k] + j - 1]
                                            /\ more[k][j] \notin ConfigSeparators
              /\ k > 1 => u[ends[k] - 1] \in ConfigSeparators
  <2>1. /\ Len(parts[k]) = st[k + 1] - 1 - st[k]
        /\ \A j \in 1..Len(parts[k]) : parts[k][j] = t[st[k] + j - 1]
                                       /\ parts[k][j] \notin ConfigSeparators
        /\ k > 1 => t[st[k] - 1] \in ConfigSeparators
    BY <1>3
  <2>2. st[k] \in Nat \ {0} /\ st[k] <= Len(t) + 1 /\ st[k + 1] \in Nat /\ st[k + 1] <= Len(t) + 2
    <3>1. k + 1 \in 1..(n + 1) /\ (k + 1 \in 1..n \/ k + 1 = n + 1)
      BY <1>2
    <3> QED
      BY <1>2, <1>4, <1>7, <1>8, <3>1
  <2>3. PICK a \in Nat \ {0}, b \in Nat, c \in Nat : a = st[k] /\ b = st[k + 1] /\ c = Len(t)
    BY <1>4, <2>2
  <2>4. ends[k] = a
    BY <1>6, <2>3
  <2>5. \A j \in 1..Len(parts[k]) : a + j - 1 \in 1..c
    <3>1. Len(parts[k]) = b - 1 - a /\ b <= c + 2
      BY <2>1, <2>2, <2>3
    <3> QED
      BY <3>1
  <2>6. k > 1 => u[a - 1] \in ConfigSeparators
    <3>1. ASSUME k > 1 PROVE a - 1 \in 1..c
      <4>1. st[1] < st[k]
        BY <1>2, <1>3, <3>1
      <4>2. a <= c + 1
        BY <2>2, <2>3
      <4> QED
        <5>1. 1 < a
          BY <1>2, <2>3, <4>1
        <5> QED
          BY <4>2, <5>1
    <3> QED
      BY <1>4, <2>1, <2>3, <3>1
  <2>7. \A j \in 1..Len(parts[k]) : parts[k][j] = u[a + j - 1] /\ parts[k][j] \notin ConfigSeparators
    BY <1>4, <2>1, <2>3, <2>5
  <2>8. CASE k = n
    <3>1. b = c + 2 /\ ends[k + 1] = c + 3
      BY <1>2, <1>6, <2>3, <2>8
    <3>2. PICK x \in Seq(Piece) : x = parts[k]
      BY <1>5, <2>8
    <3>3. PICK y : y = Append(x, p)
      OBVIOUS
    <3>4. /\ Len(y) = Len(x) + 1 /\ \A j \in 1..Len(x) : y[j] = x[j]
          /\ y[Len(x) + 1] = p /\ Len(x) \in Nat
      BY <3>3, Appended
    <3>5. Len(x) = c + 1 - a
      <4>1. Len(x) = b - 1 - a
        BY <2>1, <2>3, <3>2
      <4> QED
        BY <3>1, <4>1
    <3>6. more[k] = y
      BY <1>5, <2>8, <3>2, <3>3
    <3>7. Len(y) = ends[k + 1] - 1 - ends[k]
      BY <2>4, <3>1, <3>4, <3>5
    <3>8. ASSUME NEW j \in 1..Len(y) PROVE y[j] = u[a + j - 1] /\ y[j] \notin ConfigSeparators
      <4>1. CASE j = Len(x) + 1
        <5>1. a + j - 1 = c + 1
          BY <3>5, <4>1
        <5> QED
          BY <1>4, <2>3, <3>4, <4>1, <5>1
      <4>2. CASE j \in 1..Len(x)
        BY <2>7, <3>2, <3>4, <4>2
      <4> QED
        BY <3>4, <4>1, <4>2
    <3> QED
      BY <2>4, <2>6, <3>6, <3>7, <3>8
  <2>9. CASE k \in 1..(n - 1)
    <3>1. more[k] = parts[k] /\ ends[k + 1] = st[k + 1]
      BY <1>2, <1>5, <1>6, <2>9
    <3> QED
      BY <2>1, <2>3, <2>4, <2>6, <2>7, <3>1
  <2> QED
    BY <1>2, <2>8, <2>9
<1>11. ASSUME NEW i \in 1..(Len(t) + 1), u[i] \notin ConfigSeparators
       PROVE  \E k \in 1..n : ends[k] <= i /\ i <= ends[k + 1] - 2
  <2>1. CASE i = Len(t) + 1
    <3>1. n \in 1..n /\ ends[n] <= Len(t) + 1 /\ ends[n + 1] = Len(t) + 3
      BY <1>2, <1>6, <1>8
    <3>2. PICK c \in Nat : c = Len(t)
      BY <1>4
    <3>3. ends[n] <= i /\ i <= ends[n + 1] - 2
      BY <2>1, <3>1, <3>2
    <3> QED
      BY <3>1, <3>3
  <2>2. CASE i \in 1..Len(t)
    <3>1. PICK k \in 1..n : st[k] <= i /\ i <= st[k + 1] - 2
      BY <1>3, <1>4, <1>11, <2>2
    <3>2. ends[k] = st[k] /\ (ends[k + 1] = st[k + 1] \/ (ends[k + 1] = Len(t) + 3 /\ st[k + 1] = Len(t) + 2))
      <4>1. k = n \/ k + 1 \in 1..n
        BY <1>2
      <4> QED
        BY <1>2, <1>6, <4>1
    <3>3. i <= ends[k + 1] - 2
      BY <1>4, <2>2, <3>1, <3>2
    <3> QED
      BY <3>1, <3>2, <3>3
  <2> QED
    BY <1>4, <2>1, <2>2
<1>12. ends[1] = 1 /\ ends[Len(more) + 1] = Len(u) + 2
  BY <1>2, <1>4, <1>5, <1>6
<1>13. AreCuts(u, more, ends)
  BY <1>2, <1>4, <1>5, <1>6, <1>9, <1>10, <1>11, <1>12 DEF AreCuts
<1>14. HasCuts(u, more)
  BY <1>13 DEF HasCuts
<1> QED
  BY <1>14 DEF u, more

\* The parts of every text.
LEMMA PartsHaveCuts == \A t \in Seq(Piece) : HasCuts(t, RawParts(t))
<1> DEFINE T == {t \in Seq(Piece) : HasCuts(t, RawParts(t))}
<1>1. <<>> \in T
  <2>1. <<>> \in Seq(Piece) /\ RawParts(<<>>) = << <<>> >>
    BY RawPartsOf
  <2>2. <<1, 2>> \in Seq(Nat \ {0}) /\ << <<>> >> \in PartLists
    BY DEF PartLists
  <2>3. /\ Len(<<1, 2>>) = 2 /\ <<1, 2>>[1] = 1 /\ <<1, 2>>[2] = 2
        /\ Len(<< <<>> >>) = 1 /\ << <<>> >>[1] = <<>> /\ Len(<<>>) = 0
    OBVIOUS
  <2>4. PICK st, parts : st = <<1, 2>> /\ parts = << <<>> >>
    OBVIOUS
  <2>5. \A k \in 1..1 : k = 1
    OBVIOUS
  <2>6. \A k \in 1..1 : \A m \in 1..2 : k < m => st[k] < st[m]
    BY <2>3, <2>4
  <2>7. AreCuts(<<>>, parts, st)
    BY <2>2, <2>3, <2>4, <2>5, <2>6 DEF AreCuts
  <2> QED
    BY <2>1, <2>2, <2>4, <2>7 DEF HasCuts
<1>2. ASSUME NEW t \in Seq(Piece), NEW p \in Piece, t \in T
      PROVE  Append(t, p) \in T
  <2>1. Append(t, p) \in Seq(Piece) /\ RawParts(Append(t, p)) = Cut(RawParts(t), p)
    BY Appended, RawPartsOf
  <2>2. PICK parts : parts = RawParts(t)
    OBVIOUS
  <2>3. HasCuts(t, parts)
    BY <1>2, <2>2
  <2>4. CASE p \in ConfigSeparators
    <3>1. HasCuts(Append(t, p), Append(parts, <<>>))
      BY <2>3, <2>4, CutHere
    <3> QED
      BY <2>1, <2>2, <2>4, <3>1 DEF Cut
  <2>5. CASE p \notin ConfigSeparators
    <3>1. HasCuts(Append(t, p), Append(Front(parts), Append(Last(parts), p)))
      BY <2>3, <2>5, CutLater
    <3> QED
      BY <2>1, <2>2, <2>5, <3>1 DEF Cut
  <2> QED
    BY <2>4, <2>5
<1> HIDE DEF T
<1>3. \A t \in Seq(Piece) : t \in T
  BY <1>1, <1>2, SeqInduction
<1> QED
  BY <1>3 DEF T

\* A set of numbers has a least one.
LEMMA Least ==
  ASSUME NEW s \in SUBSET Nat, s # {}
  PROVE  \E x \in s : \A y \in s : x <= y
<1> DEFINE less == OpToRel(<, Nat)
<1>1. IsWellFoundedOn(less, Nat)
  BY NatLessThanWellFounded
<1>2. \A x, y \in Nat : x < y => <<x, y>> \in less
  BY DEF OpToRel
<1> HIDE DEF less
<1>3. PICK x \in s : \A y \in s : ~(<<y, x>> \in less)
  BY <1>1, WFMin
<1>4. ASSUME NEW y \in s PROVE x <= y
  <2>1. x \in Nat /\ y \in Nat /\ ~(y < x)
    BY <1>2, <1>3
  <2> QED
    BY <2>1
<1> QED
  BY <1>4

\* What Min and Max are of a set of positions.
LEMMA Bounds ==
  ASSUME NEW n \in Nat, NEW s \in SUBSET (1..n), s # {}
  PROVE  Min(s) \in s /\ Max(s) \in s /\ \A m \in s : Min(s) <= m /\ m <= Max(s)
<1>1. Min(s) \in s /\ \A m \in s : Min(s) <= m
  <2>1. \E x \in s : \A y \in s : x <= y
    BY Least
  <2> QED
    BY <2>1 DEF Min
<1>2. Max(s) \in s /\ \A m \in s : m <= Max(s)
  <2>1. PICK x \in {k \in 0..n : n - k \in s} : \A y \in {k \in 0..n : n - k \in s} : x <= y
    <3>1. PICK m \in s : TRUE
      OBVIOUS
    <3>2. n - m \in 0..n /\ n - (n - m) = m
      OBVIOUS
    <3>3. {k \in 0..n : n - k \in s} # {}
      BY <3>1, <3>2
    <3>4. {k \in 0..n : n - k \in s} \in SUBSET Nat
      OBVIOUS
    <3> QED
      BY <3>3, <3>4, Least
  <2>2. n - x \in s
    BY <2>1
  <2>3. ASSUME NEW m \in s PROVE n - x >= m
    <3>1. n - m \in 0..n /\ n - (n - m) = m
      OBVIOUS
    <3>2. x <= n - m
      BY <2>1, <3>1
    <3> QED
      BY <2>1, <3>2
  <2>4. Max(s) \in s /\ \A m \in s : Max(s) >= m
    BY <2>2, <2>3 DEF Max
  <2> QED
    BY <2>4
<1> QED
  BY <1>1, <1>2

\* y is what the text t has from a to b.
IsPiece(y, t, a, b) ==
  /\ y \in Seq(Piece) /\ a \in 1..(Len(t) + 1) /\ b \in (a - 1)..Len(t)
  /\ Len(y) = b - a + 1
  /\ \A j \in 1..Len(y) : y[j] = t[a + j - 1]

\* Where the pieces of y are in t.
LEMMA PieceFacts ==
  ASSUME NEW t \in Seq(Piece), NEW y, NEW a, NEW b, IsPiece(y, t, a, b)
  PROVE  /\ a \in Nat \ {0} /\ b \in Nat /\ a <= b + 1 /\ b <= Len(t)
         /\ Len(t) \in Nat /\ Len(y) = b - a + 1 /\ y \in Seq(Piece)
         /\ \A m \in a..b : m - a + 1 \in 1..Len(y) /\ y[m - a + 1] = t[m]
         /\ \A j \in 1..Len(y) : a + j - 1 \in a..b /\ y[j] = t[a + j - 1]
<1>1. /\ y \in Seq(Piece) /\ a \in 1..(Len(t) + 1) /\ b \in (a - 1)..Len(t)
      /\ Len(y) = b - a + 1
      /\ \A j \in 1..Len(y) : y[j] = t[a + j - 1]
  BY DEF IsPiece
<1>2. Len(t) \in Nat
  OBVIOUS
<1>3. a \in Nat \ {0} /\ b \in Nat /\ a <= b + 1 /\ b <= Len(t)
  BY <1>1, <1>2
<1>4. \A m \in a..b : m - a + 1 \in 1..(b - a + 1) /\ a + (m - a + 1) - 1 = m
  BY <1>3
<1>5. \A j \in 1..(b - a + 1) : a + j - 1 \in a..b
  BY <1>3
<1> QED
  BY <1>1, <1>2, <1>3, <1>4, <1>5

\* SubSeq of what t has from a to b.
LEMMA SubPiece ==
  ASSUME NEW t \in Seq(Piece), NEW y, NEW a, NEW b, IsPiece(y, t, a, b),
         NEW i \in a..b, NEW k \in i..b
  PROVE  IsPiece(SubSeq(y, i - a + 1, k - a + 1), t, i, k)
<1>1. /\ a \in Nat \ {0} /\ b \in Nat /\ a <= b + 1 /\ b <= Len(t)
      /\ Len(t) \in Nat /\ Len(y) = b - a + 1 /\ y \in Seq(Piece)
      /\ \A m \in a..b : m - a + 1 \in 1..Len(y) /\ y[m - a + 1] = t[m]
  BY PieceFacts
<1>2. i \in Nat /\ k \in Nat /\ a <= i /\ i <= k /\ k <= b
  BY <1>1
<1>3. PICK lo \in Int, hi \in Int : lo = i - a + 1 /\ hi = k - a + 1
  BY <1>1, <1>2
<1>4. lo <= hi /\ hi - lo + 1 = k - i + 1 /\ 1 <= lo /\ hi <= Len(y)
  BY <1>1, <1>2, <1>3
<1>5. \A j \in lo..hi : y[j] \in Piece
  <2>1. \A j \in lo..hi : j \in 1..Len(y)
    BY <1>3, <1>4
  <2> QED
    BY <1>1, <2>1, ElementOfSeq
<1>6. PICK z : z = SubSeq(y, lo, hi)
  OBVIOUS
<1>7. z \in Seq(Piece) /\ Len(z) = k - i + 1 /\ \A j \in 1..(k - i + 1) : z[j] = y[lo + j - 1]
  <2>1. /\ SubSeq(y, lo, hi) \in Seq(Piece)
        /\ Len(SubSeq(y, lo, hi)) = IF lo <= hi THEN hi - lo + 1 ELSE 0
        /\ \A j \in 1..(hi - lo + 1) : SubSeq(y, lo, hi)[j] = y[lo + j - 1]
    BY <1>5, SubSeqProperties
  <2> QED
    BY <1>4, <1>6, <2>1
<1>8. ASSUME NEW j \in 1..(k - i + 1) PROVE z[j] = t[i + j - 1]
  <2>1. i + j - 1 \in a..b /\ (i + j - 1) - a + 1 = lo + j - 1
    BY <1>1, <1>2, <1>3
  <2>2. y[lo + j - 1] = t[i + j - 1]
    BY <1>1, <2>1
  <2> QED
    BY <1>7, <2>2
<1>9. i \in 1..(Len(t) + 1) /\ k \in (i - 1)..Len(t)
  BY <1>1, <1>2
<1>10. IsPiece(z, t, i, k)
  BY <1>7, <1>8, <1>9 DEF IsPiece
<1> QED
  BY <1>3, <1>6, <1>10

\* TrimSet leaves what the text has between the first and the last it keeps.
LEMMA TrimPiece ==
  ASSUME NEW t \in Seq(Piece), NEW y, NEW a, NEW b, IsPiece(y, t, a, b), NEW junk
  PROVE  /\ (\A m \in a..b : t[m] \in junk) => TrimSet(y, junk) = <<>>
         /\ (\E m \in a..b : t[m] \notin junk) =>
              \E lo, hi \in Nat :
                /\ a <= lo /\ lo <= hi /\ hi <= b
                /\ t[lo] \notin junk /\ t[hi] \notin junk
                /\ \A m \in a..b : t[m] \notin junk => lo <= m /\ m <= hi
                /\ IsPiece(TrimSet(y, junk), t, lo, hi)
<1> DEFINE kept == {j \in DOMAIN y : y[j] \notin junk}
<1>1. /\ a \in Nat \ {0} /\ b \in Nat /\ a <= b + 1 /\ b <= Len(t)
      /\ Len(t) \in Nat /\ Len(y) = b - a + 1 /\ y \in Seq(Piece)
      /\ \A m \in a..b : m - a + 1 \in 1..Len(y) /\ y[m - a + 1] = t[m]
      /\ \A j \in 1..Len(y) : a + j - 1 \in a..b /\ y[j] = t[a + j - 1]
  BY PieceFacts
<1>2. DOMAIN y = 1..Len(y)
  BY <1>1
<1>3. ASSUME \A m \in a..b : t[m] \in junk PROVE TrimSet(y, junk) = <<>>
  <2>1. kept = {}
    BY <1>1, <1>2, <1>3
  <2> QED
    BY <2>1 DEF TrimSet
<1>4. ASSUME NEW m \in a..b, t[m] \notin junk
      PROVE  \E lo, hi \in Nat :
                /\ a <= lo /\ lo <= hi /\ hi <= b
                /\ t[lo] \notin junk /\ t[hi] \notin junk
                /\ \A k \in a..b : t[k] \notin junk => lo <= k /\ k <= hi
                /\ IsPiece(TrimSet(y, junk), t, lo, hi)
  <2>1. kept # {} /\ kept \in SUBSET (1..Len(y))
    BY <1>1, <1>2, <1>4
  <2>2. TrimSet(y, junk) = SubSeq(y, Min(kept), Max(kept))
    BY <2>1 DEF TrimSet
  <2>3. Len(y) \in Nat
    BY <1>1
  <2>4. Min(kept) \in kept /\ Max(kept) \in kept /\ \A j \in kept : Min(kept) <= j /\ j <= Max(kept)
    <3> HIDE DEF kept
    <3> QED
      BY <2>1, <2>3, Bounds
  <2>5. PICK l \in kept, h \in kept : l = Min(kept) /\ h = Max(kept)
    BY <2>4
  <2>6. /\ l \in 1..Len(y) /\ h \in 1..Len(y) /\ l <= h /\ y[l] \notin junk /\ y[h] \notin junk
        /\ \A j \in 1..Len(y) : y[j] \notin junk => l <= j /\ j <= h
    BY <1>2, <2>4, <2>5
  <2> HIDE DEF kept
  <2>7. PICK lo \in Nat, hi \in Nat : lo = a + l - 1 /\ hi = a + h - 1
    <3>1. a + l - 1 \in Nat /\ a + h - 1 \in Nat
      BY <1>1, <2>6
    <3> QED
      BY <3>1
  <2>8. lo <= hi /\ lo \in a..b /\ hi \in a..b /\ hi \in lo..b /\ lo - a + 1 = l /\ hi - a + 1 = h
    BY <1>1, <2>6, <2>7
  <2>9. t[lo] \notin junk /\ t[hi] \notin junk
    BY <1>1, <2>6, <2>7, <2>8
  <2>10. ASSUME NEW k \in a..b, t[k] \notin junk PROVE lo <= k /\ k <= hi
    <3>1. l <= k - a + 1 /\ k - a + 1 <= h
      BY <1>1, <2>6, <2>10
    <3>2. l \in Nat /\ h \in Nat /\ a \in Nat /\ k \in Int
      BY <1>1, <2>6
    <3> QED
      BY <2>7, <3>1, <3>2
  <2>11. IsPiece(SubSeq(y, l, h), t, lo, hi)
    BY <2>8, SubPiece
  <2>12. a <= lo /\ hi <= b
    BY <1>1, <2>6, <2>7
  <2> QED
    BY <2>2, <2>5, <2>8, <2>9, <2>10, <2>11, <2>12
<1> QED
  BY <1>3, <1>4

\* x is a part of the text t: what it has from c to d, between separators.
IsPart(x, t, c, d) ==
  /\ IsPiece(x, t, c, d)
  /\ \A m \in c..d : t[m] \notin ConfigSeparators
  /\ c > 1 => t[c - 1] \in ConfigSeparators
  /\ d < Len(t) => t[d + 1] \in ConfigSeparators

\* Each part is what the text has between its cuts.
LEMMA PartOfCuts ==
  ASSUME NEW t \in Seq(Piece), NEW parts, NEW st, AreCuts(t, parts, st), NEW k \in 1..Len(parts)
  PROVE  IsPart(parts[k], t, st[k], st[k + 1] - 2)
<1> DEFINE n == Len(parts)
<1>1. /\ n \in Nat /\ parts[k] \in Seq(Piece) /\ Len(t) \in Nat
      /\ \A j \in 1..(n + 1) : st[j] \in Nat \ {0}
      /\ st[n + 1] = Len(t) + 2
  <2>1. /\ parts \in Seq(Seq(Piece)) /\ st \in Seq(Nat \ {0}) /\ Len(st) = n + 1
        /\ st[n + 1] = Len(t) + 2
    BY DEF AreCuts, PartLists
  <2> QED
    BY <2>1, ElementOfSeq
<1>2. /\ \A m \in 1..(n + 1) : k < m => st[k] < st[m]
      /\ Len(parts[k]) = st[k + 1] - 1 - st[k]
      /\ \A j \in 1..Len(parts[k]) : parts[k][j] = t[st[k] + j - 1]
                                     /\ parts[k][j] \notin ConfigSeparators
      /\ k > 1 => t[st[k] - 1] \in ConfigSeparators
      /\ k = 1 => st[k] = 1
  BY DEF AreCuts
<1>3. k + 1 <= n => t[st[k + 1] - 1] \in ConfigSeparators
  <2>1. \A j \in 1..n : j > 1 => t[st[j] - 1] \in ConfigSeparators
    BY DEF AreCuts
  <2>2. k + 1 <= n => k + 1 \in 1..n /\ k + 1 > 1
    BY <1>1
  <2> QED
    BY <2>1, <2>2
<1>4. st[k] < st[k + 1] /\ st[k + 1] <= Len(t) + 2
  <2>1. k \in Nat /\ k + 1 \in 1..(n + 1) /\ k < k + 1
    BY <1>1
  <2>2. st[k] < st[k + 1]
    BY <1>2, <2>1
  <2>3. CASE k = n
    BY <1>1, <2>2, <2>3
  <2>4. CASE k + 1 \in 1..n
    <3>1. n + 1 \in 1..(n + 1) /\ k + 1 < n + 1
      BY <1>1, <2>4
    <3>2. st[k + 1] < st[n + 1]
      BY <2>4, <3>1 DEF AreCuts
    <3>3. st[k + 1] \in Nat
      BY <1>1, <2>1
    <3> QED
      BY <1>1, <2>2, <3>2, <3>3
  <2> QED
    BY <1>1, <2>3, <2>4
<1> HIDE DEF n
<1>5. PICK c \in Nat \ {0}, e \in Nat \ {0}, l \in Nat : c = st[k] /\ e = st[k + 1] /\ l = Len(t)
  <2>1. k \in 1..(n + 1) /\ k + 1 \in 1..(n + 1)
    BY <1>1 DEF n
  <2> QED
    BY <1>1, <2>1
<1>6. PICK x \in Seq(Piece) : x = parts[k]
  BY <1>1
<1>7. c < e /\ e <= l + 2 /\ Len(x) = e - 1 - c
  BY <1>2, <1>4, <1>5, <1>6
<1>8. c \in 1..(l + 1) /\ e - 2 \in (c - 1)..l /\ Len(x) = (e - 2) - c + 1
  BY <1>7
<1>9. IsPiece(x, t, c, e - 2)
  BY <1>2, <1>5, <1>6, <1>8 DEF IsPiece
<1>10. ASSUME NEW m \in c..(e - 2) PROVE t[m] \notin ConfigSeparators
  <2>1. m - c + 1 \in 1..Len(x) /\ c + (m - c + 1) - 1 = m
    BY <1>7
  <2>2. x[m - c + 1] = t[c + (m - c + 1) - 1] /\ x[m - c + 1] \notin ConfigSeparators
    BY <1>2, <1>5, <1>6, <2>1
  <2> QED
    BY <2>1, <2>2
<1>11. c > 1 => t[c - 1] \in ConfigSeparators
  <2>1. k \in Nat /\ (k = 1 \/ k > 1)
    BY <1>1 DEF n
  <2> QED
    BY <1>2, <1>5, <2>1
<1>12. e - 2 < l => t[(e - 2) + 1] \in ConfigSeparators
  <2>1. (e - 2) + 1 = e - 1 /\ (e - 2 < l => e # l + 2)
    OBVIOUS
  <2>2. k = n => e = l + 2
    BY <1>1, <1>5
  <2>3. k = n \/ k + 1 <= n
    BY <1>1 DEF n
  <2> QED
    BY <1>3, <1>5, <2>1, <2>2, <2>3
<1>13. IsPart(x, t, c, e - 2)
  BY <1>5, <1>9, <1>10, <1>11, <1>12 DEF IsPart
<1> QED
  BY <1>5, <1>6, <1>13

\* What is between two positions, in whichever order they are.
LEMMA Between ==
  ASSUME NEW n \in Nat, NEW i \in 1..n, NEW j \in 1..n
  PROVE  \/ i <= j /\ Min({i, j}) = i /\ Max({i, j}) = j
         \/ j <= i /\ Min({i, j}) = j /\ Max({i, j}) = i
<1>1. {i, j} \in SUBSET (1..n) /\ {i, j} # {}
  OBVIOUS
<1>2. /\ Min({i, j}) \in {i, j} /\ Max({i, j}) \in {i, j}
      /\ \A m \in {i, j} : Min({i, j}) <= m /\ m <= Max({i, j})
  BY <1>1, Bounds
<1>3. PICK lo \in 1..n, hi \in 1..n : lo = Min({i, j}) /\ hi = Max({i, j})
  BY <1>2
<1>4. (lo = i \/ lo = j) /\ (hi = i \/ hi = j) /\ lo <= i /\ lo <= j /\ i <= hi /\ j <= hi
  BY <1>2, <1>3
<1>5. i <= j => lo = i /\ hi = j
  BY <1>4
<1>6. j <= i => lo = j /\ hi = i
  BY <1>4
<1>7. i <= j \/ j <= i
  OBVIOUS
<1> QED
  BY <1>3, <1>5, <1>6, <1>7

\* The stretch of a position is the part it is in.
LEMMA StretchOfPart ==
  ASSUME NEW t \in Seq(Piece), NEW x, NEW c, NEW d, IsPart(x, t, c, d), NEW i \in c..d
  PROVE  Stretch(t, i) = c..d
<1>1. /\ c \in Nat \ {0} /\ d \in Nat /\ d <= Len(t) /\ Len(t) \in Nat
      /\ IsPiece(x, t, c, d)
  BY PieceFacts DEF IsPart
<1>2. /\ \A m \in c..d : t[m] \notin ConfigSeparators
      /\ c > 1 => t[c - 1] \in ConfigSeparators
      /\ d < Len(t) => t[d + 1] \in ConfigSeparators
  BY DEF IsPart
<1>3. DOMAIN t = 1..Len(t)
  OBVIOUS
<1>4. PICK n \in Nat : n = Len(t)
  BY <1>1
<1>5. i \in 1..n /\ c <= i /\ i <= d
  BY <1>1, <1>4
<1>6. ASSUME NEW j \in c..d PROVE j \in Stretch(t, i)
  <2>1. j \in 1..n
    BY <1>1, <1>4
  <2>2. \A k \in Min({i, j})..Max({i, j}) : k \in c..d
    BY <1>1, <1>5, <2>1, Between
  <2> QED
    BY <1>2, <1>3, <1>4, <2>1, <2>2 DEF Stretch
<1>7. ASSUME NEW j \in Stretch(t, i) PROVE j \in c..d
  <2>1. j \in 1..n /\ \A k \in 1..n : k \in Min({i, j})..Max({i, j}) => t[k] \notin ConfigSeparators
    BY <1>3, <1>4 DEF Stretch
  <2>2. ~(j < c)
    <3> SUFFICES ASSUME j < c PROVE FALSE
      OBVIOUS
    <3>1. c > 1 /\ c - 1 \in 1..n /\ j <= i /\ c - 1 \in j..i /\ ~(i <= j)
      BY <1>1, <1>5, <2>1
    <3>2. Min({i, j}) = j /\ Max({i, j}) = i
      BY <1>5, <2>1, <3>1, Between
    <3> QED
      BY <1>2, <2>1, <3>1, <3>2
  <2>3. ~(d < j)
    <3> SUFFICES ASSUME d < j PROVE FALSE
      OBVIOUS
    <3>1. d < n /\ d + 1 \in 1..n /\ i <= j /\ d + 1 \in i..j /\ ~(j <= i)
      BY <1>1, <1>5, <2>1
    <3>2. Min({i, j}) = i /\ Max({i, j}) = j
      BY <1>5, <2>1, <3>1, Between
    <3> QED
      BY <1>2, <1>4, <2>1, <3>1, <3>2
  <2> QED
    BY <1>1, <2>1, <2>2, <2>3
<1> QED
  BY <1>6, <1>7

\* Where a protocol of one piece occurs.
LEMMA StartsOne ==
  ASSUME NEW line \in Seq(Piece), NEW u \in Piece
  PROVE  Starts(<<u>>, line) = {i \in 1..Len(line) : line[i] = u}
<1>1. DOMAIN line = 1..Len(line) /\ Len(line) \in Nat /\ \A i \in 1..Len(line) : line[i] \in Piece
  BY ElementOfSeq
<1>2. ASSUME NEW i \in 1..Len(line) PROVE StartsAt(<<u>>, line, i) <=> line[i] = u
  <2>1. Len(<<u>>) = 1 /\ i + 1 - 1 = i /\ i <= Len(line) /\ i - i + 1 = 1
    OBVIOUS
  <2>2. \A j \in i..i : line[j] \in Piece
    BY <1>1
  <2>3. PICK s : s = SubSeq(line, i, i)
    OBVIOUS
  <2>4. s \in Seq(Piece) /\ Len(s) = 1 /\ s[1] = line[i]
    <3>1. /\ SubSeq(line, i, i) \in Seq(Piece)
          /\ Len(SubSeq(line, i, i)) = IF i <= i THEN i - i + 1 ELSE 0
          /\ \A j \in 1..(i - i + 1) : SubSeq(line, i, i)[j] = line[i + j - 1]
      BY <1>1, <2>2, SubSeqProperties
    <3>2. i <= i /\ i - i + 1 = 1 /\ 1 \in 1..1 /\ i + 1 - 1 = i
      BY <1>1
    <3> QED
      BY <2>3, <3>1, <3>2
  <2>5. s = <<u>> <=> s[1] = u
    BY <2>4
  <2> QED
    BY <2>1, <2>3, <2>4, <2>5 DEF StartsAt
<1> QED
  BY <1>1, <1>2 DEF Starts

\* Where a protocol of two pieces occurs.
LEMMA StartsTwo ==
  ASSUME NEW line \in Seq(Piece), NEW u \in Piece, NEW v \in Piece
  PROVE  Starts(<<u, v>>, line) =
           {i \in 1..Len(line) : i + 1 <= Len(line) /\ line[i] = u /\ line[i + 1] = v}
<1>1. DOMAIN line = 1..Len(line) /\ Len(line) \in Nat /\ \A i \in 1..Len(line) : line[i] \in Piece
  BY ElementOfSeq
<1>2. ASSUME NEW i \in 1..Len(line), i + 1 <= Len(line)
      PROVE  SubSeq(line, i, i + 1) = <<u, v>> <=> line[i] = u /\ line[i + 1] = v
  <2>1. \A j \in i..(i + 1) : line[j] \in Piece
    BY <1>1, <1>2
  <2>2. PICK s : s = SubSeq(line, i, i + 1)
    OBVIOUS
  <2>3. s \in Seq(Piece) /\ Len(s) = 2 /\ s[1] = line[i] /\ s[2] = line[i + 1]
    <3>1. PICK k \in Int : k = i + 1
      BY <1>1
    <3>2. /\ SubSeq(line, i, k) \in Seq(Piece)
          /\ Len(SubSeq(line, i, k)) = IF i <= k THEN k - i + 1 ELSE 0
          /\ \A j \in 1..(k - i + 1) : SubSeq(line, i, k)[j] = line[i + j - 1]
      BY <1>1, <2>1, <3>1, SubSeqProperties
    <3>3. i <= k /\ k - i + 1 = 2 /\ 1 \in 1..2 /\ 2 \in 1..2 /\ i + 1 - 1 = i /\ i + 2 - 1 = i + 1
      BY <1>1, <3>1
    <3> QED
      BY <2>2, <3>1, <3>2, <3>3
  <2>4. s = <<u, v>> <=> s[1] = u /\ s[2] = v
    BY <2>3
  <2> QED
    BY <2>2, <2>3, <2>4
<1>3. ASSUME NEW i \in 1..Len(line)
      PROVE  StartsAt(<<u, v>>, line, i) <=> i + 1 <= Len(line) /\ line[i] = u /\ line[i + 1] = v
  <2>1. Len(<<u, v>>) = 2 /\ i + 2 - 1 = i + 1
    OBVIOUS
  <2> QED
    BY <1>2, <2>1 DEF StartsAt
<1> QED
  BY <1>1, <1>3 DEF Starts

\* A link begins at i, seen from the line only, which goes from a to b.
BeginsIn(t, a, b, i) ==
  /\ i \in a..b
  /\ \/ t[i] \in {"vme", "vle"} /\ i < b /\ t[i + 1] = "ss"
     \/ t[i] = "tro"
     \/ t[i] = "ss" /\ (i = a \/ t[i - 1] \notin {"vme", "vle"})

\* The first occurrence of the first protocol that occurs is where a link begins.
LEMMA FirstOfFirst ==
  ASSUME NEW t \in Seq(Piece), NEW line, NEW a, NEW b, IsPiece(line, t, a, b)
  PROVE  \/ LinkOf(line) = <<>> /\ \A i \in a..b : ~BeginsIn(t, a, b, i)
         \/ \E i \in a..b : BeginsIn(t, a, b, i) /\ LinkOf(line) = CleanProxy(line, i - a + 1)
<1> DEFINE n == Len(line)
           P(k) == Starts(AcceptedProtocols[k], line)
           used == {k \in DOMAIN AcceptedProtocols : P(k) # {}}
<1>1. /\ a \in Nat \ {0} /\ b \in Nat /\ a <= b + 1 /\ b <= Len(t)
      /\ Len(t) \in Nat /\ n = b - a + 1 /\ line \in Seq(Piece) /\ n \in Nat
      /\ \A m \in a..b : m - a + 1 \in 1..n /\ line[m - a + 1] = t[m]
      /\ \A j \in 1..n : a + j - 1 \in a..b /\ line[j] = t[a + j - 1]
  <2>1. /\ a \in Nat \ {0} /\ b \in Nat /\ a <= b + 1 /\ b <= Len(t)
        /\ Len(t) \in Nat /\ n = b - a + 1 /\ line \in Seq(Piece)
    BY PieceFacts
  <2>2. /\ \A m \in a..b : m - a + 1 \in 1..n /\ line[m - a + 1] = t[m]
        /\ \A j \in 1..n : a + j - 1 \in a..b /\ line[j] = t[a + j - 1]
    BY PieceFacts
  <2> QED
    BY <2>1, <2>2
<1>2. /\ DOMAIN AcceptedProtocols = 1..4
      /\ AcceptedProtocols[1] = <<"vme", "ss">> /\ AcceptedProtocols[2] = <<"vle", "ss">>
      /\ AcceptedProtocols[3] = <<"tro">> /\ AcceptedProtocols[4] = <<"ss">>
  BY DEF AcceptedProtocols
<1>3. "vme" \in Piece /\ "vle" \in Piece /\ "tro" \in Piece /\ "ss" \in Piece
  BY DEF Piece
<1>4. /\ P(1) = {j \in 1..n : j + 1 <= n /\ line[j] = "vme" /\ line[j + 1] = "ss"}
      /\ P(2) = {j \in 1..n : j + 1 <= n /\ line[j] = "vle" /\ line[j + 1] = "ss"}
      /\ P(3) = {j \in 1..n : line[j] = "tro"}
      /\ P(4) = {j \in 1..n : line[j] = "ss"}
  <2>1. \A u, v \in Piece : Starts(<<u, v>>, line) =
                               {j \in 1..n : j + 1 <= n /\ line[j] = u /\ line[j + 1] = v}
    BY <1>1, StartsTwo
  <2>2. \A u \in Piece : Starts(<<u>>, line) = {j \in 1..n : line[j] = u}
    BY <1>1, StartsOne
  <2>3. /\ Starts(<<"vme", "ss">>, line) = {j \in 1..n : j + 1 <= n /\ line[j] = "vme" /\ line[j + 1] = "ss"}
        /\ Starts(<<"vle", "ss">>, line) = {j \in 1..n : j + 1 <= n /\ line[j] = "vle" /\ line[j + 1] = "ss"}
        /\ Starts(<<"tro">>, line) = {j \in 1..n : line[j] = "tro"}
        /\ Starts(<<"ss">>, line) = {j \in 1..n : line[j] = "ss"}
    BY <1>3, <2>1, <2>2
  <2> QED
    BY <1>2, <2>3
<1>5. \A k \in 1..4 : P(k) \in SUBSET (1..n)
  <2>1. \A k \in 1..4 : k = 1 \/ k = 2 \/ k = 3 \/ k = 4
    OBVIOUS
  <2> QED
    BY <1>4, <2>1
<1> HIDE DEF n
<1>6. /\ \A i \in a..b : i - a + 1 \in 1..n /\ a + (i - a + 1) - 1 = i
      /\ \A i \in a..b : i < b => i + 1 \in a..b /\ (i + 1) - a + 1 = (i - a + 1) + 1 /\ (i - a + 1) + 1 <= n
      /\ \A j \in 1..n : j + 1 <= n => a + j - 1 < b /\ a + (j + 1) - 1 = (a + j - 1) + 1
      /\ \A j \in 1..n : j # 1 => j - 1 \in 1..n /\ a + (j - 1) - 1 = (a + j - 1) - 1 /\ (j - 1) + 1 = j
      /\ \A j \in 1..n : j = 1 => a + j - 1 = a
      /\ \A j \in 1..n : (a + j - 1) - a + 1 = j
  BY <1>1
<1>7. ASSUME NEW j \in 1..n,
             \/ j + 1 <= n /\ line[j] \in {"vme", "vle"} /\ line[j + 1] = "ss"
             \/ line[j] = "tro"
             \/ line[j] = "ss" /\ (j = 1 \/ line[j - 1] \notin {"vme", "vle"})
      PROVE  BeginsIn(t, a, b, a + j - 1)
  <2>1. PICK i \in a..b : i = a + j - 1
    BY <1>1
  <2>2. line[j] = t[i]
    BY <1>1, <2>1
  <2>3. CASE j + 1 <= n /\ line[j] \in {"vme", "vle"} /\ line[j + 1] = "ss"
    <3>1. j + 1 \in 1..n
      BY <1>1, <2>3
    <3>2. i < b /\ t[i + 1] = "ss"
      BY <1>1, <1>6, <2>1, <2>3, <3>1
    <3> QED
      BY <2>1, <2>2, <2>3, <3>2 DEF BeginsIn
  <2>4. CASE line[j] = "tro"
    BY <2>1, <2>2, <2>4 DEF BeginsIn
  <2>5. CASE line[j] = "ss" /\ (j = 1 \/ line[j - 1] \notin {"vme", "vle"})
    <3>1. i = a \/ t[i - 1] \notin {"vme", "vle"}
      <4>1. CASE j = 1
        BY <1>6, <2>1, <4>1
      <4>2. CASE j # 1
        <5>1. j - 1 \in 1..n /\ a + (j - 1) - 1 = i - 1
          BY <1>6, <2>1, <4>2
        <5>2. line[j - 1] = t[i - 1]
          BY <1>1, <5>1
        <5> QED
          BY <2>5, <4>2, <5>2
      <4> QED
        BY <4>1, <4>2
    <3> QED
      BY <2>1, <2>2, <2>5, <3>1 DEF BeginsIn
  <2> QED
    BY <1>7, <2>3, <2>4, <2>5
<1>8. ASSUME \A k \in 1..4 : P(k) = {}, NEW i \in a..b PROVE ~BeginsIn(t, a, b, i)
  <2>1. PICK j \in 1..n : j = i - a + 1
    BY <1>6
  <2>2. line[j] = t[i]
    BY <1>1, <2>1
  <2>3. line[j] \notin {"tro", "ss"}
    BY <1>4, <1>8
  <2>4. i < b => j + 1 <= n /\ j + 1 \in 1..n /\ line[j + 1] = t[i + 1]
    <3> SUFFICES ASSUME i < b PROVE j + 1 <= n /\ j + 1 \in 1..n /\ line[j + 1] = t[i + 1]
      OBVIOUS
    <3>1. i + 1 \in a..b /\ (i + 1) - a + 1 = j + 1 /\ j + 1 <= n
      BY <1>6, <2>1
    <3> QED
      BY <1>1, <3>1
  <2>5. j + 1 <= n /\ line[j + 1] = "ss" => line[j] \notin {"vme", "vle"}
    BY <1>4, <1>8
  <2> QED
    BY <2>2, <2>3, <2>4, <2>5 DEF BeginsIn
<1>9. CASE used = {}
  <2>1. LinkOf(line) = <<>>
    BY <1>9 DEF LinkOf
  <2>2. \A k \in 1..4 : P(k) = {}
    BY <1>2, <1>9
  <2> QED
    BY <1>8, <2>1, <2>2
<1>10. CASE used # {}
  <2>1. used \in SUBSET (1..4)
    BY <1>2
  <2>2. Min(used) \in used /\ \A k \in used : Min(used) <= k
    <3> HIDE DEF used
    <3> QED
      BY <1>10, <2>1, Bounds
  <2>3. PICK k \in 1..4 : k = Min(used) /\ P(k) # {} /\ \A l \in 1..4 : l < k => P(l) = {}
    <3>1. Min(used) \in 1..4 /\ P(Min(used)) # {}
      BY <2>1, <2>2
    <3>2. \A l \in 1..4 : l < Min(used) => P(l) = {}
      <4>1. \A l \in 1..4 : P(l) # {} => l \in used
        BY <1>2
      <4> HIDE DEF used, P
      <4> QED
        BY <2>2, <3>1, <4>1
    <3> QED
      BY <3>1, <3>2
  <2>4. LinkOf(line) = CleanProxy(line, Min(P(k)))
    BY <1>10, <2>3 DEF LinkOf
  <2>5. Min(P(k)) \in P(k)
    <3>1. P(k) \in SUBSET (1..n) /\ n \in Nat
      BY <1>1, <1>5
    <3> HIDE DEF P
    <3> QED
      BY <2>3, <3>1, Bounds
  <2>6. PICK j \in 1..n : j = Min(P(k)) /\ j \in P(k)
    BY <1>5, <2>5
  <2> HIDE DEF used
  <2>7. \/ j + 1 <= n /\ line[j] \in {"vme", "vle"} /\ line[j + 1] = "ss"
        \/ line[j] = "tro"
        \/ line[j] = "ss" /\ (j = 1 \/ line[j - 1] \notin {"vme", "vle"})
    <3>1. CASE k = 1 \/ k = 2 \/ k = 3
      <4> HIDE DEF P
      <4> QED
        BY <1>4, <2>6, <3>1
    <3>2. CASE k = 4
      <4>1. P(1) = {} /\ P(2) = {} /\ line[j] = "ss"
        <5>1. P(1) = {} /\ P(2) = {}
          BY <2>3, <3>2
        <5>2. j \in P(4)
          BY <2>6, <3>2
        <5> HIDE DEF P
        <5> QED
          BY <1>4, <5>1, <5>2
      <4>2. j # 1 => line[j - 1] \notin {"vme", "vle"}
        <5> SUFFICES ASSUME j # 1 PROVE line[j - 1] \notin {"vme", "vle"}
          OBVIOUS
        <5>1. j - 1 \in 1..n /\ (j - 1) + 1 = j /\ (j - 1) + 1 <= n
          BY <1>1, <1>6
        <5> HIDE DEF P
        <5> QED
          BY <1>4, <4>1, <5>1
      <4> QED
        BY <4>1, <4>2
    <3> QED
      BY <3>1, <3>2
  <2>8. BeginsIn(t, a, b, a + j - 1)
    BY <1>7, <2>7
  <2>9. a + j - 1 \in a..b /\ (a + j - 1) - a + 1 = j
    BY <1>1, <1>6
  <2>10. LinkOf(line) = CleanProxy(line, j)
    BY <2>4, <2>6
  <2> QED
    BY <2>8, <2>9, <2>10
<1> QED
  BY <1>9, <1>10

\* What is left of a part when its blanks are trimmed, and nothing of a comment.
LEMMA LineOfPart ==
  ASSUME NEW t \in Seq(Piece), NEW x, NEW c \in Nat, NEW d \in Nat, IsPart(x, t, c, d)
  PROVE  \/ LineOf(x) = <<>> /\ \A i \in c..d : i \notin Beginnings(t)
         \/ \E a, b \in Nat :
              /\ c <= a /\ a <= b /\ b <= d
              /\ IsPiece(LineOf(x), t, a, b)
              /\ \A m \in c..d : t[m] # "blank" => a <= m /\ m <= b
              /\ \A i \in c..d : ~Commented(t, i)
<1> DEFINE trimmed == TrimSet(x, {"blank"})
<1>1. IsPiece(x, t, c, d)
  BY DEF IsPart
<1>2. c \in Nat \ {0} /\ d \in Nat /\ d <= Len(t) /\ Len(t) \in Nat
  BY <1>1, PieceFacts
<1>3. /\ (\A m \in c..d : t[m] \in {"blank"}) => trimmed = <<>>
      /\ (\E m \in c..d : t[m] \notin {"blank"}) =>
           \E lo, hi \in Nat :
             /\ c <= lo /\ lo <= hi /\ hi <= d
             /\ t[lo] \notin {"blank"} /\ t[hi] \notin {"blank"}
             /\ \A m \in c..d : t[m] \notin {"blank"} => lo <= m /\ m <= hi
             /\ IsPiece(trimmed, t, lo, hi)
  BY <1>1, TrimPiece
<1> HIDE DEF trimmed
<1>4. LineOf(x) = IF trimmed # <<>> /\ trimmed[1] = "#" THEN <<>> ELSE trimmed
  BY DEF LineOf, trimmed
<1>5. CASE \A m \in c..d : t[m] = "blank"
  <2>1. LineOf(x) = <<>>
    BY <1>3, <1>4, <1>5
  <2>2. ASSUME NEW i \in c..d PROVE i \notin Beginnings(t)
    <3>1. t[i] = "blank"
      BY <1>5
    <3> QED
      BY <3>1 DEF Beginnings, Begins
  <2> QED
    BY <2>1, <2>2
<1>6. CASE \E m \in c..d : t[m] # "blank"
  <2>1. PICK lo \in Nat, hi \in Nat :
          /\ c <= lo /\ lo <= hi /\ hi <= d
          /\ t[lo] # "blank"
          /\ \A m \in c..d : t[m] # "blank" => lo <= m /\ m <= hi
          /\ IsPiece(trimmed, t, lo, hi)
    BY <1>3, <1>6
  <2>2. trimmed # <<>> /\ trimmed[1] = t[lo]
    <3>1. /\ Len(trimmed) = hi - lo + 1
          /\ \A j \in 1..Len(trimmed) : trimmed[j] = t[lo + j - 1]
      BY <2>1 DEF IsPiece
    <3>2. lo <= hi /\ 1 \in 1..(hi - lo + 1) /\ lo + 1 - 1 = lo /\ hi - lo + 1 # 0
      BY <2>1
    <3>3. Len(trimmed) # 0 /\ 1 \in 1..Len(trimmed)
      BY <3>1, <3>2
    <3>4. trimmed[1] = t[lo]
      BY <3>1, <3>2, <3>3
    <3> QED
      BY <3>3, <3>4
  <2>3. ASSUME NEW i \in c..d PROVE Commented(t, i) <=> t[lo] = "#"
    <3>1. PICK said : said = {j \in c..d : t[j] # "blank"}
      OBVIOUS
    <3>2. Commented(t, i) <=> t[Min(said)] = "#"
      <4>1. Stretch(t, i) = c..d
        BY StretchOfPart
      <4> QED
        BY <3>1, <4>1 DEF Commented
    <3>3. lo \in said /\ said # {} /\ said \in SUBSET (1..Len(t))
      BY <1>2, <2>1, <3>1
    <3>4. Min(said) \in said /\ Min(said) <= lo
      BY <1>2, <3>3, Bounds
    <3>5. Min(said) \in c..d /\ lo <= Min(said)
      BY <2>1, <3>1, <3>4
    <3>6. Min(said) = lo
      BY <1>2, <3>4, <3>5
    <3> QED
      BY <3>2, <3>6
  <2>4. CASE t[lo] = "#"
    <3>1. LineOf(x) = <<>>
      BY <1>4, <2>2, <2>4
    <3>2. \A i \in c..d : i \notin Beginnings(t)
      BY <2>3, <2>4 DEF Beginnings
    <3> QED
      BY <3>1, <3>2
  <2>5. CASE t[lo] # "#"
    <3>1. LineOf(x) = trimmed
      BY <1>4, <2>2, <2>5
    <3>2. \A i \in c..d : ~Commented(t, i)
      BY <2>3, <2>5
    <3> QED
      BY <2>1, <3>1, <3>2
  <2> QED
    BY <2>4, <2>5
<1> QED
  BY <1>5, <1>6

\* Where a link begins in the text is where one begins in the line.
LEMMA BeginsInLine ==
  ASSUME NEW t \in Seq(Piece), NEW x, NEW c \in Nat, NEW d \in Nat, IsPart(x, t, c, d),
         NEW a \in Nat, NEW b \in Nat, c <= a, a <= b, b <= d,
         \A m \in c..d : t[m] # "blank" => a <= m /\ m <= b
  PROVE  \A i \in c..d : Begins(t, i) <=> BeginsIn(t, a, b, i)
<1>1. c \in Nat \ {0} /\ d \in Nat /\ d <= Len(t) /\ Len(t) \in Nat
  BY PieceFacts DEF IsPart
<1>2. /\ \A m \in c..d : t[m] \notin ConfigSeparators
      /\ c > 1 => t[c - 1] \in ConfigSeparators
      /\ d < Len(t) => t[d + 1] \in ConfigSeparators
  BY DEF IsPart
<1>3. a \in Nat /\ b \in Nat /\ c <= a /\ a <= b /\ b <= d
  OBVIOUS
<1> SUFFICES ASSUME NEW i \in c..d PROVE Begins(t, i) <=> BeginsIn(t, a, b, i)
  OBVIOUS
<1>4. i \in Nat /\ c <= i /\ i <= d
  BY <1>1
<1>5. t[i] # "blank" => i \in a..b
  BY <1>1, <1>3, <1>4
<1>6. "ss" \notin ConfigSeparators /\ "ss" # "blank"
  BY DEF ConfigSeparators
<1>7. i < Len(t) /\ t[i + 1] = "ss" => i < b
  <2> SUFFICES ASSUME i < Len(t), t[i + 1] = "ss" PROVE i < b
    OBVIOUS
  <2>1. i # d
    BY <1>2, <1>6
  <2>2. i + 1 \in c..d
    BY <1>1, <1>4, <2>1
  <2>3. i + 1 <= b
    BY <1>6, <2>2
  <2> QED
    BY <1>3, <1>4, <2>3
<1>8. i < b => i < Len(t)
  BY <1>1, <1>3, <1>4
<1>9. ASSUME t[i] = "ss" PROVE (i = 1 \/ t[i - 1] \notin {"vme", "vle"})
                               <=> (i = a \/ t[i - 1] \notin {"vme", "vle"})
  <2>1. i \in a..b
    BY <1>5, <1>9
  <2>2. CASE i = a
    <3>1. CASE a = c
      <4>1. c = 1 \/ t[c - 1] \in ConfigSeparators
        BY <1>1, <1>2
      <4> QED
        BY <2>2, <3>1, <4>1 DEF ConfigSeparators
    <3>2. CASE a # c
      <4>1. i - 1 \in c..d /\ ~(a <= i - 1)
        BY <1>1, <1>3, <1>4, <2>2, <3>2
      <4>2. t[i - 1] = "blank"
        BY <4>1
      <4> QED
        BY <2>2, <4>2
    <3> QED
      BY <3>1, <3>2
  <2>3. CASE i # a
    <3>1. i # 1
      BY <1>1, <1>3, <2>1, <2>3
    <3> QED
      BY <2>3, <3>1
  <2> QED
    BY <2>2, <2>3
<1>10. Begins(t, i) => t[i] # "blank"
  BY DEF Begins
<1>11. BeginsIn(t, a, b, i) => i \in a..b
  BY DEF BeginsIn
<1>12. CASE t[i] \in {"vme", "vle"}
  BY <1>5, <1>7, <1>8, <1>12 DEF Begins, BeginsIn
<1>13. CASE t[i] = "tro"
  BY <1>5, <1>13 DEF Begins, BeginsIn
<1>14. CASE t[i] = "ss"
  BY <1>5, <1>9, <1>14 DEF Begins, BeginsIn
<1>15. CASE t[i] \notin {"vme", "vle", "tro", "ss"}
  BY <1>15 DEF Begins, BeginsIn
<1> QED
  BY <1>12, <1>13, <1>14, <1>15

\* Two of what t has from a to b are the same.
LEMMA SamePiece ==
  ASSUME NEW t, NEW y, NEW z, NEW a, NEW b, IsPiece(y, t, a, b), IsPiece(z, t, a, b)
  PROVE  y = z
<1>1. y \in Seq(Piece) /\ z \in Seq(Piece) /\ Len(y) = Len(z) /\ \A j \in 1..Len(y) : y[j] = z[j]
  BY DEF IsPiece
<1> QED
  BY <1>1, SeqEqual

\* The link of a line is what the text has from where it begins.
LEMMA CleanedLink ==
  ASSUME NEW t \in Seq(Piece), NEW x, NEW c \in Nat, NEW d \in Nat, IsPart(x, t, c, d),
         NEW a \in Nat, NEW b \in Nat, c <= a, a <= b, b <= d, NEW line, IsPiece(line, t, a, b),
         \A m \in c..d : t[m] # "blank" => a <= m /\ m <= b,
         NEW i \in a..b, BeginsIn(t, a, b, i)
  PROVE  LET link == CleanProxy(line, i - a + 1)
         IN  link # <<>> /\ Begins(link, 1) /\ link = Link(t, i)
<1> DEFINE junk == {"blank", "q"}
<1>1. c \in Nat \ {0} /\ d \in Nat /\ d <= Len(t) /\ Len(t) \in Nat
  BY PieceFacts DEF IsPart
<1>2. /\ a \in Nat \ {0} /\ b \in Nat /\ c <= a /\ a <= b /\ b <= d /\ Len(line) = b - a + 1
      /\ i \in Nat \ {0} /\ a <= i /\ i <= b /\ i \in c..d
  <2>1. Len(line) = b - a + 1 /\ a \in Nat \ {0}
    BY DEF IsPiece
  <2>2. a <= i /\ i <= b /\ i \in Int
    OBVIOUS
  <2> QED
    BY <2>1, <2>2
<1>3. IsPiece(SubSeq(line, i - a + 1, Len(line)), t, i, b)
  <2>1. b \in i..b
    BY <1>2
  <2> QED
    BY <1>2, <2>1, SubPiece
<1>4. t[i] \notin junk
  BY DEF BeginsIn
<1>5. PICK link : link = CleanProxy(line, i - a + 1)
  OBVIOUS
<1>6. PICK lo \in Nat, hi \in Nat :
        /\ i <= lo /\ lo <= hi /\ hi <= b
        /\ t[hi] \notin junk
        /\ \A m \in i..b : t[m] \notin junk => lo <= m /\ m <= hi
        /\ IsPiece(link, t, lo, hi)
  <2>1. i \in i..b
    BY <1>2
  <2>2. \E lo, hi \in Nat :
          /\ i <= lo /\ lo <= hi /\ hi <= b
          /\ t[lo] \notin junk /\ t[hi] \notin junk
          /\ \A m \in i..b : t[m] \notin junk => lo <= m /\ m <= hi
          /\ IsPiece(TrimSet(SubSeq(line, i - a + 1, Len(line)), junk), t, lo, hi)
    <3> HIDE DEF junk
    <3> QED
      BY <1>3, <1>4, <2>1, TrimPiece
  <2>3. link = TrimSet(SubSeq(line, i - a + 1, Len(line)), junk)
    BY <1>5 DEF CleanProxy
  <2> QED
    BY <2>2, <2>3
<1> HIDE DEF junk
<1>7. lo = i /\ hi \in Nat /\ i <= hi /\ hi <= b
  <2>1. i \in i..b
    BY <1>2
  <2>2. lo <= i
    BY <1>4, <1>6, <2>1
  <2> QED
    BY <1>2, <1>6, <2>2
<1>8. /\ Len(link) = hi - i + 1
      /\ \A j \in 1..Len(link) : link[j] = t[i + j - 1]
      /\ link \in Seq(Piece)
  BY <1>6, <1>7 DEF IsPiece
<1>9. 1 \in 1..Len(link) /\ link[1] = t[i] /\ link # <<>>
  <2>1. hi - i + 1 >= 1 /\ 1 \in 1..(hi - i + 1) /\ i + 1 - 1 = i
    BY <1>2, <1>7
  <2>2. 1 \in 1..Len(link) /\ Len(link) # 0
    BY <1>8, <2>1
  <2>3. link[1] = t[i]
    BY <1>8, <2>1, <2>2
  <2> QED
    BY <2>2, <2>3
<1>10. Begins(link, 1)
  <2>1. CASE t[i] \in {"vme", "vle"} /\ i < b /\ t[i + 1] = "ss"
    <3>1. i + 1 \in i..b /\ t[i + 1] \notin junk
      BY <1>2, <2>1 DEF junk
    <3>2. i + 1 <= hi
      BY <1>6, <3>1
    <3>3. 2 \in 1..(hi - i + 1) /\ i + 2 - 1 = i + 1 /\ 1 < hi - i + 1
      BY <1>2, <1>7, <3>2
    <3>4. 1 < Len(link) /\ link[1 + 1] = t[i + 1]
      BY <1>8, <3>3
    <3> QED
      BY <1>9, <2>1, <3>4 DEF Begins
  <2>2. CASE t[i] = "tro" \/ t[i] = "ss"
    BY <1>9, <2>2 DEF Begins
  <2> QED
    BY <2>1, <2>2 DEF BeginsIn
<1>11. link = Link(t, i)
  <2>1. PICK kept : kept = {j \in c..d : j >= i /\ t[j] \notin junk}
    OBVIOUS
  <2>2. Link(t, i) = SubSeq(t, i, Max(kept))
    <3>1. Stretch(t, i) = c..d
      BY <1>2, StretchOfPart
    <3> QED
      BY <2>1, <3>1 DEF Link, junk
  <2>3. hi \in kept /\ kept # {} /\ kept \in SUBSET (1..Len(t))
    BY <1>1, <1>2, <1>6, <1>7, <2>1
  <2>4. Max(kept) \in kept /\ hi <= Max(kept)
    BY <1>1, <2>3, Bounds
  <2>5. Max(kept) \in c..d /\ Max(kept) >= i /\ t[Max(kept)] \notin junk
    BY <2>1, <2>4
  <2>6. Max(kept) <= b
    <3>1. t[Max(kept)] # "blank"
      BY <2>5 DEF junk
    <3> QED
      BY <2>5, <3>1
  <2>7. Max(kept) \in i..b
    BY <1>1, <1>2, <2>5, <2>6
  <2>8. Max(kept) <= hi
    BY <1>6, <2>5, <2>7
  <2>9. Max(kept) = hi
    BY <1>1, <1>7, <2>4, <2>5, <2>8
  <2>10. IsPiece(t, t, 1, Len(t))
    <3>1. 1 \in 1..(Len(t) + 1) /\ Len(t) \in (1 - 1)..Len(t) /\ Len(t) = Len(t) - 1 + 1
      BY <1>1
    <3>2. \A j \in 1..Len(t) : 1 + j - 1 = j
      OBVIOUS
    <3> QED
      BY <3>1, <3>2 DEF IsPiece
  <2>11. IsPiece(SubSeq(t, i - 1 + 1, hi - 1 + 1), t, i, hi)
    <3>1. i \in 1..Len(t) /\ hi \in i..Len(t)
      BY <1>1, <1>2, <1>7
    <3> QED
      BY <2>10, <3>1, SubPiece
  <2>12. i - 1 + 1 = i /\ hi - 1 + 1 = hi
    BY <1>2, <1>7
  <2>13. IsPiece(SubSeq(t, i, hi), t, i, hi)
    BY <2>11, <2>12
  <2>14. link = SubSeq(t, i, hi)
    BY <1>6, <1>7, <2>13, SamePiece
  <2> QED
    BY <2>2, <2>9, <2>14
<1> QED
  BY <1>5, <1>9, <1>10, <1>11

\* Each part gives one link that begins in it, if there is one.
LEMMA LinkOfPart ==
  ASSUME NEW t \in Seq(Piece), NEW x, NEW c \in Nat, NEW d \in Nat, IsPart(x, t, c, d)
  PROVE  LET link == LinkOf(LineOf(x))
         IN  \/ link = <<>> /\ \A i \in c..d : i \notin Beginnings(t)
             \/ link # <<>> /\ Begins(link, 1) /\ \E i \in c..d : i \in Beginnings(t) /\ link = Link(t, i)
<1>1. c \in Nat \ {0} /\ d \in Nat /\ d <= Len(t) /\ Len(t) \in Nat
  BY PieceFacts DEF IsPart
<1>2. CASE LineOf(x) = <<>> /\ \A i \in c..d : i \notin Beginnings(t)
  <2>1. IsPiece(<<>>, t, 1, 0)
    BY <1>1 DEF IsPiece
  <2>2. ~\E i \in 1..0 : TRUE
    OBVIOUS
  <2>3. LinkOf(<<>>) = <<>>
    BY <2>1, <2>2, FirstOfFirst
  <2> QED
    BY <1>2, <2>3
<1>3. ASSUME NEW a \in Nat, NEW b \in Nat, c <= a, a <= b, b <= d, IsPiece(LineOf(x), t, a, b),
             \A m \in c..d : t[m] # "blank" => a <= m /\ m <= b,
             \A i \in c..d : ~Commented(t, i)
      PROVE  LET link == LinkOf(LineOf(x))
             IN  \/ link = <<>> /\ \A i \in c..d : i \notin Beginnings(t)
                 \/ link # <<>> /\ Begins(link, 1) /\ \E i \in c..d : i \in Beginnings(t) /\ link = Link(t, i)
  <2>1. \A i \in c..d : Begins(t, i) <=> BeginsIn(t, a, b, i)
    BY <1>3, BeginsInLine
  <2>2. \A i \in c..d : i \in Beginnings(t) <=> BeginsIn(t, a, b, i)
    <3>1. \A i \in c..d : i \in DOMAIN t
      BY <1>1
    <3> QED
      BY <1>3, <2>1, <3>1 DEF Beginnings
  <2>3. \A i \in a..b : i \in c..d
    BY <1>3
  <2>4. CASE LinkOf(LineOf(x)) = <<>> /\ \A i \in a..b : ~BeginsIn(t, a, b, i)
    <3>1. \A i \in c..d : ~BeginsIn(t, a, b, i)
      BY <2>4 DEF BeginsIn
    <3> QED
      BY <2>2, <2>4, <3>1
  <2>5. ASSUME NEW i \in a..b, BeginsIn(t, a, b, i), LinkOf(LineOf(x)) = CleanProxy(LineOf(x), i - a + 1)
        PROVE  LET link == LinkOf(LineOf(x))
               IN  link # <<>> /\ Begins(link, 1) /\ \E j \in c..d : j \in Beginnings(t) /\ link = Link(t, j)
    <3>1. PICK link : link = LinkOf(LineOf(x))
      OBVIOUS
    <3>2. link # <<>> /\ Begins(link, 1) /\ link = Link(t, i)
      BY <1>3, <2>5, <3>1, CleanedLink
    <3>3. i \in c..d /\ i \in Beginnings(t)
      BY <2>2, <2>3, <2>5
    <3> QED
      BY <3>1, <3>2, <3>3
  <2> QED
    BY <1>3, <2>4, <2>5, FirstOfFirst
<1> QED
  BY <1>2, <1>3, LineOfPart

\* A text is a piece of itself.
LEMMA WholePiece ==
  ASSUME NEW t \in Seq(Piece)
  PROVE  IsPiece(t, t, 1, Len(t))
<1>1. Len(t) \in Nat
  OBVIOUS
<1>2. 1 \in 1..(Len(t) + 1) /\ Len(t) \in (1 - 1)..Len(t) /\ Len(t) = Len(t) - 1 + 1
  BY <1>1
<1>3. \A j \in 1..Len(t) : 1 + j - 1 = j
  OBVIOUS
<1> QED
  BY <1>2, <1>3 DEF IsPiece

\* The line of a part and the link of a line are texts; nothing has no link.
LEMMA DecoderTypes ==
  /\ \A y \in Seq(Piece) : LineOf(y) \in Seq(Piece) /\ LinkOf(y) \in Seq(Piece)
  /\ LinkOf(<<>>) = <<>>
<1>1. ASSUME NEW y \in Seq(Piece), NEW junk PROVE TrimSet(y, junk) \in Seq(Piece)
  <2>1. IsPiece(y, y, 1, Len(y))
    BY WholePiece
  <2>2. CASE \A m \in 1..Len(y) : y[m] \in junk
    <3>1. TrimSet(y, junk) = <<>>
      BY <2>1, <2>2, TrimPiece
    <3> QED
      BY <3>1
  <2>3. CASE \E m \in 1..Len(y) : y[m] \notin junk
    <3>1. \E lo, hi \in Nat : IsPiece(TrimSet(y, junk), y, lo, hi)
      BY <2>1, <2>3, TrimPiece
    <3> QED
      BY <3>1 DEF IsPiece
  <2> QED
    BY <2>2, <2>3
<1>2. ASSUME NEW y \in Seq(Piece) PROVE LineOf(y) \in Seq(Piece)
  <2>1. <<>> \in Seq(Piece)
    OBVIOUS
  <2>2. TrimSet(y, {"blank"}) \in Seq(Piece)
    BY <1>1
  <2> QED
    BY <2>1, <2>2 DEF LineOf
<1>3. ASSUME NEW y \in Seq(Piece) PROVE LinkOf(y) \in Seq(Piece)
  <2>1. IsPiece(y, y, 1, Len(y)) /\ Len(y) \in Nat
    BY WholePiece
  <2>2. CASE LinkOf(y) = <<>>
    <3>1. <<>> \in Seq(Piece)
      OBVIOUS
    <3> QED
      BY <2>2, <3>1
  <2>3. ASSUME NEW i \in 1..Len(y), LinkOf(y) = CleanProxy(y, i - 1 + 1) PROVE LinkOf(y) \in Seq(Piece)
    <3>1. Len(y) \in i..Len(y) /\ Len(y) - 1 + 1 = Len(y)
      BY <2>1
    <3>2. IsPiece(SubSeq(y, i - 1 + 1, Len(y) - 1 + 1), y, i, Len(y))
      BY <2>1, <3>1, SubPiece
    <3>3. SubSeq(y, i - 1 + 1, Len(y)) \in Seq(Piece)
      BY <3>1, <3>2 DEF IsPiece
    <3> QED
      BY <1>1, <2>3, <3>3 DEF CleanProxy
  <2> QED
    BY <2>1, <2>2, <2>3, FirstOfFirst
<1>4. LinkOf(<<>>) = <<>>
  <2>1. <<>> \in Seq(Piece) /\ IsPiece(<<>>, <<>>, 1, 0)
    BY DEF IsPiece
  <2>2. ~\E i \in 1..0 : TRUE
    OBVIOUS
  <2> QED
    BY <2>1, <2>2, FirstOfFirst
<1> QED
  BY <1>2, <1>3, <1>4

\* The links of the parts, empty where a part has none.
PartLinks(t) == [k \in DOMAIN RawParts(t) |-> LinkOf(LineOf(RawParts(t)[k]))]

\* ExtractProxyURLs drops empty lines and then empty links; all at once is the same.
LEMMA LinksOfParts ==
  ASSUME NEW t \in Seq(Piece)
  PROVE  LET lines == SplitLines(t)
         IN  NonEmpty([k \in DOMAIN lines |-> LinkOf(lines[k])]) = NonEmpty(PartLinks(t))
<1> DEFINE g == [y \in Seq(Piece) |-> LineOf(y)]
           h == [y \in Seq(Piece) |-> LinkOf(y)]
<1>1. PICK parts \in Seq(Seq(Piece)) : parts = RawParts(t)
  BY RawPartsOf DEF PartLists
<1>2. /\ g \in [Seq(Piece) -> Seq(Piece)] /\ h \in [Seq(Piece) -> Seq(Piece)]
      /\ \A y \in Seq(Piece) : g[y] = LineOf(y) /\ h[y] = LinkOf(y)
  BY DecoderTypes
<1>3. h[<<>>] = <<>>
  <2>1. <<>> \in Seq(Piece)
    OBVIOUS
  <2> QED
    BY <2>1, DecoderTypes
<1> HIDE DEF g, h
<1>4. \A s \in Seq(Seq(Piece)) : Each(g, s) \in Seq(Seq(Piece))
  BY <1>2, EachType
<1>5. \A k \in DOMAIN parts : parts[k] \in Seq(Piece)
  BY ElementOfSeq
<1>6. SplitLines(t) = NonEmpty(Each(g, parts))
  BY <1>1, <1>2, <1>5 DEF SplitLines, Each
<1>7. PICK s \in Seq(Seq(Piece)) : s = Each(g, parts)
  BY <1>4
<1>8. PICK lines \in Seq(Seq(Piece)) : lines = NonEmpty(s)
  BY NonEmptyOf
<1>9. [k \in DOMAIN lines |-> LinkOf(lines[k])] = Each(h, lines)
  <2>1. \A k \in DOMAIN lines : lines[k] \in Seq(Piece)
    BY ElementOfSeq
  <2> QED
    BY <1>2, <2>1 DEF Each
<1>10. NonEmpty(Each(h, lines)) = NonEmpty(Each(h, s))
  BY <1>2, <1>3, <1>8, NonEmptyTwice
<1>11. Each(h, s) = PartLinks(t)
  <2>1. s = [k \in DOMAIN parts |-> LineOf(parts[k])]
    BY <1>2, <1>5, <1>7 DEF Each
  <2>2. DOMAIN s = DOMAIN parts /\ \A k \in DOMAIN parts : s[k] = LineOf(parts[k])
    BY <2>1
  <2>3. \A k \in DOMAIN s : s[k] \in Seq(Piece)
    BY ElementOfSeq
  <2>4. Each(h, s) = [k \in DOMAIN parts |-> LinkOf(LineOf(parts[k]))]
    BY <1>2, <2>2, <2>3 DEF Each
  <2> QED
    BY <1>1, <2>4 DEF PartLinks
<1> QED
  BY <1>6, <1>7, <1>8, <1>9, <1>10, <1>11

-----------------------------------------------------------------------------

\* The positions of part k.
Own(st, k) == st[k]..(st[k + 1] - 2)

\* What the parts are to the links that begin in them.
PartsLinked(t, st, m) ==
  /\ m \in Seq(Seq(Piece))
  /\ \A k \in 1..Len(m) : st[k] \in Nat /\ st[k + 1] \in Nat /\ st[k] < st[k + 1]
  /\ \A k, l \in 1..Len(m) : k < l => st[k + 1] <= st[l]
  /\ \A k \in 1..Len(m) : \A i \in Own(st, k) : Stretch(t, i) = Own(st, k)
  /\ \A i \in Beginnings(t) : i \in Nat /\ \E k \in 1..Len(m) : i \in Own(st, k)
  /\ \A k \in 1..Len(m) :
       \/ m[k] = <<>> /\ \A i \in Own(st, k) : i \notin Beginnings(t)
       \/ m[k] # <<>> /\ Begins(m[k], 1) /\ \E i \in Own(st, k) : i \in Beginnings(t) /\ m[k] = Link(t, i)

\* The parts of every text are so (SplitLines and LinkOf).
LEMMA PartsAreLinked ==
  ASSUME NEW t \in Seq(Piece)
  PROVE  \E st : PartsLinked(t, st, PartLinks(t))
<1>1. PICK parts \in Seq(Seq(Piece)) : parts = RawParts(t)
  BY RawPartsOf DEF PartLists
<1>2. PICK st \in Seq(Nat \ {0}) : AreCuts(t, parts, st)
  BY <1>1, PartsHaveCuts DEF HasCuts
<1>3. PICK m : m = PartLinks(t)
  OBVIOUS
<1>4. PICK n \in Nat : n = Len(parts)
  OBVIOUS
<1>5. /\ \A k \in 1..n : parts[k] \in Seq(Piece)
      /\ DOMAIN parts = 1..n
  BY <1>4, ElementOfSeq
<1>6. m = [k \in 1..n |-> LinkOf(LineOf(parts[k]))]
  BY <1>1, <1>3, <1>5 DEF PartLinks
<1>7. m \in Seq(Seq(Piece)) /\ Len(m) = n
  <2>1. \A k \in 1..n : LinkOf(LineOf(parts[k])) \in Seq(Piece)
    BY <1>5, DecoderTypes
  <2>2. m \in [1..n -> Seq(Piece)]
    BY <1>6, <2>1
  <2>3. m \in Seq(Seq(Piece))
    BY <2>2, SeqDef
  <2> QED
    BY <2>2, <2>3, LenProperties
<1>8. \A k \in 1..n : m[k] = LinkOf(LineOf(parts[k]))
  BY <1>6
<1>9. /\ Len(st) = n + 1
      /\ \A k \in 1..n : \A l \in 1..(n + 1) : k < l => st[k] < st[l]
  BY <1>2, <1>4 DEF AreCuts
<1>10. \A k \in 1..(n + 1) : st[k] \in Nat \ {0}
  BY <1>9, ElementOfSeq
<1>11. \A k \in 1..n : /\ st[k] \in Nat /\ st[k + 1] \in Nat /\ st[k] < st[k + 1]
                       /\ st[k + 1] - 2 \in Nat
  <2> SUFFICES ASSUME NEW k \in 1..n
               PROVE  /\ st[k] \in Nat /\ st[k + 1] \in Nat /\ st[k] < st[k + 1]
                      /\ st[k + 1] - 2 \in Nat
    OBVIOUS
  <2>1. k \in 1..(n + 1) /\ k + 1 \in 1..(n + 1) /\ k < k + 1
    OBVIOUS
  <2>2. st[k] \in Nat \ {0} /\ st[k + 1] \in Nat /\ st[k] < st[k + 1]
    BY <1>9, <1>10, <2>1
  <2> QED
    BY <2>2
<1>12. ASSUME NEW k \in 1..n, NEW l \in 1..n, k < l PROVE st[k + 1] <= st[l]
  <2>1. CASE k + 1 = l
    <3>1. st[l] \in Nat
      BY <1>11
    <3> QED
      BY <2>1, <3>1
  <2>2. CASE k + 1 < l
    <3>1. k + 1 \in 1..n /\ l \in 1..(n + 1)
      BY <2>2
    <3>2. st[k + 1] < st[l] /\ st[k + 1] \in Nat /\ st[l] \in Nat
      BY <1>9, <1>11, <2>2, <3>1
    <3> QED
      BY <3>2
  <2> QED
    BY <1>12, <2>1, <2>2
<1>13. \A k \in 1..n : IsPart(parts[k], t, st[k], st[k + 1] - 2)
  BY <1>2, <1>4, PartOfCuts
<1>14. \A k \in 1..n : \A i \in Own(st, k) : Stretch(t, i) = Own(st, k)
  BY <1>13, StretchOfPart DEF Own
<1>15. ASSUME NEW i \in Beginnings(t) PROVE i \in Nat /\ \E k \in 1..n : i \in Own(st, k)
  <2>1. i \in 1..Len(t) /\ t[i] \notin ConfigSeparators
    <3>1. i \in DOMAIN t /\ Begins(t, i)
      BY DEF Beginnings
    <3>2. t[i] \in {"vme", "vle", "tro", "ss"}
      BY <3>1 DEF Begins
    <3>3. \A p \in {"vme", "vle", "tro", "ss"} : p \notin ConfigSeparators
      BY DEF ConfigSeparators
    <3>4. DOMAIN t = 1..Len(t)
      OBVIOUS
    <3> QED
      BY <3>1, <3>2, <3>3, <3>4
  <2>2. PICK k \in 1..n : st[k] <= i /\ i <= st[k + 1] - 2
    BY <1>2, <1>4, <2>1 DEF AreCuts
  <2>3. i \in Own(st, k)
    BY <1>11, <2>1, <2>2 DEF Own
  <2> QED
    BY <2>1, <2>3
<1>16. ASSUME NEW k \in 1..n
       PROVE  \/ m[k] = <<>> /\ \A i \in Own(st, k) : i \notin Beginnings(t)
              \/ m[k] # <<>> /\ Begins(m[k], 1) /\ \E i \in Own(st, k) : i \in Beginnings(t) /\ m[k] = Link(t, i)
  <2>1. PICK c \in Nat, d \in Nat : c = st[k] /\ d = st[k + 1] - 2
    BY <1>11
  <2>2. IsPart(parts[k], t, c, d) /\ Own(st, k) = c..d
    BY <1>13, <2>1 DEF Own
  <2>3. PICK link : link = LinkOf(LineOf(parts[k]))
    OBVIOUS
  <2>4. \/ link = <<>> /\ \A i \in c..d : i \notin Beginnings(t)
        \/ link # <<>> /\ Begins(link, 1) /\ \E i \in c..d : i \in Beginnings(t) /\ link = Link(t, i)
    BY <2>2, <2>3, LinkOfPart
  <2> QED
    BY <1>8, <2>2, <2>3, <2>4
<1>17. PartsLinked(t, st, m)
  BY <1>7, <1>11, <1>12, <1>14, <1>15, <1>16 DEF PartsLinked
<1> QED
  BY <1>3, <1>17

-----------------------------------------------------------------------------

\* As many stretches as filled parts, up to any of them.
LEMMA StretchesUpTo ==
  ASSUME NEW t, NEW st, NEW m, PartsLinked(t, st, m), NEW k \in 0..Len(m)
  PROVE  Cardinality({Stretch(t, i) : i \in {j \in Beginnings(t) : \E l \in 1..k : j \in Own(st, l)}})
           = Cardinality(Filled(m, k))
<1> DEFINE D == Filled(m, k)
           S == {Stretch(t, i) : i \in {j \in Beginnings(t) : \E l \in 1..k : j \in Own(st, l)}}
           f == [l \in D |-> Own(st, l)]
<1>1. /\ Len(m) \in Nat
      /\ \A l \in 1..Len(m) : st[l] \in Nat /\ st[l + 1] \in Nat /\ st[l] < st[l + 1]
      /\ \A l, o \in 1..Len(m) : l < o => st[l + 1] <= st[o]
      /\ \A l \in 1..Len(m) : \A i \in Own(st, l) : Stretch(t, i) = Own(st, l)
      /\ \A l \in 1..Len(m) :
           \/ m[l] = <<>> /\ \A i \in Own(st, l) : i \notin Beginnings(t)
           \/ m[l] # <<>> /\ \E i \in Own(st, l) : i \in Beginnings(t)
  <2>1. m \in Seq(Seq(Piece))
    BY DEF PartsLinked
  <2>2. Len(m) \in Nat
    BY <2>1
  <2>3. \A l \in 1..Len(m) :
           \/ m[l] = <<>> /\ \A i \in Own(st, l) : i \notin Beginnings(t)
           \/ m[l] # <<>> /\ \E i \in Own(st, l) : i \in Beginnings(t)
    BY DEF PartsLinked
  <2>4. /\ \A l \in 1..Len(m) : st[l] \in Nat /\ st[l + 1] \in Nat /\ st[l] < st[l + 1]
        /\ \A l, o \in 1..Len(m) : l < o => st[l + 1] <= st[o]
        /\ \A l \in 1..Len(m) : \A i \in Own(st, l) : Stretch(t, i) = Own(st, l)
    BY DEF PartsLinked
  <2> QED
    BY <2>2, <2>3, <2>4
<1>2. k \in Nat /\ \A l \in 1..k : l \in 1..Len(m)
  BY <1>1
<1>3. IsFiniteSet(D)
  BY <1>2, FilledFacts
<1>4. \A l \in D : l \in 1..k /\ m[l] # <<>>
  BY DEF Filled
<1>5. ASSUME NEW l \in D PROVE Own(st, l) \in S
  <2>1. PICK i \in Own(st, l) : i \in Beginnings(t)
    BY <1>1, <1>2, <1>4
  <2>2. Stretch(t, i) = Own(st, l)
    BY <1>1, <1>2, <1>4
  <2> QED
    BY <1>4, <2>1, <2>2
<1>6. ASSUME NEW o \in S PROVE \E l \in D : o = Own(st, l)
  <2>1. PICK i \in Beginnings(t), l \in 1..k : i \in Own(st, l) /\ o = Stretch(t, i)
    OBVIOUS
  <2>2. l \in D
    BY <1>1, <1>2, <2>1 DEF Filled
  <2> QED
    BY <1>1, <1>2, <2>1, <2>2
<1>7. ASSUME NEW l \in D, NEW o \in D, l < o PROVE Own(st, l) # Own(st, o)
  <2>1. PICK i \in Own(st, l) : TRUE
    BY <1>1, <1>2, <1>4
  <2>2. l \in 1..Len(m) /\ o \in 1..Len(m) /\ st[l + 1] <= st[o]
    BY <1>1, <1>2, <1>4, <1>7
  <2>3. PICK a \in Nat, b \in Nat, c \in Nat : a = st[l] /\ b = st[l + 1] /\ c = st[o]
    BY <1>1, <2>2
  <2>4. i \in a..(b - 2) /\ b <= c
    BY <2>1, <2>2, <2>3 DEF Own
  <2>5. ~(c <= i)
    BY <2>4
  <2>6. i \notin Own(st, o)
    BY <2>3, <2>5 DEF Own
  <2> QED
    BY <2>1, <2>6
<1> HIDE DEF D, S
<1>8. f \in Surjection(D, S)
  <2>1. f \in [D -> S]
    BY <1>5
  <2>2. \A o \in S : \E l \in D : f[l] = o
    BY <1>6
  <2> QED
    BY <2>1, <2>2 DEF Surjection
<1>9. f \in Injection(D, S)
  <2>1. \A l, o \in D : f[l] = f[o] => l = o
    <3> SUFFICES ASSUME NEW l \in D, NEW o \in D, f[l] = f[o] PROVE l = o
      OBVIOUS
    <3>1. ~(l < o) /\ ~(o < l)
      BY <1>7
    <3>2. l \in Nat /\ o \in Nat
      BY <1>2, <1>4
    <3> QED
      BY <3>1, <3>2
  <2> QED
    BY <1>8, <2>1 DEF Surjection, Injection, IsInjective
<1> HIDE DEF f
<1>10. Cardinality(S) = Cardinality(D)
  BY <1>3, <1>8, <1>9, FS_Surjection
<1> QED
  BY <1>10 DEF S, D

\* Each link alone on its stretch comes through, whole and in its place, for
\* every text: the decoder cuts at separators and looks for the protocols, the
\* statement speaks of positions only (ExtractProxyURLs).
THEOREM LinksOfAny ==
  ASSUME NEW t \in Seq(Piece)
  PROVE  LinksAreThere(t, NonEmpty(PartLinks(t)))
<1> DEFINE begins == Beginnings(t)
           place(i) == Cardinality({Stretch(t, j) : j \in {l \in begins : l <= i}})
<1>1. PICK st : PartsLinked(t, st, PartLinks(t))
  BY PartsAreLinked
<1>2. PICK m \in Seq(Seq(Piece)) : m = PartLinks(t)
  BY <1>1 DEF PartsLinked
<1>3. PICK links : links = NonEmpty(m)
  OBVIOUS
<1>4. PartsLinked(t, st, m)
  BY <1>1, <1>2
<1>5. PICK n \in Nat : n = Len(m)
  OBVIOUS
<1>6. /\ \A k \in 1..n : st[k] \in Nat /\ st[k + 1] \in Nat /\ st[k] < st[k + 1]
      /\ \A k, l \in 1..n : k < l => st[k + 1] <= st[l]
      /\ \A k \in 1..n : \A i \in Own(st, k) : Stretch(t, i) = Own(st, k)
      /\ \A i \in begins : i \in Nat /\ \E k \in 1..n : i \in Own(st, k)
      /\ \A k \in 1..n :
           \/ m[k] = <<>> /\ \A i \in Own(st, k) : i \notin begins
           \/ m[k] # <<>> /\ Begins(m[k], 1) /\ \E i \in Own(st, k) : i \in begins /\ m[k] = Link(t, i)
  BY <1>4, <1>5 DEF PartsLinked
<1>7. /\ Len(links) = Cardinality(Filled(m, n))
      /\ \A k \in Filled(m, n) : links[Cardinality(Filled(m, k))] = m[k]
      /\ \A l \in 1..Len(links) : \E k \in Filled(m, n) : links[l] = m[k]
  BY <1>3, <1>5, NonEmptyPlaces DEF ArePlaced
<1>8. \A k \in Filled(m, n) : k \in 1..n /\ m[k] # <<>>
  BY DEF Filled
<1>9. \A k \in 0..n :
        Cardinality({Stretch(t, i) : i \in {j \in begins : \E l \in 1..k : j \in Own(st, l)}})
          = Cardinality(Filled(m, k))
  BY <1>4, <1>5, StretchesUpTo
<1> HIDE DEF begins
<1>10. Len(links) = Cardinality({Stretch(t, i) : i \in begins})
  <2>1. {j \in begins : \E l \in 1..n : j \in Own(st, l)} = begins
    BY <1>6
  <2>2. n \in 0..n
    OBVIOUS
  <2> QED
    BY <1>7, <1>9, <2>1, <2>2
<1>11. ASSUME NEW i \in begins, Stretch(t, i) \intersect begins = {i}
       PROVE  links[place(i)] = Link(t, i)
  <2>1. PICK k \in 1..n : i \in Own(st, k)
    BY <1>6
  <2>2. Stretch(t, i) = Own(st, k)
    BY <1>6, <2>1
  <2>3. m[k] # <<>> /\ m[k] = Link(t, i)
    <3>1. PICK o \in Own(st, k) : o \in begins /\ m[k] = Link(t, o) /\ m[k] # <<>>
      BY <1>6, <2>1
    <3>2. o = i
      BY <1>11, <2>2, <3>1
    <3> QED
      BY <3>1, <3>2
  <2>4. k \in Filled(m, n)
    BY <2>3 DEF Filled
  <2>5. {Stretch(t, j) : j \in {l \in begins : l <= i}}
          = {Stretch(t, j) : j \in {o \in begins : \E l \in 1..k : o \in Own(st, l)}}
    <3>1. ASSUME NEW j \in begins, j <= i PROVE \E l \in 1..k : j \in Own(st, l)
      <4>1. PICK l \in 1..n : j \in Own(st, l)
        BY <1>6
      <4>2. ~(k < l)
        <5> SUFFICES ASSUME k < l PROVE FALSE
          OBVIOUS
        <5>1. st[k + 1] <= st[l]
          BY <1>6
        <5>2. PICK a \in Nat, b \in Nat : a = st[k + 1] /\ b = st[l]
          BY <1>6
        <5>3. i <= a - 2 /\ b <= j /\ a <= b /\ i \in Nat /\ j \in Nat
          BY <1>6, <2>1, <4>1, <5>1, <5>2 DEF Own
        <5> QED
          BY <3>1, <5>3
      <4> QED
        BY <4>1, <4>2
    <3>2. ASSUME NEW j \in begins, NEW l \in 1..k, j \in Own(st, l), ~(j <= i)
          PROVE  Stretch(t, j) = Stretch(t, i)
      <4>1. ~(l < k)
        <5> SUFFICES ASSUME l < k PROVE FALSE
          OBVIOUS
        <5>1. l \in 1..n /\ st[l + 1] <= st[k]
          BY <1>6
        <5>2. PICK a \in Nat, b \in Nat : a = st[l + 1] /\ b = st[k]
          BY <1>6, <5>1
        <5>3. j <= a - 2 /\ b <= i /\ a <= b /\ i \in Nat /\ j \in Nat
          BY <1>6, <2>1, <3>2, <5>1, <5>2 DEF Own
        <5> QED
          BY <3>2, <5>3
      <4>2. l = k
        BY <4>1
      <4> QED
        BY <1>6, <2>1, <3>2, <4>2
    <3>3. i <= i
      BY <1>6
    <3>4. \A o \in begins : o <= i => o \in {j \in begins : \E l \in 1..k : j \in Own(st, l)}
      BY <3>1
    <3>5. \A o \in {j \in begins : \E l \in 1..k : j \in Own(st, l)} :
            \E j \in {l \in begins : l <= i} : Stretch(t, o) = Stretch(t, j)
      <4> SUFFICES ASSUME NEW o \in begins, NEW l \in 1..k, o \in Own(st, l)
                   PROVE  \E j \in {b \in begins : b <= i} : Stretch(t, o) = Stretch(t, j)
        OBVIOUS
      <4>1. CASE o <= i
        BY <4>1
      <4>2. CASE ~(o <= i)
        BY <3>2, <3>3, <4>2
      <4> QED
        BY <4>1, <4>2
    <3> QED
      BY <3>4, <3>5
  <2>6. place(i) = Cardinality(Filled(m, k))
    <3>1. k \in 0..n
      OBVIOUS
    <3> QED
      BY <1>9, <2>5, <3>1
  <2> QED
    BY <1>7, <2>3, <2>4, <2>6
<1>12. ASSUME NEW l \in DOMAIN links PROVE Begins(links[l], 1)
  <2>1. l \in 1..Len(links)
    <3>1. links \in Seq(Seq(Piece))
      BY <1>3, NonEmptyOf
    <3> QED
      BY <3>1
  <2>2. PICK k \in Filled(m, n) : links[l] = m[k]
    BY <1>7, <2>1
  <2> QED
    BY <1>6, <1>8, <2>2
<1>13. LinksAreThere(t, links)
  BY <1>10, <1>11, <1>12 DEF LinksAreThere, begins
<1> QED
  BY <1>2, <1>3, <1>13

\* Bodies of any text, whatever alphabet and padding they are coded with.
EveryBody ==
  [text : Seq(Piece), alphabet : {"none", "both", "std", "url", "mixed"},
   rest : {0, 2, 3}, pad : 0..3]

\* Plain or coded as it should be, a body is read: what is missing of its
\* padding is completed.
LEMMA BodiesRead ==
  ASSUME NEW b \in EveryBody, b.alphabet = "none" \/ WellCoded(b)
  PROVE  DecodeBase64Safe(b) = b.text
<1>1. /\ b.alphabet \in {"none", "both", "std", "url", "mixed"}
      /\ b.rest \in {0, 2, 3} /\ b.pad \in 0..3
  BY DEF EveryBody
<1>2. CASE b.alphabet = "none"
  BY <1>2 DEF DecodeBase64Safe
<1>3. CASE b.alphabet # "none"
  <2>1. PICK a \in {"std", "url"} : b.alphabet \in {"both", a}
    BY <1>1, <1>3 DEF WellCoded
  <2>2. b.pad <= Needed(b)
    BY <1>3 DEF WellCoded
  <2>3. CASE b.pad = 0
    <3>1. Decodes(b, a, TRUE)
      BY <2>1, <2>3 DEF Decodes
    <3>2. Decodable(b)
      BY <3>1 DEF Decodable
    <3> QED
      BY <3>2 DEF DecodeBase64Safe
  <2>4. CASE b.pad = Needed(b)
    <3>1. Decodes(b, a, FALSE)
      BY <2>1, <2>4 DEF Decodes
    <3>2. Decodable(b)
      BY <3>1 DEF Decodable
    <3> QED
      BY <3>2 DEF DecodeBase64Safe
  <2>5. CASE b.pad # 0 /\ b.pad # Needed(b)
    <3>1. b.rest = 2 /\ b.pad = 1
      BY <1>1, <2>2, <2>5 DEF Needed
    <3>2. PICK c : c = Padded(b)
      OBVIOUS
    <3>3. c = [b EXCEPT !.pad = @ + 4 - 3]
      BY <3>1, <3>2 DEF Padded
    <3>4. c.alphabet = b.alphabet /\ c.rest = 2 /\ c.pad = 2
      BY <3>1, <3>3 DEF EveryBody
    <3>5. c.pad = Needed(c)
      BY <3>4 DEF Needed
    <3>6. Decodes(c, a, FALSE)
      BY <2>1, <3>4, <3>5 DEF Decodes
    <3>7. Decodable(Padded(b))
      BY <3>2, <3>6 DEF Decodable
    <3> QED
      BY <3>7 DEF DecodeBase64Safe
  <2> QED
    BY <2>3, <2>4, <2>5
<1> QED
  BY <1>2, <1>3

\* The links of every body that is plain or well coded come through.
THEOREM BodiesComeThrough == ASSUME NEW b \in EveryBody PROVE LinksComeThroughOf(b)
<1> SUFFICES ASSUME b.alphabet = "none" \/ WellCoded(b)
             PROVE  LinksAreThere(b.text, ExtractProxyURLs(b))
  BY DEF LinksComeThroughOf
<1>1. PICK t \in Seq(Piece) : t = b.text
  BY DEF EveryBody
<1>2. DecodeBase64Safe(b) = t
  BY <1>1, BodiesRead
<1>3. PICK lines : lines = SplitLines(t)
  OBVIOUS
<1>4. NonEmpty([k \in DOMAIN lines |-> LinkOf(lines[k])]) = NonEmpty(PartLinks(t))
  BY <1>3, LinksOfParts
<1>5. ExtractProxyURLs(b) = NonEmpty([k \in DOMAIN lines |-> LinkOf(lines[k])])
  BY <1>2, <1>3 DEF ExtractProxyURLs
<1> QED
  BY <1>1, <1>4, <1>5, LinksOfAny

\* The bodies of the run are some of these.
LEMMA TextsAmongThem ==
  /\ [of : {"body"}, body : {PlainBody(t) : t \in Texts}
                              \union UNION {CodedBodies(t) : t \in CodedTexts}]
       \subseteq [of : {"body"}, body : EveryBody]
<1>1. ASSUME NEW S, NEW n \in Nat, S \subseteq Piece PROVE SeqsUpTo(S, n) \subseteq Seq(Piece)
  <2>1. SeqsUpTo(S, n) \subseteq Seq(S)
    BY DEF SeqsUpTo
  <2>2. Seq(S) \subseteq Seq(Piece)
    BY <1>1, SeqMonotonic
  <2> QED
    BY <2>1, <2>2
<1>2. /\ {"vme", "ss", "tro", "q", "#"} \subseteq Piece /\ {"vle", "ss", "x", "blank"} \subseteq Piece
      /\ {"vme", "ss", "nl"} \subseteq Piece /\ {"nl", ","} \subseteq Piece /\ Piece \subseteq Piece
  BY DEF Piece
<1>3. ASSUME NEW t \in Texts PROVE t \in Seq(Piece)
  <2>1. CASE t \in SeqsUpTo(Piece, 4)
    BY <1>1, <1>2, <2>1
  <2>2. CASE t \in TwoLines
    <3>1. FirstLines \subseteq Seq(Piece) /\ SecondLines \subseteq Seq(Piece)
      BY <1>1, <1>2 DEF FirstLines, SecondLines
    <3>2. ConfigSeparators \subseteq Piece
      BY <1>2 DEF ConfigSeparators
    <3>3. PICK a \in FirstLines, s \in ConfigSeparators, b \in SecondLines : t = TwoLined(a, s, b)
      BY <2>2 DEF TwoLines
    <3>4. a \in Seq(Piece) /\ <<s>> \in Seq(Piece) /\ b \in Seq(Piece)
      BY <3>1, <3>2
    <3> QED
      BY <3>3, <3>4 DEF TwoLined
  <2> QED
    BY <2>1, <2>2 DEF Texts
<1>4. CodedTexts \subseteq Seq(Piece)
  BY <1>1, <1>2 DEF CodedTexts
<1>5. ASSUME NEW t \in Seq(Piece) PROVE PlainBody(t) \in EveryBody /\ CodedBodies(t) \subseteq EveryBody
  BY DEF PlainBody, CodedBodies, EveryBody
<1> QED
  BY <1>3, <1>4, <1>5

-----------------------------------------------------------------------------

\* Translations of inputs of every size.

EveryInput(L) ==
  [of : {"body"}, body : EveryBody]
    \union [of : {"node"}, node : TestedNode]
    \union [of : {"results"}, results : Seq(VerifiedNodes(L)), limit : Int]
    \union [of : {"settings"}, env : Setting, flags : Setting, total : Nat \ {0}]
    \union [of : {"answers"}, answers : Seq(Answer)]
    \union [of : {"nodes"}]

EverySpec(L) == input \in EveryInput(L) /\ [][MCNext]_<<vars, input>>

\* The inputs of the run are some of these.
LEMMA InputsAmongThem ==
  Inputs \subseteq EveryInput({"cdn", "org"})
<1> DEFINE L == {"cdn", "org"}
<1>1. ASSUME NEW S, NEW n \in Nat PROVE SeqsUpTo(S, n) \subseteq Seq(S)
  BY DEF SeqsUpTo
<1>2. Verified \subseteq VerifiedNodes(L)
  <2>1. Results \subseteq Tested(L)
    <3>1. <<"cdn">> \in OrgWord(L) /\ <<"org">> \in OrgWord(L)
      BY DEF OrgWord
    <3> DEFINE orgs == {<<>>, << <<"org">> >>, << <<"cdn">>, <<"org">> >>}
    <3>2. orgs \subseteq Seq(OrgWord(L))
      BY <3>1
    <3>3. Results = {[org |-> o, tls |-> t, connMode |-> <<>>, remark |-> <<>>] :
                       o \in orgs, t \in BOOLEAN}
      BY DEF Results
    <3> HIDE DEF L, orgs
    <3> QED
      BY <3>2, <3>3 DEF Tested
  <2>2. {<<"cdn">>, <<"cdn", "sni">>, <<"sni", "direct">>, <<"cdn", "sni", "direct">>}
          \subseteq Passed
    BY DEF Passed, Mode
  <2> HIDE DEF L
  <2> QED
    BY <2>1, <2>2 DEF Verified, VerifiedNodes
<1>3. SeqsUpTo(Verified, 2) \subseteq Seq(VerifiedNodes(L))
  <2>1. Seq(Verified) \subseteq Seq(VerifiedNodes(L))
    <3> HIDE DEF L
    <3> QED
      BY <1>2, SeqMonotonic
  <2> QED
    BY <1>1, <2>1
<1>4. SeqsUpTo(Answer, 2) \subseteq Seq(Answer)
  BY <1>1
<1>5. Variables \subseteq Setting /\ Flags \subseteq Setting
  <2> DEFINE V == [valid : BOOLEAN, value : Int]
  <2>1. NotANumber \in V /\ \A n \in Int : Number(n) \in V
    BY DEF NotANumber, Number
  <2>2. \A n \in Values : n \in Int
    BY DEF Values
  <2> HIDE DEF V
  <2>3. Variables \subseteq [Numbers -> V] /\ Flags \subseteq [Numbers -> V]
    BY <2>1, <2>2 DEF Variables, Flags
  <2> QED
    BY <2>3 DEF Setting, V
<1> HIDE DEF L
<1>6. Inputs \subseteq EveryInput(L)
  BY <1>3, <1>4, <1>5, TextsAmongThem DEF Inputs, EveryInput
<1> QED
  BY <1>6 DEF L

\* What the run checks is a part of what is proved.
THEOREM RunAmongThem == MCSpec => EverySpec({"cdn", "org"})
<1> DEFINE L == {"cdn", "org"}
<1>1. MCInit => input \in EveryInput(L)
  <2>1. [of |-> "nodes"] \in EveryInput(L)
    BY DEF EveryInput
  <2> QED
    BY <2>1, InputsAmongThem DEF MCInit
<1> QED
  BY <1>1, PTL DEF MCSpec, EverySpec

\* The input is only read.
LEMMA InputStays == ASSUME NEW L PROVE EverySpec(L) => [](input \in EveryInput(L))
<1> DEFINE I == input \in EveryInput(L)
<1>1. I /\ [MCNext]_<<vars, input>> => I'
  BY DEF MCNext, vars
<1> QED
  BY <1>1, PTL DEF EverySpec

\* In every mode every node is tested as itself.
THEOREM ModesKept == ASSUME NEW L PROVE EverySpec(L) => []ModesKeepTheNode
<1>1. input \in EveryInput(L) => ModesKeepTheNode
  <2>1. input \in EveryInput(L) /\ input.of = "node" => input.node \in TestedNode
    BY DEF EveryInput
  <2> QED
    BY <2>1, ModesAreAboutTheNode DEF ModesKeepTheNode
<1> QED
  BY <1>1, InputStays, PTL

\* Whatever is set, the pools have a slot, testing does not stop short of what is
\* collected, and a probe is not cut off by its client before its context.
THEOREM SettingsFitEverywhere == ASSUME NEW L PROVE EverySpec(L) => []SettingsFit
<1>1. input \in EveryInput(L) => SettingsFit
  <2>1. input \in EveryInput(L) /\ input.of = "settings" => input.env \in Setting /\ input.flags \in Setting /\ input.total \in Nat \ {0}
    BY DEF EveryInput
  <2> QED
    BY <2>1, SettingsAlwaysFit DEF SettingsFit
<1> QED
  BY <1>1, InputStays, PTL

\* Every account is one node in one mode, and the table gets just the accounts.
THEOREM AccountsExpanded == ASSUME NEW L PROVE EverySpec(L) => []AccountPerMode
<1>1. input \in EveryInput(L) => AccountPerMode
  <2>1. input \in EveryInput(L) /\ input.of = "results" => input.results \in Seq(VerifiedNodes(L)) /\ input.limit \in Int
    BY DEF EveryInput
  <2> QED
    BY <2>1, AccountsOfAny DEF AccountPerMode
<1> QED
  BY <1>1, InputStays, PTL

\* A verdict has a whole answer behind it and a country that came in by then, and
\* these two are enough.
THEOREM VerdictsGiven == ASSUME NEW L PROVE EverySpec(L) => []ProbeVerdict
<1>1. input \in EveryInput(L) => ProbeVerdict
  <2>1. input \in EveryInput(L) /\ input.of = "answers" => input.answers \in Seq(Answer)
    BY DEF EveryInput
  <2> QED
    BY <2>1, VerdictOfAny DEF ProbeVerdict
<1> QED
  BY <1>1, InputStays, PTL

\* Every link that a line has to itself comes through, whole and in its place.
THEOREM LinksFound == ASSUME NEW L PROVE EverySpec(L) => []LinksComeThrough
<1>1. input \in EveryInput(L) => LinksComeThrough
  <2>1. input \in EveryInput(L) /\ input.of = "body" => input.body \in EveryBody
    BY DEF EveryInput
  <2> QED
    BY <2>1, BodiesComeThrough DEF LinksComeThrough
<1> QED
  BY <1>1, InputStays, PTL
=============================================================================
