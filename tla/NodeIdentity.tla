---------------------------- MODULE NodeIdentity ----------------------------
(***************************************************************************)
(* When two nodes are the same: NodeFingerprint and DeduplicateNodes of    *)
(* internal/provider/decoder.go, which the gathered nodes go through, and  *)
(* HashNode of internal/blacklist/hasher.go, by which nodes are blacklisted *)
(* and skipped.                                                            *)
(*                                                                         *)
(* Both keys join the same fields, but each in its own way.  The fields    *)
(* fall into four groups: those both lower, of which Server stands for     *)
(* all, which only the hash trims (VPN, Server, Transport, SNI); those     *)
(* compared as they are, which only the hash trims (UUID, Password, Path,  *)
(* known by Password); the port, which has nothing to normalise; and       *)
(* Method, which only the hash knows.                                      *)
(***************************************************************************)
EXTENDS Integers, Sequences

CONSTANTS
  Words,     \* what a text field may hold, apart from case and blanks
  Ports,
  Gathered,  \* the nodes the feeds may hold
  MaxNodes   \* the longest list of gathered nodes

\* A text field: a word, in lower case or not, with blanks around it or not.
Text == [word : Words, upper : BOOLEAN, padded : BOOLEAN]
Lower(t) == [t EXCEPT !.upper = FALSE]
Trim(t)  == [t EXCEPT !.padded = FALSE]

ProxyNode == [server : Text, password : Text, port : Ports, method : Text]

ASSUME IdentityAssumption == Gathered \subseteq ProxyNode /\ MaxNodes \in Nat

NodeFingerprint(n) == <<Lower(n.server), n.port, n.password>>

\* Bug: the hash takes the server as it is spelt.
HashAsSpelt(n) == <<Trim(n.server), n.port, Trim(n.password), Trim(n.method)>>

HashNode(n) ==
  <<Lower(Trim(n.server)), n.port, Trim(n.password), Lower(Trim(n.method))>>

VARIABLES
  nodes,   \* the parsed nodes, in the order the feeds came in
  at,      \* the node the loop is at
  seen,    \* the fingerprints so far
  unique   \* the result: the positions of the nodes that are kept

vars == <<nodes, at, seen, unique>>

-----------------------------------------------------------------------------
\* The loop of DeduplicateNodes.

\* Bug: the fingerprint is not entered into the map.
SeenForgotten(fp) == seen

Noted(fp) == seen \union {fp}

Keep ==
  /\ at <= Len(nodes)
  /\ NodeFingerprint(nodes[at]) \notin seen
  /\ seen' = Noted(NodeFingerprint(nodes[at]))
  /\ unique' = Append(unique, at)
  /\ at' = at + 1
  /\ UNCHANGED nodes

Drop ==
  /\ at <= Len(nodes)
  /\ NodeFingerprint(nodes[at]) \in seen
  /\ at' = at + 1
  /\ UNCHANGED <<nodes, seen, unique>>

Init ==
  /\ nodes \in UNION {[1..k -> Gathered] : k \in 0..MaxNodes}
  /\ at = 1
  /\ seen = {}
  /\ unique = <<>>

Terminated == at > Len(nodes) /\ UNCHANGED vars

Next == Keep \/ Drop \/ Terminated

Spec == Init /\ [][Next]_vars

-----------------------------------------------------------------------------

\* What the result should be: of each class of nodes with one fingerprint the
\* first, in the order of the list.
IsFirst(k) ==
  \A i \in 1..(k - 1) : NodeFingerprint(nodes[i]) # NodeFingerprint(nodes[k])

FirstOfEachKept ==
  /\ \A k \in 1..(at - 1) : IsFirst(k) <=> \E u \in DOMAIN unique : unique[u] = k
  /\ \A u, v \in DOMAIN unique : u < v => unique[u] < unique[v]

Dropped(k) == k < at /\ \A u \in DOMAIN unique : unique[u] # k

KeptFor(k) == CHOOSE i \in 1..k :
  IsFirst(i) /\ NodeFingerprint(nodes[i]) = NodeFingerprint(nodes[k])

\* A node that is dropped as a duplicate has the blacklist hash of the node that
\* is kept in its place, unless their methods differ: whether a blacklisted
\* server is tested again does not depend on the feed that came in first.
DuplicatesShareHash ==
  \A k \in DOMAIN nodes :
    Dropped(k) /\ nodes[k].method = nodes[KeptFor(k)].method =>
      HashNode(nodes[k]) = HashNode(nodes[KeptFor(k)])
=============================================================================
