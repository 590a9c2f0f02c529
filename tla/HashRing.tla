------------------------------ MODULE HashRing ------------------------------
(***************************************************************************)
(* The consistent-hash ring of a server: class ConsistentHash and the      *)
(* routing of ServerDiscovery, src/src/distributed/hashing.py.             *)
(*                                                                         *)
(* A ring is the dictionary hash_ring, a function from the positions that  *)
(* are taken to the server that owns them; sorted_keys is its domain in    *)
(* order.  SHA-1 is a constant: any function to positions.                 *)
(***************************************************************************)
EXTENDS Integers, Sequences, FiniteSets, FiniteSetsExt, Functions

CONSTANTS
  RingSize,      \* 2^32 in the code
  VirtualNodes,  \* HASH_VIRTUAL_NODES
  Salts,         \* bound on the salts tried for one virtual key: 0..Salts
  VirtualHash,   \* position of virtual node i of a server under a salt
  Keys,          \* phone numbers, normalized
  KeyHash        \* position of a key

Positions == 0..(RingSize - 1)

ASSUME RingAssumption ==
  /\ RingSize \in Nat \ {0} /\ VirtualNodes \in Nat \ {0} /\ Salts \in Nat
  /\ Range(VirtualHash) \subseteq Positions
  /\ KeyHash \in [Keys -> Positions]

EmptyRing == [p \in {} |-> 0]

\* One virtual node takes the position of its first salt that is free.
Place(ring, n, i) ==
  LET salt     == Min({s \in 0..Salts : VirtualHash[<<n, i, s>>] \notin DOMAIN ring})
      position == VirtualHash[<<n, i, salt>>]
  IN  [p \in DOMAIN ring \cup {position} |-> IF p = position THEN n ELSE ring[p]]

AddNode(ring, n) ==
  LET placed[i \in 0..VirtualNodes] ==
        IF i = 0 THEN ring ELSE Place(placed[i - 1], n, i - 1)
  IN  placed[VirtualNodes]

\* A bug variant of the definition that follows.
RemoveNodeOneShort(ring, n) ==
  Restrict(ring, DOMAIN ring \ {VirtualHash[<<n, i, 0>>] : i \in 1..(VirtualNodes - 1)})

\* The positions of the unsalted virtual keys are deleted, whoever owns them.
RemoveNode(ring, n) ==
  Restrict(ring, DOMAIN ring \ {VirtualHash[<<n, i, 0>>] : i \in 0..(VirtualNodes - 1)})

\* bisect_right and the wrap at the end: how far the walk from position h is
\* from a position p of the ring.  A virtual node at h itself comes last.
Distance(h, p) == IF p > h THEN p - h ELSE p + RingSize - h

\* A bug variant of the definition that follows.
NearestByRank(ring, h) ==
  CHOOSE p \in DOMAIN ring :
    Cardinality({q \in DOMAIN ring : q < p}) = h % Cardinality(DOMAIN ring)

Nearest(ring, h) ==
  CHOOSE p \in DOMAIN ring : \A q \in DOMAIN ring : Distance(h, p) <= Distance(h, q)

GetNode(ring, key) == ring[Nearest(ring, KeyHash[key])]

\* The servers on the ring in the order in which a walk from the key meets
\* them, each once.
WalkOrder(ring, key) ==
  LET owners == Range(ring)
      met    == [n \in owners |->
                   Min({Distance(KeyHash[key], p) : p \in {q \in DOMAIN ring : ring[q] = n}})]
  IN  [k \in 1..Cardinality(owners) |->
         CHOOSE n \in owners : Cardinality({m \in owners : met[m] < met[n]}) = k - 1]

\* The walk ends when it has met as many servers as are registered in nodes; a
\* ring with fewer owners than that is walked for ever.
WalkEnds(ring, nodes) == Cardinality(nodes) <= Cardinality(Range(ring))

\* get_nodes for as many servers as there are: the assigned server and its
\* failover servers.
RouteRequest(ring, nodes, key) == SubSeq(WalkOrder(ring, key), 1, Cardinality(nodes))
=============================================================================
