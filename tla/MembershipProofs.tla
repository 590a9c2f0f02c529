--------------------------- MODULE MembershipProofs ---------------------------
(***************************************************************************)
(* The proofs about Membership, for any number of servers, any bootstrap   *)
(* lists and any interleaving of discovery, heartbeats, starts and         *)
(* crashes.                                                                *)
(***************************************************************************)
EXTENDS Membership, TLAPS, NaturalsInduction, WellFoundedInduction, FiniteSetTheorems

Types ==
  /\ DOMAIN loop = Servers /\ DOMAIN snapshot = Servers
  /\ DOMAIN known = Servers /\ DOMAIN peers = Servers

\* A server that is down knows nobody; a new one knows nobody either, until it
\* has looked at the registry, so that its peers are the bootstrap ones.
NobodyKnownDown == \A s \in Servers : Down(s) => known[s] = {}

MembershipInv == Types /\ NobodyKnownDown /\ PeersAreKnown

\* What a server knows of the others.
PeersOf(s) == /\ known[s] \subseteq DOMAIN peers[s]
              /\ DOMAIN peers[s] \subseteq known[s] \cup BootstrapPeers[s]

\* A dictionary without some of its keys.
LEMMA WithoutIs ==
  ASSUME NEW dict, NEW S
  PROVE  DOMAIN Without(dict, S) = DOMAIN dict \ S
BY DEF Without, Restrict

\* A step that changes the peers of nobody, but for when they were heard of.
LEMMA ContactsKeep ==
  ASSUME MembershipInv, UNCHANGED known, DOMAIN loop' = Servers,
         DOMAIN snapshot' = Servers,
         \A s \in Servers : Down(s)' => Down(s),
         DOMAIN peers' = Servers, \A s \in Servers : DOMAIN peers'[s] = DOMAIN peers[s]
  PROVE  MembershipInv'
BY DEF MembershipInv, Types, NobodyKnownDown, PeersAreKnown

\* A step of one server's own tables.
LEMMA OwnTablesKeep ==
  ASSUME MembershipInv, Types', NEW s \in Servers, PeersOf(s)', Down(s)' => known'[s] = {},
         \A t \in Servers \ {s} :
           known'[t] = known[t] /\ peers'[t] = peers[t] /\ loop'[t] = loop[t]
  PROVE  MembershipInv'
<1>1. NobodyKnownDown'
  BY DEF MembershipInv, NobodyKnownDown, Down
<1>2. PeersAreKnown'
  <2> SUFFICES ASSUME NEW t \in Servers
               PROVE  PeersOf(t)'
    BY DEF PeersAreKnown, PeersOf
  <2>1. CASE t = s
    BY <2>1
  <2>2. CASE t # s
    BY <2>2 DEF MembershipInv, PeersAreKnown, PeersOf
  <2> QED
    BY <2>1, <2>2
<1> QED
  BY <1>1, <1>2 DEF MembershipInv

\* A process that ends forgets whom it knew.
LEMMA ForgetKeeps ==
  ASSUME MembershipInv, NEW s \in Servers, Forget(s)
  PROVE  MembershipInv'
<1>1. Types /\ Types'
  BY DEF MembershipInv, Types, Forget
<1>2. /\ known'[s] = {} /\ peers'[s] = Nobody
      /\ \A t \in Servers \ {s} :
           known'[t] = known[t] /\ peers'[t] = peers[t] /\ loop'[t] = loop[t]
  BY <1>1 DEF Types, Forget
<1>3. PeersOf(s)'
  BY <1>2 DEF PeersOf, Nobody
<1> QED
  BY <1>1, <1>2, <1>3, OwnTablesKeep

\* A server that starts has its bootstrap peers.
LEMMA StartKeeps ==
  ASSUME MembershipInv, NEW s \in Servers, Start(s)
  PROVE  MembershipInv'
<1>1. /\ Down(s) /\ UNCHANGED <<known, snapshot>>
      /\ loop' = [loop EXCEPT ![s] = "boot"]
      /\ peers' = [peers EXCEPT ![s] = [p \in BootstrapPeers[s] \ {s} |-> NeverContacted]]
  BY DEF Start
<1>2. Types /\ Types'
  BY <1>1 DEF MembershipInv, Types
<1>3. known[s] = {} /\ known'[s] = {}
  BY <1>1 DEF MembershipInv, NobodyKnownDown
<1>4. DOMAIN peers'[s] = BootstrapPeers[s] \ {s}
  BY <1>1, <1>2 DEF Types
<1>5. PeersOf(s)'
  BY <1>3, <1>4 DEF PeersOf
<1>6. \A t \in Servers \ {s} :
        known'[t] = known[t] /\ peers'[t] = peers[t] /\ loop'[t] = loop[t]
  BY <1>1, <1>2 DEF Types
<1> QED
  BY <1>2, <1>3, <1>5, <1>6, OwnTablesKeep

\* After a round a server has the peers it has just read, and bootstrap ones.
LEMMA MergeKeeps ==
  ASSUME MembershipInv, NEW s \in Servers, Merge(s)
  PROVE  MembershipInv'
<1> DEFINE joined == snapshot[s] \ known[s]
<1> DEFINE left == known[s] \ snapshot[s]
<1>1. /\ peers' = [peers EXCEPT ![s] = Without(AddPeers(@, joined), left)]
      /\ known' = [known EXCEPT ![s] = snapshot[s]]
      /\ snapshot' = [snapshot EXCEPT ![s] = {}]
      /\ loop' = [loop EXCEPT ![s] = "register"]
  BY DEF Merge
<1>2. Types /\ Types'
  BY <1>1 DEF MembershipInv, Types
<1>3. peers'[s] = Without(AddPeers(peers[s], joined), left)
  BY <1>1, <1>2 DEF Types
<1>4. DOMAIN peers'[s] = (DOMAIN peers[s] \cup joined) \ left
  <2>1. DOMAIN AddPeers(peers[s], joined) = DOMAIN peers[s] \cup joined
    BY DEF AddPeers
  <2>2. DOMAIN peers'[s] = DOMAIN AddPeers(peers[s], joined) \ left
    BY <1>3, WithoutIs
  <2> QED
    BY <2>1, <2>2
<1>5. known'[s] = snapshot[s] /\ ~Down(s)'
  BY <1>1, <1>2 DEF Types, Down
<1>6. PeersOf(s)'
  BY <1>4, <1>5 DEF MembershipInv, PeersAreKnown, PeersOf
<1>7. \A t \in Servers \ {s} :
        known'[t] = known[t] /\ peers'[t] = peers[t] /\ loop'[t] = loop[t]
  BY <1>1, <1>2 DEF Types
<1> QED
  BY <1>2, <1>5, <1>6, <1>7, OwnTablesKeep

\* The steps of the worker's loop between two merges.
LEMMA RoundKeeps ==
  ASSUME MembershipInv, NEW s \in Servers,
         Stop(s) \/ RoundFails(s) \/ Register(s) \/ RegisterLate(s) \/ Fetch(s)
  PROVE  MembershipInv'
<1>1. Types
  BY DEF MembershipInv
<1>2. UNCHANGED <<known, peers>>
  BY DEF Stop, RoundFails, Register, RegisterLate, Fetch
<1>3. DOMAIN loop' = Servers /\ DOMAIN snapshot' = Servers
  BY <1>1 DEF Stop, RoundFails, Register, RegisterLate, Fetch, Types
<1>4. \A t \in Servers : Down(t)' => Down(t)
  <2>1. loop' = loop \/ \E l \in {"stopping", "register", "fetch", "merge"} :
                          loop' = [loop EXCEPT ![s] = l]
    BY DEF Stop, RoundFails, Register, RegisterLate, Fetch
  <2> QED
    BY <1>1, <2>1 DEF Down, Types
<1> QED
  BY <1>1, <1>2, <1>3, <1>4, ContactsKeep DEF Types

\* A heartbeat, and its answer, bring back no peer that was removed.
LEMMA HeartbeatKeeps ==
  ASSUME MembershipInv, NEW s \in Servers, NEW p \in Servers,
         SendHeartbeats(s) \/ HandleHeartbeat(s, p) \/ HeartbeatEnds(s, p)
  PROVE  MembershipInv'
<1>1. Types
  BY DEF MembershipInv
<1>2. UNCHANGED discovery
  BY DEF SendHeartbeats, HandleHeartbeat, HeartbeatEnds, HeartbeatAnswered, HeartbeatFailed
<1>3. \/ peers' = peers
      \/ s \in DOMAIN peers[p] /\ peers' = [peers EXCEPT ![p][s] = JustContacted]
      \/ peers' = [peers EXCEPT ![s] = [q \in DOMAIN @ |->
                                          IF q = p THEN JustContacted ELSE @[q]]]
  BY DEF SendHeartbeats, HandleHeartbeat, HeartbeatEnds, HeartbeatAnswered, HeartbeatFailed
<1>4. DOMAIN peers' = Servers /\ \A t \in Servers : DOMAIN peers'[t] = DOMAIN peers[t]
  BY <1>1, <1>3 DEF Types
<1> QED
  BY <1>1, <1>2, <1>4, ContactsKeep DEF discovery, Down, Types

\* Time passes.
LEMMA TickKeeps ==
  ASSUME MembershipInv, Tick
  PROVE  MembershipInv'
<1>1. DOMAIN peers' = Servers /\ \A t \in Servers : DOMAIN peers'[t] = DOMAIN peers[t]
  BY DEF Tick
<1> QED
  BY <1>1, ContactsKeep DEF Tick, MembershipInv, Types, Down

\* At the start nobody knows anybody.
LEMMA InitMembershipInv == Init => MembershipInv
BY DEF Init, MembershipInv, Types, NobodyKnownDown, PeersAreKnown, Nobody

\* Every step keeps the invariant.
LEMMA StepKeepsMembershipInv == MembershipInv /\ [Next]_vars => MembershipInv'
<1> SUFFICES ASSUME MembershipInv, [Next]_vars PROVE MembershipInv'
  OBVIOUS
<1>1. CASE UNCHANGED vars
  BY <1>1, ContactsKeep DEF vars, MembershipInv, Types, Down
<1>2. ASSUME NEW s \in Servers, Crash(s) \/ Deregister(s)
      PROVE  MembershipInv'
  BY <1>2, ForgetKeeps DEF Crash, Deregister
<1> QED
  BY <1>1, <1>2, StartKeeps, MergeKeeps, RoundKeeps, HeartbeatKeeps, TickKeeps DEF Next, Work

\* The peers of a gossip node are those its discovery knows, and bootstrap ones.
THEOREM PeersTheorem == Spec => []PeersAreKnown
<1>1. MembershipInv => PeersAreKnown
  BY DEF MembershipInv
<1> QED
  BY <1>1, InitMembershipInv, StepKeepsMembershipInv, PTL DEF Spec

-----------------------------------------------------------------------------
(* The ring that a set of servers makes.                                   *)

\* What the servers' positions are in fact: no two virtual nodes hash to one.
PositionsDiffer ==
  \A n, m \in Servers : \A i, j \in 0..(VirtualNodes - 1) :
    VirtualHash[<<n, i, 0>>] = VirtualHash[<<m, j, 0>>] => n = m /\ i = j

\* The positions of a server, and whose a position is.
PositionsOf(n) == {VirtualHash[<<n, i, 0>>] : i \in 0..(VirtualNodes - 1)}
Owner(p) == CHOOSE n \in Servers : p \in PositionsOf(n)

\* The ring that has these servers, in whatever order they came.
RingOf(S) == [p \in UNION {PositionsOf(n) : n \in S} |-> Owner(p)]

-----------------------------------------------------------------------------
\* A set of naturals has a least one.
LEMMA LeastNatural ==
  ASSUME NEW T, T \subseteq Nat, T # {}
  PROVE  \E m \in T : \A k \in T : m <= k
<1>1. PICK m \in T : \A k \in T : <<k, m>> \notin OpToRel(<, Nat)
  BY NatLessThanWellFounded, WFMin
<1>2. ASSUME NEW k \in T PROVE m <= k
  <2>1. k \in Nat /\ m \in Nat
    OBVIOUS
  <2>2. ~ (k < m)
    BY <1>1, <2>1 DEF OpToRel
  <2> QED BY <2>1, <2>2
<1> QED BY <1>2

\* Two chains that begin alike and go on alike are alike.
LEMMA ChainsAgree ==
  ASSUME NEW n \in Nat, NEW f, NEW w, f[0] = w[0],
         \A k \in 1..n : f[k - 1] = w[k - 1] => f[k] = w[k]
  PROVE  \A k \in 0..n : f[k] = w[k]
<1> DEFINE Bad == {k \in 0..n : f[k] # w[k]}
<1>1. SUFFICES ASSUME Bad # {} PROVE FALSE
  OBVIOUS
<1>2. PICK m \in Bad : \A k \in Bad : m <= k
  <2> Bad \subseteq Nat
    OBVIOUS
  <2> HIDE DEF Bad
  <2> QED BY <1>1, LeastNatural
<1>3. m \in 1..n /\ f[m] # w[m]
  OBVIOUS
<1>4. f[m - 1] = w[m - 1]
  BY <1>2, <1>3
<1> QED BY <1>3, <1>4

\* A position belongs to the one server that hashes to it.
LEMMA OwnerIs ==
  ASSUME PositionsDiffer, NEW n \in Servers, NEW p \in PositionsOf(n)
  PROVE  /\ Owner(p) = n
         /\ \A m \in Servers : p \in PositionsOf(m) => m = n
<1>1. \A m \in Servers : p \in PositionsOf(m) => m = n
  BY DEF PositionsDiffer, PositionsOf
<1> QED BY <1>1 DEF Owner

\* A ring in which a server has one position more.
Extended(r, position, n) ==
  [p \in DOMAIN r \cup {position} |-> IF p = position THEN n ELSE r[p]]

\* A virtual node whose first position is free takes it.
LEMMA PlaceIs ==
  ASSUME NEW r, NEW n, NEW i, VirtualHash[<<n, i, 0>>] \notin DOMAIN r
  PROVE  Place(r, n, i) = Extended(r, VirtualHash[<<n, i, 0>>], n)
<1> DEFINE free == {s \in 0..Salts : VirtualHash[<<n, i, s>>] \notin DOMAIN r}
<1>1. 0 \in free /\ \A s \in free : s \in Int /\ 0 <= s
  BY RingAssumption
<1>2. Place(r, n, i) = Extended(r, VirtualHash[<<n, i, Min(free)>>], n)
  BY DEF Place, Extended
<1> HIDE DEF free
<1>3. Min(free) = 0
  BY <1>1 DEF Min
<1> QED BY <1>2, <1>3

\* The first i positions of a server, and a ring with these.
FirstOf(n, i) == {VirtualHash[<<n, j, 0>>] : j \in 0..(i - 1)}
Part(S, n, i) ==
  [p \in (UNION {PositionsOf(m) : m \in S}) \cup FirstOf(n, i) |-> Owner(p)]

\* A server's next virtual node joins its first ones.
LEMMA PlaceNext ==
  ASSUME PositionsDiffer, NEW S, S \subseteq Servers, NEW n \in Servers, n \notin S,
         NEW i \in 1..VirtualNodes
  PROVE  Place(Part(S, n, i - 1), n, i - 1) = Part(S, n, i)
<1> DEFINE position == VirtualHash[<<n, i - 1, 0>>]
<1> DEFINE others == UNION {PositionsOf(m) : m \in S}
<1>0. VirtualNodes \in Nat
  BY RingAssumption
<1>1. position \in PositionsOf(n)
  BY <1>0 DEF PositionsOf
<1>2. position \notin others
  BY <1>1, OwnerIs
<1>3. position \notin FirstOf(n, i - 1)
  <2>1. ASSUME NEW j \in 0..(i - 1 - 1) PROVE position # VirtualHash[<<n, j, 0>>]
    <3>1. j \in 0..(VirtualNodes - 1) /\ i - 1 \in 0..(VirtualNodes - 1) /\ i - 1 # j
      BY <1>0
    <3> QED BY <3>1 DEF PositionsDiffer
  <2> QED BY <2>1 DEF FirstOf
<1>4. FirstOf(n, i) = FirstOf(n, i - 1) \cup {position}
  <2>1. 0..(i - 1) = 0..(i - 1 - 1) \cup {i - 1}
    BY <1>0
  <2> QED BY <2>1 DEF FirstOf
<1>5. Owner(position) = n
  BY <1>1, OwnerIs
<1>6. position \notin DOMAIN Part(S, n, i - 1)
  BY <1>2, <1>3 DEF Part
<1>7. Place(Part(S, n, i - 1), n, i - 1) = Extended(Part(S, n, i - 1), position, n)
  BY <1>6, PlaceIs
<1>8. /\ DOMAIN Part(S, n, i - 1) = others \cup FirstOf(n, i - 1)
      /\ \A p \in others \cup FirstOf(n, i - 1) : Part(S, n, i - 1)[p] = Owner(p)
      /\ Part(S, n, i) = [p \in others \cup FirstOf(n, i) |-> Owner(p)]
  BY DEF Part
<1> HIDE DEF position, others
<1> QED BY <1>4, <1>5, <1>7, <1>8 DEF Extended

\* A server that joins the ring of others makes the ring of them all.
LEMMA AddNodeIs ==
  ASSUME PositionsDiffer, NEW S, S \subseteq Servers, NEW n \in Servers, n \notin S
  PROVE  AddNode(RingOf(S), n) = RingOf(S \cup {n})
<1> DEFINE Step(f) ==
             f = [i \in 0..VirtualNodes |->
                    IF i = 0 THEN RingOf(S) ELSE Place(f[i - 1], n, i - 1)]
           w == [i \in 0..VirtualNodes |-> Part(S, n, i)]
           placed == CHOOSE f : Step(f)
<1>0. VirtualNodes \in Nat
  BY RingAssumption
<1>1. AddNode(RingOf(S), n) = placed[VirtualNodes]
  BY DEF AddNode
<1>2. w[0] = RingOf(S)
  <2>1. FirstOf(n, 0) = {}
    BY DEF FirstOf
  <2>2. w[0] = Part(S, n, 0)
    BY <1>0
  <2> QED BY <2>1, <2>2 DEF Part, RingOf
<1>3. \A i \in 1..VirtualNodes : w[i] = Place(w[i - 1], n, i - 1)
  <2> TAKE i \in 1..VirtualNodes
  <2>1. w[i] = Part(S, n, i) /\ w[i - 1] = Part(S, n, i - 1)
    BY <1>0
  <2> HIDE DEF w
  <2> QED BY <2>1, PlaceNext
<1>4. Step(w)
  <2>1. DOMAIN w = 0..VirtualNodes /\ w = [i \in 0..VirtualNodes |-> w[i]]
    OBVIOUS
  <2> HIDE DEF w
  <2>2. \A i \in 0..VirtualNodes : i = 0 \/ i \in 1..VirtualNodes
    BY <1>0
  <2> QED BY <1>2, <1>3, <2>1, <2>2
<1>5. Step(placed)
  <2> HIDE DEF Step
  <2> QED BY <1>4
<1>6. /\ placed[0] = RingOf(S)
      /\ \A i \in 1..VirtualNodes : placed[i] = Place(placed[i - 1], n, i - 1)
  <2> HIDE DEF placed
  <2> QED BY <1>0, <1>5
<1>7. \A i \in 0..VirtualNodes : placed[i] = w[i]
  <2> HIDE DEF placed, w
  <2> QED BY <1>0, <1>2, <1>3, <1>6, ChainsAgree
<1>8. w[VirtualNodes] = Part(S, n, VirtualNodes)
  BY <1>0
<1>9. Part(S, n, VirtualNodes) = RingOf(S \cup {n})
  <2>1. FirstOf(n, VirtualNodes) = PositionsOf(n)
    BY DEF FirstOf, PositionsOf
  <2>2. (UNION {PositionsOf(m) : m \in S}) \cup PositionsOf(n)
        = UNION {PositionsOf(m) : m \in S \cup {n}}
    OBVIOUS
  <2> QED BY <2>1, <2>2 DEF Part, RingOf
<1> HIDE DEF placed, w
<1> QED BY <1>0, <1>1, <1>7, <1>8, <1>9

\* The servers of a set up to the k-th, which is as far as a loop has come.
Upto(T, k) == {n \in T : n <= k}

\* A loop's next server is the one with the next number, if it is in the set.
LEMMA UptoIs ==
  ASSUME NEW T, T \subseteq Servers
  PROVE  /\ Upto(T, 0) = {} /\ Upto(T, N) = T
         /\ \A k \in 1..N : /\ k \notin Upto(T, k - 1)
                            /\ k \in T => Upto(T, k) = Upto(T, k - 1) \cup {k}
                            /\ k \notin T => Upto(T, k) = Upto(T, k - 1)
<1>1. N \in Nat /\ T \subseteq 1..N
  BY MembershipAssumption DEF Servers
<1>2. \A n \in T : n \in Int /\ 1 <= n /\ n <= N
  BY <1>1
<1>3. Upto(T, 0) = {} /\ Upto(T, N) = T
  <2>1. \A n \in T : ~ (n <= 0) /\ n <= N
    BY <1>2
  <2> QED BY <2>1 DEF Upto
<1>4. ASSUME NEW k \in 1..N
      PROVE  /\ k \notin Upto(T, k - 1)
             /\ k \in T => Upto(T, k) = Upto(T, k - 1) \cup {k}
             /\ k \notin T => Upto(T, k) = Upto(T, k - 1)
  <2>1. \A n \in T : n <= k <=> n <= k - 1 \/ n = k
    BY <1>1, <1>2
  <2>2. ~ (k <= k - 1) /\ k <= k
    BY <1>1
  <2> QED BY <2>1, <2>2 DEF Upto
<1> QED BY <1>3, <1>4

\* Servers that join a ring one after another, in the order of their numbers.
LEMMA AddNodesIs ==
  ASSUME PositionsDiffer, NEW S, S \subseteq Servers, NEW T, T \subseteq Servers,
         S \cap T = {}
  PROVE  AddNodes(RingOf(S), T) = RingOf(S \cup T)
<1> DEFINE Step(f) ==
             f = [n \in 0..N |->
                    IF n = 0 THEN RingOf(S)
                    ELSE IF n \in T THEN AddNode(f[n - 1], n) ELSE f[n - 1]]
           w == [n \in 0..N |-> RingOf(S \cup Upto(T, n))]
           added == CHOOSE f : Step(f)
<1>0. N \in Nat /\ Servers = 1..N
  BY MembershipAssumption DEF Servers
<1>1. AddNodes(RingOf(S), T) = added[N]
  BY DEF AddNodes
<1>2. w[0] = RingOf(S)
  <2>1. S \cup Upto(T, 0) = S
    BY UptoIs
  <2>2. w[0] = RingOf(S \cup Upto(T, 0))
    BY <1>0
  <2> QED BY <2>1, <2>2
<1>3. \A n \in 1..N : w[n] = IF n \in T THEN AddNode(w[n - 1], n) ELSE w[n - 1]
  <2> TAKE n \in 1..N
  <2>1. w[n] = RingOf(S \cup Upto(T, n)) /\ w[n - 1] = RingOf(S \cup Upto(T, n - 1))
    BY <1>0
  <2>2. CASE n \in T
    <3>1. Upto(T, n) = Upto(T, n - 1) \cup {n} /\ n \notin Upto(T, n - 1)
      BY <2>2, UptoIs
    <3>2. /\ S \cup Upto(T, n - 1) \subseteq Servers /\ n \in Servers
          /\ n \notin S \cup Upto(T, n - 1)
      BY <1>0, <2>2, <3>1 DEF Upto
    <3> HIDE DEF w
    <3>3. AddNode(RingOf(S \cup Upto(T, n - 1)), n) = RingOf((S \cup Upto(T, n - 1)) \cup {n})
      BY <3>2, AddNodeIs
    <3>4. (S \cup Upto(T, n - 1)) \cup {n} = S \cup Upto(T, n)
      BY <3>1
    <3> QED BY <2>1, <2>2, <3>3, <3>4
  <2>3. CASE n \notin T
    <3>1. Upto(T, n) = Upto(T, n - 1)
      BY <2>3, UptoIs
    <3> HIDE DEF w
    <3> QED BY <2>1, <2>3, <3>1
  <2> QED BY <2>2, <2>3
<1>4. Step(w)
  <2>1. DOMAIN w = 0..N /\ w = [n \in 0..N |-> w[n]]
    OBVIOUS
  <2> HIDE DEF w
  <2>2. \A n \in 0..N : n = 0 \/ n \in 1..N
    BY <1>0
  <2> QED BY <1>2, <1>3, <2>1, <2>2
<1>5. Step(added)
  <2> HIDE DEF Step
  <2> QED BY <1>4
<1>6. /\ added[0] = RingOf(S)
      /\ \A n \in 1..N : added[n] = IF n \in T THEN AddNode(added[n - 1], n) ELSE added[n - 1]
  <2> HIDE DEF added
  <2> QED BY <1>0, <1>5
<1>7. \A n \in 0..N : added[n] = w[n]
  <2> HIDE DEF added, w
  <2>0. added[0] = w[0]
    BY <1>2, <1>6
  <2>1. \A n \in 1..N : added[n - 1] = w[n - 1] => added[n] = w[n]
    BY <1>3, <1>6
  <2> HIDE DEF Step
  <2> QED BY <1>0, <2>0, <2>1, ChainsAgree, SMTT(30)
<1>8. w[N] = RingOf(S \cup Upto(T, N))
  BY <1>0
<1>9. Upto(T, N) = T
  BY UptoIs
<1> HIDE DEF added, w
<1> QED BY <1>0, <1>1, <1>7, <1>8, <1>9

\* A server that leaves takes its positions with it, and no other's.
LEMMA RemoveNodeIs ==
  ASSUME PositionsDiffer, NEW S, S \subseteq Servers, NEW n \in Servers
  PROVE  RemoveNode(RingOf(S), n) = RingOf(S \ {n})
<1> DEFINE all == UNION {PositionsOf(m) : m \in S}
           rest == UNION {PositionsOf(m) : m \in S \ {n}}
<1>1. RemoveNode(RingOf(S), n) = [p \in all \ PositionsOf(n) |-> RingOf(S)[p]]
  BY DEF RemoveNode, Restrict, RingOf, PositionsOf
<1>2. all \ PositionsOf(n) = rest
  BY OwnerIs
<1>3. \A p \in all : RingOf(S)[p] = Owner(p)
  BY DEF RingOf
<1>4. rest \subseteq all
  OBVIOUS
<1>5. RingOf(S \ {n}) = [p \in rest |-> Owner(p)]
  BY DEF RingOf
<1> HIDE DEF all, rest
<1> QED BY <1>1, <1>2, <1>3, <1>4, <1>5

\* Servers that leave a ring one after another.
LEMMA RemoveNodesIs ==
  ASSUME PositionsDiffer, NEW S, S \subseteq Servers, NEW T, T \subseteq Servers
  PROVE  RemoveNodes(RingOf(S), T) = RingOf(S \ T)
<1> DEFINE Step(f) ==
             f = [n \in 0..N |->
                    IF n = 0 THEN RingOf(S)
                    ELSE IF n \in T THEN RemoveNode(f[n - 1], n) ELSE f[n - 1]]
           w == [n \in 0..N |-> RingOf(S \ Upto(T, n))]
           left == CHOOSE f : Step(f)
<1>0. N \in Nat /\ Servers = 1..N
  BY MembershipAssumption DEF Servers
<1>1. RemoveNodes(RingOf(S), T) = left[N]
  BY DEF RemoveNodes
<1>2. w[0] = RingOf(S)
  <2>1. S \ Upto(T, 0) = S
    BY UptoIs
  <2>2. w[0] = RingOf(S \ Upto(T, 0))
    BY <1>0
  <2> QED BY <2>1, <2>2
<1>3. \A n \in 1..N : w[n] = IF n \in T THEN RemoveNode(w[n - 1], n) ELSE w[n - 1]
  <2> TAKE n \in 1..N
  <2>1. w[n] = RingOf(S \ Upto(T, n)) /\ w[n - 1] = RingOf(S \ Upto(T, n - 1))
    BY <1>0
  <2>2. CASE n \in T
    <3>0. Upto(T, n) = Upto(T, n - 1) \cup {n}
      BY <2>2, UptoIs
    <3>1. (S \ Upto(T, n - 1)) \ {n} = S \ Upto(T, n)
      BY <3>0
    <3>2. S \ Upto(T, n - 1) \subseteq Servers /\ n \in Servers
      BY <1>0
    <3> HIDE DEF w
    <3>3. RemoveNode(RingOf(S \ Upto(T, n - 1)), n) = RingOf((S \ Upto(T, n - 1)) \ {n})
      BY <3>2, RemoveNodeIs
    <3> QED BY <2>1, <2>2, <3>1, <3>3
  <2>3. CASE n \notin T
    <3>1. Upto(T, n) = Upto(T, n - 1)
      BY <2>3, UptoIs
    <3> HIDE DEF w
    <3> QED BY <2>1, <2>3, <3>1
  <2> QED BY <2>2, <2>3
<1>4. Step(w)
  <2>1. DOMAIN w = 0..N /\ w = [n \in 0..N |-> w[n]]
    OBVIOUS
  <2> HIDE DEF w
  <2>2. \A n \in 0..N : n = 0 \/ n \in 1..N
    BY <1>0
  <2> QED BY <1>2, <1>3, <2>1, <2>2
<1>5. Step(left)
  <2> HIDE DEF Step
  <2> QED BY <1>4
<1>6. /\ left[0] = RingOf(S)
      /\ \A n \in 1..N : left[n] = IF n \in T THEN RemoveNode(left[n - 1], n) ELSE left[n - 1]
  <2> HIDE DEF left
  <2> QED BY <1>0, <1>5
<1>7. \A n \in 0..N : left[n] = w[n]
  <2> HIDE DEF left, w
  <2>0. left[0] = w[0]
    BY <1>2, <1>6
  <2>1. \A n \in 1..N : left[n - 1] = w[n - 1] => left[n] = w[n]
    BY <1>3, <1>6
  <2> HIDE DEF Step
  <2> QED BY <1>0, <2>0, <2>1, ChainsAgree, SMTT(30)
<1>8. w[N] = RingOf(S \ Upto(T, N))
  BY <1>0
<1>9. Upto(T, N) = T
  BY UptoIs
<1> HIDE DEF left, w
<1> QED BY <1>0, <1>1, <1>7, <1>8, <1>9

-----------------------------------------------------------------------------
(* Which server a number is assigned to.                                   *)

\* Positions of the ring are positions, and there are some for every server.
LEMMA PositionsAre ==
  ASSUME NEW n \in Servers
  PROVE  /\ PositionsOf(n) \subseteq Positions
         /\ PositionsOf(n) # {}
<1>1. VirtualNodes \in Nat \ {0} /\ Salts \in Nat /\ Range(VirtualHash) \subseteq Positions
  BY RingAssumption
<1>2. DOMAIN VirtualHash = Servers \X (0..(VirtualNodes - 1)) \X (0..Salts)
  BY MembershipAssumption
<1>3. \A i \in 0..(VirtualNodes - 1) : VirtualHash[<<n, i, 0>>] \in Positions
  <2> TAKE i \in 0..(VirtualNodes - 1)
  <2>1. 0 \in 0..Salts
    BY <1>1
  <2>2. <<n, i, 0>> \in DOMAIN VirtualHash
    BY <1>2, <2>1
  <2> QED BY <1>1, <2>2 DEF Range
<1>4. 0 \in 0..(VirtualNodes - 1)
  BY <1>1
<1> QED BY <1>3, <1>4 DEF PositionsOf

\* The walk from a position reaches every other after a distance of its own.
LEMMA DistancesDiffer ==
  ASSUME NEW h \in Positions
  PROVE  /\ \A p \in Positions : Distance(h, p) \in Nat
         /\ \A p, q \in Positions : Distance(h, p) = Distance(h, q) => p = q
<1>1. RingSize \in Nat
  BY RingAssumption
<1> QED BY <1>1 DEF Positions, Distance

\* What a ring has: positions, each of one of its servers.
LEMMA RingHas ==
  ASSUME PositionsDiffer, NEW S, S \subseteq Servers
  PROVE  /\ \A p \in DOMAIN RingOf(S) :
              /\ p \in Positions /\ RingOf(S)[p] \in S
              /\ p \in PositionsOf(RingOf(S)[p])
         /\ \A n \in S : \A p \in PositionsOf(n) : p \in DOMAIN RingOf(S) /\ RingOf(S)[p] = n
<1>1. /\ DOMAIN RingOf(S) = UNION {PositionsOf(n) : n \in S}
      /\ \A p \in UNION {PositionsOf(n) : n \in S} : RingOf(S)[p] = Owner(p)
  BY DEF RingOf
<1>2. ASSUME NEW n \in S, NEW p \in PositionsOf(n)
      PROVE  p \in DOMAIN RingOf(S) /\ RingOf(S)[p] = n
  <2>1. Owner(p) = n
    BY OwnerIs
  <2>2. p \in UNION {PositionsOf(m) : m \in S}
    OBVIOUS
  <2> QED BY <1>1, <2>1, <2>2
<1>3. ASSUME NEW p \in DOMAIN RingOf(S)
      PROVE  p \in Positions /\ RingOf(S)[p] \in S /\ p \in PositionsOf(RingOf(S)[p])
  <2>1. PICK n \in S : p \in PositionsOf(n)
    BY <1>1
  <2>2. RingOf(S)[p] = n
    BY <1>2, <2>1
  <2> QED BY <2>1, <2>2, PositionsAre
<1> QED BY <1>2, <1>3

\* The nearest position of a ring that has any.
LEMMA NearestIs ==
  ASSUME PositionsDiffer, NEW S, S \subseteq Servers, S # {}, NEW h \in Positions
  PROVE  /\ Nearest(RingOf(S), h) \in DOMAIN RingOf(S)
         /\ \A q \in DOMAIN RingOf(S) : Distance(h, Nearest(RingOf(S), h)) <= Distance(h, q)
<1> DEFINE far == {Distance(h, q) : q \in DOMAIN RingOf(S)}
<1>1. PICK n \in S : TRUE
  OBVIOUS
<1>2. far # {} /\ far \subseteq Nat
  BY <1>1, RingHas, PositionsAre, DistancesDiffer
<1>3. PICK d \in far : \A e \in far : d <= e
  <2> HIDE DEF far
  <2> QED BY <1>2, LeastNatural
<1>4. PICK p \in DOMAIN RingOf(S) : d = Distance(h, p)
  OBVIOUS
<1>5. \A q \in DOMAIN RingOf(S) : Distance(h, p) <= Distance(h, q)
  BY <1>3, <1>4
<1> QED BY <1>5 DEF Nearest

\* A number goes on being assigned to its server as long as this stays, unless a
\* server joins.
LEMMA AssignmentStays ==
  ASSUME PositionsDiffer, NEW S, S \subseteq Servers, S # {},
         NEW T, T \subseteq Servers, T # {}, NEW key \in Keys,
         GetNode(RingOf(T), key) \in S, GetNode(RingOf(S), key) \in T
  PROVE  GetNode(RingOf(T), key) = GetNode(RingOf(S), key)
<1> DEFINE h == KeyHash[key]
           p == Nearest(RingOf(S), h)
           q == Nearest(RingOf(T), h)
<1>1. h \in Positions
  BY RingAssumption
<1>2. /\ p \in DOMAIN RingOf(S)
      /\ \A r \in DOMAIN RingOf(S) : Distance(h, p) <= Distance(h, r)
  <2> HIDE DEF h
  <2> QED BY <1>1, NearestIs
<1>3. /\ q \in DOMAIN RingOf(T)
      /\ \A r \in DOMAIN RingOf(T) : Distance(h, q) <= Distance(h, r)
  <2> HIDE DEF h
  <2> QED BY <1>1, NearestIs
<1>4. GetNode(RingOf(S), key) = RingOf(S)[p] /\ GetNode(RingOf(T), key) = RingOf(T)[q]
  BY DEF GetNode
<1> HIDE DEF h, p, q
<1>5. p \in PositionsOf(RingOf(S)[p]) /\ q \in PositionsOf(RingOf(T)[q])
  BY <1>2, <1>3, RingHas
<1>6. p \in DOMAIN RingOf(T) /\ RingOf(T)[p] = RingOf(S)[p]
  BY <1>4, <1>5, RingHas
<1>7. q \in DOMAIN RingOf(S)
  BY <1>4, <1>5, RingHas
<1>8. p \in Positions /\ q \in Positions
  BY <1>2, <1>3, RingHas
<1>9. Distance(h, p) = Distance(h, q)
  <2>1. Distance(h, p) <= Distance(h, q) /\ Distance(h, q) <= Distance(h, p)
    BY <1>2, <1>3, <1>6, <1>7
  <2>2. Distance(h, p) \in Nat /\ Distance(h, q) \in Nat
    BY <1>1, <1>8, DistancesDiffer
  <2> QED BY <2>1, <2>2
<1>10. p = q
  BY <1>1, <1>8, <1>9, DistancesDiffer
<1> QED BY <1>4, <1>6, <1>10

-----------------------------------------------------------------------------
(* The order in which servers answer for a number.                         *)

\* Those that a walk meets before n.
Before(S, met, n) == {m \in S : met[m] < met[n]}

\* Servers met at different distances have ranks of their own.
LEMMA RanksDiffer ==
  ASSUME NEW S, IsFiniteSet(S), NEW met, \A n \in S : met[n] \in Nat,
         \A m, n \in S : met[m] = met[n] => m = n
  PROVE  /\ \A n \in S : Cardinality(Before(S, met, n)) \in 0..(Cardinality(S) - 1)
         /\ \A m, n \in S :
              Cardinality(Before(S, met, m)) = Cardinality(Before(S, met, n)) => m = n
<1>1. ASSUME NEW n \in S
      PROVE  /\ IsFiniteSet(Before(S, met, n)) /\ n \notin Before(S, met, n)
             /\ Cardinality(Before(S, met, n)) \in 0..(Cardinality(S) - 1)
  <2>1. n \notin Before(S, met, n) /\ Before(S, met, n) \in SUBSET S
    BY DEF Before
  <2>2. /\ IsFiniteSet(Before(S, met, n))
        /\ Cardinality(Before(S, met, n)) <= Cardinality(S)
        /\ Cardinality(Before(S, met, n)) # Cardinality(S)
    BY <2>1, FS_Subset
  <2>3. Cardinality(Before(S, met, n)) \in Nat /\ Cardinality(S) \in Nat
    BY <2>2, FS_CardinalityType
  <2> QED BY <2>1, <2>2, <2>3
<1>2. ASSUME NEW m \in S, NEW n \in S, met[m] < met[n]
      PROVE  Cardinality(Before(S, met, m)) # Cardinality(Before(S, met, n))
  <2>1. m \in Before(S, met, n) /\ m \notin Before(S, met, m)
    BY <1>1, <1>2 DEF Before
  <2>2. Before(S, met, m) \subseteq Before(S, met, n)
    BY <1>2 DEF Before
  <2> QED BY <1>1, <2>1, <2>2, FS_Subset
<1>3. \A m, n \in S : m = n \/ met[m] < met[n] \/ met[n] < met[m]
  OBVIOUS
<1>4. \A m, n \in S : Cardinality(Before(S, met, m)) = Cardinality(Before(S, met, n)) => m = n
  BY <1>2, <1>3
<1> QED BY <1>1, <1>4

\* Every rank up to their number is somebody's.
LEMMA RanksFill ==
  ASSUME NEW S, IsFiniteSet(S), NEW met, \A n \in S : met[n] \in Nat,
         \A m, n \in S : met[m] = met[n] => m = n,
         NEW k \in 1..Cardinality(S)
  PROVE  \E n \in S : Cardinality(Before(S, met, n)) = k - 1
<1> DEFINE f == [n \in S |-> Cardinality(Before(S, met, n)) + 1]
           T == 1..Cardinality(S)
<1>1. Cardinality(S) \in Nat
  BY FS_CardinalityType
<1>2. \A n \in S : Cardinality(Before(S, met, n)) \in 0..(Cardinality(S) - 1)
  BY RanksDiffer
<1>3. \A n \in S : f[n] \in T /\ f[n] = Cardinality(Before(S, met, n)) + 1
  BY <1>1, <1>2
<1>4. f \in [S -> T]
  BY <1>3
<1>5. \A m, n \in S : f[m] = f[n] => m = n
  <2> HIDE DEF f
  <2>1. ASSUME NEW m \in S, NEW n \in S, f[m] = f[n]
        PROVE  Cardinality(Before(S, met, m)) = Cardinality(Before(S, met, n))
    <3> DEFINE a == Cardinality(Before(S, met, m))
               b == Cardinality(Before(S, met, n))
    <3>1. a \in Int /\ b \in Int /\ f[m] = a + 1 /\ f[n] = b + 1
      BY <1>2, <1>3
    <3> HIDE DEF a, b
    <3>2. a + 1 = b + 1
      BY <2>1, <3>1
    <3>3. a = b
      BY <3>1, <3>2
    <3> QED BY <3>3 DEF a, b
  <2> QED BY <2>1, RanksDiffer
<1> HIDE DEF f
<1>6. f \in Injection(S, T)
  BY <1>4, <1>5 DEF Injection, IsInjective
<1>7. IsFiniteSet(T) /\ Cardinality(T) = Cardinality(S)
  <2>1. 1 \in Int /\ Cardinality(S) \in Int
    BY <1>1
  <2> QED BY <1>1, <2>1, FS_Interval
<1> HIDE DEF T
<1>8. f \in Surjection(S, T)
  BY <1>6, <1>7, FS_Injection
<1>9. PICK n \in S : f[n] = k
  BY <1>8 DEF Surjection, T
<1> QED BY <1>2, <1>3, <1>9

\* How far a walk from a number goes until it meets a server.
Meets(S, key) ==
  [n \in S |-> Min({Distance(KeyHash[key], p) : p \in {q \in DOMAIN RingOf(S) : RingOf(S)[q] = n}})]

\* A walk meets every server at a distance of its own, first that of the
\* nearest position.
LEMMA MeetsAre ==
  ASSUME PositionsDiffer, NEW S, S \subseteq Servers, NEW key \in Keys
  PROVE  \A n \in S :
           /\ Meets(S, key)[n] \in Nat
           /\ \E p \in PositionsOf(n) : Meets(S, key)[n] = Distance(KeyHash[key], p)
           /\ \A p \in PositionsOf(n) : Meets(S, key)[n] <= Distance(KeyHash[key], p)
<1> DEFINE h == KeyHash[key]
<1>1. h \in Positions
  BY RingAssumption
<1> HIDE DEF h
<1> TAKE n \in S
<1> DEFINE mine == {q \in DOMAIN RingOf(S) : RingOf(S)[q] = n}
           far == {Distance(h, p) : p \in mine}
<1>2. mine = PositionsOf(n)
  BY RingHas
<1>3. Meets(S, key)[n] = Min(far)
  BY DEF Meets, h
<1>4. far = {Distance(h, p) : p \in PositionsOf(n)}
  BY <1>2
<1> HIDE DEF mine, far
<1>5. far # {} /\ far \subseteq Nat
  BY <1>1, <1>4, PositionsAre, DistancesDiffer
<1>6. PICK d \in far : \A e \in far : d <= e
  BY <1>5, LeastNatural
<1>7. Min(far) \in far /\ \A e \in far : Min(far) <= e
  BY <1>6 DEF Min
<1>8. Meets(S, key)[n] \in Nat
  BY <1>3, <1>5, <1>7
<1>9. \E p \in PositionsOf(n) : Meets(S, key)[n] = Distance(h, p)
  BY <1>3, <1>4, <1>7
<1>10. \A p \in PositionsOf(n) : Meets(S, key)[n] <= Distance(h, p)
  BY <1>3, <1>4, <1>7
<1> QED BY <1>8, <1>9, <1>10 DEF h

\* No two servers are met at once.
LEMMA MeetsDiffer ==
  ASSUME PositionsDiffer, NEW S, S \subseteq Servers, NEW key \in Keys,
         NEW m \in S, NEW n \in S, Meets(S, key)[m] = Meets(S, key)[n]
  PROVE  m = n
<1>1. PICK p \in PositionsOf(m) : Meets(S, key)[m] = Distance(KeyHash[key], p)
  BY MeetsAre
<1>2. PICK q \in PositionsOf(n) : Meets(S, key)[n] = Distance(KeyHash[key], q)
  BY MeetsAre
<1>3. KeyHash[key] \in Positions /\ p \in Positions /\ q \in Positions
  BY RingAssumption, PositionsAre
<1>4. p = q
  BY <1>1, <1>2, <1>3, DistancesDiffer
<1> QED BY <1>4, OwnerIs

\* The walk of a ring, as a list of its servers by rank.
LEMMA WalkIs ==
  ASSUME PositionsDiffer, NEW S, S \subseteq Servers, NEW key \in Keys
  PROVE  /\ Range(RingOf(S)) = S
         /\ WalkOrder(RingOf(S), key) =
              [k \in 1..Cardinality(S) |->
                 CHOOSE n \in S : Cardinality(Before(S, Meets(S, key), n)) = k - 1]
<1>1. Range(RingOf(S)) = S
  <2>1. \A n \in S : \E p \in DOMAIN RingOf(S) : RingOf(S)[p] = n
    BY RingHas, PositionsAre
  <2> QED BY <2>1, RingHas DEF Range
<1>2. WalkOrder(RingOf(S), key) =
        LET met == Meets(S, key)
        IN  [k \in 1..Cardinality(S) |->
               CHOOSE n \in S : Cardinality({m \in S : met[m] < met[n]}) = k - 1]
  BY <1>1 DEF WalkOrder, Meets
<1> QED BY <1>1, <1>2 DEF Before

\* A request is routed to every server of the ring, to each once and first to the
\* one that the number is assigned to.
LEMMA RouteIs ==
  ASSUME PositionsDiffer, NEW S, S \subseteq Servers, S # {}, NEW key \in Keys
  PROVE  /\ WalkEnds(RingOf(S), S)
         /\ Range(RouteRequest(RingOf(S), S, key)) = S
         /\ IsInjective(RouteRequest(RingOf(S), S, key))
         /\ RouteRequest(RingOf(S), S, key)[1] = GetNode(RingOf(S), key)
<1> DEFINE walk == WalkOrder(RingOf(S), key)
           met == Meets(S, key)
           c == Cardinality(S)
           rank(n) == Cardinality(Before(S, met, n))
<1>1. IsFiniteSet(S)
  <2>1. IsFiniteSet(Servers)
    BY MembershipAssumption, FS_Interval DEF Servers
  <2> QED BY <2>1, FS_Subset
<1>2. c \in Nat \ {0}
  BY <1>1, FS_CardinalityType, FS_EmptySet
<1>3. /\ \A n \in S : met[n] \in Nat
      /\ \A m, n \in S : met[m] = met[n] => m = n
  BY MeetsAre, MeetsDiffer
<1>4. /\ DOMAIN walk = 1..c
      /\ \A k \in 1..c : walk[k] = CHOOSE n \in S : rank(n) = k - 1
  <2>1. walk = [k \in 1..c |-> CHOOSE n \in S : rank(n) = k - 1]
    BY WalkIs
  <2> HIDE DEF walk, rank, c
  <2> QED BY <2>1
<1> HIDE DEF walk, met
<1>5. ASSUME NEW k \in 1..c PROVE walk[k] \in S /\ rank(walk[k]) = k - 1
  <2>1. \E n \in S : rank(n) = k - 1
    BY <1>1, <1>3, RanksFill
  <2> QED BY <1>4, <2>1
<1>6. ASSUME NEW n \in S PROVE \E k \in 1..c : walk[k] = n /\ rank(n) = k - 1
  <2>1. rank(n) \in 0..(c - 1)
    BY <1>1, <1>3, RanksDiffer
  <2>2. rank(n) + 1 \in 1..c /\ rank(n) = (rank(n) + 1) - 1
    BY <1>2, <2>1
  <2>3. walk[rank(n) + 1] \in S /\ rank(walk[rank(n) + 1]) = rank(n)
    BY <1>5, <2>2
  <2>4. walk[rank(n) + 1] = n
    BY <1>1, <1>3, <2>3, RanksDiffer
  <2> QED BY <2>2, <2>4
<1> DEFINE route == RouteRequest(RingOf(S), S, key)
<1>7. route = SubSeq(walk, 1, c)
  BY DEF RouteRequest, walk
<1> HIDE DEF route, c
<1>8. DOMAIN route = 1..c /\ \A k \in 1..c : route[k] = walk[k]
  <2>1. walk = [k \in 1..c |-> walk[k]]
    BY WalkIs DEF walk, c
  <2>2. walk \in Seq(S)
    BY <1>2, <1>5, <2>1
  <2>3. Len(walk) = c
    BY <1>2, <1>4, <2>2
  <2> QED BY <1>2, <1>7, <2>2, <2>3
<1>9. Range(route) = S
  BY <1>5, <1>6, <1>8 DEF Range
<1>10. IsInjective(route)
  <2>1. ASSUME NEW j \in 1..c, NEW k \in 1..c, walk[j] = walk[k] PROVE j = k
    <3>1. j - 1 = k - 1
      BY <1>5, <2>1
    <3> QED BY <1>2, <3>1
  <2> QED BY <1>8, <2>1 DEF IsInjective
<1>11. WalkEnds(RingOf(S), S)
  BY <1>2, WalkIs DEF WalkEnds, c
<1>12. route[1] = GetNode(RingOf(S), key)
  <2> DEFINE h == KeyHash[key]
             p == Nearest(RingOf(S), h)
             first == RingOf(S)[p]
  <2>1. h \in Positions
    BY RingAssumption
  <2>2. /\ p \in DOMAIN RingOf(S)
        /\ \A q \in DOMAIN RingOf(S) : Distance(h, p) <= Distance(h, q)
    <3> HIDE DEF h
    <3> QED BY <2>1, NearestIs
  <2>3. GetNode(RingOf(S), key) = first
    BY DEF GetNode
  <2> HIDE DEF p
  <2>4. p \in Positions /\ first \in S /\ p \in PositionsOf(first)
    BY <2>2, RingHas
  <2> HIDE DEF first
  <2>5. met[first] <= Distance(h, p)
    BY <2>4, MeetsAre DEF met
  <2>6. ASSUME NEW n \in S PROVE ~ (met[n] < met[first])
    <3>1. PICK q \in PositionsOf(n) : met[n] = Distance(h, q)
      BY MeetsAre DEF met
    <3>2. Distance(h, p) <= Distance(h, q)
      BY <2>2, RingHas
    <3>3. Distance(h, p) \in Nat
      BY <2>1, <2>4, DistancesDiffer
    <3>4. met[n] \in Nat /\ met[first] \in Nat
      BY <1>3, <2>4
    <3> HIDE DEF h
    <3> QED BY <2>5, <3>1, <3>2, <3>3, <3>4
  <2>7. rank(first) = 0
    <3>1. Before(S, met, first) = {}
      BY <2>6 DEF Before
    <3> QED BY <3>1, FS_EmptySet
  <2>8. PICK k \in 1..c : walk[k] = first /\ rank(first) = k - 1
    BY <1>6, <2>4
  <2>9. k = 1
    BY <2>7, <2>8
  <2> QED BY <1>8, <2>3, <2>8, <2>9
<1> QED BY <1>9, <1>10, <1>11, <1>12 DEF route

-----------------------------------------------------------------------------
(* Every server's ring is the ring of its members.                         *)

RingFollows(s) ==
  /\ nodes[s] \subseteq Servers /\ ring[s] = RingOf(nodes[s])
  /\ known[s] \subseteq Servers \ {s} /\ snapshot[s] \subseteq Servers \ {s}
  /\ ~Down(s) => nodes[s] = Members(s)

\* The ring of a server is that of its members in whatever order they came and
\* left; discovery never lists the server itself, so that it never leaves.
RingInv ==
  /\ MembershipInv
  /\ DOMAIN ring = Servers /\ DOMAIN nodes = Servers
  /\ \A s \in Servers : RingFollows(s)

\* A step that leaves the members as they are.
LEMMA MembersKeep ==
  ASSUME RingInv, UNCHANGED <<known, ring, nodes>>,
         \A s \in Servers : /\ DOMAIN peers'[s] = DOMAIN peers[s]
                            /\ snapshot'[s] \subseteq Servers \ {s}
                            /\ Down(s) => Down(s)'
  PROVE  /\ DOMAIN ring' = Servers /\ DOMAIN nodes' = Servers
         /\ \A s \in Servers : RingFollows(s)'
<1>1. ASSUME NEW s \in Servers PROVE RingFollows(s)'
  BY DEF RingInv, RingFollows, Members
<1> QED BY <1>1 DEF RingInv

\* A step of one server's own members.
LEMMA OwnMembersKeep ==
  ASSUME RingInv, NEW s \in Servers, RingFollows(s)',
         DOMAIN ring' = Servers, DOMAIN nodes' = Servers,
         \A t \in Servers \ {s} :
           /\ known'[t] = known[t] /\ peers'[t] = peers[t] /\ loop'[t] = loop[t]
           /\ snapshot'[t] = snapshot[t] /\ ring'[t] = ring[t] /\ nodes'[t] = nodes[t]
  PROVE  \A t \in Servers : RingFollows(t)'
<1> SUFFICES ASSUME NEW t \in Servers PROVE RingFollows(t)'
  OBVIOUS
<1>1. CASE t = s
  BY <1>1
<1>2. CASE t # s
  BY <1>2 DEF RingInv, RingFollows, Members, Down
<1> QED BY <1>1, <1>2

\* A process that ends forgets its ring.
LEMMA ForgetKeepsRing ==
  ASSUME RingInv, NEW s \in Servers, Forget(s)
  PROVE  RingInv'
<1>1. DOMAIN ring = Servers /\ DOMAIN nodes = Servers /\ Types
  BY DEF RingInv, MembershipInv
<1>2. /\ known'[s] = {} /\ snapshot'[s] = {} /\ nodes'[s] = {} /\ ring'[s] = EmptyRing
      /\ DOMAIN ring' = Servers /\ DOMAIN nodes' = Servers /\ Down(s)'
      /\ \A t \in Servers \ {s} :
           /\ known'[t] = known[t] /\ peers'[t] = peers[t] /\ loop'[t] = loop[t]
           /\ snapshot'[t] = snapshot[t] /\ ring'[t] = ring[t] /\ nodes'[t] = nodes[t]
  BY <1>1 DEF Forget, Types, Down
<1>3. EmptyRing = RingOf({})
  BY DEF EmptyRing, RingOf
<1>4. RingFollows(s)'
  BY <1>2, <1>3 DEF RingFollows
<1>5. \A t \in Servers : RingFollows(t)'
  BY <1>2, <1>4, OwnMembersKeep
<1>6. MembershipInv'
  BY ForgetKeeps DEF RingInv
<1> QED BY <1>2, <1>5, <1>6 DEF RingInv

\* A server that starts has the ring of itself and its bootstrap peers.
LEMMA StartKeepsRing ==
  ASSUME PositionsDiffer, RingInv, NEW s \in Servers, Start(s)
  PROVE  RingInv'
<1> DEFINE bootstrap == BootstrapPeers[s] \ {s}
<1>1. DOMAIN ring = Servers /\ DOMAIN nodes = Servers /\ Types
  BY DEF RingInv, MembershipInv
<1>2. /\ loop' = [loop EXCEPT ![s] = "boot"]
      /\ peers' = [peers EXCEPT ![s] = [p \in bootstrap |-> NeverContacted]]
      /\ ring' = [ring EXCEPT ![s] = AddNodes(AddNode(EmptyRing, s), bootstrap)]
      /\ nodes' = [nodes EXCEPT ![s] = bootstrap \cup {s}]
      /\ UNCHANGED <<snapshot, known>>
  BY DEF Start
<1>3. bootstrap \subseteq Servers
  BY MembershipAssumption
<1> HIDE DEF bootstrap
<1>4. /\ nodes'[s] = bootstrap \cup {s} /\ DOMAIN peers'[s] = bootstrap
      /\ ring'[s] = AddNodes(AddNode(EmptyRing, s), bootstrap)
      /\ DOMAIN ring' = Servers /\ DOMAIN nodes' = Servers
      /\ \A t \in Servers \ {s} :
           /\ known'[t] = known[t] /\ peers'[t] = peers[t] /\ loop'[t] = loop[t]
           /\ snapshot'[t] = snapshot[t] /\ ring'[t] = ring[t] /\ nodes'[t] = nodes[t]
  BY <1>1, <1>2 DEF Types
<1>5. ring'[s] = RingOf(nodes'[s])
  <2>1. EmptyRing = RingOf({})
    BY DEF EmptyRing, RingOf
  <2>2. AddNode(EmptyRing, s) = RingOf({s})
    <3>1. AddNode(RingOf({}), s) = RingOf({} \cup {s})
      BY AddNodeIs
    <3>2. {} \cup {s} = {s}
      OBVIOUS
    <3> QED BY <2>1, <3>1, <3>2
  <2>3. AddNodes(RingOf({s}), bootstrap) = RingOf({s} \cup bootstrap)
    <3>1. {s} \cap bootstrap = {}
      BY DEF bootstrap
    <3> QED BY <1>3, <3>1, AddNodesIs
  <2>4. {s} \cup bootstrap = bootstrap \cup {s}
    OBVIOUS
  <2> QED BY <1>4, <2>2, <2>3, <2>4
<1>6. RingFollows(s)'
  BY <1>2, <1>3, <1>4, <1>5 DEF RingInv, RingFollows, Members
<1>7. \A t \in Servers : RingFollows(t)'
  BY <1>4, <1>6, OwnMembersKeep
<1>8. MembershipInv'
  BY StartKeeps DEF RingInv
<1> QED BY <1>4, <1>7, <1>8 DEF RingInv

\* After a round a server's ring is that of the members it has after it.
LEMMA MergeKeepsRing ==
  ASSUME PositionsDiffer, RingInv, NEW s \in Servers, Merge(s)
  PROVE  RingInv'
<1> DEFINE joined == snapshot[s] \ known[s]
           left == known[s] \ snapshot[s]
<1>1. DOMAIN ring = Servers /\ DOMAIN nodes = Servers /\ Types /\ RingFollows(s)
  BY DEF RingInv, MembershipInv
<1>2. /\ loop[s] = "merge"
      /\ peers' = [peers EXCEPT ![s] = Without(AddPeers(@, joined), left)]
      /\ ring' = [ring EXCEPT ![s] = RemoveNodes(AddNodes(@, joined \ nodes[s]), left)]
      /\ nodes' = [nodes EXCEPT ![s] = (@ \cup joined) \ left]
      /\ known' = [known EXCEPT ![s] = snapshot[s]]
      /\ snapshot' = [snapshot EXCEPT ![s] = {}]
      /\ loop' = [loop EXCEPT ![s] = "register"]
  BY DEF Merge
<1>3. /\ nodes[s] \subseteq Servers /\ ring[s] = RingOf(nodes[s])
      /\ joined \subseteq Servers \ {s} /\ left \subseteq Servers \ {s}
      /\ nodes[s] = DOMAIN peers[s] \cup {s}
  BY <1>1, <1>2 DEF RingFollows, Down, Members
<1>4. /\ peers'[s] = Without(AddPeers(peers[s], joined), left)
      /\ ring'[s] = RemoveNodes(AddNodes(ring[s], joined \ nodes[s]), left)
      /\ nodes'[s] = (nodes[s] \cup joined) \ left
      /\ known'[s] = snapshot[s] /\ snapshot'[s] = {}
      /\ DOMAIN ring' = Servers /\ DOMAIN nodes' = Servers
      /\ \A t \in Servers \ {s} :
           /\ known'[t] = known[t] /\ peers'[t] = peers[t] /\ loop'[t] = loop[t]
           /\ snapshot'[t] = snapshot[t] /\ ring'[t] = ring[t] /\ nodes'[t] = nodes[t]
  BY <1>1, <1>2 DEF Types
<1> HIDE DEF joined, left
<1>5. ring'[s] = RingOf(nodes'[s])
  <2> DEFINE all == nodes[s] \cup joined
  <2>1. AddNodes(RingOf(nodes[s]), joined \ nodes[s]) = RingOf(nodes[s] \cup (joined \ nodes[s]))
    <3>1. joined \ nodes[s] \subseteq Servers /\ nodes[s] \cap (joined \ nodes[s]) = {}
      BY <1>3
    <3> QED BY <1>3, <3>1, AddNodesIs
  <2>2. nodes[s] \cup (joined \ nodes[s]) = all
    OBVIOUS
  <2>3. all \subseteq Servers /\ left \subseteq Servers
    BY <1>3
  <2>4. nodes'[s] = all \ left
    BY <1>4
  <2> HIDE DEF all
  <2>5. RemoveNodes(RingOf(all), left) = RingOf(all \ left)
    BY <2>3, RemoveNodesIs
  <2> QED BY <1>3, <1>4, <2>1, <2>2, <2>4, <2>5
<1>6. DOMAIN peers'[s] = (DOMAIN peers[s] \cup joined) \ left
  <2>1. DOMAIN AddPeers(peers[s], joined) = DOMAIN peers[s] \cup joined
    BY DEF AddPeers
  <2>2. peers'[s] = Without(AddPeers(peers[s], joined), left)
    BY <1>4
  <2>3. DOMAIN peers'[s] = DOMAIN AddPeers(peers[s], joined) \ left
    BY <2>2, WithoutIs
  <2> QED BY <2>1, <2>3
<1>7. nodes'[s] = DOMAIN peers'[s] \cup {s}
  BY <1>3, <1>4, <1>6
<1>8. RingFollows(s)'
  <2>1. nodes'[s] \subseteq Servers
    BY <1>3, <1>4
  <2>2. known'[s] \subseteq Servers \ {s} /\ snapshot'[s] \subseteq Servers \ {s}
    BY <1>1, <1>4 DEF RingFollows
  <2> QED BY <1>5, <1>7, <2>1, <2>2 DEF RingFollows, Members
<1>9. \A t \in Servers : RingFollows(t)'
  BY <1>4, <1>8, OwnMembersKeep
<1>10. MembershipInv'
  BY MergeKeeps DEF RingInv
<1> QED BY <1>4, <1>9, <1>10 DEF RingInv

\* The other steps of the worker's loop: what it reads is never itself.
LEMMA RoundKeepsRing ==
  ASSUME RingInv, NEW s \in Servers,
         Stop(s) \/ RoundFails(s) \/ Register(s) \/ RegisterLate(s) \/ Fetch(s)
  PROVE  RingInv'
<1>1. Types /\ \A t \in Servers : snapshot[t] \subseteq Servers \ {t}
  BY DEF RingInv, MembershipInv, RingFollows
<1>2. UNCHANGED <<known, peers, ring, nodes>>
  BY DEF Stop, RoundFails, Register, RegisterLate, Fetch
<1>3. \/ snapshot' = snapshot
      \/ snapshot' = [snapshot EXCEPT ![s] = {}]
      \/ snapshot' = [snapshot EXCEPT ![s] = ActivePeers(s)]
  BY DEF Stop, RoundFails, Register, RegisterLate, Fetch
<1>4. \A t \in Servers : snapshot'[t] \subseteq Servers \ {t}
  <2>1. ActivePeers(s) \subseteq Servers \ {s}
    BY DEF ActivePeers
  <2> QED BY <1>1, <1>3, <2>1 DEF Types
<1>5. \A t \in Servers : Down(t) => Down(t)'
  <2>1. \/ loop' = loop
        \/ ~Down(s) /\ \E l \in {"stopping", "register", "fetch", "merge"} :
                         loop' = [loop EXCEPT ![s] = l]
    BY DEF Stop, RoundFails, Register, RegisterLate, Fetch, Serving, Running, Down
  <2> QED BY <1>1, <2>1 DEF Down, Types
<1>6. MembershipInv'
  BY RoundKeeps DEF RingInv
<1> QED BY <1>2, <1>4, <1>5, <1>6, MembersKeep DEF RingInv

\* Heartbeats and time change contacts, and nobody's members.
LEMMA ContactsKeepRing ==
  ASSUME RingInv, MembershipInv', UNCHANGED <<known, snapshot, loop, ring, nodes>>,
         \A t \in Servers : DOMAIN peers'[t] = DOMAIN peers[t]
  PROVE  RingInv'
<1>1. \A t \in Servers : snapshot'[t] \subseteq Servers \ {t}
  BY DEF RingInv, RingFollows
<1> QED BY <1>1, MembersKeep DEF RingInv, Down

\* A heartbeat under way, handled or answered.
LEMMA HeartbeatKeepsRing ==
  ASSUME RingInv, NEW s \in Servers, NEW p \in Servers,
         SendHeartbeats(s) \/ HandleHeartbeat(s, p) \/ HeartbeatEnds(s, p)
  PROVE  RingInv'
<1>1. Types
  BY DEF RingInv, MembershipInv
<1>2. UNCHANGED <<discovery, ring, nodes>>
  BY DEF SendHeartbeats, HandleHeartbeat, HeartbeatEnds, HeartbeatAnswered, HeartbeatFailed
<1>3. \/ peers' = peers
      \/ s \in DOMAIN peers[p] /\ peers' = [peers EXCEPT ![p][s] = JustContacted]
      \/ peers' = [peers EXCEPT ![s] = [q \in DOMAIN @ |->
                                          IF q = p THEN JustContacted ELSE @[q]]]
  BY DEF SendHeartbeats, HandleHeartbeat, HeartbeatEnds, HeartbeatAnswered, HeartbeatFailed
<1>4. \A t \in Servers : DOMAIN peers'[t] = DOMAIN peers[t]
  BY <1>1, <1>3 DEF Types
<1>5. MembershipInv'
  BY HeartbeatKeeps DEF RingInv
<1> QED BY <1>2, <1>4, <1>5, ContactsKeepRing DEF discovery

\* Every step keeps it.
LEMMA StepKeepsRingInv ==
  ASSUME PositionsDiffer, RingInv, [Next]_vars
  PROVE  RingInv'
<1>1. CASE UNCHANGED vars
  BY <1>1 DEF vars, RingInv, RingFollows, Members, Down, MembershipInv, Types,
              NobodyKnownDown, PeersAreKnown
<1>2. ASSUME NEW s \in Servers, Crash(s) \/ Deregister(s)
      PROVE  RingInv'
  BY <1>2, ForgetKeepsRing DEF Crash, Deregister
<1>3. CASE Tick
  <2>1. /\ UNCHANGED <<known, snapshot, loop, ring, nodes>>
        /\ \A t \in Servers : DOMAIN peers'[t] = DOMAIN peers[t]
    BY <1>3 DEF Tick
  <2>2. MembershipInv'
    BY <1>3, TickKeeps DEF RingInv
  <2> QED BY <2>1, <2>2, ContactsKeepRing
<1> QED BY <1>1, <1>2, <1>3, StartKeepsRing, MergeKeepsRing, RoundKeepsRing,
           HeartbeatKeepsRing DEF Next, Work

\* The ring of every server is that of its members in every reachable state.
THEOREM RingInvariant ==
  ASSUME PositionsDiffer
  PROVE  Spec => []RingInv
<1>1. Init => RingInv
  <2> SUFFICES ASSUME Init PROVE RingInv
    OBVIOUS
  <2>1. MembershipInv
    BY InitMembershipInv
  <2>2. EmptyRing = RingOf({})
    BY DEF EmptyRing, RingOf
  <2> QED BY <2>1, <2>2 DEF Init, RingInv, RingFollows, Down
<1>2. RingInv /\ [Next]_vars => RingInv'
  BY StepKeepsRingInv
<1> QED BY <1>1, <1>2, PTL DEF Spec

\* The ring of a server that is not down.
LEMMA FollowingRing ==
  ASSUME RingInv, NEW s \in Servers, ~Down(s)
  PROVE  /\ nodes[s] \subseteq Servers /\ ring[s] = RingOf(nodes[s])
         /\ nodes[s] = Members(s) /\ nodes[s] # {}
<1>1. RingFollows(s)
  BY DEF RingInv
<1> QED BY <1>1 DEF RingFollows, Members

\* Servers with the same members route every number alike, whatever came and left.
THEOREM RoutesAgreeTheorem ==
  ASSUME PositionsDiffer
  PROVE  Spec => []RoutesAgree
<1>1. RingInv => RoutesAgree
  BY DEF RingInv, RingFollows, RoutesAgree
<1> QED BY <1>1, RingInvariant, PTL

\* A request is routed to the server itself and all of its peers, to each once and
\* first to the one its number is assigned to, and the search for them ends.
THEOREM RouteTheorem ==
  ASSUME PositionsDiffer
  PROVE  Spec => []RouteNamesMembers
<1>1. RingInv => RouteNamesMembers
  <2> SUFFICES ASSUME RingInv, NEW s \in Servers, ~Down(s), NEW key \in Keys
               PROVE  /\ WalkEnds(ring[s], nodes[s])
                      /\ Range(RouteRequest(ring[s], nodes[s], key)) = Members(s)
                      /\ IsInjective(RouteRequest(ring[s], nodes[s], key))
                      /\ RouteRequest(ring[s], nodes[s], key)[1] = GetNode(ring[s], key)
    BY DEF RouteNamesMembers
  <2>1. /\ nodes[s] \subseteq Servers /\ ring[s] = RingOf(nodes[s])
        /\ nodes[s] = Members(s) /\ nodes[s] # {}
    BY FollowingRing
  <2> QED BY <2>1, RouteIs
<1> QED BY <1>1, RingInvariant, PTL

\* A merge moves a number only to a server that joined, or from one that left.
THEOREM AssignmentTheorem ==
  ASSUME PositionsDiffer
  PROVE  Spec => NumbersStayAssigned
<1> DEFINE Moves(s, key) ==
             LET before == GetNode(ring[s], key)
                 after  == GetNode(ring'[s], key)
             IN  after = before \/ after \notin nodes[s] \/ before \notin nodes'[s]
<1>1. ASSUME RingInv, RingInv', NEW s \in Servers, Merge(s), NEW key \in Keys
      PROVE  Moves(s, key)
  <2>1. ~Down(s) /\ ~Down(s)'
    <3>1. loop[s] = "merge" /\ loop' = [loop EXCEPT ![s] = "register"]
      BY <1>1 DEF Merge
    <3> QED BY <1>1, <3>1 DEF Down, RingInv, MembershipInv, Types
  <2>2. /\ nodes[s] \subseteq Servers /\ ring[s] = RingOf(nodes[s]) /\ nodes[s] # {}
    BY <1>1, <2>1, FollowingRing
  <2>3. /\ nodes'[s] \subseteq Servers /\ ring'[s] = RingOf(nodes'[s]) /\ nodes'[s] # {}
    <3>1. RingFollows(s)'
      BY <1>1 DEF RingInv
    <3> QED BY <2>1, <3>1 DEF RingFollows, Members
  <2> QED BY <2>2, <2>3, AssignmentStays
<1>2. RingInv /\ RingInv' /\ [Next]_vars =>
        [\A s \in Servers : Merge(s) => \A key \in Keys : Moves(s, key)]_vars
  BY <1>1
<1>3. NumbersStayAssigned <=>
        [][\A s \in Servers : Merge(s) => \A key \in Keys : Moves(s, key)]_vars
  BY DEF NumbersStayAssigned
<1> HIDE DEF Moves
<1> QED BY <1>2, <1>3, RingInvariant, PTL DEF Spec
=============================================================================
