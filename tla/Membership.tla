----------------------------- MODULE Membership -----------------------------
(***************************************************************************)
(* How the servers find and lose one another: the registry file all of     *)
(* them write (ServiceRegistry), the worker of each that reads it          *)
(* (DiscoveryWorker), the peers its gossip node keeps and its hash ring,   *)
(* both changed by the worker's callbacks, and the heartbeats that tell    *)
(* which peers are alive.  src/src/distributed/discovery_registry.py,      *)
(* gossip.py, heartbeat_worker.py and the start and stop of routes.py.     *)
(*                                                                         *)
(* A server is one event loop: between two awaits nothing interleaves, so  *)
(* every action runs from one await to the next.  The registry is written  *)
(* and read in threads (to_thread): the loop goes on in between, and a     *)
(* thread outlives the task that waited for it.                            *)
(*                                                                         *)
(* Time passes in Ticks; what matters of it is the age of rows and of last *)
(* contacts, counted up to where it makes no difference any more.          *)
(***************************************************************************)
EXTENDS HashRing

CONSTANTS
  N,               \* servers: their ids are 1..N, in the order of the names
  BootstrapPeers,  \* BOOTSTRAP_PEERS of each server
  Crashed,         \* servers that have just crashed, for good: their rows are there
  TTL,             \* PEER_TTL_SECONDS, also the heartbeat timeout
  Beating,         \* bound: servers whose heartbeats are followed
  MaxChanges       \* bound: how often servers start, stop, crash or miss a round

Servers == 1..N

ASSUME MembershipAssumption ==
  /\ N \in Nat \ {0} /\ Crashed \subseteq Servers /\ Beating \subseteq Servers
  /\ BootstrapPeers \in [Servers -> SUBSET Servers]
  /\ TTL \in Nat \ {0} /\ MaxChanges \in Nat
  /\ DOMAIN VirtualHash = Servers \X (0..(VirtualNodes - 1)) \X (0..Salts)

VARIABLES
  registry,  \* rows of the registry: seconds since last_seen of each server
  loop,      \* where each server's DiscoveryWorker is
  writing,   \* a registration thread that the stopping worker left behind
  snapshot,  \* what get_active_peers returned, not yet looked at
  known,     \* _known_peers
  peers,     \* peers of the gossip node: the age of each one's last_contact
  ring,      \* hash_ring of the ConsistentHash
  nodes,     \* its nodes
  beats,     \* heartbeats under way: whether the peer has handled it
  changes

vars == <<registry, loop, writing, snapshot, known, peers, ring, nodes, beats, changes>>

discovery == <<registry, loop, writing, snapshot, known>>

\* No row, or one or a contact too old to count.
Gone == TTL + 1

Down(s) == loop[s] = "down"
\* The start has got as far as the workers.
Running(s) == loop[s] \notin {"down", "boot"}
\* Requests are answered: from the end of the start to the beginning of the stop.
Serving(s) == Running(s) /\ loop[s] # "stopping"

Nobody == [p \in {} |-> 0]

\* A dictionary of the program without one of its keys.
Without(dict, S) == Restrict(dict, DOMAIN dict \ S)

-----------------------------------------------------------------------------
(* The gossip node and the hash ring.                                      *)

\* The peer of a bootstrap entry has not been heard of; one found in the
\* registry counts as contacted just now.  Whether a peer is alive is asked of
\* its last contact only: status and error_count are reported and never read.
NeverContacted == TTL
JustContacted == 0

IsAlive(contact) == contact < TTL

AddPeers(dict, S) ==
  [p \in DOMAIN dict \cup S |-> IF p \in DOMAIN dict THEN dict[p] ELSE JustContacted]

\* Peers join the ring one after another, in the order the registry lists them.
AddNodes(r, S) ==
  LET added[n \in 0..N] ==
        IF n = 0 THEN r ELSE IF n \in S THEN AddNode(added[n - 1], n) ELSE added[n - 1]
  IN  added[N]

RemoveNodes(r, S) ==
  LET left[n \in 0..N] ==
        IF n = 0 THEN r ELSE IF n \in S THEN RemoveNode(left[n - 1], n) ELSE left[n - 1]
  IN  left[N]

-----------------------------------------------------------------------------
(* A server starts, stops and crashes.                                     *)

Init ==
  /\ registry = [s \in Servers |-> IF s \in Crashed THEN 0 ELSE Gone]
  /\ loop = [s \in Servers |-> "down"]
  /\ writing = [s \in Servers |-> FALSE]
  /\ snapshot = [s \in Servers |-> {}]
  /\ known = [s \in Servers |-> {}]
  /\ peers = [s \in Servers |-> Nobody]
  /\ ring = [s \in Servers |-> EmptyRing]
  /\ nodes = [s \in Servers |-> {}]
  /\ beats = [s \in Servers |-> Nobody]
  /\ changes = 0

\* A process that ends leaves nothing but its row in the registry.
Forget(s) ==
  /\ loop' = [loop EXCEPT ![s] = "down"]
  /\ snapshot' = [snapshot EXCEPT ![s] = {}]
  /\ known' = [known EXCEPT ![s] = {}]
  /\ peers' = [peers EXCEPT ![s] = Nobody]
  /\ ring' = [ring EXCEPT ![s] = EmptyRing]
  /\ nodes' = [nodes EXCEPT ![s] = {}]
  /\ beats' = [beats EXCEPT ![s] = Nobody]

Start(s) ==
  LET bootstrap == BootstrapPeers[s] \ {s}
  IN  /\ s \notin Crashed /\ Down(s) /\ ~writing[s] /\ changes < MaxChanges
      /\ changes' = changes + 1
      /\ loop' = [loop EXCEPT ![s] = "boot"]
      /\ peers' = [peers EXCEPT ![s] = [p \in bootstrap |-> NeverContacted]]
      /\ ring' = [ring EXCEPT ![s] = AddNodes(AddNode(EmptyRing, s), bootstrap)]
      /\ nodes' = [nodes EXCEPT ![s] = bootstrap \cup {s}]
      /\ UNCHANGED <<registry, writing, snapshot, known, beats>>

Crash(s) ==
  /\ ~Down(s) /\ changes < MaxChanges
  /\ changes' = changes + 1
  /\ writing' = [writing EXCEPT ![s] = FALSE]
  /\ Forget(s)
  /\ UNCHANGED registry

\* stop cancels the loop; a registration that its thread has begun is not
\* cancelled with it.
Stop(s) ==
  /\ Serving(s) /\ changes < MaxChanges
  /\ changes' = changes + 1
  /\ loop' = [loop EXCEPT ![s] = "stopping"]
  /\ snapshot' = [snapshot EXCEPT ![s] = {}]
  /\ \E begun \in BOOLEAN :
       /\ begun => loop[s] = "register"
       /\ writing' = [writing EXCEPT ![s] = begun]
  /\ UNCHANGED <<registry, known, peers, ring, nodes, beats>>

\* The row is deleted, the other workers stop and the process ends.
Deregister(s) ==
  /\ loop[s] = "stopping"
  /\ registry' = [registry EXCEPT ![s] = Gone]
  /\ Forget(s)
  /\ UNCHANGED <<writing, changes>>

\* The thread left behind writes the row all the same; the process waits for it.
RegisterLate(s) ==
  /\ writing[s]
  /\ registry' = [registry EXCEPT ![s] = 0]
  /\ writing' = [writing EXCEPT ![s] = FALSE]
  /\ UNCHANGED <<loop, snapshot, known, peers, ring, nodes, beats, changes>>

-----------------------------------------------------------------------------
(* One round of the DiscoveryWorker.                                       *)

\* The registration of the start, before the loop runs, and that of a round,
\* which begins when the loop has slept.
Register(s) ==
  /\ loop[s] \in {"boot", "register"}
  /\ registry' = [registry EXCEPT ![s] = 0]
  /\ loop' = [loop EXCEPT ![s] = IF @ = "boot" THEN "register" ELSE "fetch"]
  /\ UNCHANGED <<writing, snapshot, known, peers, ring, nodes, beats, changes>>

\* A bug variant of the definition that follows.
ActivePeersEver(s) == {p \in Servers \ {s} : registry[p] <= TTL \/ p \in known[s]}

ActivePeers(s) == {p \in Servers \ {s} : registry[p] <= TTL}

Fetch(s) ==
  /\ loop[s] = "fetch"
  /\ snapshot' = [snapshot EXCEPT ![s] = ActivePeers(s)]
  /\ loop' = [loop EXCEPT ![s] = "merge"]
  /\ UNCHANGED <<registry, writing, known, peers, ring, nodes, beats, changes>>

\* A bug variant of the definition that follows.
MergeKeepingRing(s) ==
  LET joined == snapshot[s] \ known[s]
      left   == known[s] \ snapshot[s]
  IN  /\ loop[s] = "merge"
      /\ peers' = [peers EXCEPT ![s] = Without(AddPeers(@, joined), left)]
      /\ ring' = [ring EXCEPT ![s] = AddNodes(@, joined \ nodes[s])]
      /\ nodes' = [nodes EXCEPT ![s] = @ \cup joined]
      /\ known' = [known EXCEPT ![s] = snapshot[s]]
      /\ snapshot' = [snapshot EXCEPT ![s] = {}]
      /\ loop' = [loop EXCEPT ![s] = "register"]
      /\ UNCHANGED <<registry, writing, beats, changes>>

\* New peers join and departed ones leave, in the gossip node and in the ring.
Merge(s) ==
  LET joined == snapshot[s] \ known[s]
      left   == known[s] \ snapshot[s]
  IN  /\ loop[s] = "merge"
      /\ peers' = [peers EXCEPT ![s] = Without(AddPeers(@, joined), left)]
      /\ ring' = [ring EXCEPT ![s] = RemoveNodes(AddNodes(@, joined \ nodes[s]), left)]
      /\ nodes' = [nodes EXCEPT ![s] = (@ \cup joined) \ left]
      /\ known' = [known EXCEPT ![s] = snapshot[s]]
      /\ snapshot' = [snapshot EXCEPT ![s] = {}]
      /\ loop' = [loop EXCEPT ![s] = "register"]
      /\ UNCHANGED <<registry, writing, beats, changes>>

\* The registry cannot be written or read: the loop tries again next time.
RoundFails(s) ==
  /\ loop[s] \in {"register", "fetch"} /\ changes < MaxChanges
  /\ changes' = changes + 1
  /\ loop' = [loop EXCEPT ![s] = "register"]
  /\ UNCHANGED <<registry, writing, snapshot, known, peers, ring, nodes, beats>>

-----------------------------------------------------------------------------
(* Heartbeats.                                                             *)

\* A round posts to all the peers there are; the next begins when all of its
\* posts have ended.
SendHeartbeats(s) ==
  /\ s \in Beating /\ Running(s)
  /\ beats[s] = Nobody /\ peers[s] # Nobody
  /\ beats' = [beats EXCEPT ![s] = [p \in DOMAIN peers[s] |-> "posted"]]
  /\ UNCHANGED <<discovery, peers, ring, nodes, changes>>

\* The peer p gets the heartbeat of s.  A sender p does not know is ignored.
HandleHeartbeat(s, p) ==
  /\ p \in DOMAIN beats[s] /\ beats[s][p] = "posted"
  /\ Serving(p)
  /\ peers' = IF s \in DOMAIN peers[p]
                THEN [peers EXCEPT ![p][s] = JustContacted]
                ELSE peers
  /\ beats' = [beats EXCEPT ![s][p] = "handled"]
  /\ UNCHANGED <<discovery, ring, nodes, changes>>

\* A bug variant of the definition that follows.
HeartbeatAnsweredReviving(s, p) ==
  /\ p \in DOMAIN beats[s] /\ beats[s][p] = "handled"
  /\ peers' = [peers EXCEPT ![s] = [q \in DOMAIN @ \cup {p} |->
                                      IF q = p THEN JustContacted ELSE @[q]]]
  /\ beats' = [beats EXCEPT ![s] = Without(@, {p})]
  /\ UNCHANGED <<discovery, ring, nodes, changes>>

\* The answer arrives.  A peer that has been removed since is a KeyError, which
\* counts as a failure.
HeartbeatAnswered(s, p) ==
  /\ p \in DOMAIN beats[s] /\ beats[s][p] = "handled"
  /\ peers' = [peers EXCEPT ![s] = [q \in DOMAIN @ |->
                                      IF q = p THEN JustContacted ELSE @[q]]]
  /\ beats' = [beats EXCEPT ![s] = Without(@, {p})]
  /\ UNCHANGED <<discovery, ring, nodes, changes>>

\* No connection, no answer in time, or an error for an answer: the peer's
\* errors are counted, its last contact stays.
HeartbeatFailed(s, p) ==
  /\ p \in DOMAIN beats[s]
  /\ beats' = [beats EXCEPT ![s] = Without(@, {p})]
  /\ UNCHANGED <<discovery, peers, ring, nodes, changes>>

-----------------------------------------------------------------------------
Tick ==
  /\ registry' = [s \in Servers |-> Min({registry[s] + 1, Gone})]
  /\ peers' = [s \in Servers |-> [p \in DOMAIN peers[s] |-> Min({peers[s][p] + 1, TTL})]]
  /\ UNCHANGED <<loop, writing, snapshot, known, ring, nodes, beats, changes>>

\* The steps a running server takes by itself.
Work(s) ==
  \/ Register(s) \/ Fetch(s) \/ Merge(s)
  \/ Deregister(s) \/ RegisterLate(s)

HeartbeatEnds(s, p) == HeartbeatAnswered(s, p) \/ HeartbeatFailed(s, p)

Next ==
  \/ \E s \in Servers :
       \/ Start(s) \/ Crash(s) \/ Stop(s) \/ RoundFails(s)
       \/ Work(s) \/ SendHeartbeats(s)
       \/ \E p \in Servers : HandleHeartbeat(s, p) \/ HeartbeatEnds(s, p)
  \/ Tick

Spec == Init /\ [][Next]_vars

\* Loops run, threads return, posts time out and time passes; nothing makes a
\* server start, stop or crash, nor a heartbeat arrive.
FairSpec ==
  /\ Spec
  /\ WF_vars(Tick)
  /\ \A s \in Servers :
       /\ WF_vars(Work(s))
       /\ WF_vars(\E p \in Servers : HeartbeatEnds(s, p))

-----------------------------------------------------------------------------
(* Properties.                                                             *)

Members(s) == DOMAIN peers[s] \cup {s}

\* The peers of the gossip node are those that discovery knows, and bootstrap
\* peers that it has not seen yet: an answer to a heartbeat that was under way
\* does not bring back a peer that was removed (heartbeat_worker 132-136,
\* discovery_registry 226-240, gossip 225-258).
PeersAreKnown ==
  \A s \in Servers :
    /\ known[s] \subseteq DOMAIN peers[s]
    /\ DOMAIN peers[s] \subseteq known[s] \cup BootstrapPeers[s]

\* Whatever has joined and left, a request for any number is routed to the
\* server itself and its peers, to each once, the assigned one first, and the
\* search for them ends (hashing 110-172, routes 191-201).
RouteNamesMembers ==
  \A s \in Servers : ~Down(s) => \A key \in Keys :
    LET route == RouteRequest(ring[s], nodes[s], key)
    IN  /\ WalkEnds(ring[s], nodes[s])
        /\ Range(route) = Members(s) /\ IsInjective(route)
        /\ route[1] = GetNode(ring[s], key)

\* Two servers with the same members send every number to the same servers in
\* the same order, whatever the order in which they have met them and whom
\* they have lost (hashing 75-108, 248-300).
RoutesAgree ==
  \A s, t \in Servers :
    s < t /\ ~Down(s) /\ ~Down(t) /\ Members(s) = Members(t) =>
      \A key \in Keys :
        RouteRequest(ring[s], nodes[s], key) = RouteRequest(ring[t], nodes[t], key)

\* A merge moves a number to another server only if that server has just
\* joined or the one before has left (hashing 75-108, 112-134).
NumbersStayAssigned ==
  [][\A s \in Servers : Merge(s) => \A key \in Keys :
       LET before == GetNode(ring[s], key)
           after  == GetNode(ring'[s], key)
       IN  after = before \/ after \notin nodes[s] \/ before \notin nodes'[s]]_vars

\* Every server that runs renews its row before it expires.
Punctual == \A s \in Servers : Serving(s) => registry[s] <= TTL

Others(s) == {p \in Servers \ {s} : Serving(p)}

Alive(s) == {p \in DOMAIN peers[s] : IsAlive(peers[s][p])}

\* When servers come and go no more and those that run renew their rows in
\* time, each knows all the others and only them: those that crashed, and one
\* whose row was written again after its stop had deleted it, are forgotten.  A
\* bootstrap peer that never came is kept, but does not count as alive
\* (discovery_registry 192-240, gossip 45-50).
MembershipConverges ==
  <>[]Punctual =>
    <>[](\A s \in Servers : Serving(s) => known[s] = Others(s) /\ Alive(s) \subseteq Others(s))
=============================================================================
