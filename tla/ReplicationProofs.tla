--------------------------- MODULE ReplicationProofs ---------------------------
(***************************************************************************)
(* The proofs about Replication, for three servers at most: whatever the   *)
(* clocks say and however batches are lost, late or reordered, a replica   *)
(* holds what the last write it has received left.                         *)
(*                                                                         *)
(* Three matters.  The rule for late events asks for the last event        *)
(* received for the account, and among several of one timestamp the        *)
(* database returns any of them.  With two other servers there can be two  *)
(* only after both have sent theirs, and no third of that timestamp comes. *)
(***************************************************************************)
EXTENDS Replication, SumTheorems, NaturalsInduction

Event == [server : Servers, time : Nat, kind : Kinds, acct : Accounts,
          before : Int, after : Nat]

EventsOf(s) == {e \in Event : e.server = s}
EventsFor(s) == {e \in Event : e.server # s}

\* What a server has for another one's event: of each request one, and an account.
RowsAreForeign(s, bal, received) ==
  /\ received \subseteq EventsFor(s)
  /\ \A e, f \in received : RequestOf(e) = RequestOf(f) => e = f
  /\ \A e \in received : e.acct \in DOMAIN bal
  /\ \A a \in DOMAIN bal : bal[a] \in Nat

\* The balance v is what the last event of E left.
LeftByLast(E, v) == \E e \in E : e.after = v /\ \A f \in E : Supersedes(e, f)

\* Accounts in own are those the server operates on itself.
FollowsLast(own, bal, received) ==
  \A a \in DOMAIN bal \ own :
    EventsOn(a, received) # {} => LeftByLast(EventsOn(a, received), bal[a])

Own(s) == {e.acct : e \in made[s]}

\* A message holds events of others, and at least the one it asks about.
Wired(m) ==
  /\ m.to \in Servers /\ m.batch \in Seq(EventsFor(m.to))
  /\ m.asking \in BOOLEAN
  /\ m.asking => m.batch # << >>

ReplicationInv ==
  /\ DOMAIN balance = Servers /\ DOMAIN rows = Servers
  /\ DOMAIN pending = Servers /\ DOMAIN made = Servers
  /\ \A s \in Servers :
       /\ pending[s] \in Seq(EventsOf(s))
       /\ RowsAreForeign(s, balance[s], rows[s])
       /\ FollowsLast(Own(s), balance[s], rows[s])
  /\ \A m \in wire : Wired(m)
-----------------------------------------------------------------------------
(* A batch is applied by a fold that takes the last event off.              *)

\* g says what the events of q with the numbers of a subset of T make of db.
Applies(g, db, q, T) ==
  g = [V \in SUBSET T |-> IF V = {} THEN db ELSE Handle(g[V \ {Max(V)}], q[Max(V)])]

\* A set of numbers of which every nonempty part has a largest.
Countable(S) == IsFiniteSet(S) /\ \A V \in SUBSET S : V # {} => Max(V) \in V

\* The numbers of a batch are one.
LEMMA NumbersCount ==
  ASSUME NEW n \in Nat
  PROVE  Countable(1..n)
<1>1. ASSUME NEW V \in SUBSET (1..n), V # {} PROVE Max(V) \in V
  <2> DEFINE T == {k \in Nat : n - k \in V}
  <2>1. T # {}
    <3>1. PICK x \in V : TRUE
      BY <1>1
    <3>2. x \in 1..n
      BY <3>1
    <3>3. n - x \in Nat /\ n - (n - x) = x
      BY <3>2
    <3> QED BY <3>1, <3>3
  <2>2. PICK m \in T : \A k \in T : <<k, m>> \notin OpToRel(<, Nat)
    <3> HIDE DEF T
    <3> T \subseteq Nat
      BY DEF T
    <3> QED BY <2>1, NatLessThanWellFounded, WFMin
  <2>3. ASSUME NEW y \in V PROVE n - m >= y
    <3>1. y \in 1..n /\ n - y \in Nat /\ n - (n - y) = y
      BY <2>3
    <3>2. n - y \in T
      BY <2>3, <3>1
    <3>3. ~ (n - y < m)
      BY <2>2, <3>2 DEF OpToRel
    <3> QED BY <3>1, <3>3
  <2> QED BY <2>2, <2>3 DEF Max
<1>2. IsFiniteSet(1..n)
  BY FS_Interval
<1> QED BY <1>1, <1>2 DEF Countable

\* Two folds of one batch agree.
LEMMA FoldsAgree ==
  ASSUME NEW S, Countable(S), NEW T, NEW db, NEW q,
         NEW g, NEW h, Applies(g, db, q, S), Applies(h, db, q, T),
         NEW U, U \subseteq S, U \subseteq T
  PROVE  g[U] = h[U]
<1> DEFINE Bad == {V \in SUBSET U : g[V] # h[V]}
<1>1. SUFFICES ASSUME Bad # {} PROVE FALSE
  OBVIOUS
<1>2. IsFiniteSet(U)
  BY FS_Subset DEF Countable
<1>3. PICK V \in Bad : \A W \in Bad : W \subseteq V => W = V
  <2> Bad \subseteq SUBSET U
    OBVIOUS
  <2> HIDE DEF Bad
  <2> QED BY <1>1, <1>2, LeastSubset
<1>4. V \subseteq S /\ V \subseteq T
  OBVIOUS
<1>5. /\ g[V] = IF V = {} THEN db ELSE Handle(g[V \ {Max(V)}], q[Max(V)])
      /\ h[V] = IF V = {} THEN db ELSE Handle(h[V \ {Max(V)}], q[Max(V)])
  BY <1>4 DEF Applies
<1>6. V # {}
  BY <1>5
<1>7. Max(V) \in V
  BY <1>4, <1>6 DEF Countable
<1>8. g[V \ {Max(V)}] = h[V \ {Max(V)}]
  BY <1>3, <1>7
<1> QED BY <1>5, <1>6, <1>8

\* Every batch has its fold.
LEMMA FoldsExist ==
  ASSUME NEW S, Countable(S), NEW db, NEW q
  PROVE  \E g : Applies(g, db, q, S)
<1> DEFINE Bad == {V \in SUBSET S : ~ \E g : Applies(g, db, q, V)}
           G(V) == CHOOSE g : Applies(g, db, q, V)
<1>1. SUFFICES ASSUME Bad # {} PROVE FALSE
  OBVIOUS
<1>2. PICK U \in Bad : \A W \in Bad : W \subseteq U => W = U
  <2>1. IsFiniteSet(S)
    BY DEF Countable
  <2> Bad \subseteq SUBSET S
    OBVIOUS
  <2> HIDE DEF Bad
  <2> QED BY <1>1, <2>1, LeastSubset
<1>3. ASSUME NEW V \in SUBSET U, V # U
      PROVE  Applies(G(V), db, q, V) /\ Countable(V)
  <2>1. \E g : Applies(g, db, q, V)
    BY <1>2, <1>3
  <2>2. Countable(V)
    <3> V \in SUBSET S
      OBVIOUS
    <3> QED BY FS_Subset DEF Countable
  <2> HIDE DEF G
  <2>3. G(V) = CHOOSE g : Applies(g, db, q, V)
    BY DEF G
  <2> QED BY <2>1, <2>2, <2>3
<1> HIDE DEF G
<1> DEFINE h == [V \in SUBSET U |->
                   IF V = U THEN IF U = {} THEN db
                                 ELSE Handle(G(U \ {Max(U)})[U \ {Max(U)}], q[Max(U)])
                   ELSE G(V)[V]]
<1>4. ASSUME NEW V \in SUBSET U, V # U
      PROVE  h[V] = IF V = {} THEN db ELSE Handle(h[V \ {Max(V)}], q[Max(V)])
  <2>1. Applies(G(V), db, q, V) /\ Countable(V)
    BY <1>3, <1>4
  <2>2. G(V)[V] = IF V = {} THEN db ELSE Handle(G(V)[V \ {Max(V)}], q[Max(V)])
    BY <2>1 DEF Applies
  <2>3. ASSUME V # {} PROVE G(V)[V \ {Max(V)}] = h[V \ {Max(V)}]
    <3> DEFINE r == V \ {Max(V)}
    <3>1. r \in SUBSET U /\ r # U /\ r \subseteq V
      BY <1>4
    <3>2. Applies(G(r), db, q, r)
      BY <1>3, <3>1
    <3> HIDE DEF r
    <3>3. G(V)[r] = G(r)[r]
      BY <2>1, <3>1, <3>2, FoldsAgree
    <3>4. h[r] = G(r)[r]
      BY <3>1
    <3> HIDE DEF h
    <3> QED BY <3>3, <3>4 DEF r
  <2>4. h[V] = G(V)[V]
    BY <1>4
  <2> HIDE DEF h
  <2> QED BY <2>2, <2>3, <2>4
<1>5. h[U] = IF U = {} THEN db ELSE Handle(h[U \ {Max(U)}], q[Max(U)])
  <2>1. ASSUME U # {} PROVE U \ {Max(U)} # U
    <3> U \in SUBSET S
      OBVIOUS
    <3> QED BY <2>1 DEF Countable
  <2> QED BY <2>1
<1>6. \A V \in SUBSET U : h[V] = IF V = {} THEN db ELSE Handle(h[V \ {Max(V)}], q[Max(V)])
  <2> HIDE DEF h
  <2> QED BY <1>4, <1>5
<1>7. Applies(h, db, q, U)
  <2>1. h = [V \in SUBSET U |-> h[V]]
    OBVIOUS
  <2> HIDE DEF h
  <2> QED BY <1>6, <2>1 DEF Applies
<1> QED BY <1>2, <1>7

\* It is the one that Deliver and Answer take.
LEMMA FoldLeftIs ==
  ASSUME NEW X, NEW q \in Seq(X), NEW db
  PROVE  \E g : Applies(g, db, q, DOMAIN q) /\ FoldLeft(Handle, db, q) = g[DOMAIN q]
<1> DEFINE Fold(g) == g = [V \in SUBSET DOMAIN q |->
                             IF V = {} THEN db
                             ELSE Handle(g[V \ {Max(V)}], q[Max(V)])]
           iter == CHOOSE g : Fold(g)
<1>1. PICK g : Fold(g)
  <2>1. Len(q) \in Nat /\ DOMAIN q = 1..Len(q)
    OBVIOUS
  <2>2. \E g : Applies(g, db, q, 1..Len(q))
    BY <2>1, NumbersCount, FoldsExist
  <2> QED BY <2>1, <2>2 DEF Applies
<1>2. FoldLeft(Handle, db, q) = iter[DOMAIN q]
  BY DEF FoldLeft, MapThenFoldSet
<1>3. Fold(iter)
  <2> HIDE DEF Fold
  <2> QED BY <1>1
<1>4. Applies(iter, db, q, DOMAIN q)
  <2> HIDE DEF iter
  <2> QED BY <1>3 DEF Applies
<1> HIDE DEF iter
<1> QED BY <1>2, <1>4
-----------------------------------------------------------------------------
(* One event.                                                               *)

\* Of four servers two are the same.
LEMMA NoFourthServer ==
  ASSUME Cardinality(Servers) <= 3,
         NEW a \in Servers, NEW b \in Servers, NEW c \in Servers, NEW d \in Servers,
         a # b, a # c, a # d, b # c, b # d, c # d
  PROVE  FALSE
<1>2. IsFiniteSet({a}) /\ Cardinality({a}) = 1
  BY FS_Singleton
<1>3. IsFiniteSet({a, b}) /\ Cardinality({a, b}) = 2
  <2>1. {a} \cup {b} = {a, b} /\ b \notin {a}
    OBVIOUS
  <2> QED BY <1>2, <2>1, FS_AddElement
<1>4. IsFiniteSet({a, b, c}) /\ Cardinality({a, b, c}) = 3
  <2>1. {a, b} \cup {c} = {a, b, c} /\ c \notin {a, b}
    OBVIOUS
  <2> QED BY <1>3, <2>1, FS_AddElement
<1>5. Cardinality({a, b, c, d}) = 4
  <2>1. {a, b, c} \cup {d} = {a, b, c, d} /\ d \notin {a, b, c}
    OBVIOUS
  <2> QED BY <1>4, <2>1, FS_AddElement
<1>6. IsFiniteSet(Servers) /\ {a, b, c, d} \in SUBSET Servers
  BY ReplicationAssumption
<1>7. Cardinality({a, b, c, d}) <= Cardinality(Servers)
  BY <1>6, FS_Subset
<1>8. Cardinality(Servers) \in Nat
  BY <1>6, FS_CardinalityType
<1> QED BY <1>5, <1>7, <1>8

\* Which of the last events by time the database returns does not matter: a new
\* one wins against it as it does against the last by time and server.
LEMMA LatestWillDo ==
  ASSUME Cardinality(Servers) <= 3, NEW s \in Servers, NEW E, E \subseteq EventsFor(s),
         NEW e \in EventsFor(s), \A f \in E : RequestOf(f) # RequestOf(e),
         NEW last \in E, \A f \in E : Supersedes(last, f),
         NEW r \in E, \A f \in E : f.time <= r.time
  PROVE  Supersedes(e, r) <=> Supersedes(e, last)
<1>1. /\ e.time \in Nat /\ r.time \in Nat /\ last.time \in Nat
      /\ e.server \in Servers /\ r.server \in Servers /\ last.server \in Servers
      /\ e.server # s /\ r.server # s /\ last.server # s
  BY DEF EventsFor, Event
<1>2. r.time = last.time
  <2>1. Supersedes(last, r) /\ last.time <= r.time
    OBVIOUS
  <2> QED BY <1>1, <2>1 DEF Supersedes
<1>3. CASE e.time # r.time
  BY <1>1, <1>2, <1>3 DEF Supersedes
<1>4. CASE e.time = r.time
  <2>1. e.server # r.server /\ e.server # last.server
    BY <1>2, <1>4 DEF RequestOf
  <2>2. r.server = last.server
    BY <1>1, <2>1, NoFourthServer
  <2> QED BY <1>2, <2>2 DEF Supersedes
<1> QED BY <1>3, <1>4

\* Events are in one order, by time and server.
LEMMA OneOrder ==
  ASSUME NEW s \in Servers,
         NEW e \in EventsFor(s), NEW f \in EventsFor(s), NEW g \in EventsFor(s)
  PROVE  /\ Supersedes(e, e)
         /\ Supersedes(e, f) \/ Supersedes(f, e)
         /\ Supersedes(e, f) /\ Supersedes(f, g) => Supersedes(e, g)
<1>1. /\ e.time \in Nat /\ f.time \in Nat /\ g.time \in Nat
      /\ e.server \in Nat /\ f.server \in Nat /\ g.server \in Nat
  BY ReplicationAssumption DEF EventsFor, Event
<1> QED BY <1>1 DEF Supersedes

\* The last event stays the last, or the new one is.
LEMMA LastWithOneMore ==
  ASSUME Cardinality(Servers) <= 3, NEW s \in Servers, NEW E, E \subseteq EventsFor(s),
         NEW e \in EventsFor(s), \A f \in E : RequestOf(f) # RequestOf(e),
         NEW v, LeftByLast(E, v),
         NEW w, w = IF Supersedes(e, CHOOSE r \in E : \A f \in E : f.time <= r.time)
                    THEN e.after ELSE v
  PROVE  LeftByLast(E \cup {e}, w)
<1>1. PICK last \in E : last.after = v /\ \A f \in E : Supersedes(last, f)
  BY DEF LeftByLast
<1> DEFINE r == CHOOSE r \in E : \A f \in E : f.time <= r.time
<1>2. r \in E /\ \A f \in E : f.time <= r.time
  <2>1. ASSUME NEW f \in E PROVE f.time <= last.time
    <3>1. f.time \in Nat /\ last.time \in Nat
      BY DEF EventsFor, Event
    <3>2. Supersedes(last, f)
      BY <1>1
    <3> QED BY <3>1, <3>2 DEF Supersedes
  <2> QED BY <2>1
<1>3. w = IF Supersedes(e, r) THEN e.after ELSE v
  OBVIOUS
<1> HIDE DEF r
<1>4. Supersedes(e, r) <=> Supersedes(e, last)
  BY <1>1, <1>2, LatestWillDo
<1>5. CASE Supersedes(e, last)
  <2>1. \A f \in E \cup {e} : Supersedes(e, f)
    BY <1>1, <1>5, OneOrder
  <2> QED BY <1>3, <1>4, <1>5, <2>1 DEF LeftByLast
<1>6. CASE ~ Supersedes(e, last)
  <2>1. \A f \in E \cup {e} : Supersedes(last, f)
    BY <1>1, <1>6, OneOrder
  <2> QED BY <1>1, <1>3, <1>4, <1>6, <2>1 DEF LeftByLast
<1> QED BY <1>5, <1>6

\* What a server goes on from while it handles a batch: rows of others, one of each
\* request, balances the last of them left, and events that wait.
Sound(s, own, db) ==
  /\ RowsAreForeign(s, db.balance, db.rows)
  /\ FollowsLast(own, db.balance, db.rows)
  /\ db.rest \in Seq(EventsFor(s))

\* A row more, and the balance of its account, if it is new or the row is the last.
LEMMA StoredKeeps ==
  ASSUME Cardinality(Servers) <= 3, NEW s \in Servers, NEW own, NEW old, NEW rec,
         RowsAreForeign(s, old, rec), FollowsLast(own, old, rec),
         NEW e \in EventsFor(s), ~ Refused(e, rec),
         NEW bal, DOMAIN bal = DOMAIN old \cup {e.acct},
         \A b \in DOMAIN old \ {e.acct} : bal[b] = old[b],
         bal[e.acct] = IF e.acct \notin DOMAIN old \/ IsNewer(e, rec)
                         THEN e.after ELSE old[e.acct]
  PROVE  RowsAreForeign(s, bal, rec \cup {e}) /\ FollowsLast(own, bal, rec \cup {e})
<1> DEFINE a == e.acct
           new == rec \cup {e}
<1>1. new = rec \cup {e} /\ \A f \in rec : RequestOf(f) # RequestOf(e)
  BY DEF Refused
<1>2. e.after \in Nat
  BY DEF EventsFor, Event
<1>3. /\ DOMAIN bal = DOMAIN old \cup {a}
      /\ \A b \in DOMAIN old \ {a} : bal[b] = old[b]
      /\ bal[a] = IF a \notin DOMAIN old \/ IsNewer(e, rec) THEN e.after ELSE old[a]
  OBVIOUS
<1> HIDE DEF new
<1>8. RowsAreForeign(s, bal, new)
  BY <1>1, <1>2, <1>3 DEF RowsAreForeign
<1>9. FollowsLast(own, bal, new)
  <2> SUFFICES ASSUME NEW b \in DOMAIN bal \ own, EventsOn(b, new) # {}
               PROVE  LeftByLast(EventsOn(b, new), bal[b])
    BY DEF FollowsLast
  <2>1. CASE b # a
    <3>1. EventsOn(b, new) = EventsOn(b, rec)
      BY <1>1, <2>1 DEF EventsOn
    <3>2. b \in DOMAIN old \ own /\ bal[b] = old[b]
      BY <1>3, <2>1
    <3> QED BY <3>1, <3>2 DEF FollowsLast
  <2>2. CASE b = a /\ EventsOn(a, rec) = {}
    <3>1. EventsOn(a, new) = {e}
      BY <1>1, <2>2 DEF EventsOn
    <3>2. bal[a] = e.after
      BY <1>3, <2>2 DEF IsNewer
    <3>3. Supersedes(e, e)
      BY OneOrder
    <3> QED BY <2>2, <3>1, <3>2, <3>3 DEF LeftByLast
  <2>3. CASE b = a /\ EventsOn(a, rec) # {}
    <3> DEFINE E == EventsOn(a, rec)
    <3>1. E \subseteq EventsFor(s) /\ \A f \in E : RequestOf(f) # RequestOf(e)
      BY <1>1 DEF EventsOn, RowsAreForeign
    <3>2. EventsOn(a, new) = E \cup {e}
      BY <1>1 DEF EventsOn
    <3>3. a \in DOMAIN old
      BY <2>3 DEF EventsOn, RowsAreForeign
    <3>4. LeftByLast(E, old[a])
      BY <2>3, <3>3 DEF FollowsLast
    <3>5. bal[a] = IF Supersedes(e, CHOOSE r \in E : \A f \in E : f.time <= r.time)
                             THEN e.after ELSE old[a]
      BY <1>3, <2>3, <3>3 DEF IsNewer
    <3> HIDE DEF E
    <3>6. LeftByLast(E \cup {e}, bal[a])
      BY <3>1, <3>4, <3>5, LastWithOneMore
    <3> QED BY <2>3, <3>2, <3>6
  <2> QED BY <2>1, <2>2, <2>3
<1> QED BY <1>8, <1>9 DEF new

\* A stub of an account.
LEMMA StubKeeps ==
  ASSUME Cardinality(Servers) <= 3, NEW s \in Servers, NEW own, NEW db, Sound(s, own, db),
         NEW e \in EventsFor(s), NEW p
  PROVE  Sound(s, own, Stub(db, e, p))
<1>1. CASE Stub(db, e, p) = db
  BY <1>1
<1>2. CASE Stub(db, e, p) # db
  <2> DEFINE bal == Inserted(db.balance, e.acct, e.after)
  <2>1. /\ ~ Refused(e, db.rows) /\ e.acct \notin DOMAIN db.balance
        /\ Stub(db, e, p) = [balance |-> bal, phone |-> Inserted(db.phone, e.acct, p),
                             rows |-> db.rows \cup {e}, rest |-> db.rest]
    BY <1>2 DEF Stub
  <2>2. /\ DOMAIN bal = DOMAIN db.balance \cup {e.acct}
        /\ \A b \in DOMAIN db.balance \ {e.acct} : bal[b] = db.balance[b]
        /\ bal[e.acct] = e.after
    BY DEF Inserted
  <2> HIDE DEF bal
  <2>3. RowsAreForeign(s, db.balance, db.rows) /\ FollowsLast(own, db.balance, db.rows)
    BY DEF Sound
  <2>4. RowsAreForeign(s, bal, db.rows \cup {e}) /\ FollowsLast(own, bal, db.rows \cup {e})
    BY <2>1, <2>2, <2>3, StoredKeeps
  <2> QED BY <2>1, <2>4 DEF Sound
<1> QED BY <1>1, <1>2

\* The last writer wins.
LEMMA OverwriteKeeps ==
  ASSUME Cardinality(Servers) <= 3, NEW s \in Servers, NEW own, NEW db, Sound(s, own, db),
         NEW e \in EventsFor(s), e.acct \in DOMAIN db.balance
  PROVE  Sound(s, own, Overwrite(db, e))
<1>1. CASE Refused(e, db.rows)
  <2>1. Overwrite(db, e) = db
    BY <1>1 DEF Overwrite
  <2> QED BY <2>1
<1>2. CASE ~ Refused(e, db.rows)
  <2> DEFINE bal == IF IsNewer(e, db.rows)
                    THEN [db.balance EXCEPT ![e.acct] = IF e.after < 0 THEN 0 ELSE e.after]
                    ELSE db.balance
  <2>1. Overwrite(db, e) = [balance |-> bal, phone |-> db.phone,
                            rows |-> db.rows \cup {e}, rest |-> db.rest]
    BY <1>2 DEF Overwrite
  <2>2. (IF e.after < 0 THEN 0 ELSE e.after) = e.after
    <3>1. e.after \in Nat
      BY DEF EventsFor, Event
    <3> QED BY <3>1
  <2>3. bal = IF IsNewer(e, db.rows) THEN [db.balance EXCEPT ![e.acct] = e.after]
              ELSE db.balance
    BY <2>2
  <2> HIDE DEF bal
  <2>4. /\ DOMAIN bal = DOMAIN db.balance \cup {e.acct}
        /\ \A b \in DOMAIN db.balance \ {e.acct} : bal[b] = db.balance[b]
        /\ bal[e.acct] = IF IsNewer(e, db.rows) THEN e.after ELSE db.balance[e.acct]
    <3>1. CASE IsNewer(e, db.rows)
      BY <2>3, <3>1
    <3>2. CASE ~ IsNewer(e, db.rows)
      BY <2>3, <3>2
    <3> QED BY <3>1, <3>2
  <2>5. RowsAreForeign(s, db.balance, db.rows) /\ FollowsLast(own, db.balance, db.rows)
    BY DEF Sound
  <2>6. RowsAreForeign(s, bal, db.rows \cup {e}) /\ FollowsLast(own, bal, db.rows \cup {e})
    BY <1>2, <2>4, <2>5, StoredKeeps
  <2> QED BY <2>1, <2>6 DEF Sound
<1> QED BY <1>1, <1>2

\* One event of a batch.
LEMMA HandleKeeps ==
  ASSUME Cardinality(Servers) <= 3, NEW s \in Servers, NEW own, NEW db, Sound(s, own, db),
         NEW e \in EventsFor(s)
  PROVE  Sound(s, own, Handle(db, e))
<1>1. CASE Handle(db, e) = Waits(db, e)
  <2>1. Append(db.rest, e) \in Seq(EventsFor(s))
    BY DEF Sound
  <2> QED BY <1>1, <2>1 DEF Sound, Waits
<1>2. CASE Handle(db, e) = Overwrite(db, e) /\ e.acct \in DOMAIN db.balance
  BY <1>2, OverwriteKeeps
<1>3. CASE Handle(db, e) = Stub(db, e, Carried(e))
  BY <1>3, StubKeeps
<1> QED BY <1>1, <1>2, <1>3 DEF Handle

\* The same of a whole batch.
LEMMA BatchKeeps ==
  ASSUME Cardinality(Servers) <= 3, NEW s \in Servers, NEW own, NEW db,
         Sound(s, own, db), NEW q \in Seq(EventsFor(s))
  PROVE  Sound(s, own, FoldLeft(Handle, db, q))
<1> DEFINE Good(d) == Sound(s, own, d)
           T == DOMAIN q
<1>1. PICK g : Applies(g, db, q, T) /\ FoldLeft(Handle, db, q) = g[T]
  BY FoldLeftIs
<1>2. Countable(T) /\ \A i \in T : q[i] \in EventsFor(s)
  <2>1. Len(q) \in Nat /\ T = 1..Len(q)
    OBVIOUS
  <2> QED BY <2>1, NumbersCount
<1>3. ASSUME NEW d, Good(d), NEW e \in EventsFor(s)
      PROVE  Good(Handle(d, e))
  BY <1>3, HandleKeeps
<1>4. Good(db)
  OBVIOUS
<1> HIDE DEF Good, T
<1>5. Good(g[T])
  <2> DEFINE Bad == {V \in SUBSET T : ~ Good(g[V])}
  <2>1. SUFFICES ASSUME Bad # {} PROVE FALSE
    OBVIOUS
  <2>2. PICK V \in Bad : \A W \in Bad : W \subseteq V => W = V
    <3>1. IsFiniteSet(T)
      BY <1>2 DEF Countable
    <3> Bad \subseteq SUBSET T
      OBVIOUS
    <3> HIDE DEF Bad
    <3> QED BY <2>1, <3>1, LeastSubset
  <2>3. V \in SUBSET T /\ ~ Good(g[V])
    OBVIOUS
  <2>4. g[V] = IF V = {} THEN db ELSE Handle(g[V \ {Max(V)}], q[Max(V)])
    BY <1>1, <2>3 DEF Applies
  <2>5. V # {}
    BY <1>4, <2>3, <2>4
  <2>6. Max(V) \in V
    BY <1>2, <2>3, <2>5 DEF Countable
  <2>7. Good(g[V \ {Max(V)}])
    BY <2>2, <2>6
  <2> HIDE DEF Bad
  <2>8. q[Max(V)] \in EventsFor(s)
    BY <1>2, <2>3, <2>6
  <2> QED BY <1>3, <2>3, <2>4, <2>5, <2>7, <2>8
<1> QED BY <1>1, <1>5 DEF Good
-----------------------------------------------------------------------------
(* The steps.                                                               *)

ServerInv(s) ==
  /\ pending[s] \in Seq(EventsOf(s))
  /\ RowsAreForeign(s, balance[s], rows[s])
  /\ FollowsLast(Own(s), balance[s], rows[s])

\* What an operation queues is an event of the server's own.
LEMMA EvIs ==
  ASSUME NEW s \in Servers, NEW t \in 1..MaxTime, NEW kind \in Kinds,
         NEW a \in Accounts, NEW after \in Nat, NEW change \in Int
  PROVE  Ev(s, t, kind, a, after, change) \in EventsOf(s)
         /\ Ev(s, t, kind, a, after, change).acct = a
<1>1. t \in Nat /\ after - change \in Int
  OBVIOUS
<1> QED BY <1>1 DEF Ev, EventsOf, Event

\* A balance that moves is the only one.
LEMMA MovedIs ==
  ASSUME NEW bal, NEW a \in DOMAIN bal, NEW change
  PROVE  /\ DOMAIN Moved(bal, a, change) = DOMAIN bal
         /\ Moved(bal, a, change)[a] = bal[a] + change
         /\ \A b \in DOMAIN bal \ {a} : Moved(bal, a, change)[b] = bal[b]
BY DEF Moved

\* An operation takes its accounts from what replicas follow.
LEMMA RecordKeeps ==
  ASSUME ReplicationInv, NEW s \in Servers, NEW after, NEW events \in Seq(EventsOf(s)),
         DOMAIN balance[s] \subseteq DOMAIN after,
         \A a \in DOMAIN after : after[a] \in Nat,
         \A a \in DOMAIN after \ {e.acct : e \in ToSet(events)} :
           a \in DOMAIN balance[s] /\ after[a] = balance[s][a],
         Record(s, after, events)
  PROVE  ReplicationInv'
<1> DEFINE Set == ToSet(events)
<1>1. /\ pending' = [pending EXCEPT ![s] = @ \o events]
      /\ made' = [made EXCEPT ![s] = @ \cup Set]
      /\ balance' = [balance EXCEPT ![s] = after]
      /\ UNCHANGED <<rows, wire>>
  BY DEF Record
<1>2. \A a \in DOMAIN after \ {e.acct : e \in Set} :
        a \in DOMAIN balance[s] /\ after[a] = balance[s][a]
  OBVIOUS
<1> HIDE DEF Set
<1>3. /\ DOMAIN balance = Servers /\ DOMAIN rows = Servers
      /\ DOMAIN pending = Servers /\ DOMAIN made = Servers
  BY DEF ReplicationInv
<1>4. /\ DOMAIN balance' = Servers /\ DOMAIN rows' = Servers
      /\ DOMAIN pending' = Servers /\ DOMAIN made' = Servers
  BY <1>1, <1>3
<1>5. ASSUME NEW t \in Servers, t # s PROVE ServerInv(t)'
  <2>1. /\ pending'[t] = pending[t] /\ balance'[t] = balance[t]
        /\ rows'[t] = rows[t] /\ made'[t] = made[t]
    BY <1>1, <1>3, <1>5
  <2> QED BY <2>1 DEF ReplicationInv, ServerInv, Own
<1>6. pending'[s] \in Seq(EventsOf(s))
  <2>1. pending'[s] = pending[s] \o events
    BY <1>1, <1>3
  <2>2. pending[s] \in Seq(EventsOf(s))
    BY DEF ReplicationInv
  <2> QED BY <2>1, <2>2
<1>7. balance'[s] = after
  BY <1>1, <1>3
<1>8. Own(s)' = Own(s) \cup {e.acct : e \in Set} /\ rows'[s] = rows[s]
  <2>1. made'[s] = made[s] \cup Set
    BY <1>1, <1>3
  <2> QED BY <1>1, <2>1 DEF Own
<1>9. RowsAreForeign(s, balance[s], rows[s]) /\ FollowsLast(Own(s), balance[s], rows[s])
  BY DEF ReplicationInv
<1>10. RowsAreForeign(s, balance'[s], rows'[s])
  BY <1>7, <1>8, <1>9 DEF RowsAreForeign
<1>11. FollowsLast(Own(s)', balance'[s], rows'[s])
  BY <1>2, <1>7, <1>8, <1>9 DEF FollowsLast
<1>12. ServerInv(s)'
  BY <1>6, <1>10, <1>11 DEF ServerInv
<1>13. \A m \in wire' : Wired(m)
  BY <1>1 DEF ReplicationInv
<1> QED BY <1>4, <1>5, <1>12, <1>13 DEF ReplicationInv, ServerInv

\* The operations of clients record such events.
LEMMA OperationsKeep ==
  ASSUME ReplicationInv, NEW s \in Servers, NEW a \in Accounts, NEW b \in Accounts,
         NEW m \in Amounts, NEW t \in 1..MaxTime, NEW p,
         \/ Deposit(s, a, m, t) \/ Withdraw(s, a, m, t)
         \/ CreateAccount(s, a, m, t, p) \/ Transfer(s, a, b, m, t)
  PROVE  ReplicationInv'
<1> DEFINE bal == balance[s]
<1>1. m \in Nat /\ -m \in Int
  BY ReplicationAssumption
<1>2. \A c \in DOMAIN bal : bal[c] \in Nat
  BY DEF ReplicationInv, RowsAreForeign
<1>3. ASSUME NEW kind \in Kinds, NEW change \in Int, a \in DOMAIN bal, bal[a] + change >= 0,
             LET after == Moved(bal, a, change)
             IN Record(s, after, <<Ev(s, t, kind, a, after[a], change)>>)
      PROVE  ReplicationInv'
  <2> DEFINE after == Moved(bal, a, change)
             e == Ev(s, t, kind, a, after[a], change)
  <2>1. Record(s, after, <<e>>)
    BY <1>3
  <2>2. /\ DOMAIN after = DOMAIN bal /\ after[a] = bal[a] + change
        /\ \A c \in DOMAIN bal \ {a} : after[c] = bal[c]
    BY <1>3, MovedIs
  <2> HIDE DEF after
  <2>3. bal[a] + change \in Nat
    BY <1>2, <1>3
  <2>4. e \in EventsOf(s) /\ e.acct = a
    BY <2>2, <2>3, EvIs
  <2> HIDE DEF e
  <2>5. <<e>> \in Seq(EventsOf(s)) /\ ToSet(<<e>>) = {e}
    BY <2>4 DEF ToSet
  <2>6. \A c \in DOMAIN after : after[c] \in Nat
    BY <1>2, <2>2, <2>3
  <2>7. \A c \in DOMAIN after \ {f.acct : f \in ToSet(<<e>>)} :
          c \in DOMAIN bal /\ after[c] = bal[c]
    BY <2>2, <2>4, <2>5
  <2> QED BY <2>1, <2>2, <2>5, <2>6, <2>7, RecordKeeps
<1>4. CASE Deposit(s, a, m, t)
  <2>1. a \in DOMAIN bal /\ bal[a] + m >= 0
    BY <1>1, <1>2, <1>4 DEF Deposit
  <2>2. LET after == Moved(bal, a, m)
        IN Record(s, after, <<Ev(s, t, "deposit", a, after[a], m)>>)
    BY <1>4 DEF Deposit
  <2>3. "deposit" \in Kinds /\ m \in Int
    BY <1>1 DEF Kinds
  <2> HIDE DEF bal
  <2> QED BY <1>3, <2>1, <2>2, <2>3
<1>5. CASE Withdraw(s, a, m, t)
  <2>1. a \in DOMAIN bal /\ bal[a] + (-m) >= 0
    BY <1>1, <1>2, <1>5 DEF Withdraw, Affordable
  <2>2. LET after == Moved(bal, a, -m)
        IN Record(s, after, <<Ev(s, t, "withdraw", a, after[a], -m)>>)
    BY <1>5 DEF Withdraw
  <2>3. "withdraw" \in Kinds
    BY DEF Kinds
  <2> HIDE DEF bal
  <2> QED BY <1>1, <1>3, <2>1, <2>2, <2>3
<1>6. CASE CreateAccount(s, a, m, t, p)
  <2> DEFINE after == Inserted(bal, a, m)
             e == Ev(s, t, "account_created", a, m, m)
  <2>1. Record(s, after, <<e>>)
    BY <1>6 DEF CreateAccount
  <2>2. DOMAIN after = DOMAIN bal \cup {a}
        /\ \A c \in DOMAIN after : after[c] = IF c = a THEN m ELSE bal[c]
    BY DEF Inserted
  <2> HIDE DEF after
  <2>3. e \in EventsOf(s) /\ e.acct = a
    BY <1>1, EvIs DEF Kinds
  <2> HIDE DEF e
  <2>4. <<e>> \in Seq(EventsOf(s)) /\ ToSet(<<e>>) = {e}
    BY <2>3 DEF ToSet
  <2>5. \A c \in DOMAIN after : after[c] \in Nat
    BY <1>1, <1>2, <2>2
  <2>6. \A c \in DOMAIN after \ {f.acct : f \in ToSet(<<e>>)} :
          c \in DOMAIN bal /\ after[c] = bal[c]
    BY <2>2, <2>3, <2>4
  <2> QED BY <2>1, <2>2, <2>4, <2>5, <2>6, RecordKeeps
<1>7. CASE Transfer(s, a, b, m, t)
  <2> DEFINE mid == Moved(bal, a, -m)
             after == Moved(mid, b, m)
             out == Ev(s, t, "transfer_out", a, after[a], -m)
             in == Ev(s, t, "transfer_in", b, after[b], m)
  <2>1. a \in DOMAIN bal /\ b \in DOMAIN bal /\ bal[a] >= m
    BY <1>7 DEF Transfer, Affordable
  <2>2. Record(s, after, <<out, in>>)
    BY <1>7 DEF Transfer
  <2>3. /\ DOMAIN mid = DOMAIN bal /\ mid[a] = bal[a] + (-m)
        /\ \A c \in DOMAIN bal \ {a} : mid[c] = bal[c]
    BY <2>1, MovedIs
  <2>4. /\ DOMAIN after = DOMAIN mid /\ after[b] = mid[b] + m
        /\ \A c \in DOMAIN mid \ {b} : after[c] = mid[c]
    <3> HIDE DEF mid
    <3> QED BY <2>1, <2>3, MovedIs
  <2> HIDE DEF mid, after
  <2>5. \A c \in DOMAIN mid : mid[c] \in Nat
    BY <1>1, <1>2, <2>1, <2>3
  <2>6. \A c \in DOMAIN after : after[c] \in Nat
    BY <1>1, <2>1, <2>3, <2>4, <2>5
  <2>7. out \in EventsOf(s) /\ out.acct = a
    BY <1>1, <2>1, <2>3, <2>4, <2>6, EvIs DEF Kinds
  <2>8. in \in EventsOf(s) /\ in.acct = b
    BY <1>1, <2>1, <2>3, <2>4, <2>6, EvIs DEF Kinds
  <2> HIDE DEF out, in
  <2>9. <<out, in>> \in Seq(EventsOf(s)) /\ ToSet(<<out, in>>) = {out, in}
    BY <2>7, <2>8 DEF ToSet
  <2>10. \A c \in DOMAIN after \ {f.acct : f \in ToSet(<<out, in>>)} :
           c \in DOMAIN bal /\ after[c] = bal[c]
    BY <2>3, <2>4, <2>7, <2>8, <2>9
  <2>11. DOMAIN bal \subseteq DOMAIN after
    BY <2>3, <2>4
  <2> QED BY <2>2, <2>6, <2>9, <2>10, <2>11, RecordKeeps
<1> QED BY <1>4, <1>5, <1>6, <1>7

\* What a server posts goes to others, and the rest waits.
LEMMA PostKeeps ==
  ASSUME ReplicationInv, NEW s \in Servers, NEW batch \in Seq(EventsOf(s)),
         NEW rest \in Seq(EventsOf(s)),
         Post(s, batch), pending' = [pending EXCEPT ![s] = rest],
         UNCHANGED <<balance, rows, made>>
  PROVE  ReplicationInv'
<1>1. PICK peers \in SUBSET (Servers \ {s}) :
        wire' = wire \cup [to : peers, batch : {batch}, asking : {FALSE}]
  BY DEF Post, Reachable
<1>2. \A p \in peers : batch \in Seq(EventsFor(p))
  <2> SUFFICES ASSUME NEW p \in peers PROVE batch \in Seq(EventsFor(p))
    OBVIOUS
  <2>1. EventsOf(s) \subseteq EventsFor(p)
    BY <1>1 DEF EventsOf, EventsFor
  <2> QED BY <2>1
<1>3. \A m \in wire' : Wired(m)
  <2> SUFFICES ASSUME NEW m \in wire' PROVE Wired(m)
    OBVIOUS
  <2>1. m \in wire => Wired(m)
    BY DEF ReplicationInv
  <2>2. CASE m \in [to : peers, batch : {batch}, asking : {FALSE}]
    <3>1. m.to \in peers /\ m.batch = batch /\ m.asking = FALSE
      BY <2>2
    <3> QED BY <1>2, <3>1 DEF Wired
  <2> QED BY <1>1, <2>1, <2>2
<1>4. DOMAIN pending = Servers
  BY DEF ReplicationInv
<1>5. DOMAIN pending' = Servers /\ \A t \in Servers : pending'[t] \in Seq(EventsOf(t))
  BY <1>4 DEF ReplicationInv
<1> QED BY <1>3, <1>5 DEF ReplicationInv, Own

\* The handler changes its server's tables alone, and what waits is for that server.
LEMMA ProceedKeeps ==
  ASSUME ReplicationInv, NEW m \in wire, NEW db,
         Sound(m.to, Own(m.to), db), Proceed(m, db)
  PROVE  ReplicationInv'
<1> DEFINE s == m.to
<1>1. s \in Servers
  BY DEF ReplicationInv, Wired
<1>2. /\ balance' = [balance EXCEPT ![s] = db.balance]
      /\ rows' = [rows EXCEPT ![s] = db.rows]
      /\ wire' = (wire \ {m}) \cup
                   {n \in [to : {s}, batch : {db.rest}, asking : {TRUE}] : db.rest # << >>}
      /\ UNCHANGED <<pending, made>>
  BY DEF Proceed
<1>3. /\ RowsAreForeign(s, db.balance, db.rows)
      /\ FollowsLast(Own(s), db.balance, db.rows)
      /\ db.rest \in Seq(EventsFor(s))
  BY DEF Sound
<1> HIDE DEF s
<1>5. /\ DOMAIN balance = Servers /\ DOMAIN rows = Servers
      /\ DOMAIN pending = Servers /\ DOMAIN made = Servers
  BY DEF ReplicationInv
<1>6. /\ balance'[s] = db.balance /\ rows'[s] = db.rows
      /\ \A t \in Servers \ {s} : balance'[t] = balance[t] /\ rows'[t] = rows[t]
      /\ DOMAIN balance' = Servers /\ DOMAIN rows' = Servers
  BY <1>1, <1>2, <1>5
<1>7. ASSUME NEW t \in Servers PROVE ServerInv(t)'
  <2>1. Own(t)' = Own(t) /\ pending'[t] = pending[t]
    BY <1>2 DEF Own
  <2>2. ServerInv(t)
    BY DEF ReplicationInv, ServerInv
  <2>3. CASE t = s
    BY <1>3, <1>6, <2>1, <2>2, <2>3 DEF ServerInv
  <2>4. CASE t # s
    BY <1>6, <2>1, <2>2, <2>4 DEF ServerInv
  <2> QED BY <2>3, <2>4
<1>8. \A k \in wire' : Wired(k)
  <2> SUFFICES ASSUME NEW k \in wire' PROVE Wired(k)
    OBVIOUS
  <2>1. k \in wire => Wired(k)
    BY DEF ReplicationInv
  <2>2. CASE k \in [to : {s}, batch : {db.rest}, asking : {TRUE}] /\ db.rest # << >>
    <3>1. k.to = s /\ k.batch = db.rest /\ k.asking = TRUE
      BY <2>2
    <3> QED BY <1>1, <1>3, <2>2, <3>1 DEF Wired
  <2> QED BY <1>2, <2>1, <2>2
<1> QED BY <1>2, <1>5, <1>6, <1>7, <1>8 DEF ReplicationInv, ServerInv

\* What a server has when it goes on with a batch.
LEMMA DatabaseSound ==
  ASSUME ReplicationInv, NEW s \in Servers
  PROVE  Sound(s, Own(s), Database(s))
<1>1. << >> \in Seq(EventsFor(s))
  OBVIOUS
<1> QED BY <1>1 DEF ReplicationInv, Sound, Database

\* A batch arrives.
LEMMA DeliverKeeps ==
  ASSUME Cardinality(Servers) <= 3, ReplicationInv, NEW m \in wire, Deliver(m)
  PROVE  ReplicationInv'
<1>1. m.to \in Servers /\ m.batch \in Seq(EventsFor(m.to))
  BY DEF ReplicationInv, Wired
<1>2. Sound(m.to, Own(m.to), FoldLeft(Handle, Database(m.to), m.batch))
  BY <1>1, DatabaseSound, BatchKeeps
<1>3. Proceed(m, FoldLeft(Handle, Database(m.to), m.batch))
  BY DEF Deliver
<1> QED BY <1>2, <1>3, ProceedKeeps

\* The owner of the first event's account is told, and the others follow.
LEMMA AnswerKeeps ==
  ASSUME Cardinality(Servers) <= 3, ReplicationInv, NEW m \in wire, Answer(m)
  PROVE  ReplicationInv'
<1>1. m.to \in Servers /\ m.batch \in Seq(EventsFor(m.to)) /\ m.batch # << >>
  BY DEF ReplicationInv, Wired, Answer
<1>2. Head(m.batch) \in EventsFor(m.to) /\ Tail(m.batch) \in Seq(EventsFor(m.to))
  <2> DEFINE X == EventsFor(m.to)
             q == m.batch
  <2>1. q \in Seq(X) /\ q # << >>
    BY <1>1
  <2> HIDE DEF X, q
  <2>2. Head(q) \in X /\ Tail(q) \in Seq(X)
    BY <2>1
  <2> QED BY <2>2 DEF X, q
<1>3. PICK p : Proceed(m, FoldLeft(Handle, Stub(Database(m.to), Head(m.batch), p),
                                  Tail(m.batch)))
  BY DEF Answer
<1>4. Sound(m.to, Own(m.to), Stub(Database(m.to), Head(m.batch), p))
  BY <1>1, <1>2, DatabaseSound, StubKeeps
<1>5. Sound(m.to, Own(m.to),
            FoldLeft(Handle, Stub(Database(m.to), Head(m.batch), p), Tail(m.batch)))
  BY <1>1, <1>2, <1>4, BatchKeeps
<1> QED BY <1>3, <1>5, ProceedKeeps

\* A crash keeps the tables.
LEMMA CrashKeeps ==
  ASSUME ReplicationInv, NEW s \in Servers, Crash(s)
  PROVE  ReplicationInv'
<1>1. /\ pending' = [pending EXCEPT ![s] = << >>]
      /\ wire' \subseteq wire
      /\ UNCHANGED <<balance, rows, made>>
  BY DEF Crash
<1>2. DOMAIN pending' = Servers /\ \A t \in Servers : pending'[t] \in Seq(EventsOf(t))
  <2>1. << >> \in Seq(EventsOf(s))
    OBVIOUS
  <2> QED BY <1>1, <2>1 DEF ReplicationInv
<1> QED BY <1>1, <1>2 DEF ReplicationInv, Own

\* What the servers have received of one another, for as long as they run: of
\* three servers or fewer, whatever their clocks say.
THEOREM ReplicationInvariant ==
  ASSUME Cardinality(Servers) <= 3
  PROVE  Spec => []ReplicationInv
<1>1. Init => ReplicationInv
  <2> SUFFICES ASSUME Init PROVE ReplicationInv
    OBVIOUS
  <2>1. \A s \in Servers : \A a \in DOMAIN Seeded[s] : Seeded[s][a] \in Nat
    BY ReplicationAssumption
  <2>2. \A s \in Servers : balance[s] = Seeded[s] /\ rows[s] = {} /\ pending[s] = << >>
    BY DEF Init
  <2>3. \A s \in Servers : RowsAreForeign(s, balance[s], rows[s])
    BY <2>1, <2>2 DEF RowsAreForeign
  <2>4. \A s \in Servers : FollowsLast(Own(s), balance[s], rows[s])
    BY <2>2 DEF FollowsLast, EventsOn
  <2>5. \A s \in Servers : pending[s] \in Seq(EventsOf(s))
    <3>1. \A s \in Servers : << >> \in Seq(EventsOf(s))
      OBVIOUS
    <3> QED BY <2>2, <3>1
  <2> QED BY <2>3, <2>4, <2>5 DEF Init, ReplicationInv
<1>2. ReplicationInv /\ [Next]_vars => ReplicationInv'
  <2> SUFFICES ASSUME ReplicationInv, [Next]_vars PROVE ReplicationInv'
    OBVIOUS
  <2>1. ASSUME NEW s \in Servers, NEW a \in Accounts, NEW m \in Amounts, NEW t \in Stamps(s),
               \/ Deposit(s, a, m, t) \/ Withdraw(s, a, m, t)
               \/ \E b \in Accounts : Transfer(s, a, b, m, t)
               \/ \E p \in Phones : CreateAccount(s, a, m, t, p)
        PROVE  ReplicationInv'
    <3>1. t \in 1..MaxTime
      BY DEF Stamps
    <3>2. CASE \E p \in Phones : CreateAccount(s, a, m, t, p)
      BY <3>1, <3>2, OperationsKeep
    <3>3. ASSUME NEW b \in Accounts,
                 Deposit(s, a, m, t) \/ Withdraw(s, a, m, t) \/ Transfer(s, a, b, m, t)
          PROVE  ReplicationInv'
      BY <3>1, <3>3, OperationsKeep
    <3> QED BY <2>1, <3>2, <3>3
  <2>2. ASSUME NEW s \in Servers, ReplicateBatch(s) PROVE ReplicationInv'
    <3>1. pending[s] \in Seq(EventsOf(s)) /\ DOMAIN pending = Servers
      BY DEF ReplicationInv
    <3>2. FirstBatch(pending[s]) \in Seq(EventsOf(s)) /\ Rest(pending[s]) \in Seq(EventsOf(s))
      BY <3>1, ReplicationAssumption DEF FirstBatch, Rest
    <3>3. pending' = [pending EXCEPT ![s] = Rest(pending[s])]
      BY <2>2 DEF ReplicateBatch
    <3>4. Post(s, FirstBatch(pending[s])) /\ UNCHANGED <<balance, rows, made>>
      BY <2>2 DEF ReplicateBatch
    <3> QED BY <3>2, <3>3, <3>4, PostKeeps
  <2>3. ASSUME NEW s \in Servers, Stop(s) PROVE ReplicationInv'
    <3>1. pending[s] \in Seq(EventsOf(s)) /\ << >> \in Seq(EventsOf(s))
      BY DEF ReplicationInv
    <3> QED BY <2>3, <3>1, PostKeeps DEF Stop
  <2>4. ASSUME NEW s \in Servers, Crash(s) PROVE ReplicationInv'
    BY <2>4, CrashKeeps
  <2>5. ASSUME NEW m \in wire, Deliver(m) \/ Answer(m) PROVE ReplicationInv'
    BY <2>5, DeliverKeeps, AnswerKeeps
  <2>6. CASE UNCHANGED vars
    BY <2>6 DEF vars, ReplicationInv, Own
  <2> QED BY <2>1, <2>2, <2>3, <2>4, <2>5, <2>6 DEF Next
<1> QED BY <1>1, <1>2, PTL DEF Spec

\* In whatever order events arrive, a replica holds what the last of them by time
\* and server left, on every account the server does not operate on itself.
THEOREM LastWriteTheorem ==
  ASSUME Cardinality(Servers) <= 3
  PROVE  Spec => []ReplicaHoldsLastWrite
<1>1. ReplicationInv => ReplicaHoldsLastWrite
  <2> SUFFICES ASSUME ReplicationInv, NEW s \in Servers, NEW a \in DOMAIN balance[s],
                      EventsOn(a, made[s]) = {}, EventsOn(a, rows[s]) # {}
               PROVE  balance[s][a] = LastWrite(EventsOn(a, rows[s])).after
    BY DEF ReplicaHoldsLastWrite
  <2> DEFINE E == EventsOn(a, rows[s])
  <2>1. a \notin Own(s)
    BY DEF EventsOn, Own
  <2>2. LeftByLast(E, balance[s][a])
    BY <2>1 DEF ReplicationInv, FollowsLast
  <2>3. E \subseteq EventsFor(s) /\ \A e, f \in E : RequestOf(e) = RequestOf(f) => e = f
    BY DEF ReplicationInv, RowsAreForeign, EventsOn
  <2> HIDE DEF E
  <2>4. PICK last \in E : last.after = balance[s][a] /\ \A f \in E : Supersedes(last, f)
    BY <2>2 DEF LeftByLast
  <2>5. ASSUME NEW e \in E, \A f \in E : Supersedes(e, f) PROVE e = last
    <3>1. Supersedes(e, last) /\ Supersedes(last, e)
      BY <2>4, <2>5
    <3>2. /\ e.time \in Nat /\ last.time \in Nat
          /\ e.server \in Nat /\ last.server \in Nat
      BY <2>3, ReplicationAssumption DEF EventsFor, Event
    <3>3. e.time = last.time /\ e.server = last.server
      BY <3>1, <3>2 DEF Supersedes
    <3> QED BY <2>3, <3>3 DEF RequestOf
  <2>6. LastWrite(E) = last
    BY <2>4, <2>5 DEF LastWrite
  <2> QED BY <2>4, <2>6 DEF E
<1> QED BY <1>1, ReplicationInvariant, PTL
=============================================================================
