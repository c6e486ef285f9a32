---------------------------- MODULE PreforkProofs ----------------------------
(***************************************************************************)
(* Proofs about the server designs of unpv13e, for any connections, any    *)
(* number of workers and any size of the ring.                             *)
(***************************************************************************)
EXTENDS PreforkServers, FiniteSetTheorems, WellFoundedInduction, TLAPS

Workers == 1 .. SrvWorkers
Positions == 0 .. SrvMaxNcli - 1

\* In how many places of each kind connection c is.
InQueue(c) == Cardinality({i \in DOMAIN srvQueue : srvQueue[i] = c})
InHand(c) == IF srvHand = c THEN 1 ELSE 0
InRing(c) == Cardinality({i \in SrvFilled : srvRing.clifd[i] = c})
InPipes(c) == Cardinality({w \in SrvIds : srvParent.passed[w] = c})
InWork(c) == Cardinality({w \in SrvIds : srvWork[w].conn = c})
Places(c) == InQueue(c) + InHand(c) + InRing(c) + InPipes(c) + InWork(c)

Open(c) == IF srvConn[c] \in {"good", "bad"} THEN 1 ELSE 0

-----------------------------------------------------------------------------
(* The inductive invariant.                                                *)

WorkerSteps == {"none", "ready", "locked", "waiting", "woken", "serving", "dead"}

SrvTypes ==
    /\ srvProg.how \in {"off", "accept", "lock", "fork", "pass", "ring"}
    /\ srvProg.how = "pass" => srvProg.pool = SrvWorkers
    /\ srvConn \in [SrvConns -> {"idle", "good", "bad", "answered", "dropped"}]
    /\ srvQueue \in Seq(SrvConns)
    /\ srvHand \in SrvConns \cup {0}
    /\ srvWork \in [SrvIds -> [step : WorkerSteps, conn : SrvConns \cup {0}]]
    /\ srvRing \in [clifd : [Positions -> SrvConns \cup {0}], iget : Positions, iput : Positions]
    /\ srvParent \in [status : [SrvIds -> {0, 1}], navail : Int,
                      passed : [SrvIds -> SrvConns \cup {0}], bytes : [SrvIds -> Nat]]

\* Before a program is chosen nothing has happened.
SrvOff ==
    srvProg.how = "off" =>
        /\ srvEnded = "no" /\ srvHand = 0 /\ srvParent.navail = SrvWorkers
        /\ \A w \in SrvIds : /\ srvWork[w] = [step |-> "none", conn |-> 0]
                             /\ srvParent.status[w] = 0 /\ srvParent.passed[w] = 0
                             /\ srvParent.bytes[w] = 0

\* A worker has a connection while it serves it; a worker that was started for a
\* connection has its number; what is in the ring are connections.
SrvHolds ==
    /\ \A w \in SrvIds : srvWork[w].conn # 0 <=> srvWork[w].step = "serving"
    /\ srvProg.how = "fork" => \A w \in SrvIds : srvWork[w].conn \in {0, w}
    /\ \A i \in SrvFilled : srvRing.clifd[i] # 0

SrvPlaced == srvEnded = "no" => \A c \in SrvConns : Places(c) = Open(c)

\* serv05: what the parent's table and the pipes say of a child that lives.
SrvChild(w) ==
    LET step == srvWork[w].step
        passed == srvParent.passed[w]
        bytes == srvParent.bytes[w]
    IN  IF srvParent.status[w] = 0 THEN step = "ready" /\ passed = 0 /\ bytes = 0
        ELSE \/ step = "ready" /\ passed # 0 /\ bytes = 0
             \/ step = "serving" /\ passed = 0 /\ bytes = 0
             \/ step = "ready" /\ passed = 0 /\ bytes = 1

AllAlive == \A w \in SrvIds : srvWork[w].step # "dead"

SrvChildren ==
    srvProg.how = "pass" =>
        /\ \A w \in Workers : srvWork[w].step # "dead" => SrvChild(w)
        /\ \A w \in SrvIds \ Workers : srvWork[w].step \in {"none", "dead"} /\ srvParent.bytes[w] = 0
        /\ AllAlive => /\ srvParent.navail = Cardinality(SrvIdle)
                       /\ srvEnded # "no available children"
                       /\ srvHand # 0 => srvParent.navail > 0

SrvInv == SrvTypes /\ SrvOff /\ SrvHolds /\ SrvPlaced /\ SrvChildren

-----------------------------------------------------------------------------
(* Counting.                                                               *)

LEMMA IdsFinite == IsFiniteSet(SrvIds) /\ IsFiniteSet(Workers) /\ Cardinality(Workers) = SrvWorkers
  <1> DEFINE one == 1
             last == SrvWorkers
  <1>1. one \in Int /\ last \in Int /\ ~(one > last) /\ last - one + 1 = SrvWorkers
    BY SrvAssumption
  <1> HIDE DEF one, last
  <1>2. IsFiniteSet(one .. last) /\ Cardinality(one .. last) = IF one > last THEN 0 ELSE last - one + 1
    BY <1>1, FS_Interval, Zenon
  <1>3. IsFiniteSet(Workers) /\ Cardinality(Workers) = SrvWorkers
    BY <1>1, <1>2 DEF Workers, one, last
  <1>4. IsFiniteSet(SrvConns \cup Workers)
    BY <1>3, SrvAssumption, FS_Union
  <1> QED
    BY <1>3, <1>4 DEF SrvIds, Workers

LEMMA IdsAre ==
    /\ Workers \subseteq SrvIds /\ SrvConns \subseteq SrvIds
    /\ SrvIds \subseteq Nat \ {0} /\ 0 \notin SrvConns
  BY SrvAssumption DEF Workers, SrvIds

One(condition) == IF condition THEN 1 ELSE 0

\* The elements of D that g maps to c, counted.
Held(D, g, c) == Cardinality({x \in D : g[x] = c})

\* A change of g at one element moves one unit from its old value to its new.
LEMMA HeldMoves ==
    ASSUME NEW D, IsFiniteSet(D), NEW x \in D, NEW f, NEW g,
           \A y \in D : y # x => g[y] = f[y]
    PROVE  \A c : /\ Held(D, f, c) \in Nat
                  /\ Held(D, g, c) = Held(D, f, c) - One(f[x] = c) + One(g[x] = c)
  <1> SUFFICES ASSUME NEW c
               PROVE  /\ Held(D, f, c) \in Nat
                      /\ Held(D, g, c) = Held(D, f, c) - One(f[x] = c) + One(g[x] = c)
    OBVIOUS
  <1> DEFINE S == {y \in D : f[y] = c}
             T == {y \in D : g[y] = c}
  <1>1. S \subseteq D
    OBVIOUS
  <1>2. T = IF g[x] = c THEN S \cup {x} ELSE S \ {x}
    OBVIOUS
  <1>3. x \in S <=> f[x] = c
    OBVIOUS
  <1>4. Held(D, f, c) = Cardinality(S) /\ Held(D, g, c) = Cardinality(T)
    BY DEF Held
  <1> HIDE DEF S, T
  <1>5. IsFiniteSet(S) /\ Cardinality(S) \in Nat
    BY <1>1, FS_Subset, FS_CardinalityType
  <1>6. CASE g[x] = c
    <2>1. Cardinality(T) = IF x \in S THEN Cardinality(S) ELSE Cardinality(S) + 1
      BY <1>2, <1>5, <1>6, FS_AddElement
    <2> QED
      BY <1>3, <1>4, <1>5, <1>6, <2>1 DEF One
  <1>7. CASE g[x] # c
    <2>1. Cardinality(T) = IF x \in S THEN Cardinality(S) - 1 ELSE Cardinality(S)
      BY <1>2, <1>5, <1>7, FS_RemoveElement
    <2> QED
      BY <1>3, <1>4, <1>5, <1>7, <2>1 DEF One
  <1> QED
    BY <1>6, <1>7

LEMMA HeldSame ==
    ASSUME NEW D, NEW f, NEW g, \A y \in D : g[y] = f[y]
    PROVE  \A c : Held(D, g, c) = Held(D, f, c)
  <1> SUFFICES ASSUME NEW c PROVE Held(D, g, c) = Held(D, f, c)
    OBVIOUS
  <1>1. {x \in D : g[x] = c} = {x \in D : f[x] = c}
    OBVIOUS
  <1> QED
    BY <1>1 DEF Held

\* The queue, counted: a connection at its end, and its head taken.
LEMMA QueueAppend ==
    ASSUME NEW q \in Seq(SrvConns), NEW d \in SrvConns
    PROVE  \A c : /\ Held(DOMAIN q, q, c) \in Nat
                  /\ Held(DOMAIN Append(q, d), Append(q, d), c) = Held(DOMAIN q, q, c) + One(c = d)
  <1> SUFFICES ASSUME NEW c
               PROVE  /\ Held(DOMAIN q, q, c) \in Nat
                      /\ Held(DOMAIN Append(q, d), Append(q, d), c) =
                            Held(DOMAIN q, q, c) + One(c = d)
    OBVIOUS
  <1> DEFINE n == Len(q)
             r == Append(q, d)
             S == {i \in DOMAIN q : q[i] = c}
             T == {i \in DOMAIN r : r[i] = c}
  <1>1. /\ n \in Nat /\ DOMAIN q = 1 .. n /\ DOMAIN r = 1 .. n + 1
        /\ \A i \in 1 .. n : r[i] = q[i]
        /\ r[n + 1] = d
    OBVIOUS
  <1>2. 1 .. n + 1 = (1 .. n) \cup {n + 1} /\ n + 1 \notin 1 .. n
    BY <1>1
  <1>3. T = IF c = d THEN S \cup {n + 1} ELSE S
    BY <1>1, <1>2
  <1>4. n + 1 \notin S /\ S \subseteq 1 .. n
    BY <1>1, <1>2
  <1>5. Held(DOMAIN q, q, c) = Cardinality(S) /\ Held(DOMAIN r, r, c) = Cardinality(T)
    BY DEF Held
  <1> HIDE DEF S, T, r
  <1>6. IsFiniteSet(S) /\ Cardinality(S) \in Nat
    <2> DEFINE one == 1
    <2>1. one \in Int /\ n \in Int
      BY <1>1
    <2> HIDE DEF one, n
    <2>2. IsFiniteSet(one .. n)
      BY <2>1, FS_Interval, Zenon
    <2> QED
      BY <1>4, <2>2, FS_Subset, FS_CardinalityType DEF one
  <1>7. CASE c = d
    <2>1. Cardinality(T) = Cardinality(S) + 1
      BY <1>3, <1>4, <1>6, <1>7, FS_AddElement
    <2> QED
      BY <1>5, <1>6, <1>7, <2>1 DEF One, r
  <1>8. CASE c # d
    BY <1>3, <1>5, <1>6, <1>8 DEF One, r
  <1> QED
    BY <1>7, <1>8

LEMMA QueueTail ==
    ASSUME NEW q \in Seq(SrvConns), q # <<>>
    PROVE  \A c : /\ Held(DOMAIN q, q, c) \in Nat
                  /\ Held(DOMAIN Tail(q), Tail(q), c) = Held(DOMAIN q, q, c) - One(c = Head(q))
  <1> SUFFICES ASSUME NEW c
               PROVE  /\ Held(DOMAIN q, q, c) \in Nat
                      /\ Held(DOMAIN Tail(q), Tail(q), c) =
                            Held(DOMAIN q, q, c) - One(c = Head(q))
    OBVIOUS
  <1> DEFINE n == Len(q)
             r == Tail(q)
             S == {i \in DOMAIN q : q[i] = c}
             U == S \ {1}
             T == {i \in DOMAIN r : r[i] = c}
  <1>1. /\ n \in Nat \ {0} /\ DOMAIN q = 1 .. n /\ DOMAIN r = 1 .. n - 1
        /\ \A i \in 1 .. n - 1 : r[i] = q[i + 1]
        /\ Head(q) = q[1]
    OBVIOUS
  <1>2. 1 \in S <=> c = Head(q)
    BY <1>1
  <1>3. S \subseteq 1 .. n
    BY <1>1
  <1>4. /\ \A i \in U : i \in Nat /\ i - 1 \in T
        /\ \A j \in T : j \in Nat /\ j + 1 \in U
    BY <1>1
  <1>5. Held(DOMAIN q, q, c) = Cardinality(S) /\ Held(DOMAIN r, r, c) = Cardinality(T)
    BY DEF Held
  <1> HIDE DEF S, T, r
  <1>6. IsFiniteSet(S) /\ Cardinality(S) \in Nat
    <2> DEFINE one == 1
    <2>1. one \in Int /\ n \in Int
      BY <1>1
    <2> HIDE DEF one, n
    <2>2. IsFiniteSet(one .. n)
      BY <2>1, FS_Interval, Zenon
    <2> QED
      BY <1>3, <2>2, FS_Subset, FS_CardinalityType DEF one
  <1>7. IsFiniteSet(U) /\ Cardinality(U) = IF 1 \in S THEN Cardinality(S) - 1 ELSE Cardinality(S)
    BY <1>6, FS_RemoveElement
  <1> HIDE DEF U
  <1>8. Cardinality(T) = Cardinality(U)
    <2> DEFINE down == [i \in U |-> i - 1]
    <2>1. down \in [U -> T] /\ \A i \in U : down[i] = i - 1
      BY <1>4
    <2> HIDE DEF down
    <2>2. \A i, j \in U : down[i] = down[j] => i = j
      BY <1>4, <2>1
    <2>3. \A j \in T : \E i \in U : down[i] = j
      <3> SUFFICES ASSUME NEW j \in T PROVE \E i \in U : down[i] = j
        OBVIOUS
      <3>1. j \in Nat /\ j + 1 \in U /\ (j + 1) - 1 = j
        BY <1>4
      <3>2. down[j + 1] = j
        BY <2>1, <3>1
      <3> QED
        BY <3>1, <3>2
    <2>4. down \in Bijection(U, T)
      BY <2>1, <2>2, <2>3 DEF Bijection, Injection, Surjection, IsInjective
    <2>5. ExistsBijection(U, T)
      BY <2>4 DEF ExistsBijection
    <2> QED
      BY <1>7, <2>5, FS_Bijection
  <1> QED
    BY <1>2, <1>5, <1>6, <1>7, <1>8 DEF One, r

-----------------------------------------------------------------------------
(* The ring.                                                               *)

\* i % SrvMaxNcli, one turn off at most.
LEMMA Modulo ==
    /\ \A i \in Positions : i % SrvMaxNcli = i
    /\ \A i \in Positions : (i - SrvMaxNcli) % SrvMaxNcli = i
    /\ SrvMaxNcli % SrvMaxNcli = 0
  BY SrvAssumption DEF Positions

LEMMA Wraps ==
    \A i \in Positions : /\ SrvWrap(i) \in Positions
                         /\ SrvWrap(i) = IF i + 1 = SrvMaxNcli THEN 0 ELSE i + 1
  <1> SUFFICES ASSUME NEW i \in Positions
               PROVE  /\ SrvWrap(i) \in Positions
                      /\ SrvWrap(i) = IF i + 1 = SrvMaxNcli THEN 0 ELSE i + 1
    OBVIOUS
  <1>1. CASE i + 1 = SrvMaxNcli
    BY <1>1, Modulo, SrvAssumption DEF SrvWrap, Positions
  <1>2. CASE i + 1 # SrvMaxNcli
    <2>1. i + 1 \in Positions
      BY <1>2, SrvAssumption DEF Positions
    <2> QED
      BY <1>2, <2>1, Modulo DEF SrvWrap
  <1> QED
    BY <1>1, <1>2

\* The distance from g to i, going round.
Ahead(i, g) == IF i >= g THEN i - g ELSE i - g + SrvMaxNcli

LEMMA Distance ==
    \A i, g \in Positions : (i - g) % SrvMaxNcli = Ahead(i, g)
  <1> SUFFICES ASSUME NEW i \in Positions, NEW g \in Positions
               PROVE  (i - g) % SrvMaxNcli = Ahead(i, g)
    OBVIOUS
  <1>1. CASE i >= g
    <2>1. i - g \in Positions
      BY <1>1, SrvAssumption DEF Positions
    <2> QED
      BY <1>1, <2>1, Modulo DEF Ahead
  <1>2. CASE ~(i >= g)
    <2>1. i - g + SrvMaxNcli \in Positions
      BY <1>2, SrvAssumption DEF Positions
    <2>2. (i - g + SrvMaxNcli) - SrvMaxNcli = i - g
      BY SrvAssumption DEF Positions
    <2> QED
      BY <1>2, <2>1, <2>2, Modulo DEF Ahead
  <1> QED
    BY <1>1, <1>2

\* The filled part of a ring.
Filled(get, put) == {i \in Positions : Ahead(i, get) < Ahead(put, get)}

LEMMA FilledIs ==
    ASSUME SrvTypes
    PROVE  SrvFilled = Filled(srvRing.iget, srvRing.iput)
  <1>1. srvRing.iget \in Positions /\ srvRing.iput \in Positions
    BY DEF SrvTypes
  <1>2. \A i \in Positions : /\ (i - srvRing.iget) % SrvMaxNcli = Ahead(i, srvRing.iget)
                             /\ (srvRing.iput - srvRing.iget) % SrvMaxNcli =
                                   Ahead(srvRing.iput, srvRing.iget)
    BY <1>1, Distance
  <1> QED
    BY <1>2 DEF SrvFilled, Filled, Positions

\* A put that does not fill the ring adds the position iput, a get takes iget.
LEMMA RingMoves ==
    ASSUME NEW get \in Positions, NEW put \in Positions
    PROVE  /\ put \notin Filled(get, put)
           /\ SrvWrap(put) # get => Filled(get, SrvWrap(put)) = Filled(get, put) \cup {put}
           /\ SrvWrap(put) = get => Filled(get, SrvWrap(put)) = {}
           /\ get # put => /\ get \in Filled(get, put)
                           /\ Filled(SrvWrap(get), put) = Filled(get, put) \ {get}
  <1> USE SrvAssumption
  <1>1. put \notin Filled(get, put)
    BY DEF Filled, Ahead, Positions
  <1>2. SrvWrap(put) = IF put + 1 = SrvMaxNcli THEN 0 ELSE put + 1
    BY Wraps
  <1>3. SrvWrap(get) = IF get + 1 = SrvMaxNcli THEN 0 ELSE get + 1
    BY Wraps
  <1>4. SrvWrap(put) # get => Filled(get, SrvWrap(put)) = Filled(get, put) \cup {put}
    <2> SUFFICES ASSUME SrvWrap(put) # get, NEW i \in Positions
                 PROVE  Ahead(i, get) < Ahead(SrvWrap(put), get) <=>
                           (Ahead(i, get) < Ahead(put, get) \/ i = put)
      BY DEF Filled
    <2> QED
      BY <1>2 DEF Ahead, Positions
  <1>5. SrvWrap(put) = get => Filled(get, SrvWrap(put)) = {}
    BY DEF Filled, Ahead, Positions
  <1>6. ASSUME get # put
        PROVE  /\ get \in Filled(get, put)
               /\ Filled(SrvWrap(get), put) = Filled(get, put) \ {get}
    <2>1. get \in Filled(get, put)
      BY <1>6 DEF Filled, Ahead, Positions
    <2>2. ASSUME NEW i \in Positions
          PROVE  Ahead(i, SrvWrap(get)) < Ahead(put, SrvWrap(get)) <=>
                    (Ahead(i, get) < Ahead(put, get) /\ i # get)
      BY <1>3, <1>6 DEF Ahead, Positions
    <2> QED
      BY <2>1, <2>2 DEF Filled
  <1> QED
    BY <1>1, <1>4, <1>5, <1>6

-----------------------------------------------------------------------------
(* What a step does to the counts.                                         *)

Serves(work) == [w \in SrvIds |-> work[w].conn]

LEMMA AsHeld ==
    \A c : /\ InQueue(c) = Held(DOMAIN srvQueue, srvQueue, c)
           /\ InPipes(c) = Held(SrvIds, srvParent.passed, c)
           /\ InWork(c) = Held(SrvIds, Serves(srvWork), c)
  <1> SUFFICES ASSUME NEW c
               PROVE  /\ InQueue(c) = Held(DOMAIN srvQueue, srvQueue, c)
                      /\ InPipes(c) = Held(SrvIds, srvParent.passed, c)
                      /\ InWork(c) = Held(SrvIds, Serves(srvWork), c)
    OBVIOUS
  <1>1. {w \in SrvIds : srvWork[w].conn = c} = {w \in SrvIds : Serves(srvWork)[w] = c}
    BY DEF Serves
  <1> QED
    BY <1>1 DEF InQueue, InPipes, InWork, Held

LEMMA AsHeldNext ==
    \A c : /\ InQueue(c)' = Held(DOMAIN srvQueue', srvQueue', c)
           /\ InPipes(c)' = Held(SrvIds, srvParent'.passed, c)
           /\ InWork(c)' = Held(SrvIds, Serves(srvWork'), c)
  <1> SUFFICES ASSUME NEW c
               PROVE  /\ InQueue(c)' = Held(DOMAIN srvQueue', srvQueue', c)
                      /\ InPipes(c)' = Held(SrvIds, srvParent'.passed, c)
                      /\ InWork(c)' = Held(SrvIds, Serves(srvWork'), c)
    OBVIOUS
  <1>1. {w \in SrvIds : srvWork'[w].conn = c} = {w \in SrvIds : Serves(srvWork')[w] = c}
    BY DEF Serves
  <1> QED
    BY <1>1 DEF InQueue, InPipes, InWork, Held

LEMMA WorkMoves ==
    ASSUME NEW w \in SrvIds, \A v \in SrvIds : v # w => srvWork'[v].conn = srvWork[v].conn
    PROVE  \A c : /\ InWork(c) \in Nat
                  /\ InWork(c)' = InWork(c) - One(srvWork[w].conn = c) + One(srvWork'[w].conn = c)
  <1> DEFINE f == Serves(srvWork)
             g == Serves(srvWork')
  <1>1. /\ \A v \in SrvIds : v # w => g[v] = f[v]
        /\ f[w] = srvWork[w].conn /\ g[w] = srvWork'[w].conn
    BY DEF Serves
  <1> HIDE DEF f, g
  <1>2. \A c : /\ Held(SrvIds, f, c) \in Nat
               /\ Held(SrvIds, g, c) = Held(SrvIds, f, c) - One(f[w] = c) + One(g[w] = c)
    BY <1>1, IdsFinite, HeldMoves
  <1> QED
    BY <1>1, <1>2, AsHeld, AsHeldNext DEF f, g

LEMMA WorkStays ==
    ASSUME \A v \in SrvIds : srvWork'[v].conn = srvWork[v].conn
    PROVE  \A c : InWork(c)' = InWork(c)
  <1> SUFFICES ASSUME NEW c PROVE InWork(c)' = InWork(c)
    OBVIOUS
  <1>1. {w \in SrvIds : srvWork'[w].conn = c} = {w \in SrvIds : srvWork[w].conn = c}
    OBVIOUS
  <1> QED
    BY <1>1 DEF InWork

LEMMA PipesMove ==
    ASSUME NEW w \in SrvIds, \A v \in SrvIds : v # w => srvParent'.passed[v] = srvParent.passed[v]
    PROVE  \A c : /\ InPipes(c) \in Nat
                  /\ InPipes(c)' = InPipes(c) - One(srvParent.passed[w] = c)
                                              + One(srvParent'.passed[w] = c)
  <1> DEFINE f == srvParent.passed
             g == srvParent'.passed
  <1>1. \A v \in SrvIds : v # w => g[v] = f[v]
    OBVIOUS
  <1> HIDE DEF f, g
  <1>2. \A c : /\ Held(SrvIds, f, c) \in Nat
               /\ Held(SrvIds, g, c) = Held(SrvIds, f, c) - One(f[w] = c) + One(g[w] = c)
    BY <1>1, IdsFinite, HeldMoves
  <1> QED
    BY <1>2, AsHeld, AsHeldNext DEF f, g

LEMMA PipesStay ==
    ASSUME \A v \in SrvIds : srvParent'.passed[v] = srvParent.passed[v]
    PROVE  \A c : InPipes(c)' = InPipes(c)
  <1> SUFFICES ASSUME NEW c PROVE InPipes(c)' = InPipes(c)
    OBVIOUS
  <1>1. {w \in SrvIds : srvParent'.passed[w] = c} = {w \in SrvIds : srvParent.passed[w] = c}
    OBVIOUS
  <1> QED
    BY <1>1 DEF InPipes

LEMMA QueueGrows ==
    ASSUME SrvTypes, NEW d \in SrvConns, srvQueue' = Append(srvQueue, d)
    PROVE  \A c : InQueue(c) \in Nat /\ InQueue(c)' = InQueue(c) + One(c = d)
  <1> DEFINE q == srvQueue
             r == srvQueue'
  <1>1. q \in Seq(SrvConns) /\ r = Append(q, d)
    BY DEF SrvTypes
  <1> HIDE DEF q, r
  <1>2. \A c : /\ Held(DOMAIN q, q, c) \in Nat
               /\ Held(DOMAIN r, r, c) = Held(DOMAIN q, q, c) + One(c = d)
    BY <1>1, QueueAppend
  <1> QED
    BY <1>2, AsHeld, AsHeldNext DEF q, r

LEMMA QueueShrinks ==
    ASSUME SrvTypes, srvQueue # <<>>, srvQueue' = Tail(srvQueue)
    PROVE  \A c : InQueue(c) \in Nat /\ InQueue(c)' = InQueue(c) - One(c = Head(srvQueue))
  <1> DEFINE q == srvQueue
             r == srvQueue'
  <1>1. q \in Seq(SrvConns) /\ q # <<>> /\ r = Tail(q)
    BY DEF SrvTypes
  <1> HIDE DEF q, r
  <1>2. \A c : /\ Held(DOMAIN q, q, c) \in Nat
               /\ Held(DOMAIN r, r, c) = Held(DOMAIN q, q, c) - One(c = Head(q))
    BY <1>1, QueueTail
  <1> QED
    BY <1>2, AsHeld, AsHeldNext DEF q, r

LEMMA QueueStays == UNCHANGED srvQueue => \A c : InQueue(c)' = InQueue(c)
  BY DEF InQueue

LEMMA RingStays == UNCHANGED srvRing => SrvFilled' = SrvFilled /\ \A c : InRing(c)' = InRing(c)
  BY DEF InRing, SrvFilled

LEMMA HandStays == UNCHANGED srvHand => \A c : InHand(c)' = InHand(c)
  BY DEF InHand

\* The counts are numbers.
LEMMA Numbers ==
    ASSUME SrvTypes
    PROVE  \A c : /\ InQueue(c) \in Nat /\ InHand(c) \in Nat /\ InRing(c) \in Nat
                  /\ InPipes(c) \in Nat /\ InWork(c) \in Nat
  <1> SUFFICES ASSUME NEW c
               PROVE  /\ InQueue(c) \in Nat /\ InHand(c) \in Nat /\ InRing(c) \in Nat
                      /\ InPipes(c) \in Nat /\ InWork(c) \in Nat
    OBVIOUS
  <1>1. \A S : S \subseteq SrvIds => Cardinality(S) \in Nat
    BY IdsFinite, FS_Subset, FS_CardinalityType
  <1>2. InPipes(c) \in Nat /\ InWork(c) \in Nat
    BY <1>1 DEF InPipes, InWork
  <1>3. InHand(c) \in Nat
    BY DEF InHand
  <1>4. InQueue(c) \in Nat
    <2> DEFINE q == srvQueue
    <2>1. q \in Seq(SrvConns)
      BY DEF SrvTypes
    <2> HIDE DEF q
    <2>2. CASE SrvConns # {}
      <3>1. PICK d : d \in SrvConns
        BY <2>2
      <3>2. Held(DOMAIN q, q, c) \in Nat
        BY <2>1, <3>1, QueueAppend
      <3> QED
        BY <3>2, AsHeld DEF q
    <2>3. CASE SrvConns = {}
      <3>1. {i \in DOMAIN q : q[i] = c} = {}
        BY <2>1, <2>3
      <3> QED
        BY <3>1, FS_EmptySet DEF InQueue, q
    <2> QED
      BY <2>2, <2>3
  <1>5. InRing(c) \in Nat
    <2> DEFINE zero == 0
               last == SrvMaxNcli - 1
               S == {i \in SrvFilled : srvRing.clifd[i] = c}
    <2>1. zero \in Int /\ last \in Int
      BY SrvAssumption
    <2>2. S \subseteq zero .. last
      BY DEF SrvFilled
    <2> HIDE DEF zero, last, S
    <2>3. IsFiniteSet(zero .. last)
      BY <2>1, FS_Interval, Zenon
    <2>4. Cardinality(S) \in Nat
      BY <2>2, <2>3, FS_Subset, FS_CardinalityType
    <2> QED
      BY <2>4 DEF S, InRing
  <1> QED
    BY <1>2, <1>3, <1>4, <1>5

-----------------------------------------------------------------------------
(* Init and the first steps.                                               *)

LEMMA ProgramsAre ==
    \A p \in SrvPrograms : /\ p.how \in {"accept", "lock", "fork", "pass", "ring"}
                           /\ p.how = "pass" => p.pool = SrvWorkers
  BY DEF SrvPrograms, serv00, serv01, serv02, serv02m, serv03, serv03m, serv04, serv05, serv06,
         serv07, serv08, serv09

LEMMA SrvInvInit == SrvInit => SrvInv
  <1> SUFFICES ASSUME SrvInit PROVE SrvInv
    OBVIOUS
  <1> DEFINE none == [step |-> "none", conn |-> 0]
  <1>1. /\ srvProg.how = "off" /\ srvEnded = "no"
        /\ srvConn = [c \in SrvConns |-> "idle"] /\ srvQueue = <<>> /\ srvHand = 0
    BY DEF SrvInit
  <1>2. srvWork = [w \in SrvIds |-> none]
    BY DEF SrvInit
  <1>3. srvRing = [clifd |-> [i \in Positions |-> 0], iget |-> 0, iput |-> 0]
    BY DEF SrvInit, Positions
  <1>4. srvParent = [status |-> [w \in SrvIds |-> 0], navail |-> SrvWorkers,
                     passed |-> [w \in SrvIds |-> 0], bytes |-> [w \in SrvIds |-> 0]]
    BY DEF SrvInit
  <1>5. none \in [step : WorkerSteps, conn : SrvConns \cup {0}] /\ none.conn = 0 /\ none.step = "none"
    BY DEF WorkerSteps
  <1> HIDE DEF none
  <1>6. \A w \in SrvIds : srvWork[w] = none
    BY <1>2
  <1>7. /\ srvWork \in [SrvIds -> [step : WorkerSteps, conn : SrvConns \cup {0}]]
        /\ \A w \in SrvIds : srvWork[w].conn = 0 /\ srvWork[w].step = "none"
    BY <1>2, <1>5, <1>6
  <1>8. /\ srvParent.navail = SrvWorkers
        /\ \A w \in SrvIds : /\ srvParent.status[w] = 0 /\ srvParent.passed[w] = 0
                             /\ srvParent.bytes[w] = 0
    BY <1>4
  <1>9. SrvTypes
    <2>1. 0 \in Positions
      BY SrvAssumption DEF Positions
    <2>2. srvRing \in [clifd : [Positions -> SrvConns \cup {0}], iget : Positions, iput : Positions]
      BY <1>3, <2>1
    <2>3. srvParent \in [status : [SrvIds -> {0, 1}], navail : Int,
                         passed : [SrvIds -> SrvConns \cup {0}], bytes : [SrvIds -> Nat]]
      BY <1>4, SrvAssumption
    <2>4. /\ srvConn \in [SrvConns -> {"idle", "good", "bad", "answered", "dropped"}]
          /\ srvQueue \in Seq(SrvConns) /\ srvHand \in SrvConns \cup {0}
      BY <1>1
    <2> QED
      BY <1>1, <1>7, <2>2, <2>3, <2>4 DEF SrvTypes
  <1>10. SrvOff
    BY <1>1, <1>6, <1>8 DEF SrvOff, none
  <1>11. SrvFilled = {}
    <2>1. srvRing.iget = srvRing.iput
      BY <1>3
    <2>2. srvRing.iget \in Positions
      BY <1>9 DEF SrvTypes
    <2>3. Filled(srvRing.iget, srvRing.iget) = {}
      BY <2>2, SrvAssumption DEF Filled, Ahead, Positions
    <2> QED
      BY <1>9, <2>1, <2>3, FilledIs
  <1>12. SrvHolds
    BY <1>1, <1>7, <1>11 DEF SrvHolds
  <1>13. SrvPlaced
    <2> SUFFICES ASSUME NEW c \in SrvConns PROVE Places(c) = Open(c)
      BY DEF SrvPlaced
    <2>1. c # 0
      BY IdsAre
    <2>2. {w \in SrvIds : srvWork[w].conn = c} = {} /\ {w \in SrvIds : srvParent.passed[w] = c} = {}
      BY <1>7, <1>8, <2>1
    <2>3. {i \in SrvFilled : srvRing.clifd[i] = c} = {}
      BY <1>11
    <2>4. {i \in DOMAIN srvQueue : srvQueue[i] = c} = {}
      BY <1>1
    <2>5. InQueue(c) = 0 /\ InRing(c) = 0 /\ InPipes(c) = 0 /\ InWork(c) = 0
      BY <2>2, <2>3, <2>4, FS_EmptySet DEF InQueue, InRing, InPipes, InWork
    <2>6. InHand(c) = 0 /\ Open(c) = 0
      BY <1>1, <2>1 DEF InHand, Open
    <2> QED
      BY <2>5, <2>6 DEF Places
  <1>14. SrvChildren
    BY <1>1 DEF SrvChildren
  <1> QED
    BY <1>9, <1>10, <1>12, <1>13, <1>14 DEF SrvInv

LEMMA StartKeeps ==
    ASSUME SrvInv, NEW p \in SrvPrograms, SrvStart(p)
    PROVE  SrvInv'
  <1>1. /\ srvProg.how = "off" /\ srvProg' = p
        /\ UNCHANGED <<srvEnded, srvConn, srvQueue, srvHand, srvRing, srvParent>>
    BY DEF SrvStart
  <1>2. srvWork' = [w \in SrvIds |->
          [step |-> IF w \in 1 .. p.pool THEN "ready" ELSE "none", conn |-> 0]]
    BY DEF SrvStart
  <1>3. /\ srvWork' \in [SrvIds -> [step : WorkerSteps, conn : SrvConns \cup {0}]]
        /\ \A w \in SrvIds : /\ srvWork'[w].conn = 0
                             /\ srvWork'[w].step = IF w \in 1 .. p.pool THEN "ready" ELSE "none"
    BY <1>2 DEF WorkerSteps
  <1>4. /\ srvEnded = "no" /\ srvHand = 0 /\ srvParent.navail = SrvWorkers
        /\ \A w \in SrvIds : /\ srvWork[w].conn = 0
                             /\ srvParent.status[w] = 0 /\ srvParent.passed[w] = 0
                             /\ srvParent.bytes[w] = 0
    BY <1>1 DEF SrvInv, SrvOff
  <1>5. /\ p.how \in {"accept", "lock", "fork", "pass", "ring"}
        /\ p.how = "pass" => p.pool = SrvWorkers
    BY ProgramsAre
  <1>6. SrvTypes'
    BY <1>1, <1>3, <1>5 DEF SrvInv, SrvTypes
  <1>7. SrvOff'
    BY <1>1, <1>5 DEF SrvOff
  <1>8. SrvHolds'
    BY <1>1, <1>3, RingStays DEF SrvInv, SrvHolds
  <1>9. SrvPlaced'
    <2>1. \A c : InWork(c)' = InWork(c)
      BY <1>3, <1>4, WorkStays
    <2>2. \A c : /\ InQueue(c)' = InQueue(c) /\ InRing(c)' = InRing(c) /\ InHand(c)' = InHand(c)
                 /\ InPipes(c)' = InPipes(c)
      BY <1>1, QueueStays, RingStays, HandStays, PipesStay
    <2> QED
      BY <1>1, <1>4, <2>1, <2>2 DEF SrvInv, SrvPlaced, Places, Open
  <1>10. SrvChildren'
    <2> SUFFICES ASSUME p.how = "pass" PROVE SrvChildren'
      BY <1>1 DEF SrvChildren
    <2>1. p.pool = SrvWorkers /\ \A w \in SrvIds : w \in Workers <=> w \in 1 .. p.pool
      BY <1>5 DEF Workers
    <2>2. \A w \in Workers : SrvChild(w)'
      BY <1>1, <1>3, <1>4, <2>1, IdsAre DEF SrvChild
    <2>3. \A w \in SrvIds \ Workers : srvWork'[w].step = "none" /\ srvParent'.bytes[w] = 0
      BY <1>1, <1>3, <1>4, <2>1
    <2>4. SrvIdle' = Workers
      BY <1>1, <1>4, <2>1, IdsAre DEF SrvIdle, Workers
    <2> QED
      BY <1>1, <1>4, <2>2, <2>3, <2>4, IdsFinite DEF SrvChildren
  <1> QED
    BY <1>6, <1>7, <1>8, <1>9, <1>10 DEF SrvInv

\* A step that leaves the workers, the pipes and the parent's table alone.
LEMMA ChildrenStay ==
    ASSUME SrvInv, UNCHANGED <<srvProg, srvEnded, srvParent>>,
           \A w \in SrvIds : srvWork'[w].step = srvWork[w].step,
           srvProg.how = "pass" /\ srvHand' # 0 => srvHand # 0 \/ srvParent.navail > 0
    PROVE  SrvChildren'
  <1> SUFFICES ASSUME srvProg.how = "pass" PROVE SrvChildren'
    BY DEF SrvChildren
  <1>1. AllAlive' <=> AllAlive
    BY DEF AllAlive
  <1>2. \A w \in Workers : SrvChild(w)' <=> SrvChild(w)
    BY IdsAre DEF SrvChild
  <1>3. SrvIdle' = SrvIdle
    BY DEF SrvIdle
  <1> HIDE DEF SrvChild, AllAlive, SrvIdle
  <1> QED
    BY <1>1, <1>2, <1>3, IdsAre DEF SrvInv, SrvChildren

LEMMA ClientKeeps ==
    ASSUME SrvInv, NEW d \in SrvConns, NEW request \in {"good", "bad"}, SrvClient(d, request)
    PROVE  SrvInv'
  <1>1. /\ srvProg.how # "off" /\ srvConn[d] = "idle"
        /\ srvConn' = [srvConn EXCEPT ![d] = request]
        /\ srvQueue' = Append(srvQueue, d)
        /\ UNCHANGED <<srvProg, srvEnded, srvHand, srvWork, srvRing, srvParent>>
    BY DEF SrvClient
  <1>2. /\ srvConn' \in [SrvConns -> {"idle", "good", "bad", "answered", "dropped"}]
        /\ \A c \in SrvConns : srvConn'[c] = IF c = d THEN request ELSE srvConn[c]
        /\ srvQueue' \in Seq(SrvConns)
    BY <1>1 DEF SrvInv, SrvTypes
  <1>3. SrvTypes'
    BY <1>1, <1>2 DEF SrvInv, SrvTypes
  <1>4. SrvOff' /\ SrvHolds'
    BY <1>1, RingStays DEF SrvInv, SrvOff, SrvHolds
  <1>5. SrvPlaced'
    <2> SUFFICES ASSUME srvEnded = "no", NEW c \in SrvConns PROVE Places(c)' = Open(c)'
      BY <1>1 DEF SrvPlaced
    <2>1. /\ InRing(c)' = InRing(c) /\ InHand(c)' = InHand(c)
          /\ InPipes(c)' = InPipes(c) /\ InWork(c)' = InWork(c)
      BY <1>1, RingStays, HandStays, PipesStay, WorkStays
    <2>2. InQueue(c)' = InQueue(c) + One(c = d)
      BY <1>1, QueueGrows DEF SrvInv
    <2>3. Open(c)' = Open(c) + One(c = d) /\ Open(c) \in Nat
      BY <1>1, <1>2 DEF Open, One
    <2>4. Places(c) = Open(c) /\ SrvTypes
      BY DEF SrvInv, SrvPlaced
    <2>5. One(c = d) \in Nat
      BY DEF One
    <2> HIDE DEF Open, One, InQueue, InRing, InHand, InPipes, InWork
    <2> QED
      BY <2>1, <2>2, <2>3, <2>4, <2>5, Numbers DEF Places
  <1>6. SrvChildren'
    BY <1>1, ChildrenStay
  <1> QED
    BY <1>3, <1>4, <1>5, <1>6 DEF SrvInv

LEMMA HeadIn ==
    ASSUME SrvTypes, srvQueue # <<>>
    PROVE  Head(srvQueue) \in SrvConns /\ Head(srvQueue) # 0 /\ Tail(srvQueue) \in Seq(SrvConns)
  BY IdsAre DEF SrvTypes

LEMMA MainAcceptKeeps ==
    ASSUME SrvInv, SrvMainAccept
    PROVE  SrvInv'
  <1>1. /\ srvProg.how \in {"fork", "pass", "ring"}
        /\ srvProg.how = "pass" => srvParent.navail > 0
        /\ srvHand = 0 /\ srvQueue # <<>>
        /\ srvHand' = Head(srvQueue) /\ srvQueue' = Tail(srvQueue)
        /\ UNCHANGED <<srvProg, srvEnded, srvConn, srvWork, srvRing, srvParent>>
    BY DEF SrvMainAccept
  <1>2. SrvTypes
    BY DEF SrvInv
  <1>3. Head(srvQueue) \in SrvConns /\ Head(srvQueue) # 0 /\ Tail(srvQueue) \in Seq(SrvConns)
    BY <1>1, <1>2, HeadIn
  <1>4. SrvTypes'
    BY <1>1, <1>2, <1>3 DEF SrvTypes
  <1>5. SrvOff' /\ SrvHolds'
    BY <1>1, RingStays DEF SrvInv, SrvOff, SrvHolds
  <1>6. SrvPlaced'
    <2> SUFFICES ASSUME srvEnded = "no", NEW c \in SrvConns PROVE Places(c)' = Open(c)'
      BY <1>1 DEF SrvPlaced
    <2>1. /\ InRing(c)' = InRing(c) /\ Open(c)' = Open(c)
          /\ InPipes(c)' = InPipes(c) /\ InWork(c)' = InWork(c)
      BY <1>1, RingStays, PipesStay, WorkStays DEF Open
    <2>2. InQueue(c)' = InQueue(c) - One(c = Head(srvQueue))
      BY <1>1, <1>2, QueueShrinks
    <2>3. InHand(c) = 0 /\ InHand(c)' = One(c = Head(srvQueue)) /\ One(c = Head(srvQueue)) \in Nat
      BY <1>1, IdsAre DEF InHand, One
    <2>4. Places(c) = Open(c)
      BY DEF SrvInv, SrvPlaced
    <2> HIDE DEF Open, One, InQueue, InRing, InHand, InPipes, InWork
    <2> QED
      BY <1>2, <2>1, <2>2, <2>3, <2>4, Numbers DEF Places
  <1>7. SrvChildren'
    BY <1>1, ChildrenStay
  <1> QED
    BY <1>4, <1>5, <1>6, <1>7 DEF SrvInv

LEMMA ForkKeeps ==
    ASSUME SrvInv, SrvFork
    PROVE  SrvInv'
  <1>1. /\ srvEnded = "no" /\ srvProg.how = "fork" /\ srvHand # 0 /\ srvHand' = 0
        /\ srvWork' = [srvWork EXCEPT ![srvHand] = [step |-> "serving", conn |-> srvHand]]
        /\ UNCHANGED <<srvProg, srvEnded, srvConn, srvQueue, srvRing, srvParent>>
    BY DEF SrvFork
  <1>2. SrvTypes /\ srvHand \in SrvConns /\ srvHand \in SrvIds
    BY <1>1, IdsAre DEF SrvInv, SrvTypes
  <1>3. /\ srvWork' \in [SrvIds -> [step : WorkerSteps, conn : SrvConns \cup {0}]]
        /\ \A w \in SrvIds : w # srvHand => srvWork'[w] = srvWork[w]
        /\ srvWork'[srvHand].conn = srvHand /\ srvWork'[srvHand].step = "serving"
    BY <1>1, <1>2 DEF SrvTypes, WorkerSteps
  <1>4. srvWork[srvHand].conn = 0
    <2>1. srvWork[srvHand].conn \in {0, srvHand}
      BY <1>1, <1>2 DEF SrvInv, SrvHolds
    <2>2. Places(srvHand) = Open(srvHand) /\ Open(srvHand) <= 1 /\ InHand(srvHand) = 1
      BY <1>1, <1>2 DEF SrvInv, SrvPlaced, Open, InHand
    <2>3. InWork(srvHand) = 0
      <3>1. /\ InQueue(srvHand) \in Nat /\ InRing(srvHand) \in Nat
            /\ InPipes(srvHand) \in Nat /\ InWork(srvHand) \in Nat
        BY <1>2, Numbers
      <3>2. Open(srvHand) \in Nat
        BY DEF Open
      <3> HIDE DEF Open, InQueue, InRing, InHand, InPipes, InWork
      <3> QED
        BY <2>2, <3>1, <3>2 DEF Places
    <2>4. {w \in SrvIds : srvWork[w].conn = srvHand} = {}
      <3>1. IsFiniteSet({w \in SrvIds : srvWork[w].conn = srvHand})
        BY IdsFinite, FS_Subset
      <3> QED
        BY <2>3, <3>1, FS_EmptySet DEF InWork
    <2> QED
      BY <1>2, <2>1, <2>4
  <1>5. SrvTypes'
    BY <1>1, <1>2, <1>3 DEF SrvTypes
  <1>6. SrvOff' /\ SrvHolds'
    BY <1>1, <1>3, RingStays DEF SrvInv, SrvOff, SrvHolds
  <1>7. SrvPlaced'
    <2> SUFFICES ASSUME NEW c \in SrvConns PROVE Places(c)' = Open(c)'
      BY <1>1 DEF SrvPlaced
    <2>1. /\ InRing(c)' = InRing(c) /\ Open(c)' = Open(c)
          /\ InPipes(c)' = InPipes(c) /\ InQueue(c)' = InQueue(c)
      BY <1>1, RingStays, PipesStay, QueueStays DEF Open
    <2>2. InWork(c)' = InWork(c) - One(0 = c) + One(srvHand = c)
      BY <1>2, <1>3, <1>4, WorkMoves
    <2>3. InHand(c) = One(srvHand = c) /\ InHand(c)' = 0 /\ One(0 = c) = 0
      BY <1>1, IdsAre DEF InHand, One
    <2>4. Places(c) = Open(c)
      BY <1>1 DEF SrvInv, SrvPlaced
    <2> HIDE DEF Open, One, InQueue, InRing, InHand, InPipes, InWork
    <2> QED
      BY <1>2, <2>1, <2>2, <2>3, <2>4, Numbers DEF Places
  <1>8. SrvChildren'
    BY <1>1 DEF SrvChildren
  <1> QED
    BY <1>5, <1>6, <1>7, <1>8 DEF SrvInv

-----------------------------------------------------------------------------
(* serv08: the ring.                                                       *)

\* The signal wakes one worker or none; no connection changes hands.
LEMMA SignalStays ==
    ASSUME SrvInv, SrvSignal
    PROVE  /\ srvWork' \in [SrvIds -> [step : WorkerSteps, conn : SrvConns \cup {0}]]
           /\ \A w \in SrvIds : /\ srvWork'[w].conn = srvWork[w].conn
                                /\ \/ srvWork'[w].step = srvWork[w].step
                                   \/ srvWork[w].step = "waiting" /\ srvWork'[w].step = "woken"
  <1>1. srvWork \in [SrvIds -> [step : WorkerSteps, conn : SrvConns \cup {0}]]
    BY DEF SrvInv, SrvTypes
  <1>2. CASE srvWork' = srvWork
    BY <1>1, <1>2
  <1>3. ASSUME NEW v \in SrvIds, srvWork[v].step = "waiting",
               srvWork' = [srvWork EXCEPT ![v].step = "woken"]
        PROVE  /\ srvWork' \in [SrvIds -> [step : WorkerSteps, conn : SrvConns \cup {0}]]
               /\ \A w \in SrvIds : /\ srvWork'[w].conn = srvWork[w].conn
                                    /\ \/ srvWork'[w].step = srvWork[w].step
                                       \/ srvWork[w].step = "waiting" /\ srvWork'[w].step = "woken"
    BY <1>1, <1>3 DEF WorkerSteps
  <1> QED
    BY <1>2, <1>3 DEF SrvSignal

LEMMA PutKeeps ==
    ASSUME SrvInv, SrvPut
    PROVE  SrvInv'
  <1> DEFINE put == srvRing.iput
             get == srvRing.iget
  <1>1. /\ srvEnded = "no" /\ srvProg.how = "ring" /\ srvHand # 0 /\ srvHand' = 0
        /\ srvRing' = [srvRing EXCEPT !.clifd[srvRing.iput] = srvHand, !.iput = SrvWrap(put)]
        /\ IF SrvWrap(put) = get
           THEN srvEnded' = "iput = iget" /\ UNCHANGED srvWork
           ELSE SrvSignal /\ UNCHANGED srvEnded
        /\ UNCHANGED <<srvProg, srvConn, srvQueue, srvParent>>
    BY DEF SrvPut
  <1>2. /\ SrvTypes /\ srvHand \in SrvConns /\ put \in Positions /\ get \in Positions
        /\ SrvWrap(put) \in Positions
        /\ srvRing \in [clifd : [Positions -> SrvConns \cup {0}], iget : Positions, iput : Positions]
    <2>1. put \in Positions
      BY DEF SrvInv, SrvTypes
    <2> QED
      BY <1>1, <2>1, Wraps DEF SrvInv, SrvTypes
  <1>3. /\ srvRing' \in [clifd : [Positions -> SrvConns \cup {0}], iget : Positions, iput : Positions]
        /\ srvRing'.iget = get /\ srvRing'.iput = SrvWrap(put)
        /\ \A i \in Positions : srvRing'.clifd[i] = IF i = put THEN srvHand ELSE srvRing.clifd[i]
    BY <1>1, <1>2
  <1>4. /\ srvWork' \in [SrvIds -> [step : WorkerSteps, conn : SrvConns \cup {0}]]
        /\ \A w \in SrvIds : /\ srvWork'[w].conn = srvWork[w].conn
                             /\ \/ srvWork'[w].step = srvWork[w].step
                                \/ srvWork[w].step = "waiting" /\ srvWork'[w].step = "woken"
    <2>1. CASE UNCHANGED srvWork
      BY <1>2, <2>1 DEF SrvTypes
    <2>2. CASE SrvSignal
      BY <2>2, SignalStays
    <2> QED
      BY <1>1, <2>1, <2>2
  <1>5. SrvTypes'
    BY <1>1, <1>2, <1>3, <1>4 DEF SrvTypes
  <1>6. SrvFilled = Filled(get, put) /\ SrvFilled' = Filled(get, SrvWrap(put))
    <2>1. SrvFilled = Filled(get, put)
      BY <1>2, FilledIs
    <2>2. (SrvFilled = Filled(srvRing.iget, srvRing.iput))'
      BY <1>5, FilledIs, PTL
    <2> QED
      BY <1>3, <2>1, <2>2
  <1>7. /\ put \notin SrvFilled
        /\ SrvWrap(put) # get => SrvFilled' = SrvFilled \cup {put}
        /\ SrvWrap(put) = get => SrvFilled' = {}
    <2> HIDE DEF put, get
    <2> QED
      BY <1>2, <1>6, RingMoves
  <1>8. SrvFilled \subseteq Positions
    BY DEF SrvFilled, Positions
  <1>9. SrvOff' /\ SrvHolds'
    <2>1. \A i \in SrvFilled' : srvRing'.clifd[i] # 0
      <3> SUFFICES ASSUME NEW i \in SrvFilled' PROVE srvRing'.clifd[i] # 0
        OBVIOUS
      <3>1. i \in SrvFilled \/ i = put
        BY <1>7
      <3>2. CASE i = put
        BY <1>1, <1>2, <1>3, <3>2
      <3>3. CASE i \in SrvFilled
        <4>1. i \in Positions /\ i # put
          BY <1>7, <1>8, <3>3
        <4>2. srvRing.clifd[i] # 0
          BY <3>3 DEF SrvInv, SrvHolds
        <4> QED
          BY <1>3, <4>1, <4>2
      <3> QED
        BY <3>1, <3>2, <3>3
    <2>2. \A w \in SrvIds : srvWork'[w].conn # 0 <=> srvWork'[w].step = "serving"
      BY <1>4 DEF SrvInv, SrvHolds
    <2> QED
      BY <1>1, <2>1, <2>2 DEF SrvOff, SrvHolds
  <1>10. SrvPlaced'
    <2> SUFFICES ASSUME srvEnded' = "no", NEW c \in SrvConns PROVE Places(c)' = Open(c)'
      BY DEF SrvPlaced
    <2>1. /\ InWork(c)' = InWork(c) /\ Open(c)' = Open(c)
          /\ InPipes(c)' = InPipes(c) /\ InQueue(c)' = InQueue(c)
      BY <1>1, <1>4, WorkStays, PipesStay, QueueStays DEF Open
    <2>2. InRing(c)' = InRing(c) + One(srvHand = c)
      <3> DEFINE S == {i \in SrvFilled : srvRing.clifd[i] = c}
                 T == {i \in SrvFilled' : srvRing'.clifd[i] = c}
      <3>1. SrvFilled' = SrvFilled \cup {put}
        BY <1>1, <1>7
      <3>2. T = IF srvHand = c THEN S \cup {put} ELSE S
        BY <1>2, <1>3, <1>7, <1>8, <3>1
      <3>3. put \notin S /\ InRing(c) = Cardinality(S) /\ InRing(c)' = Cardinality(T)
        BY <1>7 DEF InRing
      <3>4. IsFiniteSet(S)
        <4> DEFINE zero == 0
                   last == SrvMaxNcli - 1
        <4>1. zero \in Int /\ last \in Int /\ S \subseteq zero .. last
          BY SrvAssumption DEF SrvFilled
        <4> HIDE DEF zero, last, S
        <4>2. IsFiniteSet(zero .. last)
          BY <4>1, FS_Interval, Zenon
        <4> QED
          BY <4>1, <4>2, FS_Subset
      <3> HIDE DEF S, T
      <3>5. Cardinality(S) \in Nat
        BY <3>4, FS_CardinalityType
      <3>6. CASE srvHand = c
        <4>1. Cardinality(T) = Cardinality(S) + 1
          BY <3>2, <3>3, <3>4, <3>6, FS_AddElement
        <4> QED
          BY <3>3, <3>6, <4>1 DEF One
      <3>7. CASE srvHand # c
        BY <3>2, <3>3, <3>5, <3>7 DEF One
      <3> QED
        BY <3>6, <3>7
    <2>3. InHand(c) = One(srvHand = c) /\ InHand(c)' = 0
      BY <1>1, IdsAre DEF InHand, One
    <2>4. Places(c) = Open(c)
      BY <1>1 DEF SrvInv, SrvPlaced
    <2> HIDE DEF Open, One, InQueue, InRing, InHand, InPipes, InWork
    <2> QED
      BY <1>2, <2>1, <2>2, <2>3, <2>4, Numbers DEF Places
  <1>11. SrvChildren'
    BY <1>1 DEF SrvChildren
  <1> QED
    BY <1>5, <1>9, <1>10, <1>11 DEF SrvInv

LEMMA GetKeeps ==
    ASSUME SrvInv, NEW v \in SrvIds, SrvGet(v)
    PROVE  SrvInv'
  <1> DEFINE put == srvRing.iput
             get == srvRing.iget
  <1>1. /\ srvEnded = "no" /\ srvProg.how = "ring" /\ srvWork[v].step \in {"ready", "woken"}
        /\ UNCHANGED <<srvProg, srvEnded, srvConn, srvQueue, srvHand, srvParent>>
    BY DEF SrvGet
  <1>2. /\ SrvTypes /\ put \in Positions /\ get \in Positions
        /\ srvRing \in [clifd : [Positions -> SrvConns \cup {0}], iget : Positions, iput : Positions]
        /\ srvWork \in [SrvIds -> [step : WorkerSteps, conn : SrvConns \cup {0}]]
    BY DEF SrvInv, SrvTypes
  <1>3. srvWork[v].conn = 0
    BY <1>1 DEF SrvInv, SrvHolds
  <1>4. SrvOff' /\ SrvChildren'
    BY <1>1 DEF SrvOff, SrvChildren
  <1>5. CASE get = put
    <2>1. /\ srvWork' = [srvWork EXCEPT ![v].step = "waiting"] /\ UNCHANGED srvRing
      BY <1>5 DEF SrvGet, SrvMustWait
    <2>2. /\ srvWork' \in [SrvIds -> [step : WorkerSteps, conn : SrvConns \cup {0}]]
          /\ \A w \in SrvIds : /\ srvWork'[w].conn = srvWork[w].conn
                               /\ srvWork'[w].step = IF w = v THEN "waiting" ELSE srvWork[w].step
      BY <1>2, <2>1 DEF WorkerSteps
    <2>3. SrvTypes'
      BY <1>1, <1>2, <2>1, <2>2 DEF SrvTypes
    <2>4. SrvHolds'
      BY <1>1, <1>3, <2>1, <2>2, RingStays DEF SrvInv, SrvHolds
    <2>5. \A c : /\ InWork(c)' = InWork(c) /\ InPipes(c)' = InPipes(c) /\ InQueue(c)' = InQueue(c)
                 /\ InRing(c)' = InRing(c) /\ InHand(c)' = InHand(c)
      BY <1>1, <2>1, <2>2, WorkStays, PipesStay, QueueStays, RingStays, HandStays
    <2>6. SrvPlaced'
      BY <1>1, <2>5 DEF SrvInv, SrvPlaced, Places, Open
    <2> QED
      BY <1>4, <2>3, <2>4, <2>6 DEF SrvInv
  <1>6. CASE get # put
    <2> DEFINE d == srvRing.clifd[get]
    <2>1. /\ srvWork' = [srvWork EXCEPT ![v] = [step |-> "serving", conn |-> d]]
          /\ srvRing' = [srvRing EXCEPT !.iget = SrvWrap(get)]
      BY <1>6 DEF SrvGet, SrvMustWait
    <2>2. SrvWrap(get) \in Positions
      BY <1>2, Wraps
    <2>3. /\ srvRing' \in [clifd : [Positions -> SrvConns \cup {0}], iget : Positions, iput : Positions]
          /\ srvRing'.iget = SrvWrap(get) /\ srvRing'.iput = put /\ srvRing'.clifd = srvRing.clifd
      BY <1>2, <2>1, <2>2
    <2>4. d \in SrvConns \cup {0}
      BY <1>2
    <2>5. /\ srvWork' \in [SrvIds -> [step : WorkerSteps, conn : SrvConns \cup {0}]]
          /\ \A w \in SrvIds : w # v => srvWork'[w] = srvWork[w]
          /\ srvWork'[v].conn = d /\ srvWork'[v].step = "serving"
      <3> HIDE DEF d
      <3> QED
        BY <1>2, <2>1, <2>4 DEF WorkerSteps
    <2>6. SrvTypes'
      BY <1>1, <1>2, <2>3, <2>5 DEF SrvTypes
    <2>7. SrvFilled = Filled(get, put) /\ SrvFilled' = Filled(SrvWrap(get), put)
      <3>1. SrvFilled = Filled(get, put)
        BY <1>2, FilledIs
      <3>2. (SrvFilled = Filled(srvRing.iget, srvRing.iput))'
        BY <2>6, FilledIs, PTL
      <3> QED
        BY <2>3, <3>1, <3>2
    <2>8. get \in SrvFilled /\ SrvFilled' = SrvFilled \ {get}
      <3> HIDE DEF put, get
      <3> QED
        BY <1>2, <1>6, <2>7, RingMoves
    <2>9. d # 0
      BY <2>8 DEF SrvInv, SrvHolds
    <2>10. SrvHolds'
      BY <1>1, <2>3, <2>5, <2>8, <2>9 DEF SrvInv, SrvHolds
    <2>11. SrvPlaced'
      <3> SUFFICES ASSUME NEW c \in SrvConns PROVE Places(c)' = Open(c)'
        BY <1>1 DEF SrvPlaced
      <3>1. /\ InHand(c)' = InHand(c) /\ Open(c)' = Open(c)
            /\ InPipes(c)' = InPipes(c) /\ InQueue(c)' = InQueue(c)
        BY <1>1, HandStays, PipesStay, QueueStays DEF Open
      <3>2. InWork(c)' = InWork(c) - One(0 = c) + One(d = c)
        BY <1>3, <2>5, WorkMoves
      <3>3. InRing(c)' = InRing(c) - One(d = c)
        <4> DEFINE S == {i \in SrvFilled : srvRing.clifd[i] = c}
                   T == {i \in SrvFilled' : srvRing'.clifd[i] = c}
        <4>1. T = S \ {get} /\ (get \in S <=> d = c)
          BY <2>3, <2>8
        <4>2. InRing(c) = Cardinality(S) /\ InRing(c)' = Cardinality(T)
          BY DEF InRing
        <4>3. IsFiniteSet(S)
          <5> DEFINE zero == 0
                     last == SrvMaxNcli - 1
          <5>1. zero \in Int /\ last \in Int /\ S \subseteq zero .. last
            BY SrvAssumption DEF SrvFilled
          <5> HIDE DEF zero, last, S
          <5>2. IsFiniteSet(zero .. last)
            BY <5>1, FS_Interval, Zenon
          <5> QED
            BY <5>1, <5>2, FS_Subset
        <4> HIDE DEF S, T
        <4>4. /\ Cardinality(S) \in Nat
              /\ Cardinality(S \ {get}) = IF get \in S THEN Cardinality(S) - 1 ELSE Cardinality(S)
          BY <4>3, FS_CardinalityType, FS_RemoveElement
        <4> QED
          BY <4>1, <4>2, <4>4 DEF One
      <3>4. One(0 = c) = 0 /\ One(d = c) \in Nat
        BY IdsAre DEF One
      <3>5. Places(c) = Open(c)
        BY <1>1 DEF SrvInv, SrvPlaced
      <3> HIDE DEF Open, One, InQueue, InRing, InHand, InPipes, InWork, d
      <3> QED
        BY <1>2, <3>1, <3>2, <3>3, <3>4, <3>5, Numbers DEF Places
    <2> QED
      BY <1>4, <2>6, <2>10, <2>11 DEF SrvInv
  <1> QED
    BY <1>5, <1>6

-----------------------------------------------------------------------------
(* serv05: the parent and its children.                                    *)

\* The first idle child is an idle child.
LEMMA FirstIdle ==
    ASSUME NEW idle, idle \subseteq Nat, idle # {}
    PROVE  (CHOOSE v \in idle : \A u \in idle : v <= u) \in idle
  <1> DEFINE less == OpToRel(<, Nat)
  <1>1. IsWellFoundedOn(less, Nat)
    BY NatLessThanWellFounded
  <1> HIDE DEF less
  <1>2. PICK x \in idle : \A y \in idle : ~(<<y, x>> \in less)
    BY <1>1, WFMin
  <1> USE DEF less
  <1>3. \A y \in idle : ~(y < x)
    BY <1>2 DEF OpToRel
  <1>4. \A y \in idle : x <= y
    BY <1>3
  <1> QED
    BY <1>4

LEMMA PassFdKeeps ==
    ASSUME SrvInv, SrvPassFd
    PROVE  SrvInv'
  <1>1. /\ srvEnded = "no" /\ srvProg.how = "pass" /\ srvHand # 0
        /\ UNCHANGED <<srvProg, srvConn, srvQueue, srvWork, srvRing>>
    BY DEF SrvPassFd
  <1>2. /\ SrvTypes /\ srvProg.pool = SrvWorkers /\ srvHand \in SrvConns
        /\ srvParent \in [status : [SrvIds -> {0, 1}], navail : Int,
                          passed : [SrvIds -> SrvConns \cup {0}], bytes : [SrvIds -> Nat]]
    BY <1>1 DEF SrvInv, SrvTypes
  <1>3. SrvIdle \subseteq Workers /\ SrvIdle \subseteq Nat
    BY <1>2 DEF SrvIdle, Workers
  <1>4. IsFiniteSet(SrvIdle) /\ Cardinality(SrvIdle) \in Nat
    BY <1>3, IdsFinite, FS_Subset, FS_CardinalityType
  <1>5. CASE SrvIdle = {}
    <2>1. srvEnded' = "no available children" /\ UNCHANGED <<srvHand, srvParent>>
      BY <1>5 DEF SrvPassFd
    <2>2. SrvTypes' /\ SrvOff' /\ SrvPlaced'
      BY <1>1, <1>2, <2>1 DEF SrvTypes, SrvOff, SrvPlaced
    <2>3. SrvHolds'
      BY <1>1, RingStays DEF SrvInv, SrvHolds
    <2>4. ~ AllAlive
      <3> SUFFICES ASSUME AllAlive PROVE FALSE
        OBVIOUS
      <3>1. srvParent.navail = Cardinality(SrvIdle) /\ srvParent.navail > 0
        BY <1>1 DEF SrvInv, SrvChildren
      <3>2. Cardinality(SrvIdle) = 0
        BY <1>5, FS_EmptySet
      <3> QED
        BY <3>1, <3>2
    <2>5. ~ AllAlive' /\ (\A w \in Workers : SrvChild(w)' <=> SrvChild(w))
      BY <1>1, <2>1, <2>4 DEF AllAlive, SrvChild
    <2>6. SrvChildren'
      <3> HIDE DEF AllAlive, SrvChild
      <3> QED
        BY <1>1, <2>1, <2>5 DEF SrvInv, SrvChildren
    <2> QED
      BY <2>2, <2>3, <2>6 DEF SrvInv
  <1>6. CASE SrvIdle # {}
    <2> DEFINE w == CHOOSE v \in SrvIdle : \A u \in SrvIdle : v <= u
    <2>1. /\ srvEnded' = IF srvWork[w].step = "dead" THEN "sigpipe" ELSE "no"
          /\ srvParent' = [srvParent EXCEPT !.status[w] = 1, !.navail = srvParent.navail - 1,
                                            !.passed[w] = srvHand]
          /\ srvHand' = 0
      BY <1>6 DEF SrvPassFd, SrvTaken
    <2>2. w \in SrvIdle
      BY <1>3, <1>6, FirstIdle
    <2> HIDE DEF w
    <2>3. w \in Workers /\ w \in SrvIds /\ srvParent.status[w] = 0
      BY <1>3, <2>2, IdsAre DEF SrvIdle
    <2>4. /\ srvParent' \in [status : [SrvIds -> {0, 1}], navail : Int,
                             passed : [SrvIds -> SrvConns \cup {0}], bytes : [SrvIds -> Nat]]
          /\ srvParent'.navail = srvParent.navail - 1 /\ srvParent'.bytes = srvParent.bytes
          /\ srvParent'.status[w] = 1 /\ srvParent'.passed[w] = srvHand
          /\ \A v \in SrvIds : v # w => /\ srvParent'.status[v] = srvParent.status[v]
                                        /\ srvParent'.passed[v] = srvParent.passed[v]
      <3>1. /\ srvParent' = [status |-> [srvParent.status EXCEPT ![w] = 1],
                             navail |-> srvParent.navail - 1,
                             passed |-> [srvParent.passed EXCEPT ![w] = srvHand],
                             bytes |-> srvParent.bytes]
        BY <1>2, <2>1
      <3>2. /\ srvParent.status \in [SrvIds -> {0, 1}] /\ srvParent.navail \in Int
            /\ srvParent.passed \in [SrvIds -> SrvConns \cup {0}]
            /\ srvParent.bytes \in [SrvIds -> Nat]
        BY <1>2
      <3>3. /\ [srvParent.status EXCEPT ![w] = 1] \in [SrvIds -> {0, 1}]
            /\ [srvParent.passed EXCEPT ![w] = srvHand] \in [SrvIds -> SrvConns \cup {0}]
        BY <1>2, <2>3, <3>2
      <3>4. /\ srvParent'.status = [srvParent.status EXCEPT ![w] = 1]
            /\ srvParent'.passed = [srvParent.passed EXCEPT ![w] = srvHand]
            /\ srvParent'.navail = srvParent.navail - 1 /\ srvParent'.bytes = srvParent.bytes
        BY <3>1
      <3>5. srvParent' \in [status : [SrvIds -> {0, 1}], navail : Int,
                            passed : [SrvIds -> SrvConns \cup {0}], bytes : [SrvIds -> Nat]]
        BY <3>1, <3>2, <3>3
      <3> QED
        BY <2>3, <3>2, <3>4, <3>5
    <2>5. SrvTypes' /\ SrvOff'
      BY <1>1, <1>2, <2>1, <2>4 DEF SrvTypes, SrvOff
    <2>6. SrvHolds'
      BY <1>1, RingStays DEF SrvInv, SrvHolds
    <2>7. srvWork[w].step # "dead" => SrvChild(w)
      BY <1>1, <2>3 DEF SrvInv, SrvChildren
    <2>8. srvWork[w].step # "dead" =>
             srvWork[w].step = "ready" /\ srvParent.passed[w] = 0 /\ srvParent.bytes[w] = 0
      BY <2>3, <2>7 DEF SrvChild
    <2>9. SrvPlaced'
      <3> SUFFICES ASSUME srvEnded' = "no", NEW c \in SrvConns PROVE Places(c)' = Open(c)'
        BY DEF SrvPlaced
      <3>1. /\ InWork(c)' = InWork(c) /\ Open(c)' = Open(c)
            /\ InRing(c)' = InRing(c) /\ InQueue(c)' = InQueue(c)
        BY <1>1, WorkStays, RingStays, QueueStays DEF Open
      <3>2. srvParent.passed[w] = 0
        BY <2>1, <2>8
      <3>3. InPipes(c)' = InPipes(c) - One(0 = c) + One(srvHand = c)
        BY <2>3, <2>4, <3>2, PipesMove
      <3>4. InHand(c) = One(srvHand = c) /\ InHand(c)' = 0 /\ One(0 = c) = 0
        BY <2>1, IdsAre DEF InHand, One
      <3>5. Places(c) = Open(c)
        BY <1>1 DEF SrvInv, SrvPlaced
      <3> HIDE DEF Open, One, InQueue, InRing, InHand, InPipes, InWork
      <3> QED
        BY <1>2, <3>1, <3>3, <3>4, <3>5, Numbers DEF Places
    <2>10. SrvChildren'
      <3>1. AllAlive' <=> AllAlive
        BY <1>1 DEF AllAlive
      <3>2. \A v \in Workers : srvWork'[v].step # "dead" => SrvChild(v)'
        <4> SUFFICES ASSUME NEW v \in Workers, srvWork[v].step # "dead" PROVE SrvChild(v)'
          BY <1>1
        <4>1. SrvChild(v) /\ v \in SrvIds
          BY <1>1, IdsAre DEF SrvInv, SrvChildren
        <4>2. CASE v = w
          BY <1>1, <2>4, <2>8, <4>2 DEF SrvChild
        <4>3. CASE v # w
          BY <1>1, <2>4, <4>1, <4>3 DEF SrvChild
        <4> QED
          BY <4>2, <4>3
      <3>3. \A v \in SrvIds \ Workers : srvWork'[v].step \in {"none", "dead"} /\ srvParent'.bytes[v] = 0
        BY <1>1, <2>4 DEF SrvInv, SrvChildren
      <3>4. SrvIdle' = SrvIdle \ {w}
        <4>1. \A v \in 1 .. SrvWorkers : v \in SrvIds
          BY IdsAre DEF Workers
        <4> QED
          BY <1>1, <1>2, <2>3, <2>4, <4>1 DEF SrvIdle
      <3>5. Cardinality(SrvIdle') = Cardinality(SrvIdle) - 1
        BY <1>4, <2>2, <3>4, FS_RemoveElement
      <3>6. AllAlive => srvParent'.navail = Cardinality(SrvIdle')
        BY <1>1, <2>4, <3>5 DEF SrvInv, SrvChildren
      <3> HIDE DEF AllAlive, SrvChild
      <3> QED
        BY <1>1, <2>1, <3>1, <3>2, <3>3, <3>6 DEF SrvChildren
    <2> QED
      BY <2>5, <2>6, <2>9, <2>10 DEF SrvInv
  <1> QED
    BY <1>5, <1>6

LEMMA ParentReadKeeps ==
    ASSUME SrvInv, NEW w \in SrvIds, SrvParentRead(w)
    PROVE  SrvInv'
  <1>1. /\ srvEnded = "no" /\ srvProg.how = "pass" /\ srvHand = 0
        /\ UNCHANGED <<srvProg, srvConn, srvQueue, srvHand, srvWork, srvRing>>
    BY DEF SrvParentRead
  <1>2. /\ SrvTypes /\ srvProg.pool = SrvWorkers
        /\ srvParent \in [status : [SrvIds -> {0, 1}], navail : Int,
                          passed : [SrvIds -> SrvConns \cup {0}], bytes : [SrvIds -> Nat]]
    BY <1>1 DEF SrvInv, SrvTypes
  <1>3. SrvHolds' /\ SrvOff'
    BY <1>1, RingStays DEF SrvInv, SrvHolds, SrvOff
  <1>4. CASE srvWork[w].step = "dead" /\ srvEnded' = SrvAtEof /\ UNCHANGED srvParent
    <2>1. srvEnded' # "no" /\ srvEnded' # "no available children"
      BY <1>4 DEF SrvAtEof
    <2>2. SrvTypes' /\ SrvPlaced'
      BY <1>1, <1>2, <1>4, <2>1 DEF SrvTypes, SrvPlaced
    <2>3. ~ AllAlive' /\ (\A v \in Workers : SrvChild(v)' <=> SrvChild(v))
      BY <1>1, <1>4 DEF AllAlive, SrvChild
    <2>4. SrvChildren'
      <3> HIDE DEF AllAlive, SrvChild
      <3> QED
        BY <1>1, <1>4, <2>3 DEF SrvInv, SrvChildren
    <2> QED
      BY <1>3, <2>2, <2>4 DEF SrvInv
  <1>5. CASE /\ srvParent.bytes[w] > 0 /\ UNCHANGED srvEnded
             /\ srvParent' = [srvParent EXCEPT !.bytes[w] = @ - 1, !.status[w] = 0, !.navail = @ + 1]
    <2>1. srvParent.bytes[w] \in Nat /\ srvParent.bytes[w] - 1 \in Nat
      BY <1>2, <1>5
    <2>2. /\ srvParent' \in [status : [SrvIds -> {0, 1}], navail : Int,
                             passed : [SrvIds -> SrvConns \cup {0}], bytes : [SrvIds -> Nat]]
          /\ srvParent'.navail = srvParent.navail + 1 /\ srvParent'.passed = srvParent.passed
          /\ srvParent'.status[w] = 0 /\ srvParent'.bytes[w] = srvParent.bytes[w] - 1
          /\ \A v \in SrvIds : v # w => /\ srvParent'.status[v] = srvParent.status[v]
                                        /\ srvParent'.bytes[v] = srvParent.bytes[v]
      <3>1. /\ srvParent' = [status |-> [srvParent.status EXCEPT ![w] = 0],
                             navail |-> srvParent.navail + 1,
                             passed |-> srvParent.passed,
                             bytes |-> [srvParent.bytes EXCEPT ![w] = srvParent.bytes[w] - 1]]
        BY <1>2, <1>5
      <3>2. /\ srvParent.status \in [SrvIds -> {0, 1}] /\ srvParent.navail \in Int
            /\ srvParent.passed \in [SrvIds -> SrvConns \cup {0}]
            /\ srvParent.bytes \in [SrvIds -> Nat]
        BY <1>2
      <3>3. /\ [srvParent.status EXCEPT ![w] = 0] \in [SrvIds -> {0, 1}]
            /\ [srvParent.bytes EXCEPT ![w] = srvParent.bytes[w] - 1] \in [SrvIds -> Nat]
        BY <2>1, <3>2
      <3>4. /\ srvParent'.status = [srvParent.status EXCEPT ![w] = 0]
            /\ srvParent'.bytes = [srvParent.bytes EXCEPT ![w] = srvParent.bytes[w] - 1]
            /\ srvParent'.navail = srvParent.navail + 1 /\ srvParent'.passed = srvParent.passed
        BY <3>1
      <3>5. srvParent' \in [status : [SrvIds -> {0, 1}], navail : Int,
                            passed : [SrvIds -> SrvConns \cup {0}], bytes : [SrvIds -> Nat]]
        BY <3>1, <3>2, <3>3
      <3> QED
        BY <3>2, <3>4, <3>5
    <2>3. SrvTypes'
      BY <1>1, <1>2, <2>2 DEF SrvTypes
    <2>4. SrvPlaced'
      <3>1. \A c : /\ InWork(c)' = InWork(c) /\ InPipes(c)' = InPipes(c) /\ InQueue(c)' = InQueue(c)
                   /\ InRing(c)' = InRing(c) /\ InHand(c)' = InHand(c)
        BY <1>1, <2>2, WorkStays, PipesStay, QueueStays, RingStays, HandStays
      <3> QED
        BY <1>1, <1>5, <3>1 DEF SrvInv, SrvPlaced, Places, Open
    <2>5. w \in Workers
      BY <1>1, <1>5, <2>1 DEF SrvInv, SrvChildren
    <2>6. srvWork[w].step # "dead" =>
             /\ srvParent.status[w] = 1 /\ srvWork[w].step = "ready" /\ srvParent.passed[w] = 0
             /\ srvParent.bytes[w] = 1
      <3>1. srvWork[w].step # "dead" => SrvChild(w)
        BY <1>1, <2>5 DEF SrvInv, SrvChildren
      <3>2. srvParent.status[w] \in {0, 1}
        BY <1>2
      <3> QED
        BY <1>5, <3>1, <3>2 DEF SrvChild
    <2>7. SrvChildren'
      <3>1. AllAlive' <=> AllAlive
        BY <1>1 DEF AllAlive
      <3>2. \A v \in Workers : srvWork'[v].step # "dead" => SrvChild(v)'
        <4> SUFFICES ASSUME NEW v \in Workers, srvWork[v].step # "dead" PROVE SrvChild(v)'
          BY <1>1
        <4>1. SrvChild(v) /\ v \in SrvIds
          BY <1>1, IdsAre DEF SrvInv, SrvChildren
        <4>2. CASE v = w
          BY <1>1, <2>2, <2>6, <4>2 DEF SrvChild
        <4>3. CASE v # w
          BY <1>1, <2>2, <4>1, <4>3 DEF SrvChild
        <4> QED
          BY <4>2, <4>3
      <3>3. \A v \in SrvIds \ Workers : srvWork'[v].step \in {"none", "dead"} /\ srvParent'.bytes[v] = 0
        BY <1>1, <2>2, <2>5 DEF SrvInv, SrvChildren
      <3>4. SrvIdle' = SrvIdle \cup {w}
        <4>1. \A v \in 1 .. SrvWorkers : v \in SrvIds
          BY IdsAre DEF Workers
        <4> QED
          BY <1>1, <1>2, <2>2, <2>5, <4>1 DEF SrvIdle, Workers
      <3>5. AllAlive => w \notin SrvIdle
        BY <2>6 DEF AllAlive, SrvIdle
      <3>6. IsFiniteSet(SrvIdle) /\ Cardinality(SrvIdle) \in Nat
        <4>1. SrvIdle \subseteq Workers
          BY <1>2 DEF SrvIdle, Workers
        <4> QED
          BY <4>1, IdsFinite, FS_Subset, FS_CardinalityType
      <3>7. AllAlive => Cardinality(SrvIdle') = Cardinality(SrvIdle) + 1
        BY <3>4, <3>5, <3>6, FS_AddElement
      <3>8. AllAlive => srvParent'.navail = Cardinality(SrvIdle')
        BY <1>1, <2>2, <3>7 DEF SrvInv, SrvChildren
      <3> HIDE DEF AllAlive, SrvChild
      <3> QED
        BY <1>1, <1>5, <3>1, <3>2, <3>3, <3>8 DEF SrvInv, SrvChildren
    <2> QED
      BY <1>3, <2>3, <2>4, <2>7 DEF SrvInv
  <1> QED
    BY <1>4, <1>5 DEF SrvParentRead

\* serv05: a child reads a descriptor, or the end of its pipe.
LEMMA ReadFdKeeps ==
    ASSUME SrvInv, NEW w \in SrvIds, SrvReadFd(w)
    PROVE  SrvInv'
  <1>1. /\ srvProg.how = "pass" /\ srvWork[w].step = "ready"
        /\ UNCHANGED <<srvProg, srvEnded, srvConn, srvQueue, srvHand, srvRing>>
    BY DEF SrvReadFd
  <1>2. /\ SrvTypes
        /\ srvWork \in [SrvIds -> [step : WorkerSteps, conn : SrvConns \cup {0}]]
        /\ srvParent \in [status : [SrvIds -> {0, 1}], navail : Int,
                          passed : [SrvIds -> SrvConns \cup {0}], bytes : [SrvIds -> Nat]]
    BY DEF SrvInv, SrvTypes
  <1>3. srvWork[w].conn = 0 /\ w \in Workers /\ SrvChild(w)
    BY <1>1 DEF SrvInv, SrvHolds, SrvChildren
  <1>4. SrvOff'
    BY <1>1 DEF SrvOff
  <1>5. CASE /\ srvParent.passed[w] = 0 /\ srvEnded # "no" /\ UNCHANGED srvParent
             /\ srvWork' = [srvWork EXCEPT ![w].step = "dead"]
    <2>1. /\ srvWork' \in [SrvIds -> [step : WorkerSteps, conn : SrvConns \cup {0}]]
          /\ \A v \in SrvIds : /\ srvWork'[v].conn = srvWork[v].conn
                               /\ srvWork'[v].step = IF v = w THEN "dead" ELSE srvWork[v].step
      BY <1>2, <1>5 DEF WorkerSteps
    <2>2. SrvTypes'
      BY <1>1, <1>2, <1>5, <2>1 DEF SrvTypes
    <2>3. SrvHolds'
      BY <1>1, <1>3, <2>1, RingStays DEF SrvInv, SrvHolds
    <2>4. SrvPlaced'
      BY <1>1, <1>5 DEF SrvPlaced
    <2>5. ~ AllAlive'
      BY <2>1 DEF AllAlive
    <2>6. \A v \in Workers : srvWork'[v].step # "dead" => SrvChild(v)'
      BY <1>1, <1>5, <2>1, IdsAre DEF SrvInv, SrvChildren, SrvChild
    <2>7. SrvChildren'
      <3> HIDE DEF AllAlive, SrvChild
      <3> QED
        BY <1>1, <1>3, <1>5, <2>1, <2>5, <2>6 DEF SrvInv, SrvChildren
    <2> QED
      BY <1>4, <2>2, <2>3, <2>4, <2>7 DEF SrvInv
  <1>6. CASE /\ srvParent.passed[w] # 0
             /\ srvWork' = [srvWork EXCEPT ![w] = [step |-> "serving", conn |-> srvParent.passed[w]]]
             /\ srvParent' = [srvParent EXCEPT !.passed[w] = 0]
    <2> DEFINE d == srvParent.passed[w]
    <2>1. d \in SrvConns
      BY <1>2, <1>6
    <2>2. /\ srvWork' \in [SrvIds -> [step : WorkerSteps, conn : SrvConns \cup {0}]]
          /\ \A v \in SrvIds : v # w => srvWork'[v] = srvWork[v]
          /\ srvWork'[w].conn = d /\ srvWork'[w].step = "serving"
      <3>1. srvWork' = [srvWork EXCEPT ![w] = [step |-> "serving", conn |-> d]]
        BY <1>6
      <3> HIDE DEF d
      <3> QED
        BY <1>2, <2>1, <3>1 DEF WorkerSteps
    <2>3. /\ srvParent' \in [status : [SrvIds -> {0, 1}], navail : Int,
                             passed : [SrvIds -> SrvConns \cup {0}], bytes : [SrvIds -> Nat]]
          /\ srvParent'.navail = srvParent.navail /\ srvParent'.bytes = srvParent.bytes
          /\ srvParent'.status = srvParent.status /\ srvParent'.passed[w] = 0
          /\ \A v \in SrvIds : v # w => srvParent'.passed[v] = srvParent.passed[v]
      BY <1>2, <1>6
    <2>4. SrvTypes'
      BY <1>1, <1>2, <2>2, <2>3 DEF SrvTypes
    <2>5. SrvHolds'
      BY <1>1, <2>1, <2>2, IdsAre, RingStays DEF SrvInv, SrvHolds
    <2>6. SrvPlaced'
      <3> SUFFICES ASSUME srvEnded = "no", NEW c \in SrvConns PROVE Places(c)' = Open(c)'
        BY <1>1 DEF SrvPlaced
      <3>1. /\ InHand(c)' = InHand(c) /\ Open(c)' = Open(c)
            /\ InRing(c)' = InRing(c) /\ InQueue(c)' = InQueue(c)
        BY <1>1, HandStays, RingStays, QueueStays DEF Open
      <3>2. InWork(c)' = InWork(c) - One(0 = c) + One(d = c)
        BY <1>3, <2>2, WorkMoves
      <3>3. InPipes(c)' = InPipes(c) - One(d = c) + One(0 = c)
        BY <2>3, PipesMove
      <3>4. One(0 = c) = 0 /\ One(d = c) \in Nat
        BY IdsAre DEF One
      <3>5. Places(c) = Open(c)
        BY DEF SrvInv, SrvPlaced
      <3> HIDE DEF Open, One, InQueue, InRing, InHand, InPipes, InWork, d
      <3> QED
        BY <1>2, <3>1, <3>2, <3>3, <3>4, <3>5, Numbers DEF Places
    <2>7. SrvChildren'
      <3>1. AllAlive' => AllAlive
        BY <1>1, <2>2 DEF AllAlive
      <3>2. \A v \in Workers : srvWork'[v].step # "dead" => SrvChild(v)'
        <4> SUFFICES ASSUME NEW v \in Workers, srvWork'[v].step # "dead" PROVE SrvChild(v)'
          OBVIOUS
        <4>1. v \in SrvIds
          BY IdsAre
        <4>2. CASE v = w
          BY <1>1, <1>3, <1>6, <2>2, <2>3, <4>2 DEF SrvChild
        <4>3. CASE v # w
          <5>1. SrvChild(v)
            BY <1>1, <2>2, <4>1, <4>3 DEF SrvInv, SrvChildren
          <5> QED
            BY <2>2, <2>3, <4>1, <4>3, <5>1 DEF SrvChild
        <4> QED
          BY <4>2, <4>3
      <3>3. \A v \in SrvIds \ Workers : srvWork'[v].step \in {"none", "dead"} /\ srvParent'.bytes[v] = 0
        BY <1>1, <1>3, <2>2, <2>3 DEF SrvInv, SrvChildren
      <3>4. SrvIdle' = SrvIdle
        BY <1>1, <2>3 DEF SrvIdle
      <3> HIDE DEF AllAlive, SrvChild
      <3> QED
        BY <1>1, <2>3, <3>1, <3>2, <3>3, <3>4 DEF SrvInv, SrvChildren
    <2> QED
      BY <1>4, <2>4, <2>5, <2>6, <2>7 DEF SrvInv
  <1> QED
    BY <1>5, <1>6 DEF SrvReadFd

-----------------------------------------------------------------------------
(* The workers of the other designs, and the end of a request.             *)

LEMMA LockWaitKeeps ==
    ASSUME SrvInv, NEW w \in SrvIds, SrvLockWait(w)
    PROVE  SrvInv'
  <1>1. /\ srvProg.how = "lock" /\ srvWork[w].step = "ready"
        /\ srvWork' = [srvWork EXCEPT ![w].step = "locked"]
        /\ UNCHANGED <<srvProg, srvEnded, srvConn, srvQueue, srvHand, srvRing, srvParent>>
    BY DEF SrvLockWait
  <1>2. /\ srvWork' \in [SrvIds -> [step : WorkerSteps, conn : SrvConns \cup {0}]]
        /\ \A v \in SrvIds : /\ srvWork'[v].conn = srvWork[v].conn
                             /\ srvWork'[v].step = IF v = w THEN "locked" ELSE srvWork[v].step
    BY <1>1 DEF SrvInv, SrvTypes, WorkerSteps
  <1>3. SrvTypes'
    BY <1>1, <1>2 DEF SrvInv, SrvTypes
  <1>4. SrvHolds'
    BY <1>1, <1>2, RingStays DEF SrvInv, SrvHolds
  <1>5. \A c : /\ InWork(c)' = InWork(c) /\ InPipes(c)' = InPipes(c) /\ InQueue(c)' = InQueue(c)
               /\ InRing(c)' = InRing(c) /\ InHand(c)' = InHand(c)
    BY <1>1, <1>2, WorkStays, PipesStay, QueueStays, RingStays, HandStays
  <1>6. SrvPlaced'
    BY <1>1, <1>5 DEF SrvInv, SrvPlaced, Places, Open
  <1>7. SrvOff' /\ SrvChildren'
    BY <1>1 DEF SrvOff, SrvChildren
  <1> QED
    BY <1>3, <1>4, <1>6, <1>7 DEF SrvInv

LEMMA AcceptKeeps ==
    ASSUME SrvInv, NEW w \in SrvIds, SrvAccept(w)
    PROVE  SrvInv'
  <1> DEFINE d == Head(srvQueue)
  <1>1. /\ srvProg.how \in {"accept", "lock"} /\ srvWork[w].step \in {"ready", "locked"}
        /\ srvQueue # <<>> /\ srvQueue' = Tail(srvQueue)
        /\ srvWork' = [srvWork EXCEPT ![w] = [step |-> "serving", conn |-> d]]
        /\ UNCHANGED <<srvProg, srvEnded, srvConn, srvHand, srvRing, srvParent>>
    BY DEF SrvAccept
  <1>2. SrvTypes /\ srvWork[w].conn = 0
    BY <1>1 DEF SrvInv, SrvHolds
  <1>3. d \in SrvConns /\ d # 0 /\ Tail(srvQueue) \in Seq(SrvConns)
    BY <1>1, <1>2, HeadIn
  <1> HIDE DEF d
  <1>4. /\ srvWork' \in [SrvIds -> [step : WorkerSteps, conn : SrvConns \cup {0}]]
        /\ \A v \in SrvIds : v # w => srvWork'[v] = srvWork[v]
        /\ srvWork'[w].conn = d /\ srvWork'[w].step = "serving"
    BY <1>1, <1>2, <1>3 DEF SrvTypes, WorkerSteps
  <1>5. SrvTypes'
    BY <1>1, <1>2, <1>3, <1>4 DEF SrvTypes
  <1>6. SrvHolds'
    BY <1>1, <1>3, <1>4, RingStays DEF SrvInv, SrvHolds
  <1>7. SrvPlaced'
    <2> SUFFICES ASSUME srvEnded = "no", NEW c \in SrvConns PROVE Places(c)' = Open(c)'
      BY <1>1 DEF SrvPlaced
    <2>1. /\ InHand(c)' = InHand(c) /\ Open(c)' = Open(c)
          /\ InRing(c)' = InRing(c) /\ InPipes(c)' = InPipes(c)
      BY <1>1, HandStays, RingStays, PipesStay DEF Open
    <2>2. InWork(c)' = InWork(c) - One(0 = c) + One(d = c)
      BY <1>2, <1>4, WorkMoves
    <2>3. InQueue(c)' = InQueue(c) - One(c = d)
      BY <1>1, <1>2, QueueShrinks DEF d
    <2>4. One(0 = c) = 0 /\ One(d = c) = One(c = d) /\ One(d = c) \in Nat
      BY IdsAre DEF One
    <2>5. Places(c) = Open(c)
      BY DEF SrvInv, SrvPlaced
    <2> HIDE DEF Open, One, InQueue, InRing, InHand, InPipes, InWork
    <2> QED
      BY <1>2, <2>1, <2>2, <2>3, <2>4, <2>5, Numbers DEF Places
  <1>8. SrvOff' /\ SrvChildren'
    BY <1>1 DEF SrvOff, SrvChildren
  <1> QED
    BY <1>5, <1>6, <1>7, <1>8 DEF SrvInv

LEMMA OneMore == 0 + 1 = 1
  OBVIOUS

\* The step of a worker that was never started.
LEMMA NoneStep == [step |-> "none", conn |-> 0].step = "none"
  OBVIOUS

\* web_child has ended for worker w: its request is closed, and the worker is
\* ready for the next one or dead.
LEMMA EndKeeps ==
    ASSUME SrvInv, NEW w \in SrvIds, srvWork[w].step = "serving",
           srvConn[srvWork[w].conn] \in {"good", "bad"},
           NEW reply \in {"answered", "dropped"}, NEW step \in {"ready", "dead"}, NEW n \in Nat,
           srvConn' = [srvConn EXCEPT ![srvWork[w].conn] = reply],
           srvWork' = [srvWork EXCEPT ![w] = [step |-> step, conn |-> 0]],
           srvParent' = [srvParent EXCEPT !.bytes[w] = n],
           srvProg.how = "pass" /\ step = "ready" => n = srvParent.bytes[w] + 1,
           srvEnded' \in {srvEnded, "bad request"},
           UNCHANGED <<srvProg, srvQueue, srvHand, srvRing>>
    PROVE  SrvInv'
  <1> DEFINE d == srvWork[w].conn
  <1>1. /\ SrvTypes
        /\ srvWork \in [SrvIds -> [step : WorkerSteps, conn : SrvConns \cup {0}]]
        /\ srvConn \in [SrvConns -> {"idle", "good", "bad", "answered", "dropped"}]
        /\ srvParent \in [status : [SrvIds -> {0, 1}], navail : Int,
                          passed : [SrvIds -> SrvConns \cup {0}], bytes : [SrvIds -> Nat]]
    BY DEF SrvInv, SrvTypes
  <1>2. d \in SrvConns
    BY <1>1 DEF SrvInv, SrvHolds
  <1>3. /\ srvWork' \in [SrvIds -> [step : WorkerSteps, conn : SrvConns \cup {0}]]
        /\ \A v \in SrvIds : v # w => srvWork'[v] = srvWork[v]
        /\ srvWork'[w].conn = 0 /\ srvWork'[w].step = step
    BY <1>1 DEF WorkerSteps
  <1>4. /\ srvConn' \in [SrvConns -> {"idle", "good", "bad", "answered", "dropped"}]
        /\ \A c \in SrvConns : srvConn'[c] = IF c = d THEN reply ELSE srvConn[c]
    BY <1>1, <1>2
  <1>5. /\ srvParent' \in [status : [SrvIds -> {0, 1}], navail : Int,
                           passed : [SrvIds -> SrvConns \cup {0}], bytes : [SrvIds -> Nat]]
        /\ srvParent'.navail = srvParent.navail /\ srvParent'.passed = srvParent.passed
        /\ srvParent'.status = srvParent.status /\ srvParent'.bytes[w] = n
        /\ \A v \in SrvIds : v # w => srvParent'.bytes[v] = srvParent.bytes[v]
    BY <1>1
  <1>6. SrvTypes'
    BY <1>1, <1>3, <1>4, <1>5 DEF SrvTypes
  <1>7. srvProg.how # "off"
    <2> SUFFICES ASSUME srvProg.how = "off" PROVE FALSE
      OBVIOUS
    <2>1. srvWork[w] = [step |-> "none", conn |-> 0]
      BY DEF SrvInv, SrvOff
    <2>2. srvWork[w].step = "none"
      BY <2>1, NoneStep, Zenon
    <2> QED
      BY <2>2
  <1>8. SrvOff'
    BY <1>7 DEF SrvOff
  <1>9. SrvHolds'
    BY <1>3, RingStays DEF SrvInv, SrvHolds
  <1>10. SrvPlaced'
    <2> SUFFICES ASSUME srvEnded' = "no", NEW c \in SrvConns PROVE Places(c)' = Open(c)'
      BY DEF SrvPlaced
    <2>1. /\ InHand(c)' = InHand(c) /\ InQueue(c)' = InQueue(c)
          /\ InRing(c)' = InRing(c) /\ InPipes(c)' = InPipes(c)
      BY <1>5, HandStays, QueueStays, RingStays, PipesStay
    <2>2. InWork(c)' = InWork(c) - One(d = c) + One(0 = c)
      BY <1>3, WorkMoves
    <2>3. Open(c)' = Open(c) - One(d = c)
      BY <1>4 DEF Open, One
    <2>4. One(0 = c) = 0 /\ One(d = c) \in Nat /\ Open(c) \in Nat
      BY IdsAre DEF One, Open
    <2>5. Places(c) = Open(c)
      BY DEF SrvInv, SrvPlaced
    <2> HIDE DEF Open, One, InQueue, InRing, InHand, InPipes, InWork, d
    <2> QED
      BY <1>1, <2>1, <2>2, <2>3, <2>4, <2>5, Numbers DEF Places
  <1>11. SrvChildren'
    <2> SUFFICES ASSUME srvProg.how = "pass" PROVE SrvChildren'
      BY DEF SrvChildren
    <2>0. w \in Workers /\ SrvChild(w)
      BY DEF SrvInv, SrvChildren
    <2>1. AllAlive' => AllAlive
      BY <1>3 DEF AllAlive
    <2>2. \A v \in Workers : srvWork'[v].step # "dead" => SrvChild(v)'
      <3> SUFFICES ASSUME NEW v \in Workers, srvWork'[v].step # "dead" PROVE SrvChild(v)'
        OBVIOUS
      <3>1. v \in SrvIds
        BY IdsAre
      <3>2. CASE v = w
        <4>1. /\ srvParent.status[w] # 0 /\ srvParent.passed[w] = 0 /\ srvParent.bytes[w] = 0
          BY <2>0 DEF SrvChild
        <4>2. srvWork'[w].step = "ready" /\ step = "ready"
          BY <1>3, <3>2
        <4>3. n = 1
          <5>1. n = srvParent.bytes[w] + 1
            BY <4>2, Zenon
          <5> QED
            BY <4>1, <5>1, OneMore, Zenon
        <4>4. /\ srvParent'.status[w] # 0 /\ srvParent'.passed[w] = 0 /\ srvParent'.bytes[w] = 1
          BY <1>5, <4>1, <4>3
        <4> QED
          BY <3>2, <4>2, <4>4 DEF SrvChild
      <3>3. CASE v # w
        <4>1. SrvChild(v)
          BY <1>3, <3>1, <3>3 DEF SrvInv, SrvChildren
        <4> QED
          BY <1>3, <1>5, <3>1, <3>3, <4>1 DEF SrvChild
      <3> QED
        BY <3>2, <3>3
    <2>3. \A v \in SrvIds \ Workers : srvWork'[v].step \in {"none", "dead"} /\ srvParent'.bytes[v] = 0
      BY <1>3, <1>5, <2>0 DEF SrvInv, SrvChildren
    <2>4. SrvIdle' = SrvIdle
      BY <1>5 DEF SrvIdle
    <2> HIDE DEF AllAlive, SrvChild
    <2> QED
      BY <1>5, <2>1, <2>2, <2>3, <2>4 DEF SrvInv, SrvChildren
  <1> QED
    BY <1>6, <1>8, <1>9, <1>10, <1>11 DEF SrvInv

LEMMA AnswerKeeps ==
    ASSUME SrvInv, NEW w \in SrvIds, SrvAnswer(w) \/ SrvQuit(w)
    PROVE  SrvInv'
  <1>1. /\ srvWork[w].step = "serving" /\ srvConn[srvWork[w].conn] \in {"good", "bad"}
        /\ UNCHANGED <<srvProg, srvQueue, srvHand, srvRing>>
        /\ srvEnded' \in {srvEnded, "bad request"}
    BY DEF SrvAnswer, SrvQuit
  <1>2. \E reply \in {"answered", "dropped"} : srvConn' = [srvConn EXCEPT ![srvWork[w].conn] = reply]
    BY DEF SrvAnswer, SrvQuit
  <1>3. srvParent.bytes[w] \in Nat
    BY DEF SrvInv, SrvTypes
  <1>4. \E step \in {"ready", "dead"}, n \in Nat :
           /\ srvWork' = [srvWork EXCEPT ![w] = [step |-> step, conn |-> 0]]
           /\ srvParent' = [srvParent EXCEPT !.bytes[w] = n]
           /\ srvProg.how = "pass" /\ step = "ready" => n = srvParent.bytes[w] + 1
    <2> DEFINE more == IF srvProg.how = "pass" THEN srvParent.bytes[w] + 1 ELSE srvParent.bytes[w]
               text == IF srvProg.how = "pass" THEN srvParent.bytes[w] + SrvMessage
                       ELSE srvParent.bytes[w]
    <2>1. more \in Nat /\ text \in Nat
      BY <1>3, SrvAssumption
    <2>2. CASE /\ srvWork' = [srvWork EXCEPT ![w] = [step |-> "ready", conn |-> 0]]
               /\ srvParent' = [srvParent EXCEPT !.bytes[w] = more]
      BY <2>1, <2>2
    <2>3. CASE SrvDies(w, TRUE)
      <3>1. /\ srvWork' = [srvWork EXCEPT ![w] = [step |-> "dead", conn |-> 0]]
            /\ srvParent' = [srvParent EXCEPT !.bytes[w] = text]
        BY <2>3 DEF SrvDies
      <3> QED
        BY <2>1, <3>1
    <2>4. CASE SrvDies(w, FALSE)
      <3>1. /\ srvWork' = [srvWork EXCEPT ![w] = [step |-> "dead", conn |-> 0]]
            /\ srvParent' = [srvParent EXCEPT !.bytes[w] = srvParent.bytes[w]]
        BY <2>4 DEF SrvDies
      <3> QED
        BY <1>3, <3>1
    <2> QED
      BY <2>2, <2>3, <2>4 DEF SrvAnswer, SrvQuit
  <1>5. PICK reply \in {"answered", "dropped"} : srvConn' = [srvConn EXCEPT ![srvWork[w].conn] = reply]
    BY <1>2
  <1>6. PICK step \in {"ready", "dead"}, n \in Nat :
           /\ srvWork' = [srvWork EXCEPT ![w] = [step |-> step, conn |-> 0]]
           /\ srvParent' = [srvParent EXCEPT !.bytes[w] = n]
           /\ srvProg.how = "pass" /\ step = "ready" => n = srvParent.bytes[w] + 1
    BY <1>4
  <1> QED
    BY <1>1, <1>5, <1>6, EndKeeps

\* sig_int, and the steps of sig_chld, which no other part of the state sees.
LEMMA InterruptKeeps ==
    ASSUME SrvInv, SrvInterrupt
    PROVE  SrvInv'
  <1> DEFINE dead == [step |-> "dead", conn |-> 0]
  <1>1. /\ srvProg.how # "off" /\ srvEnded' = "interrupted"
        /\ srvWork' = [w \in SrvIds |->
              IF srvProg.how = "fork" /\ srvProg.process THEN srvWork[w] ELSE dead]
        /\ UNCHANGED <<srvProg, srvConn, srvQueue, srvHand, srvRing, srvParent>>
    BY DEF SrvInterrupt
  <1>2. /\ srvWork \in [SrvIds -> [step : WorkerSteps, conn : SrvConns \cup {0}]]
        /\ dead \in [step : WorkerSteps, conn : SrvConns \cup {0}]
        /\ dead.conn = 0 /\ dead.step = "dead"
    BY DEF SrvInv, SrvTypes, WorkerSteps
  <1> HIDE DEF dead
  <1>3. /\ srvWork' \in [SrvIds -> [step : WorkerSteps, conn : SrvConns \cup {0}]]
        /\ \A w \in SrvIds : srvWork'[w] = srvWork[w] \/ srvWork'[w] = dead
        /\ srvProg.how = "pass" => \A w \in SrvIds : srvWork'[w] = dead
    BY <1>1, <1>2
  <1>4. SrvTypes'
    BY <1>1, <1>3 DEF SrvInv, SrvTypes
  <1>5. SrvOff' /\ SrvPlaced'
    BY <1>1 DEF SrvOff, SrvPlaced
  <1>6. SrvHolds'
    <2>1. \A w \in SrvIds : srvWork'[w].conn # 0 <=> srvWork'[w].step = "serving"
      BY <1>2, <1>3 DEF SrvInv, SrvHolds
    <2>2. srvProg.how = "fork" => \A w \in SrvIds : srvWork'[w].conn \in {0, w}
      BY <1>2, <1>3 DEF SrvInv, SrvHolds
    <2> QED
      BY <1>1, <2>1, <2>2, RingStays DEF SrvInv, SrvHolds
  <1>7. SrvChildren'
    <2> SUFFICES ASSUME srvProg.how = "pass" PROVE SrvChildren'
      BY <1>1 DEF SrvChildren
    <2>1. \A w \in SrvIds : srvWork'[w].step = "dead"
      BY <1>2, <1>3
    <2>2. 1 \in SrvIds
      BY IdsAre, SrvAssumption DEF Workers
    <2>3. ~ AllAlive'
      BY <2>1, <2>2 DEF AllAlive
    <2>4. \A w \in SrvIds \ Workers : srvParent'.bytes[w] = 0
      BY <1>1 DEF SrvInv, SrvChildren
    <2> QED
      BY <2>1, <2>3, <2>4, IdsAre DEF SrvChildren
  <1> QED
    BY <1>4, <1>5, <1>6, <1>7 DEF SrvInv

LEMMA OthersKeep ==
    ASSUME SrvInv,
           UNCHANGED <<srvProg, srvEnded, srvConn, srvQueue, srvHand, srvWork, srvRing, srvParent>>
    PROVE  SrvInv'
  <1>1. SrvTypes' /\ SrvOff'
    BY DEF SrvInv, SrvTypes, SrvOff
  <1>2. SrvHolds'
    BY RingStays DEF SrvInv, SrvHolds
  <1>3. \A c : /\ InWork(c)' = InWork(c) /\ InPipes(c)' = InPipes(c) /\ InQueue(c)' = InQueue(c)
               /\ InRing(c)' = InRing(c) /\ InHand(c)' = InHand(c)
    BY WorkStays, PipesStay, QueueStays, RingStays, HandStays
  <1>4. SrvPlaced'
    BY <1>3 DEF SrvInv, SrvPlaced, Places, Open
  <1>5. SrvChildren'
    BY ChildrenStay
  <1> QED
    BY <1>1, <1>2, <1>4, <1>5 DEF SrvInv

-----------------------------------------------------------------------------
(* The theorem.                                                            *)

LEMMA SrvInvNext == SrvInv /\ [SrvNext]_srvVars => SrvInv'
  <1> SUFFICES ASSUME SrvInv, [SrvNext]_srvVars PROVE SrvInv'
    OBVIOUS
  <1>1. CASE UNCHANGED srvVars
    BY <1>1, OthersKeep DEF srvVars
  <1>2. CASE \E p \in SrvPrograms : SrvStart(p)
    BY <1>2, StartKeeps
  <1>3. CASE \E c \in SrvConns : SrvClient(c, "good") \/ SrvClient(c, "bad")
    BY <1>3, ClientKeeps
  <1>4. CASE SrvMainStep
    BY <1>4, MainAcceptKeeps, ForkKeeps, PassFdKeeps, PutKeeps DEF SrvMainStep
  <1>5. CASE SrvHandlerStep
    <2>1. UNCHANGED <<srvProg, srvEnded, srvConn, srvQueue, srvHand, srvWork, srvRing, srvParent>>
      BY <1>5 DEF SrvHandlerStep, SrvChldStart, SrvChldWait
    <2> QED
      BY <2>1, OthersKeep
  <1>6. CASE SrvInterrupt
    BY <1>6, InterruptKeeps
  <1>7. ASSUME NEW w \in SrvIds, SrvParentRead(w) \/ SrvWorkerStep(w)
        PROVE  SrvInv'
    BY <1>7, ParentReadKeeps, LockWaitKeeps, AcceptKeeps, ReadFdKeeps, GetKeeps, AnswerKeeps
        DEF SrvWorkerStep
  <1> QED
    BY <1>1, <1>2, <1>3, <1>4, <1>5, <1>6, <1>7 DEF SrvNext

\* For every server design, any connections, any number of children or threads
\* and any size of the ring: a connection whose request is open is in exactly one
\* place on its way to one worker while the server runs, and in serv05, as long
\* as no child has died, navail is the number of children marked idle and each
\* of those is ready with an empty pipe.
THEOREM SrvSafeCorrect == SrvSpec => []SrvSafe
  <1>1. SrvInv => SrvSafe
    <2> SUFFICES ASSUME SrvInv PROVE SrvSafe
      OBVIOUS
    <2>1. SrvOnePlace
      BY DEF SrvInv, SrvPlaced, SrvOnePlace, Places, Open, InQueue, InHand, InRing, InPipes, InWork
    <2>2. SrvAvailable
      <3> SUFFICES ASSUME srvProg.how = "pass", AllAlive PROVE SrvAvailable
        BY DEF SrvAvailable, AllAlive
      <3>1. srvParent.navail = Cardinality(SrvIdle) /\ srvEnded # "no available children"
        BY DEF SrvInv, SrvChildren
      <3>2. ASSUME NEW w \in SrvIdle
            PROVE  srvWork[w].step = "ready" /\ srvParent.passed[w] = 0 /\ srvParent.bytes[w] = 0
        <4>1. w \in Workers /\ srvParent.status[w] = 0
          BY <3>2 DEF SrvIdle, SrvInv, SrvTypes, Workers
        <4>2. SrvChild(w)
          BY <4>1, IdsAre DEF SrvInv, SrvChildren, AllAlive
        <4> QED
          BY <4>1, <4>2 DEF SrvChild
      <3> QED
        BY <3>1, <3>2 DEF SrvAvailable
    <2> QED
      BY <2>1, <2>2 DEF SrvSafe
  <1> QED
    BY <1>1, SrvInvInit, SrvInvNext, PTL DEF SrvSpec

=============================================================================
