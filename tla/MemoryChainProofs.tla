------------------------- MODULE MemoryChainProofs -------------------------
(***************************************************************************)
(* Proofs about the chains of memories of MemoryVersions: that each ends   *)
(* in an active memory, and that each carries the right count of sessions. *)
(***************************************************************************)
EXTENDS MemoryVersionsProofs, Counting

USE DraftsAssumption, NamesAssumption, DistinctAssumption

-----------------------------------------------------------------------------
(* What Closure computes.                                                  *)

(* There are finitely many ids.                                            *)
LEMMA IdsFinite == IsFiniteSet(Ids) /\ Cardinality(Ids) \in Nat
<1>1. IsFiniteSet(Sessions \X (1..MaxDrafts))
  <2>1. 0 \in Int /\ 1 \in Int /\ MaxDrafts \in Int
    OBVIOUS
  <2>2. IsFiniteSet(1..MaxDrafts)
    BY <2>1, FS_Interval
  <2> QED
    BY <2>2, FS_Product, FiniteAssumption
<1>2. IsFiniteSet(Ids)
    BY <1>1, FS_Union, FiniteAssumption DEF Ids
<1> QED
    BY <1>2, FS_CardinalityType

(* One step along the edges from the set g.                                *)
Grow(edges, g) == g \union {e[2] : e \in {d \in edges : d[1] \in g}}

Growth(edges, S, k, f) ==
    f = [n \in 0..k |-> IF n = 0 THEN S ELSE Grow(edges, f[n - 1])]

LEMMA GrowthStart ==
    ASSUME NEW edges, NEW S
    PROVE  \E f : Growth(edges, S, 0, f)
<1> DEFINE f == [n \in 0..0 |-> S]
<1>1. f = [n \in 0..0 |-> IF n = 0 THEN S ELSE Grow(edges, f[n - 1])]
    OBVIOUS
<1> QED
    BY <1>1 DEF Growth

LEMMA GrowthStep ==
    ASSUME NEW edges, NEW S, NEW k \in Nat, NEW f, Growth(edges, S, k, f)
    PROVE  \E h : Growth(edges, S, k + 1, h)
<1> DEFINE h == [n \in 0..(k + 1) |-> IF n <= k THEN f[n] ELSE Grow(edges, f[k])]
<1>1. \A n \in 0..k : f[n] = IF n = 0 THEN S ELSE Grow(edges, f[n - 1])
    BY DEF Growth
<1>2. ASSUME NEW n \in 0..(k + 1)
      PROVE  h[n] = IF n = 0 THEN S ELSE Grow(edges, h[n - 1])
  <2>1. CASE n = 0
    BY <2>1, <1>1
  <2>2. CASE n \in 1..k
    <3>1. n \in 0..k /\ n - 1 \in 0..(k + 1) /\ n - 1 <= k /\ n # 0 /\ n <= k
      BY <2>2
    <3>2. h[n] = f[n] /\ h[n - 1] = f[n - 1]
      BY <3>1
    <3>3. f[n] = Grow(edges, f[n - 1])
      BY <1>1, <3>1
    <3> QED
      BY <3>1, <3>2, <3>3
  <2>3. CASE n = k + 1
    <3>1. n # 0 /\ ~(n <= k) /\ n - 1 = k /\ k \in 0..(k + 1)
      BY <2>3
    <3>2. h[n] = Grow(edges, f[k]) /\ h[k] = f[k]
      BY <3>1
    <3> QED
      BY <3>1, <3>2
  <2> QED
    BY <2>1, <2>2, <2>3
<1>3. h = [n \in 0..(k + 1) |-> h[n]]
    OBVIOUS
<1> HIDE DEF h
<1>4. h = [n \in 0..(k + 1) |-> IF n = 0 THEN S ELSE Grow(edges, h[n - 1])]
    BY <1>2, <1>3
<1> QED
    BY <1>4 DEF Growth

(* The recursive function of Closure exists.                               *)
LEMMA ClosureGrows ==
    ASSUME NEW edges, NEW S
    PROVE  \E f : Growth(edges, S, Cardinality(Ids), f) /\ Closure(edges, S) = f[Cardinality(Ids)]
<1> DEFINE K == Cardinality(Ids)
<1> DEFINE I == {k \in 0..K : \E f : Growth(edges, S, k, f)}
<1>1. K \in Nat
    BY IdsFinite
<1>2. 0 \in I
    BY <1>1, GrowthStart
<1>3. ASSUME NEW k \in 0..(K - 1), k \in I
      PROVE  k + 1 \in I
  <2>1. \E h : Growth(edges, S, k + 1, h)
    BY <1>3, GrowthStep
  <2> QED
    BY <1>1, <2>1
<1>4. K \in I
  <2> HIDE DEF I, K
  <2>1. 0..K \subseteq I
    BY <1>1, <1>2, <1>3, CountTo
  <2> QED
    BY <1>1, <2>1
<1> DEFINE F == CHOOSE f : Growth(edges, S, K, f)
<1>5. Growth(edges, S, K, F)
    BY <1>4
<1>6. Closure(edges, S) = F[K]
    BY DEF Closure, Growth, Grow
<1> QED
    BY <1>5, <1>6

(* Growing a set of ids adds ids, and once it adds none it never does.     *)
LEMMA GrowType ==
    ASSUME NEW edges \in SUBSET (Ids \X Ids), NEW g \in SUBSET Ids
    PROVE  Grow(edges, g) \in SUBSET Ids /\ g \subseteq Grow(edges, g)
BY DEF Grow

(* A set that has grown as often as there are ids grows no more.           *)
LEMMA GrowthEnds ==
    ASSUME NEW edges \in SUBSET (Ids \X Ids), NEW S \in SUBSET Ids, NEW f,
           Growth(edges, S, Cardinality(Ids), f)
    PROVE  /\ S \subseteq f[Cardinality(Ids)]
           /\ f[Cardinality(Ids)] \subseteq Ids
           /\ Grow(edges, f[Cardinality(Ids)]) = f[Cardinality(Ids)]
<1> DEFINE K == Cardinality(Ids)
<1>1. K \in Nat /\ IsFiniteSet(Ids)
    BY IdsFinite
<1> HIDE DEF K
<1>2. /\ f[0] = S
      /\ \A n \in 0..(K - 1) : f[n + 1] = Grow(edges, f[n])
  <2>1. \A n \in 0..K : f[n] = IF n = 0 THEN S ELSE Grow(edges, f[n - 1])
    BY DEF Growth, K
  <2>2. f[0] = S
    BY <1>1, <2>1
  <2>3. ASSUME NEW n \in 0..(K - 1)
        PROVE  f[n + 1] = Grow(edges, f[n])
    <3>1. n + 1 \in 0..K /\ n + 1 # 0 /\ (n + 1) - 1 = n
      BY <1>1
    <3> QED
      BY <2>1, <3>1
  <2> QED
    BY <2>2, <2>3
<1> DEFINE I == {n \in 0..K : /\ S \subseteq f[n] /\ f[n] \in SUBSET Ids
                              /\ Grow(edges, f[n]) = f[n] \/ Cardinality(f[n]) >= n}
<1>3. 0 \in I
  <2>1. Cardinality(S) \in Nat
    BY <1>1, FS_Subset, FS_CardinalityType
  <2> QED
    BY <1>1, <1>2, <2>1
<1>4. ASSUME NEW n \in 0..(K - 1), n \in I
      PROVE  n + 1 \in I
  <2>1. /\ n + 1 \in 0..K /\ S \subseteq f[n] /\ f[n] \in SUBSET Ids
        /\ f[n + 1] = Grow(edges, f[n])
    BY <1>1, <1>2, <1>4
  <2>2. f[n] \subseteq f[n + 1] /\ f[n + 1] \in SUBSET Ids
    BY <2>1, GrowType
  <2>3. Grow(edges, f[n + 1]) = f[n + 1] \/ Cardinality(f[n + 1]) >= n + 1
    <3>1. CASE Grow(edges, f[n]) = f[n]
      BY <3>1, <2>1
    <3>2. CASE Grow(edges, f[n]) # f[n] /\ Cardinality(f[n]) >= n
      <4>1. IsFiniteSet(f[n]) /\ IsFiniteSet(f[n + 1])
        BY <1>1, <2>1, <2>2, FS_Subset
      <4>2. f[n] \in SUBSET f[n + 1] /\ f[n] # f[n + 1]
        BY <3>2, <2>1, <2>2
      <4>3. /\ Cardinality(f[n]) <= Cardinality(f[n + 1])
            /\ Cardinality(f[n]) # Cardinality(f[n + 1])
        BY <4>1, <4>2, FS_Subset
      <4>4. Cardinality(f[n]) \in Nat /\ Cardinality(f[n + 1]) \in Nat
        BY <4>1, FS_CardinalityType
      <4> QED
        BY <3>2, <4>3, <4>4
    <3> QED
      BY <3>1, <3>2, <1>4
  <2> QED
    BY <2>1, <2>2, <2>3
<1>5. K \in I
  <2> HIDE DEF I
  <2>1. 0..K \subseteq I
    BY <1>1, <1>3, <1>4, CountTo
  <2> QED
    BY <1>1, <2>1
<1>6. S \subseteq f[K] /\ f[K] \in SUBSET Ids
    BY <1>5
<1>7. Grow(edges, f[K]) = f[K]
  <2>1. CASE Cardinality(f[K]) >= K
    <3>1. Cardinality(f[K]) <= Cardinality(Ids) /\ Cardinality(f[K]) \in Nat
      BY <1>1, <1>6, FS_Subset, FS_CardinalityType
    <3>2. Cardinality(f[K]) = Cardinality(Ids)
      BY <1>1, <2>1, <3>1 DEF K
    <3>3. f[K] = Ids
      BY <1>1, <1>6, <3>2, FS_Subset
    <3>4. Ids \in SUBSET Ids
      OBVIOUS
    <3>5. Ids \subseteq Grow(edges, Ids) /\ Grow(edges, Ids) \subseteq Ids
      BY <3>4, GrowType
    <3> QED
      BY <3>3, <3>5
  <2> QED
    BY <1>5, <2>1
<1> QED
    BY <1>6, <1>7 DEF K

Closed(edges, T) == \A e \in edges : e[1] \in T => e[2] \in T

(* It grows only into what is closed under the edges.                      *)
LEMMA GrowthLeast ==
    ASSUME NEW edges, NEW S, NEW f, Growth(edges, S, Cardinality(Ids), f),
           NEW T, S \subseteq T, Closed(edges, T)
    PROVE  f[Cardinality(Ids)] \subseteq T
<1> DEFINE K == Cardinality(Ids)
<1>1. K \in Nat
    BY IdsFinite
<1> HIDE DEF K
<1>2. \A n \in 0..K : f[n] = IF n = 0 THEN S ELSE Grow(edges, f[n - 1])
    BY DEF Growth, K
<1> DEFINE I == {n \in 0..K : f[n] \subseteq T}
<1>3. 0 \in I
    BY <1>1, <1>2
<1>4. ASSUME NEW n \in 0..(K - 1), n \in I
      PROVE  n + 1 \in I
  <2>1. n + 1 \in 0..K /\ n + 1 # 0 /\ (n + 1) - 1 = n
    BY <1>1
  <2>2. f[n + 1] = Grow(edges, f[n])
    BY <1>2, <2>1
  <2>3. f[n] \subseteq T
    BY <1>4
  <2>4. Grow(edges, f[n]) \subseteq T
    BY <2>3 DEF Grow, Closed
  <2> QED
    BY <2>1, <2>2, <2>4
<1>5. K \in I
  <2> HIDE DEF I
  <2>1. 0..K \subseteq I
    BY <1>1, <1>3, <1>4, CountTo
  <2> QED
    BY <1>1, <2>1
<1> QED
    BY <1>5 DEF K

(* Closure is the least set that contains S and is closed under the edges. *)
LEMMA ClosureLeast ==
    ASSUME NEW edges \in SUBSET (Ids \X Ids), NEW S \in SUBSET Ids
    PROVE  /\ S \subseteq Closure(edges, S)
           /\ Closure(edges, S) \subseteq Ids
           /\ Closed(edges, Closure(edges, S))
           /\ \A T : S \subseteq T /\ Closed(edges, T) => Closure(edges, S) \subseteq T
<1>1. PICK f : Growth(edges, S, Cardinality(Ids), f) /\ Closure(edges, S) = f[Cardinality(Ids)]
    BY ClosureGrows
<1>2. /\ S \subseteq f[Cardinality(Ids)] /\ f[Cardinality(Ids)] \subseteq Ids
      /\ Grow(edges, f[Cardinality(Ids)]) = f[Cardinality(Ids)]
    BY <1>1, GrowthEnds
<1>3. /\ S \subseteq Closure(edges, S) /\ Closure(edges, S) \subseteq Ids
      /\ Grow(edges, Closure(edges, S)) = Closure(edges, S)
    BY <1>1, <1>2
<1>4. Closed(edges, Closure(edges, S))
    BY <1>3 DEF Closed, Grow
<1>5. ASSUME NEW T, S \subseteq T, Closed(edges, T)
      PROVE  Closure(edges, S) \subseteq T
    BY <1>1, <1>5, GrowthLeast
<1> QED
    BY <1>3, <1>4, <1>5

-----------------------------------------------------------------------------
(* The inductive invariants.                                               *)

(* The ids that are a session's own.                                       *)
Own(s) == {s} \X (1..MaxDrafts)

(* A session numbers its memories, and they are committed when it is done. *)
Numbered ==
    \A s \in Sessions :
        /\ inserted[s] \subseteq Own(s)
        /\ inserted[s] = {s} \X (1..Cardinality(inserted[s]))
        /\ phase[s] = "done" => inserted[s] = {}
        /\ phase[s] # "done" => created \intersect Own(s) = {}
        /\ phase[s] # "waiting" => wanted[s] = {}

(* A session waits for one memory at a time, and what will supersede that  *)
(* one is superseded by nothing yet.                                       *)
WantedNew ==
    \A s \in Sessions :
        /\ \A r \in wanted[s] : \A q \in taken[s] \union wanted[s] : q[1] # r[2]
        /\ \A r, q \in wanted[s] : r = q

(* What a session supersedes of its own, it supersedes by later ones.      *)
OwnChain ==
    \A s \in Sessions : \A T \in SUBSET inserted[s] :
        T # {} => \E x \in T : \A r \in taken[s] : r[1] = x => r[2] \notin T

(* No set of committed memories replaces itself.                           *)
NoCircle ==
    /\ \A x \in Ids : successor[x] \notin Seeds
    /\ \A T \in SUBSET created :
          T # {} => \E x \in T : successor[x] \notin T

ChainInv == IInv /\ Numbered /\ WantedNew /\ OwnChain /\ NoCircle

(* The relations that a session sees.                                      *)
Seen(s) == relations \union taken[s] \union wanted[s]

(* What m confirms by the relations of R.                                  *)
Confirmed(R, m) == Closure(Confirmations(R), {m})

(* The count of m is right by the relations of R.                          *)
Counted(R, m) == cross[m] = Cardinality({source[x] : x \in Confirmed(R, m)})

(* The counts are right, of what is committed and of what is not yet.      *)
CountFull ==
    /\ \A m \in created : Counted(relations, m)
    /\ \A s \in Sessions : \A m \in inserted[s] : Counted(Seen(s), m)

(* A memory is of the session that wrote it, and has no count before.      *)
SourceFull ==
    /\ \A m \in Ids, s \in Sessions : source[m] = s => m \in Own(s)
    /\ \A s \in Sessions : \A m \in inserted[s] : source[m] = s
    /\ \A m \in Ids \ created : (\A s \in Sessions : m \notin inserted[s]) => cross[m] = 1

CountInv == ChainInv /\ CountFull /\ SourceFull

-----------------------------------------------------------------------------
(* Chains.                                                                 *)

(* What a session has written is nobody else's, and not committed.         *)
LEMMA OwnApart ==
    ASSUME ChainInv, NEW s \in Sessions
    PROVE  /\ inserted[s] \intersect created = {}
           /\ \A v \in Sessions \ {s} : inserted[v] \intersect inserted[s] = {}
<1>1. inserted[s] \intersect created = {}
  <2>1. CASE phase[s] = "done"
    BY <2>1 DEF ChainInv, Numbered
  <2>2. CASE phase[s] # "done"
    BY <2>2 DEF ChainInv, Numbered
  <2> QED
    BY <2>1, <2>2
<1>2. ASSUME NEW v \in Sessions \ {s}
      PROVE  inserted[v] \intersect inserted[s] = {}
  <2>1. Own(v) \intersect Own(s) = {}
    BY DEF Own
  <2> QED
    BY <2>1 DEF ChainInv, Numbered
<1> QED
    BY <1>1, <1>2

(* The next id of a session is new in every respect.                       *)
LEMMA FreshId ==
    ASSUME ChainInv, NEW s \in Sessions, CanWrite(s)
    PROVE  /\ NextId(s) \in Own(s) /\ NextId(s) \in Ids
           /\ NextId(s) \notin created
           /\ \A v \in Sessions : NextId(s) \notin inserted[v]
           /\ \A v \in Sessions : \A r \in Seen(v) : r[1] # NextId(s) /\ r[2] # NextId(s)
           /\ inserted[s] \union {NextId(s)} = {s} \X (1..(Cardinality(inserted[s]) + 1))
           /\ Cardinality(inserted[s] \union {NextId(s)}) = Cardinality(inserted[s]) + 1
<1> DEFINE k == Cardinality(inserted[s])
<1>1. k \in Nat /\ k < MaxDrafts /\ IsFiniteSet(inserted[s])
    BY FS_CardinalityType DEF CanWrite, ChainInv, IInv, OwnWork
<1>2. NextId(s) = <<s, k + 1>>
    BY DEF NextId
<1>3. inserted[s] = {s} \X (1..k)
    BY DEF ChainInv, Numbered
<1> HIDE DEF k
<1>4. NextId(s) \in Own(s)
    BY <1>1, <1>2 DEF Own
<1>5. NextId(s) \in Ids
    BY <1>4 DEF Own, Ids
<1>6. NextId(s) \notin inserted[s]
    BY <1>1, <1>2, <1>3
<1>7. inserted[s] \union {NextId(s)} = {s} \X (1..(k + 1))
  <2>1. 1..(k + 1) = (1..k) \union {k + 1}
    BY <1>1
  <2> QED
    BY <1>2, <1>3, <2>1
<1>8. Cardinality(inserted[s] \union {NextId(s)}) = k + 1
    BY <1>1, <1>6, FS_AddElement DEF k
<1>9. NextId(s) \notin created
    BY <1>4 DEF CanWrite, ChainInv, Numbered
<1>10. ASSUME NEW v \in Sessions
       PROVE  NextId(s) \notin inserted[v]
  <2>1. CASE v = s
    BY <1>6, <2>1
  <2>2. CASE v # s
    BY <1>4, <2>2 DEF Own, ChainInv, Numbered
  <2> QED
    BY <2>1, <2>2
<1>11. ASSUME NEW v \in Sessions, NEW r \in Seen(v)
       PROVE  r[1] # NextId(s) /\ r[2] # NextId(s)
  <2>1. {r[1], r[2]} \subseteq created \union inserted[v]
    BY DEF Seen, ChainInv, IInv, OwnWork, HistoryFull
  <2> QED
    BY <2>1, <1>9, <1>10
<1> QED
    BY <1>4, <1>5, <1>7, <1>8, <1>9, <1>10, <1>11 DEF k

(* It holds initially.                                                     *)
LEMMA InitChain == Init => ChainInv
<1> SUFFICES ASSUME Init
             PROVE  ChainInv
    OBVIOUS
<1>1. IInv
    BY InitInv
<1>2. Numbered
  <2>1. Cardinality({}) = 0
    BY FS_EmptySet
  <2>2. \A s \in Sessions : {s} \X (1..0) = {}
    OBVIOUS
  <2>3. \A s \in Sessions : Seeds \intersect Own(s) = {}
    BY DEF Own
  <2> QED
    BY <2>1, <2>2, <2>3 DEF Init, Numbered
<1>3. WantedNew /\ OwnChain
    BY DEF Init, WantedNew, OwnChain
<1>4. NoCircle
  <2>1. \A x \in Ids : successor[x] = NoMemory
    BY DEF Init
  <2>2. NoMemory \notin Seeds /\ Seeds \subseteq Ids /\ created = Seeds
    BY DEF Init, Ids
  <2> QED
    BY <2>1, <2>2 DEF NoCircle
<1> QED
    BY <1>1, <1>2, <1>3, <1>4 DEF ChainInv

(* A draft is written, and perhaps wants to replace a memory.              *)
LEMMA WriteChain ==
    ASSUME ChainInv, NEW s \in Sessions, CanWrite(s),
           inserted' = [inserted EXCEPT ![s] = @ \union {NextId(s)}],
           UNCHANGED <<created, successor, taken>>,
           \/ UNCHANGED <<wanted, phase>>
           \/ /\ phase' = [phase EXCEPT ![s] = "waiting"]
              /\ \E m \in existing[s], kind \in {"supersedes", "reinforces"} :
                    wanted' = [wanted EXCEPT ![s] = {<<m, NextId(s), kind>>}]
    PROVE  Numbered' /\ WantedNew' /\ OwnChain' /\ NoCircle'
<1>1. /\ inserted'[s] = inserted[s] \union {NextId(s)}
      /\ \A v \in Sessions \ {s} : inserted'[v] = inserted[v] /\ phase'[v] = phase[v]
      /\ \A v \in Sessions \ {s} : wanted'[v] = wanted[v]
      /\ phase[s] = "writing" /\ phase'[s] \in {"writing", "waiting"}
    BY DEF CanWrite, ChainInv, IInv, TypeOK
<1>2. wanted'[s] = {} \/ (phase'[s] = "waiting" /\ \E m \in existing[s],
                             kind \in {"supersedes", "reinforces"} :
                                wanted'[s] = {<<m, NextId(s), kind>>})
    BY <1>1 DEF ChainInv, IInv, TypeOK, Numbered
<1>3. Numbered'
  <2>1. /\ inserted'[s] \subseteq Own(s)
        /\ inserted'[s] = {s} \X (1..Cardinality(inserted'[s]))
    BY <1>1, FreshId DEF ChainInv, Numbered
  <2>2. created' \intersect Own(s) = {}
    BY <1>1 DEF ChainInv, Numbered
  <2>3. ASSUME NEW v \in Sessions \ {s}
        PROVE  /\ inserted'[v] \subseteq Own(v)
               /\ inserted'[v] = {v} \X (1..Cardinality(inserted'[v]))
               /\ phase'[v] = "done" => inserted'[v] = {}
               /\ phase'[v] # "done" => created' \intersect Own(v) = {}
               /\ phase'[v] # "waiting" => wanted'[v] = {}
    <3>1. inserted'[v] = inserted[v] /\ phase'[v] = phase[v] /\ wanted'[v] = wanted[v]
      BY <1>1
    <3> QED
      BY <3>1 DEF ChainInv, Numbered
  <2>4. phase'[s] # "waiting" => wanted'[s] = {}
    BY <1>2
  <2>5. phase'[s] # "done"
    BY <1>1
  <2>6. ASSUME NEW v \in Sessions
        PROVE  /\ inserted'[v] \subseteq Own(v)
               /\ inserted'[v] = {v} \X (1..Cardinality(inserted'[v]))
               /\ phase'[v] = "done" => inserted'[v] = {}
               /\ phase'[v] # "done" => created' \intersect Own(v) = {}
               /\ phase'[v] # "waiting" => wanted'[v] = {}
    <3>1. CASE v = s
      BY <3>1, <2>1, <2>2, <2>4, <2>5
    <3>2. CASE v # s
      BY <3>2, <2>3
    <3> QED
      BY <3>1, <3>2
  <2>7. \A v \in Sessions : Own(v)' = Own(v)
    BY DEF Own
  <2> QED
    BY <2>6, <2>7 DEF Numbered
<1>4. WantedNew'
  <2>1. ASSUME NEW r \in wanted'[s], NEW q \in taken[s] \union wanted'[s]
        PROVE  q[1] # r[2]
    <3>1. PICK m \in existing[s] : r[2] = NextId(s) /\ (q \in taken[s] \/ q[1] = m)
      BY <1>2, <2>1
    <3>2. m \in created \union inserted[s]
      BY DEF ChainInv, IInv, OwnWork
    <3>3. m # NextId(s)
      <4>1. NextId(s) \notin created /\ NextId(s) \notin inserted[s]
        BY FreshId
      <4> QED
        BY <3>2, <4>1
    <3>4. \A d \in taken[s] : d[1] # NextId(s)
      BY FreshId DEF Seen
    <3> QED
      BY <3>1, <3>3, <3>4
  <2>2. \A r, q \in wanted'[s] : r = q
    BY <1>2
  <2>3. ASSUME NEW v \in Sessions \ {s}
        PROVE  wanted'[v] = wanted[v] /\ taken'[v] = taken[v]
    BY <1>1
  <2> QED
    BY <2>1, <2>2, <2>3 DEF ChainInv, WantedNew
<1>5. OwnChain'
  <2>1. ASSUME NEW T \in SUBSET inserted'[s], T # {}
        PROVE  \E x \in T : \A r \in taken[s] : r[1] = x => r[2] \notin T
    <3>1. CASE T = {NextId(s)}
      BY <3>1, FreshId DEF Seen
    <3>2. CASE T \ {NextId(s)} # {}
      <4>1. T \ {NextId(s)} \in SUBSET inserted[s]
        BY <1>1
      <4>2. PICK x \in T \ {NextId(s)} :
                \A r \in taken[s] : r[1] = x => r[2] \notin T \ {NextId(s)}
        BY <3>2, <4>1 DEF ChainInv, OwnChain
      <4>3. \A r \in taken[s] : r[2] # NextId(s)
        BY FreshId DEF Seen
      <4> QED
        BY <4>2, <4>3
    <3> QED
      BY <3>1, <3>2, <2>1
  <2> QED
    BY <2>1, <1>1 DEF ChainInv, OwnChain
<1>6. NoCircle'
    BY DEF ChainInv, NoCircle
<1> QED
    BY <1>3, <1>4, <1>5, <1>6

(* The old memory is superseded by the one that was written for it.        *)
LEMMA SupersedeChain ==
    ASSUME ChainInv, NEW s \in Sessions, Supersede(s)
    PROVE  Numbered' /\ WantedNew' /\ OwnChain' /\ NoCircle'
<1>1. PICK r \in wanted[s] : taken' = [taken EXCEPT ![s] = @ \union {r}]
    BY DEF Supersede
<1>2. /\ taken'[s] = taken[s] \union {r}
      /\ \A v \in Sessions \ {s} : taken'[v] = taken[v]
    BY <1>1 DEF ChainInv, IInv, TypeOK
<1>3. /\ wanted'[s] = {} /\ phase'[s] = "writing" /\ phase[s] = "waiting"
      /\ \A v \in Sessions \ {s} : wanted'[v] = wanted[v] /\ phase'[v] = phase[v]
      /\ UNCHANGED <<created, successor, inserted>>
    BY DEF Supersede, rows, ChainInv, IInv, TypeOK
<1>4. Numbered'
  <2>1. \A v \in Sessions : Own(v)' = Own(v)
    BY DEF Own
  <2> QED
    BY <2>1, <1>3 DEF ChainInv, Numbered
<1>5. WantedNew'
    BY <1>2, <1>3 DEF ChainInv, WantedNew
<1>6. OwnChain'
  <2>1. ASSUME NEW T \in SUBSET inserted[s], T # {}
        PROVE  \E x \in T : \A q \in taken'[s] : q[1] = x => q[2] \notin T
    <3>1. CASE r[2] \in T
      BY <3>1, <1>2 DEF ChainInv, WantedNew
    <3>2. CASE r[2] \notin T
      BY <3>2, <2>1, <1>2 DEF ChainInv, OwnChain
    <3> QED
      BY <3>1, <3>2
  <2> QED
    BY <2>1, <1>2, <1>3 DEF ChainInv, OwnChain
<1>7. NoCircle'
    BY <1>3 DEF ChainInv, NoCircle
<1> QED
    BY <1>4, <1>5, <1>6, <1>7

(* The end of a transaction; what is committed of it is its own.           *)
LEMMA CloseChain ==
    ASSUME ChainInv, NEW s \in Sessions, NEW outcome \in {"idle", "done"}, Close(s, outcome),
           \/ outcome = "idle" /\ created' = created
           \/ outcome = "done" /\ created' = created \union inserted[s]
    PROVE  \/ phase[s] = "done" /\ outcome = "idle"
           \/ Numbered' /\ WantedNew' /\ OwnChain'
<1> SUFFICES ASSUME ~(phase[s] = "done" /\ outcome = "idle")
             PROVE  Numbered' /\ WantedNew' /\ OwnChain'
    OBVIOUS
<1>1. /\ phase'[s] = outcome
      /\ inserted'[s] = {} /\ taken'[s] = {} /\ wanted'[s] = {}
      /\ \A v \in Sessions \ {s} :
            /\ phase'[v] = phase[v] /\ inserted'[v] = inserted[v]
            /\ taken'[v] = taken[v] /\ wanted'[v] = wanted[v]
    BY DEF Close, ChainInv, IInv, TypeOK
<1>2. Numbered'
  <2>1. \A v \in Sessions : Own(v)' = Own(v)
    BY DEF Own
  <2>2. ASSUME NEW v \in Sessions \ {s}
        PROVE  /\ inserted'[v] \subseteq Own(v)
               /\ inserted'[v] = {v} \X (1..Cardinality(inserted'[v]))
               /\ phase'[v] = "done" => inserted'[v] = {}
               /\ phase'[v] # "done" => created' \intersect Own(v) = {}
               /\ phase'[v] # "waiting" => wanted'[v] = {}
    <3>1. inserted'[v] = inserted[v] /\ phase'[v] = phase[v] /\ wanted'[v] = wanted[v]
      BY <1>1
    <3>2. inserted[s] \intersect Own(v) = {}
      BY DEF ChainInv, Numbered, Own
    <3>3. created' \subseteq created \union inserted[s]
      OBVIOUS
    <3> QED
      BY <3>1, <3>2, <3>3 DEF ChainInv, Numbered
  <2>3. {s} \X (1..Cardinality({})) = {}
    BY FS_EmptySet
  <2>4. phase'[s] # "done" => created' \intersect Own(s) = {}
    BY <1>1 DEF ChainInv, Numbered
  <2> QED
    BY <1>1, <2>1, <2>2, <2>3, <2>4 DEF Numbered
<1>3. WantedNew'
    BY <1>1 DEF ChainInv, WantedNew
<1>4. OwnChain'
    BY <1>1 DEF ChainInv, OwnChain
<1> QED
    BY <1>2, <1>3, <1>4

(* A commit: its chains end in memories of its own, or where the others    *)
(* ended before.                                                           *)
LEMMA CommitChain ==
    ASSUME ChainInv, NEW s \in Sessions, Commit(s)
    PROVE  Numbered' /\ WantedNew' /\ OwnChain' /\ NoCircle'
<1>1. /\ created' = created \union inserted[s]
      /\ successor' = [m \in Ids |-> IF \E r \in taken[s] : r[1] = m
                                     THEN (CHOOSE r \in taken[s] : r[1] = m)[2]
                                     ELSE successor[m]]
      /\ Close(s, "done")
    BY DEF Commit
<1>2. Numbered' /\ WantedNew' /\ OwnChain'
    BY <1>1, CloseChain
<1>3. \A r \in taken[s] : r[1] \in created \union inserted[s] /\ r[2] \in inserted[s]
    BY DEF ChainInv, IInv, OwnWork
<1>4. ASSUME NEW m \in Ids
      PROVE  \/ \E r \in taken[s] : r[1] = m /\ successor'[m] = r[2]
             \/ /\ \A r \in taken[s] : r[1] # m
                /\ successor'[m] = successor[m]
  <2>1. CASE \E r \in taken[s] : r[1] = m
    <3> DEFINE q == CHOOSE r \in taken[s] : r[1] = m
    <3>1. q \in taken[s] /\ q[1] = m
      BY <2>1
    <3>2. successor'[m] = q[2]
      BY <2>1, <1>1
    <3> QED
      BY <3>1, <3>2
  <2>2. CASE \A r \in taken[s] : r[1] # m
    BY <2>2, <1>1
  <2> QED
    BY <2>1, <2>2
<1>5. inserted[s] \intersect created = {} /\ inserted[s] \subseteq Ids /\ created \subseteq Ids
    BY OwnApart DEF ChainInv, IInv, TypeOK
<1>6. \A x \in Ids : successor'[x] \notin Seeds
  <2>1. inserted[s] \intersect Seeds = {}
    BY <1>5 DEF ChainInv, IInv, SummaryReady
  <2> QED
    BY <1>3, <1>4, <2>1 DEF ChainInv, NoCircle
<1>7. ASSUME NEW T \in SUBSET created', T # {}
      PROVE  \E x \in T : successor'[x] \notin T
  <2>1. T \subseteq Ids /\ NoMemory \notin T
    BY <1>1, <1>5
  <2>2. CASE T \intersect inserted[s] # {}
    <3>1. PICK x \in T \intersect inserted[s] :
              \A r \in taken[s] : r[1] = x => r[2] \notin T \intersect inserted[s]
      BY <2>2 DEF ChainInv, OwnChain
    <3>2. x \in Ids /\ successor[x] = NoMemory
      BY <1>5 DEF ChainInv, IInv, HistoryFull
    <3> QED
      BY <1>3, <1>4, <2>1, <3>1, <3>2
  <2>3. CASE T \intersect inserted[s] = {}
    <3>1. T \in SUBSET created
      BY <1>1, <2>3
    <3>2. PICK x \in T : successor[x] \notin T
      BY <1>7, <3>1 DEF ChainInv, NoCircle
    <3> QED
      BY <1>3, <1>4, <2>1, <2>3, <3>2
  <2> QED
    BY <2>2, <2>3
<1> QED
    BY <1>2, <1>6, <1>7 DEF NoCircle

(* Consolidation: a summary replaces nothing but seeds, and nothing is     *)
(* replaced by a seed.                                                     *)
LEMMA ConsolidationChain ==
    ASSUME ChainInv,
           \/ \E c \in Summaries : ReadStale(c)
           \/ WriteSummary \/ (\E m \in Seeds : SupersedeStale(m)) \/ EndConsolidation
    PROVE  Numbered' /\ WantedNew' /\ OwnChain' /\ NoCircle'
<1>1. UNCHANGED <<phase, inserted, taken, wanted>>
    BY DEF ReadStale, WriteSummary, SupersedeStale, EndConsolidation, writers
<1>2. created' = created \/ (WriteSummary /\ created' = created \union {summary})
    BY DEF ReadStale, WriteSummary, SupersedeStale, EndConsolidation, rows
<1>3. WriteSummary => summary \in Summaries /\ summary \in Ids
    BY DEF WriteSummary, ChainInv, IInv, SummaryReady, Ids
<1>4. Numbered'
  <2>1. \A v \in Sessions : Own(v)' = Own(v) /\ Own(v) \intersect Summaries = {}
    BY DEF Own
  <2> QED
    BY <2>1, <1>1, <1>2, <1>3 DEF ChainInv, Numbered
<1>5. WantedNew' /\ OwnChain'
    BY <1>1 DEF ChainInv, WantedNew, OwnChain
<1>6. NoCircle'
  <2>1. CASE \E m \in Seeds : SupersedeStale(m)
    <3>1. PICK m \in Seeds : SupersedeStale(m)
      BY <2>1
    <3>2. /\ summary \in Summaries /\ summary \notin Seeds /\ m \in Ids
          /\ created' = created
          /\ successor' = [successor EXCEPT ![m] = summary]
      BY <3>1 DEF SupersedeStale, ChainInv, IInv, SummaryReady, Ids
    <3>3. successor'[m] = summary /\ \A x \in Ids \ {m} : successor'[x] = successor[x]
      BY <3>2 DEF ChainInv, IInv, TypeOK
    <3>4. created \subseteq Ids /\ \A x \in Ids : successor[x] \notin Seeds
      BY DEF ChainInv, IInv, TypeOK, NoCircle
    <3>5. ASSUME NEW T \in SUBSET created, T # {}
          PROVE  \E x \in T : successor'[x] \notin T
      <4>1. CASE T \subseteq Seeds /\ m \in T
        BY <4>1, <3>2, <3>3
      <4>2. CASE T \ Seeds # {}
        <5>1. PICK x \in T \ Seeds : successor[x] \notin T \ Seeds
          BY <4>2 DEF ChainInv, NoCircle
        <5> QED
          BY <5>1, <3>3, <3>4
      <4>3. CASE m \notin T
        <5>1. PICK x \in T : successor[x] \notin T
          BY <3>5 DEF ChainInv, NoCircle
        <5> QED
          BY <4>3, <5>1, <3>3, <3>4
      <4> QED
        BY <4>1, <4>2, <4>3
    <3> QED
      BY <3>2, <3>3, <3>4, <3>5 DEF NoCircle
  <2>2. CASE WriteSummary
    <3>1. successor' = successor /\ created' = created \union {summary}
      BY <2>2 DEF WriteSummary
    <3>2. ASSUME NEW T \in SUBSET created', T # {}
          PROVE  \E x \in T : successor[x] \notin T
      <4>1. CASE T \subseteq created
        BY <4>1, <3>2 DEF ChainInv, NoCircle
      <4>2. CASE summary \in T /\ summary \notin created
        <5>1. successor[summary] = NoMemory
          BY <4>2, <1>3, <2>2 DEF ChainInv, IInv, HistoryFull
        <5>2. T \subseteq Ids
          BY <3>1, <1>3, <2>2 DEF ChainInv, IInv, TypeOK
        <5> QED
          BY <4>2, <5>1, <5>2
      <4> QED
        BY <4>1, <4>2, <3>1
    <3> QED
      BY <3>1, <3>2 DEF ChainInv, NoCircle
  <2>3. CASE UNCHANGED <<created, successor>>
    BY <2>3 DEF ChainInv, NoCircle
  <2> QED
    BY <2>1, <2>2, <2>3 DEF ReadStale, EndConsolidation, rows
<1> QED
    BY <1>4, <1>5, <1>6

(* Every step keeps it.                                                    *)
LEMMA NextChain == ChainInv /\ [Next]_vars => ChainInv'
<1> SUFFICES ASSUME ChainInv, [Next]_vars
             PROVE  Numbered' /\ WantedNew' /\ OwnChain' /\ NoCircle'
    BY NextInv DEF ChainInv
<1>1. ASSUME UNCHANGED <<created, successor, phase, inserted, taken, wanted>>
      PROVE  Numbered' /\ WantedNew' /\ OwnChain' /\ NoCircle'
  <2>1. \A v \in Sessions : Own(v)' = Own(v)
    BY DEF Own
  <2> QED
    BY <1>1, <2>1 DEF ChainInv, Numbered, WantedNew, OwnChain, NoCircle
<1>2. CASE UNCHANGED vars
    BY <1>1, <1>2 DEF vars, rows, writers
<1>3. ASSUME NEW s \in Sessions, Begin(s)
      PROVE  Numbered' /\ WantedNew' /\ OwnChain' /\ NoCircle'
  <2>1. /\ phase[s] = "idle" /\ phase'[s] = "writing"
        /\ \A v \in Sessions \ {s} : phase'[v] = phase[v]
        /\ UNCHANGED <<created, successor, inserted, taken, wanted>>
    BY <1>3 DEF Begin, rows, ChainInv, IInv, TypeOK
  <2>2. \A v \in Sessions : Own(v)' = Own(v)
    BY DEF Own
  <2> QED
    BY <2>1, <2>2 DEF ChainInv, Numbered, WantedNew, OwnChain, NoCircle
<1>4. ASSUME NEW s \in Sessions, CreateMemory(s)
      PROVE  Numbered' /\ WantedNew' /\ OwnChain' /\ NoCircle'
  <2>1. /\ CanWrite(s) /\ inserted' = [inserted EXCEPT ![s] = @ \union {NextId(s)}]
        /\ UNCHANGED <<created, successor, phase, taken, wanted>>
    BY <1>4 DEF CreateMemory, Insert, rows
  <2> QED
    BY <2>1, WriteChain
<1>5. ASSUME NEW s \in Sessions, NEW m \in Ids, Contradict(s, m) \/ Reinforce(s, m)
      PROVE  Numbered' /\ WantedNew' /\ OwnChain' /\ NoCircle'
  <2>1. /\ CanWrite(s) /\ inserted' = [inserted EXCEPT ![s] = @ \union {NextId(s)}]
        /\ UNCHANGED <<created, successor, taken>>
        /\ phase' = [phase EXCEPT ![s] = "waiting"]
        /\ m \in existing[s]
    BY <1>5 DEF Contradict, Reinforce, Insert, Candidates, rows
  <2>2. \E kind \in {"supersedes", "reinforces"} :
            wanted' = [wanted EXCEPT ![s] = {<<m, NextId(s), kind>>}]
    BY <1>5 DEF Contradict, Reinforce
  <2> QED
    BY <2>1, <2>2, WriteChain
<1>6. ASSUME NEW s \in Sessions, WriteFails(s) \/ DeadlockVictim(s)
      PROVE  Numbered' /\ WantedNew' /\ OwnChain' /\ NoCircle'
  <2>1. Close(s, "idle") /\ created' = created /\ successor' = successor
    BY <1>6 DEF WriteFails, DeadlockVictim, Rollback, rows
  <2>2. phase[s] # "done"
    <3>1. CASE WriteFails(s)
      BY <3>1 DEF WriteFails, Open
    <3>2. CASE DeadlockVictim(s)
      <4>1. \E v \in Sessions : WaitsFor(s, v)
        BY <3>2 DEF DeadlockVictim
      <4>2. wanted[s] # {}
        BY <4>1 DEF WaitsFor
      <4> QED
        BY <4>2 DEF ChainInv, Numbered
    <3> QED
      BY <3>1, <3>2, <1>6
  <2>3. NoCircle'
    BY <2>1 DEF ChainInv, NoCircle
  <2> QED
    BY <2>1, <2>2, <2>3, CloseChain
<1> QED
    BY <1>2, <1>3, <1>4, <1>5, <1>6, SupersedeChain, CommitChain, ConsolidationChain
    DEF Next, WriterStep

LEMMA ChainHolds == Spec => []ChainInv
BY InitChain, NextChain, PTL DEF Spec

(* The chain of what replaced a superseded memory leads to an active one.  *)
LEMMA ChainEnds ==
    ASSUME ChainInv, NEW m \in created \ Active
    PROVE  Later(m) \intersect Active # {}
<1>1. m \in Ids /\ successor[m] # NoMemory /\ successor[m] \in created /\ created \subseteq Ids
    BY DEF Active, ChainInv, IInv, TypeOK, HistoryFull
<1>2. Replacements \in SUBSET (Ids \X Ids)
    BY DEF Replacements, ChainInv, IInv, TypeOK
<1>3. Closed(Replacements, created)
    BY DEF Closed, Replacements, ChainInv, IInv, HistoryFull
<1>4. {successor[m]} \ {NoMemory} = {successor[m]} /\ {successor[m]} \in SUBSET Ids
    BY <1>1
<1>5. /\ successor[m] \in Later(m)
      /\ Later(m) \in SUBSET created
      /\ Closed(Replacements, Later(m))
  <2> DEFINE C == Closure(Replacements, {successor[m]})
  <2>1. /\ {successor[m]} \subseteq C
        /\ Closed(Replacements, C)
        /\ {successor[m]} \subseteq created => C \subseteq created
    BY <1>2, <1>3, <1>4, ClosureLeast
  <2>2. Later(m) = C
    BY <1>4 DEF Later
  <2> QED
    BY <1>1, <2>1, <2>2
<1>6. PICK x \in Later(m) : successor[x] \notin Later(m)
    BY <1>5 DEF ChainInv, NoCircle
<1>7. successor[x] = NoMemory
  <2>1. SUFFICES ASSUME successor[x] # NoMemory
                 PROVE  FALSE
    OBVIOUS
  <2>2. <<x, successor[x]>> \in Replacements
    BY <1>1, <1>5, <2>1 DEF Replacements
  <2> QED
    BY <1>5, <1>6, <2>2 DEF Closed
<1> QED
    BY <1>5, <1>6, <1>7 DEF Active

(* No overlap of sessions with each other or with consolidation leaves a   *)
(* fact with no active version, for any number of sessions and drafts.     *)
THEOREM NothingIsForgotten == Spec => []NothingForgotten
<1>1. ChainInv => NothingForgotten
    BY ChainEnds DEF NothingForgotten
<1> QED
    BY <1>1, ChainHolds, PTL

-----------------------------------------------------------------------------
(* What a memory confirms.                                                 *)

LEMMA ConfirmationsType ==
    ASSUME NEW R \in SUBSET Relations
    PROVE  Confirmations(R) \in SUBSET (Ids \X Ids)
BY RelationParts DEF Confirmations

(* Relations into memories outside of D change nothing inside.             *)
LEMMA ConfirmedFrame ==
    ASSUME NEW R \in SUBSET Relations, NEW Q \in SUBSET Relations, R \subseteq Q,
           NEW D, NEW m \in Ids, m \in D,
           \A r \in R : r[2] \in D => r[1] \in D,
           \A r \in Q \ R : r[2] \notin D
    PROVE  Confirmed(Q, m) = Confirmed(R, m) /\ Confirmed(R, m) \subseteq D
<1> DEFINE E == Confirmations(R)
           F == Confirmations(Q)
           C == Closure(E, {m})
<1>1. E \in SUBSET (Ids \X Ids) /\ F \in SUBSET (Ids \X Ids) /\ {m} \in SUBSET Ids
    BY ConfirmationsType
<1>2. Closed(E, D)
    BY DEF Closed, Confirmations
<1>3. \A e \in F : e \in E \/ e[1] \notin D
    BY DEF Confirmations
<1>4. E \subseteq F
    BY DEF Confirmations
<1> HIDE DEF E, F
<1>5. C \subseteq D /\ {m} \subseteq C /\ Closed(E, C)
    BY <1>1, <1>2, ClosureLeast
<1>6. Closed(F, C)
    BY <1>3, <1>5 DEF Closed
<1>7. Closure(F, {m}) \subseteq C
    BY <1>1, <1>5, <1>6, ClosureLeast
<1>8. {m} \subseteq Closure(F, {m}) /\ Closed(F, Closure(F, {m}))
    BY <1>1, ClosureLeast
<1>9. Closed(E, Closure(F, {m}))
    BY <1>4, <1>8 DEF Closed
<1>10. C \subseteq Closure(F, {m})
    BY <1>1, <1>8, <1>9, ClosureLeast
<1> QED
    BY <1>5, <1>7, <1>10 DEF Confirmed, E, F

(* A memory that is no version of another one confirms itself only.        *)
LEMMA ConfirmedAlone ==
    ASSUME NEW R \in SUBSET Relations, NEW n \in Ids,
           \A r \in R : ~(r[2] = n /\ r[3] = "reinforces")
    PROVE  Confirmed(R, n) = {n}
<1>1. Confirmations(R) \in SUBSET (Ids \X Ids) /\ {n} \in SUBSET Ids
    BY ConfirmationsType
<1>2. Closed(Confirmations(R), {n})
    BY DEF Closed, Confirmations
<1>3. {n} \subseteq Closure(Confirmations(R), {n})
    BY <1>1, ClosureLeast
<1>4. Closure(Confirmations(R), {n}) \subseteq {n}
    BY <1>1, <1>2, ClosureLeast
<1> QED
    BY <1>3, <1>4 DEF Confirmed

(* A new version of m confirms itself and what m confirms.                 *)
LEMMA ConfirmedVersion ==
    ASSUME NEW R \in SUBSET Relations, NEW n \in Ids, NEW m \in Ids,
           \A r \in R : r[2] # n
    PROVE  Confirmed(R \union {<<m, n, "reinforces">>}, n) = {n} \union Confirmed(R, m)
<1> DEFINE E == Confirmations(R)
           F == Confirmations(R \union {<<m, n, "reinforces">>})
           A == Closure(F, {n})
           B == Closure(E, {m})
<1>1. /\ E \in SUBSET (Ids \X Ids) /\ {m} \in SUBSET Ids /\ {n} \in SUBSET Ids
      /\ \A e \in E : e[1] # n
    BY ConfirmationsType DEF Confirmations
<1>2. F = E \union {<<n, m>>}
  <2> DEFINE d == <<m, n, "reinforces">>
  <2>1. d[1] = m /\ d[2] = n /\ d[3] = "reinforces"
    OBVIOUS
  <2> HIDE DEF d
  <2>2. Confirmations(R \union {d}) = Confirmations(R) \union {<<d[2], d[1]>>}
    BY <2>1 DEF Confirmations
  <2> QED
    BY <2>1, <2>2 DEF d
<1> HIDE DEF E, F
<1>3. F \in SUBSET (Ids \X Ids)
  <2>1. <<n, m>> \in Ids \X Ids
    OBVIOUS
  <2> QED
    BY <1>1, <1>2, <2>1
<1>4. /\ {n} \subseteq A /\ Closed(F, A)
      /\ \A T : {n} \subseteq T /\ Closed(F, T) => A \subseteq T
    BY <1>1, <1>3, ClosureLeast
<1>5. /\ {m} \subseteq B /\ Closed(E, B)
      /\ \A T : {m} \subseteq T /\ Closed(E, T) => B \subseteq T
    BY <1>1, ClosureLeast
<1> HIDE DEF A, B
<1>6. Closed(F, {n} \union B)
    BY <1>1, <1>2, <1>5 DEF Closed
<1>7. m \in A /\ Closed(E, A)
    BY <1>2, <1>4 DEF Closed
<1>8. A \subseteq {n} \union B
    BY <1>4, <1>6
<1>9. B \subseteq A
    BY <1>5, <1>7
<1>10. A = {n} \union B
    BY <1>4, <1>8, <1>9
<1> QED
    BY <1>10 DEF A, B, E, F, Confirmed

(* Where the relations of a session and of the committed memories lead.    *)
LEMMA SeenEnds ==
    ASSUME ChainInv, NEW s \in Sessions
    PROVE  /\ relations \in SUBSET Relations /\ Seen(s) \in SUBSET Relations
           /\ relations \subseteq Seen(s)
           /\ \A r \in relations : r[1] \in created /\ r[2] \in created
           /\ \A r \in Seen(s) \ relations : r[2] \in inserted[s] /\ r[2] \notin created
           /\ \A r \in Seen(s) : {r[1], r[2]} \subseteq created \union inserted[s]
<1>1. relations \in SUBSET Relations /\ Seen(s) \in SUBSET Relations
    BY DEF Seen, ChainInv, IInv, TypeOK
<1>2. \A r \in relations : r[1] \in created /\ r[2] \in created
    BY DEF ChainInv, IInv, HistoryFull
<1>3. \A r \in taken[s] \union wanted[s] :
          r[1] \in created \union inserted[s] /\ r[2] \in inserted[s]
    BY DEF ChainInv, IInv, OwnWork
<1>4. inserted[s] \intersect created = {}
    BY OwnApart
<1> QED
    BY <1>1, <1>2, <1>3, <1>4 DEF Seen

(* A committed memory confirms committed ones, by all that a session sees. *)
LEMMA CommittedConfirms ==
    ASSUME ChainInv, NEW s \in Sessions, NEW m \in created
    PROVE  /\ Confirmed(Seen(s), m) = Confirmed(relations, m)
           /\ Confirmed(relations, m) \subseteq created
<1>1. m \in Ids
    BY DEF ChainInv, IInv, TypeOK
<1> QED
    BY <1>1, SeenEnds, ConfirmedFrame

(* A count that was right stays right when nothing of it changes.          *)
LEMMA SameCount ==
    ASSUME NEW R, NEW Q, NEW m, Counted(R, m), Confirmed(Q, m) = Confirmed(R, m),
           cross'[m] = cross[m], \A x \in Confirmed(R, m) : source'[x] = source[x]
    PROVE  cross'[m] = Cardinality({source'[x] : x \in Confirmed(Q, m)})
<1>1. {source'[x] : x \in Confirmed(Q, m)} = {source[x] : x \in Confirmed(R, m)}
    OBVIOUS
<1> QED
    BY <1>1 DEF Counted

-----------------------------------------------------------------------------
(* Counts.                                                                 *)

(* It holds initially: every memory confirms itself, in one session.       *)
LEMMA InitCount == Init => CountFull /\ SourceFull
<1> SUFFICES ASSUME Init
             PROVE  CountFull /\ SourceFull
    OBVIOUS
<1>1. ChainInv
    BY InitChain
<1>2. /\ relations = {} /\ created = Seeds /\ Seeds \subseteq Ids
      /\ \A s \in Sessions : inserted[s] = {}
      /\ \A x \in Ids : cross[x] = 1 /\ source[x] = NoSession
    BY DEF Init, Ids
<1>3. ASSUME NEW m \in created
      PROVE  Counted(relations, m)
  <2>1. m \in Ids
    BY <1>2
  <2>2. Confirmed(relations, m) = {m}
    BY <1>2, <2>1, ConfirmedAlone
  <2>3. {source[x] : x \in {m}} = {source[m]}
    OBVIOUS
  <2> QED
    BY <1>2, <2>1, <2>2, <2>3, FS_Singleton DEF Counted
<1> QED
    BY <1>2, <1>3, NamesAssumption DEF CountFull, SourceFull

(* The old counts stay right when a session writes a new memory.           *)
LEMMA WriteKeeps ==
    ASSUME CountInv, NEW s \in Sessions, CanWrite(s), NEW count,
           NEW n \in Ids, n = NextId(s),
           inserted' = [inserted EXCEPT ![s] = @ \union {n}],
           cross' = [cross EXCEPT ![n] = count],
           source' = [source EXCEPT ![n] = s],
           UNCHANGED <<created, relations, taken>>,
           \A v \in Sessions \ {s} : wanted'[v] = wanted[v],
           Seen(s)' \in SUBSET Relations,
           \A r \in Seen(s)' \ Seen(s) : r[2] = n,
           Seen(s) \subseteq Seen(s)',
           Counted(Seen(s), n)'
    PROVE  CountFull' /\ SourceFull'
<1>1. /\ n \in Own(s) /\ n \in Ids /\ n \notin created
      /\ \A v \in Sessions : n \notin inserted[v]
    BY FreshId DEF CountInv
<1>2. /\ inserted'[s] = inserted[s] \union {n}
      /\ \A v \in Sessions \ {s} : inserted'[v] = inserted[v]
      /\ source'[n] = s
      /\ \A x \in Ids \ {n} : cross'[x] = cross[x] /\ source'[x] = source[x]
    BY <1>1 DEF CountInv, ChainInv, IInv, TypeOK
<1>3. created \subseteq Ids /\ \A v \in Sessions : inserted[v] \subseteq Ids
    BY DEF CountInv, ChainInv, IInv, TypeOK
<1>4. ASSUME NEW m \in created
      PROVE  Counted(relations, m)'
  <2>1. Confirmed(relations, m) \subseteq created
    BY CommittedConfirms DEF CountInv
  <2>2. \A x \in Confirmed(relations, m) : source'[x] = source[x]
    BY <1>1, <1>2, <1>3, <2>1
  <2>3. Counted(relations, m) /\ cross'[m] = cross[m]
    BY <1>1, <1>2, <1>3 DEF CountInv, CountFull
  <2>4. cross'[m] = Cardinality({source'[x] : x \in Confirmed(relations', m)})
    BY <2>2, <2>3, SameCount
  <2> QED
    BY <2>4 DEF Counted, Confirmed
<1>5. ASSUME NEW v \in Sessions, NEW m \in inserted[v]
      PROVE  Counted(Seen(v), m)'
  <2> DEFINE D == created \union inserted[v]
  <2>1. /\ Seen(v) \in SUBSET Relations
        /\ \A r \in Seen(v) : {r[1], r[2]} \subseteq D
    BY SeenEnds DEF CountInv
  <2>2. n \notin D /\ m \in Ids /\ m \in D
    BY <1>1, <1>3
  <2>3. /\ Seen(v)' \in SUBSET Relations /\ Seen(v) \subseteq Seen(v)'
        /\ \A r \in Seen(v)' \ Seen(v) : r[2] = n
    <3>1. CASE v = s
      BY <3>1
    <3>2. CASE v # s
      <4>1. Seen(v)' = Seen(v)
        BY <3>2 DEF Seen
      <4> QED
        BY <4>1, <2>1
    <3> QED
      BY <3>1, <3>2
  <2>4. Confirmed(Seen(v)', m) = Confirmed(Seen(v), m) /\ Confirmed(Seen(v), m) \subseteq D
    <3>1. \A r \in Seen(v) : r[2] \in D => r[1] \in D
      BY <2>1
    <3>2. \A r \in Seen(v)' \ Seen(v) : r[2] \notin D
      BY <2>2, <2>3
    <3> HIDE DEF D
    <3>3. PICK R \in SUBSET Relations, Q \in SUBSET Relations : R = Seen(v) /\ Q = Seen(v)'
      BY <2>1, <2>3
    <3>4. /\ R \subseteq Q /\ m \in Ids /\ m \in D
          /\ \A r \in R : r[2] \in D => r[1] \in D
          /\ \A r \in Q \ R : r[2] \notin D
      BY <2>2, <2>3, <3>1, <3>2, <3>3
    <3>5. Confirmed(Q, m) = Confirmed(R, m) /\ Confirmed(R, m) \subseteq D
      BY <3>4, ConfirmedFrame
    <3> QED
      BY <3>3, <3>5
  <2>5. \A x \in D : source'[x] = source[x] /\ cross'[x] = cross[x]
    BY <1>1, <1>2, <1>3
  <2>6. Counted(Seen(v), m)
    BY DEF CountInv, CountFull
  <2>7. \A x \in Confirmed(Seen(v), m) : source'[x] = source[x]
    BY <2>4, <2>5
  <2>8. cross'[m] = Cardinality({source'[x] : x \in Confirmed(Seen(v)', m)})
    BY <2>2, <2>4, <2>5, <2>6, <2>7, SameCount
  <2> QED
    BY <2>8 DEF Counted, Confirmed
<1>6. CountFull'
  <2>1. ASSUME NEW v \in Sessions, NEW m \in inserted'[v]
        PROVE  Counted(Seen(v), m)'
    <3>1. CASE m \in inserted[v]
      BY <3>1, <1>5
    <3>2. CASE v = s /\ m = n
      BY <3>2
    <3> QED
      BY <3>1, <3>2, <1>2
  <2> QED
    BY <1>4, <2>1 DEF CountFull
<1>7. SourceFull'
  <2>1. ASSUME NEW m \in Ids, NEW v \in Sessions, source'[m] = v
        PROVE  m \in Own(v)
    BY <2>1, <1>1, <1>2 DEF CountInv, SourceFull
  <2>2. ASSUME NEW v \in Sessions, NEW m \in inserted'[v]
        PROVE  source'[m] = v
    <3>1. CASE m \in inserted[v]
      BY <3>1, <1>1, <1>2, <1>3 DEF CountInv, SourceFull
    <3>2. CASE v = s /\ m = n
      BY <3>2, <1>2
    <3> QED
      BY <3>1, <3>2, <1>2, <2>2
  <2>3. ASSUME NEW m \in Ids \ created', \A v \in Sessions : m \notin inserted'[v]
        PROVE  cross'[m] = 1
    BY <2>3, <1>2 DEF CountInv, SourceFull
  <2> QED
    BY <2>1, <2>2, <2>3 DEF SourceFull, Own
<1> QED
    BY <1>6, <1>7

(* A memory that is no version of another one counts one session.          *)
LEMMA CountOne ==
    ASSUME CountInv, NEW s \in Sessions, NEW n \in Ids,
           cross' = [cross EXCEPT ![n] = 1],
           source' = [source EXCEPT ![n] = s],
           Seen(s)' \in SUBSET Relations,
           \A r \in Seen(s)' : ~(r[2] = n /\ r[3] = "reinforces")
    PROVE  Counted(Seen(s), n)'
<1>1. cross'[n] = 1 /\ source'[n] = s
    BY DEF CountInv, ChainInv, IInv, TypeOK
<1>2. Confirmed(Seen(s)', n) = {n}
    BY ConfirmedAlone
<1>3. {source'[x] : x \in {n}} = {s}
    BY <1>1
<1>4. cross'[n] = Cardinality({source'[x] : x \in Confirmed(Seen(s)', n)})
    BY <1>1, <1>2, <1>3, FS_Singleton
<1> QED
    BY <1>4 DEF Counted, Confirmed

(* A version counts its session too, unless it confirms what that session  *)
(* wrote itself.                                                           *)
LEMMA CountVersion ==
    ASSUME CountInv, NEW s \in Sessions, CanWrite(s), NEW n \in Ids, n = NextId(s),
           NEW m \in existing[s],
           cross' = [cross EXCEPT ![n] = CrossCount(s, m)],
           source' = [source EXCEPT ![n] = s],
           Seen(s)' = Seen(s) \union {<<m, n, "reinforces">>}
    PROVE  Counted(Seen(s), n)'
<1> DEFINE D == created \union inserted[s]
           B == Confirmed(Seen(s), m)
           G == {source[x] : x \in B}
<1>1. m \in D /\ D \subseteq Ids /\ m \in Ids
    BY DEF CountInv, ChainInv, IInv, TypeOK, OwnWork
<1>2. n \notin D /\ \A r \in Seen(s) : r[2] # n
    BY FreshId DEF CountInv
<1>3. Seen(s) \in SUBSET Relations /\ \A r \in Seen(s) : {r[1], r[2]} \subseteq D
    BY SeenEnds DEF CountInv
<1>4. B \subseteq D /\ m \in B
  <2>1. \A r \in Seen(s) : r[2] \in D => r[1] \in D
    BY <1>3
  <2> HIDE DEF D
  <2>2. B \subseteq D
    BY <1>1, <1>3, <2>1, ConfirmedFrame
  <2>3. m \in B
    <3>1. Confirmations(Seen(s)) \in SUBSET (Ids \X Ids) /\ {m} \in SUBSET Ids
      BY <1>1, <1>3, ConfirmationsType
    <3> QED
      BY <3>1, ClosureLeast DEF Confirmed
  <2> QED
    BY <2>2, <2>3
<1>5. Confirmed(Seen(s)', n) = {n} \union B
  <2>1. Confirmed(Seen(s) \union {<<m, n, "reinforces">>}, n) = {n} \union B
    BY <1>1, <1>2, <1>3, ConfirmedVersion
  <2> QED
    BY <2>1
<1> HIDE DEF B
<1>6. /\ cross'[n] = CrossCount(s, m) /\ source'[n] = s
      /\ \A x \in Ids \ {n} : source'[x] = source[x]
    BY DEF CountInv, ChainInv, IInv, TypeOK
<1>7. {source'[x] : x \in {n} \union B} = G \union {s}
  <2>1. \A x \in B : source'[x] = source[x]
    BY <1>1, <1>2, <1>4, <1>6
  <2> QED
    BY <2>1, <1>6
<1>8. IsFiniteSet(G)
  <2>1. IsFiniteSet(Sessions \union {NoSession})
    BY FiniteAssumption, FS_AddElement
  <2>2. G \in SUBSET (Sessions \union {NoSession})
    BY <1>1, <1>4 DEF CountInv, ChainInv, IInv, TypeOK
  <2> QED
    BY <2>1, <2>2, FS_Subset
<1>9. cross[m] = Cardinality(G)
  <2>1. Counted(Seen(s), m)
    <3>1. CASE m \in inserted[s]
      BY <3>1 DEF CountInv, CountFull
    <3>2. CASE m \in created
      <4>1. Confirmed(Seen(s), m) = Confirmed(relations, m)
        BY <3>2, CommittedConfirms DEF CountInv
      <4> QED
        BY <3>2, <4>1 DEF CountInv, CountFull, Counted
    <3> QED
      BY <3>1, <3>2, <1>1
  <2> QED
    BY <2>1 DEF Counted, B
<1>10. CrossCount(s, m) = Cardinality(G \union {s})
  <2>1. CASE source[m] = s
    <3>1. G \union {s} = G
      BY <2>1, <1>4
    <3> QED
      BY <2>1, <3>1, <1>9 DEF CrossCount
  <2>2. CASE source[m] # s
    <3>1. m \in created
      BY <2>2, <1>1 DEF CountInv, SourceFull
    <3>2. B \subseteq created
      BY <3>1, CommittedConfirms DEF CountInv, B
    <3>3. created \intersect Own(s) = {}
      BY DEF CanWrite, CountInv, ChainInv, Numbered
    <3>4. \A x \in B : source[x] # s
      BY <3>2, <3>3, <1>1, <1>4 DEF CountInv, SourceFull
    <3>5. s \notin G
      BY <3>4
    <3> QED
      BY <2>2, <3>5, <1>8, <1>9, FS_AddElement DEF CrossCount
  <2> QED
    BY <2>1, <2>2
<1>11. cross'[n] = Cardinality({source'[x] : x \in Confirmed(Seen(s)', n)})
    BY <1>5, <1>6, <1>7, <1>10
<1> QED
    BY <1>11 DEF Counted, Confirmed

(* A draft is written: it is created, or it replaces or confirms a memory. *)
LEMMA WriteCount ==
    ASSUME CountInv, NEW s \in Sessions, NEW m \in Ids,
           CreateMemory(s) \/ Contradict(s, m) \/ Reinforce(s, m)
    PROVE  CountFull' /\ SourceFull'
<1>1. CanWrite(s)
    BY DEF CreateMemory, Contradict, Reinforce
<1>2. PICK n \in Ids : n = NextId(s)
    BY <1>1, FreshId DEF CountInv
<1>3. /\ inserted' = [inserted EXCEPT ![s] = @ \union {n}]
      /\ source' = [source EXCEPT ![n] = s]
      /\ UNCHANGED <<created, relations, taken>>
    BY <1>2 DEF CreateMemory, Contradict, Reinforce, Insert, rows
<1>4. /\ Seen(s) \in SUBSET Relations
      /\ \A r \in Seen(s) : r[2] # n
      /\ wanted[s] = {}
    BY <1>1, <1>2, SeenEnds, FreshId DEF CountInv, ChainInv, Numbered, CanWrite
<1>5. CASE CreateMemory(s)
  <2>1. cross' = [cross EXCEPT ![n] = 1] /\ wanted' = wanted
    BY <1>2, <1>5 DEF CreateMemory, Insert
  <2>2. Seen(s)' = Seen(s)
    BY <1>3, <2>1 DEF Seen
  <2>3. Counted(Seen(s), n)'
    BY <1>3, <1>4, <2>1, <2>2, CountOne
  <2> QED
    BY <1>1, <1>2, <1>3, <1>4, <2>1, <2>2, <2>3, WriteKeeps
<1>6. ASSUME NEW kind \in {"supersedes", "reinforces"},
             wanted' = [wanted EXCEPT ![s] = {<<m, NextId(s), kind>>}]
      PROVE  /\ Seen(s)' = Seen(s) \union {<<m, n, kind>>}
             /\ Seen(s)' \in SUBSET Relations
             /\ \A r \in Seen(s)' \ Seen(s) : r[2] = n
             /\ \A v \in Sessions \ {s} : wanted'[v] = wanted[v]
  <2>1. wanted'[s] = {<<m, n, kind>>} /\ \A v \in Sessions \ {s} : wanted'[v] = wanted[v]
    BY <1>2, <1>6 DEF CountInv, ChainInv, IInv, TypeOK
  <2>2. Seen(s)' = Seen(s) \union {<<m, n, kind>>}
    BY <1>3, <1>4, <2>1 DEF Seen
  <2>3. {<<m, n, kind>>} \in SUBSET Relations
    BY DEF Relations
  <2> QED
    BY <1>4, <2>1, <2>2, <2>3
<1>7. CASE Contradict(s, m)
  <2>1. /\ cross' = [cross EXCEPT ![n] = 1]
        /\ wanted' = [wanted EXCEPT ![s] = {<<m, NextId(s), "supersedes">>}]
    BY <1>2, <1>7 DEF Contradict, Insert
  <2>2. /\ Seen(s)' = Seen(s) \union {<<m, n, "supersedes">>}
        /\ Seen(s)' \in SUBSET Relations
        /\ \A r \in Seen(s)' \ Seen(s) : r[2] = n
        /\ \A v \in Sessions \ {s} : wanted'[v] = wanted[v]
    BY <1>6, <2>1
  <2>3. \A r \in Seen(s)' : ~(r[2] = n /\ r[3] = "reinforces")
    BY <1>4, <2>2
  <2>4. Counted(Seen(s), n)'
    BY <1>3, <2>1, <2>2, <2>3, CountOne
  <2> QED
    BY <1>1, <1>2, <1>3, <2>1, <2>2, <2>4, WriteKeeps
<1>8. CASE Reinforce(s, m)
  <2>1. /\ cross' = [cross EXCEPT ![n] = CrossCount(s, m)]
        /\ wanted' = [wanted EXCEPT ![s] = {<<m, NextId(s), "reinforces">>}]
        /\ m \in existing[s]
    BY <1>2, <1>8 DEF Reinforce, Insert, Candidates
  <2>2. /\ Seen(s)' = Seen(s) \union {<<m, n, "reinforces">>}
        /\ Seen(s)' \in SUBSET Relations
        /\ \A r \in Seen(s)' \ Seen(s) : r[2] = n
        /\ \A v \in Sessions \ {s} : wanted'[v] = wanted[v]
    BY <1>6, <2>1
  <2>3. Counted(Seen(s), n)'
    BY <1>1, <1>2, <1>3, <2>1, <2>2, CountVersion
  <2> QED
    BY <1>1, <1>2, <1>3, <2>1, <2>2, <2>3, WriteKeeps
<1> QED
    BY <1>5, <1>7, <1>8

(* Counts do not change when neither memories nor what is seen does.       *)
LEMMA SameCounts ==
    ASSUME CountInv, UNCHANGED <<created, relations, cross, source, inserted>>,
           \A s \in Sessions : Seen(s)' = Seen(s)
    PROVE  CountFull' /\ SourceFull'
<1>1. \A R : \A m : Counted(R, m) => cross'[m] = Cardinality({source'[x] : x \in Confirmed(R, m)})
    BY DEF Counted
<1>2. \A m \in created : Counted(relations, m)'
    BY <1>1 DEF CountInv, CountFull, Counted, Confirmed
<1>3. ASSUME NEW s \in Sessions, NEW m \in inserted[s]
      PROVE  Counted(Seen(s), m)'
  <2>1. cross'[m] = Cardinality({source'[x] : x \in Confirmed(Seen(s)', m)})
    BY <1>1 DEF CountInv, CountFull
  <2> QED
    BY <2>1 DEF Counted, Confirmed
<1> QED
    BY <1>2, <1>3 DEF CountInv, CountFull, SourceFull, Own

(* What was wanted is taken.                                               *)
LEMMA SupersedeCount ==
    ASSUME CountInv, NEW s \in Sessions, Supersede(s)
    PROVE  CountFull' /\ SourceFull'
<1>1. PICK r \in wanted[s] : taken' = [taken EXCEPT ![s] = @ \union {r}]
    BY DEF Supersede
<1>2. /\ taken'[s] = taken[s] \union {r} /\ wanted'[s] = {}
      /\ \A v \in Sessions \ {s} : taken'[v] = taken[v] /\ wanted'[v] = wanted[v]
    BY <1>1 DEF Supersede, CountInv, ChainInv, IInv, TypeOK
<1>3. wanted[s] = {r}
    BY DEF CountInv, ChainInv, WantedNew
<1>4. UNCHANGED <<created, relations, cross, source, inserted>>
    BY DEF Supersede, rows, columns
<1>5. \A v \in Sessions : Seen(v)' = Seen(v)
    BY <1>2, <1>3, <1>4 DEF Seen
<1> QED
    BY <1>4, <1>5, SameCounts

(* A commit: what a session saw is what is committed, and the others' own  *)
(* memories confirm nothing of it.                                         *)
LEMMA CommitCount ==
    ASSUME CountInv, NEW s \in Sessions, Commit(s)
    PROVE  CountFull' /\ SourceFull'
<1>1. /\ created' = created \union inserted[s]
      /\ relations' = relations \union taken[s]
      /\ Close(s, "done") /\ phase[s] = "writing"
      /\ UNCHANGED <<cross, source>>
    BY DEF Commit, columns
<1>2. /\ inserted'[s] = {} /\ taken'[s] = {} /\ wanted'[s] = {}
      /\ \A v \in Sessions \ {s} :
            inserted'[v] = inserted[v] /\ taken'[v] = taken[v] /\ wanted'[v] = wanted[v]
    BY <1>1 DEF Close, CountInv, ChainInv, IInv, TypeOK
<1>3. relations' = Seen(s)
    BY <1>1 DEF Seen, CountInv, ChainInv, Numbered
<1>4. ASSUME NEW m \in created'
      PROVE  Counted(relations, m)'
  <2>1. Counted(Seen(s), m)
    <3>1. CASE m \in created
      <4>1. Confirmed(Seen(s), m) = Confirmed(relations, m)
        BY <3>1, CommittedConfirms DEF CountInv
      <4> QED
        BY <3>1, <4>1 DEF CountInv, CountFull, Counted
    <3>2. CASE m \in inserted[s]
      BY <3>2 DEF CountInv, CountFull
    <3> QED
      BY <3>1, <3>2, <1>1
  <2>2. cross'[m] = Cardinality({source'[x] : x \in Confirmed(Seen(s), m)})
    BY <1>1, <2>1 DEF Counted
  <2>3. cross'[m] = Cardinality({source'[x] : x \in Confirmed(relations', m)})
    BY <1>3, <2>2
  <2> QED
    BY <2>3 DEF Counted, Confirmed
<1>5. ASSUME NEW v \in Sessions \ {s}, NEW m \in inserted[v]
      PROVE  Counted(Seen(v), m)'
  <2> DEFINE D == created \union inserted[v]
  <2>1. /\ Seen(v) \in SUBSET Relations /\ Seen(s) \in SUBSET Relations
        /\ \A r \in Seen(v) : {r[1], r[2]} \subseteq D
        /\ \A r \in Seen(s) \ relations : r[2] \in inserted[s] /\ r[2] \notin created
        /\ relations \subseteq Seen(v)
    BY SeenEnds DEF CountInv
  <2>2. PICK R \in SUBSET Relations, Q \in SUBSET Relations :
            R = Seen(v) /\ Q = Seen(v) \union Seen(s)
    BY <2>1
  <2>3. Seen(v)' = Q
    BY <1>2, <1>3, <2>1, <2>2 DEF Seen
  <2>4. m \in D /\ m \in Ids /\ inserted[v] \intersect inserted[s] = {}
    BY OwnApart DEF CountInv, ChainInv, IInv, TypeOK
  <2>5. /\ R \subseteq Q
        /\ \A r \in R : r[2] \in D => r[1] \in D
        /\ \A r \in Q \ R : r[2] \notin D
    BY <2>1, <2>2, <2>4
  <2> HIDE DEF D
  <2>6. Confirmed(Q, m) = Confirmed(R, m)
    BY <2>4, <2>5, ConfirmedFrame
  <2>7. Counted(R, m)
    BY <2>2 DEF CountInv, CountFull
  <2>8. cross'[m] = Cardinality({source'[x] : x \in Confirmed(Seen(v)', m)})
    BY <1>1, <2>3, <2>6, <2>7 DEF Counted
  <2> QED
    BY <2>8 DEF Counted, Confirmed
<1>6. CountFull'
  <2>1. ASSUME NEW v \in Sessions, NEW m \in inserted'[v]
        PROVE  Counted(Seen(v), m)'
    BY <2>1, <1>2, <1>5
  <2> QED
    BY <1>4, <2>1 DEF CountFull
<1>7. SourceFull'
    BY <1>1, <1>2 DEF CountInv, SourceFull, Own
<1> QED
    BY <1>6, <1>7

(* A rollback changes the columns of nothing that is committed or that     *)
(* another session has written.                                            *)
LEMMA RollbackCount ==
    ASSUME CountInv, NEW s \in Sessions, Rollback(s)
    PROVE  CountFull' /\ SourceFull'
<1>1. /\ Close(s, "idle") /\ UNCHANGED <<created, relations>>
      /\ cross' = [n \in Ids |-> IF n \in inserted[s] THEN 1 ELSE cross[n]]
      /\ source' = [n \in Ids |-> IF n \in inserted[s] THEN NoSession ELSE source[n]]
    BY DEF Rollback, rows
<1>2. /\ inserted'[s] = {}
      /\ \A v \in Sessions \ {s} :
            inserted'[v] = inserted[v] /\ taken'[v] = taken[v] /\ wanted'[v] = wanted[v]
    BY <1>1 DEF Close, CountInv, ChainInv, IInv, TypeOK
<1>3. /\ \A x \in Ids : x \notin inserted[s] => cross'[x] = cross[x] /\ source'[x] = source[x]
      /\ \A x \in Ids : x \in inserted[s] => cross'[x] = 1 /\ source'[x] = NoSession
    BY <1>1
<1>4. /\ created \subseteq Ids /\ \A v \in Sessions : inserted[v] \subseteq Ids
      /\ inserted[s] \intersect created = {}
      /\ \A v \in Sessions \ {s} : inserted[v] \intersect inserted[s] = {}
    BY OwnApart DEF CountInv, ChainInv, IInv, TypeOK
<1>5. ASSUME NEW m \in created
      PROVE  Counted(relations, m)'
  <2>1. Confirmed(relations, m) \subseteq created
    BY CommittedConfirms DEF CountInv
  <2>2. \A x \in Confirmed(relations, m) : source'[x] = source[x]
    BY <1>3, <1>4, <2>1
  <2>3. Counted(relations, m) /\ cross'[m] = cross[m]
    BY <1>3, <1>4 DEF CountInv, CountFull
  <2>4. cross'[m] = Cardinality({source'[x] : x \in Confirmed(relations, m)})
    BY <2>2, <2>3, SameCount
  <2>5. cross'[m] = Cardinality({source'[x] : x \in Confirmed(relations', m)})
    BY <1>1, <2>4
  <2> QED
    BY <2>5 DEF Counted, Confirmed
<1>6. ASSUME NEW v \in Sessions \ {s}, NEW m \in inserted[v]
      PROVE  Counted(Seen(v), m)'
  <2> DEFINE D == created \union inserted[v]
  <2>1. /\ Seen(v) \in SUBSET Relations
        /\ \A r \in Seen(v) : r[2] \in D => r[1] \in D
        /\ m \in D /\ m \in Ids
    BY <1>4, SeenEnds DEF CountInv
  <2>2. \A x \in D : cross'[x] = cross[x] /\ source'[x] = source[x]
    BY <1>3, <1>4
  <2> HIDE DEF D
  <2>3. Confirmed(Seen(v), m) \subseteq D
    BY <2>1, ConfirmedFrame
  <2>4. Counted(Seen(v), m)
    BY DEF CountInv, CountFull
  <2>5. \A x \in Confirmed(Seen(v), m) : source'[x] = source[x]
    BY <2>2, <2>3
  <2>6. cross'[m] = Cardinality({source'[x] : x \in Confirmed(Seen(v), m)})
    BY <2>1, <2>2, <2>4, <2>5, SameCount
  <2>7. Seen(v)' = Seen(v)
    BY <1>1, <1>2 DEF Seen
  <2>8. cross'[m] = Cardinality({source'[x] : x \in Confirmed(Seen(v)', m)})
    BY <2>6, <2>7
  <2> QED
    BY <2>8 DEF Counted, Confirmed
<1>7. CountFull'
  <2>1. ASSUME NEW v \in Sessions, NEW m \in inserted'[v]
        PROVE  Counted(Seen(v), m)'
    BY <2>1, <1>2, <1>6
  <2>2. \A m \in created' : Counted(relations, m)'
    BY <1>1, <1>5
  <2> QED
    BY <2>1, <2>2 DEF CountFull
<1>8. SourceFull'
  <2>1. \A m \in Ids, v \in Sessions : source'[m] = v => m \in Own(v)
    BY <1>3, NamesAssumption DEF CountInv, SourceFull
  <2>2. \A v \in Sessions : \A m \in inserted'[v] : source'[m] = v
    BY <1>2, <1>3, <1>4 DEF CountInv, SourceFull
  <2>3. ASSUME NEW m \in Ids \ created', \A v \in Sessions : m \notin inserted'[v]
        PROVE  cross'[m] = 1
    <3>1. CASE m \in inserted[s]
      BY <3>1, <1>3
    <3>2. CASE m \notin inserted[s]
      BY <2>3, <3>2, <1>1, <1>2, <1>3 DEF CountInv, SourceFull
    <3> QED
      BY <3>1, <3>2
  <2> QED
    BY <2>1, <2>2, <2>3 DEF SourceFull, Own
<1> QED
    BY <1>7, <1>8

(* A summary confirms itself only.                                         *)
LEMMA SummaryCount ==
    ASSUME CountInv, WriteSummary
    PROVE  CountFull' /\ SourceFull'
<1>1. /\ summary \in Summaries /\ summary \in Ids
      /\ created' = created \union {summary}
      /\ UNCHANGED <<relations, cross, source, inserted, taken, wanted>>
    BY DEF WriteSummary, writers, CountInv, ChainInv, IInv, SummaryReady, Ids
<1>2. \A s \in Sessions : Seen(s)' = Seen(s)
    BY <1>1 DEF Seen
<1>3. ASSUME NEW m \in created'
      PROVE  Counted(relations, m)
  <2>1. CASE m \in created
    BY <2>1 DEF CountInv, CountFull
  <2>2. CASE m = summary /\ summary \notin created
    <3>1. \A r \in relations : r[2] # m
      BY <2>2 DEF CountInv, ChainInv, IInv, HistoryFull
    <3>2. Confirmed(relations, m) = {m}
      BY <2>2, <3>1, <1>1, ConfirmedAlone DEF CountInv, ChainInv, IInv, TypeOK
    <3>3. \A s \in Sessions : m \notin inserted[s]
      BY <2>2, <1>1 DEF CountInv, ChainInv, Numbered, Own
    <3>4. cross[m] = 1
      BY <2>2, <3>3, <1>1 DEF CountInv, SourceFull
    <3>5. {source[x] : x \in {m}} = {source[m]}
      OBVIOUS
    <3> QED
      BY <3>2, <3>4, <3>5, FS_Singleton DEF Counted
  <2> QED
    BY <2>1, <2>2, <1>1
<1>4. ASSUME NEW m \in created'
      PROVE  Counted(relations, m)'
    BY <1>1, <1>3 DEF Counted, Confirmed
<1>5. ASSUME NEW s \in Sessions, NEW m \in inserted'[s]
      PROVE  Counted(Seen(s), m)'
  <2>1. Counted(Seen(s), m)
    BY <1>1 DEF CountInv, CountFull
  <2>2. cross'[m] = Cardinality({source'[x] : x \in Confirmed(Seen(s)', m)})
    BY <2>1, <1>1, <1>2 DEF Counted
  <2> QED
    BY <2>2 DEF Counted, Confirmed
<1> QED
    BY <1>1, <1>4, <1>5 DEF CountFull, CountInv, SourceFull, Own

(* Every step keeps the counts.                                            *)
LEMMA NextCount == CountInv /\ [Next]_vars => CountInv'
<1> SUFFICES ASSUME CountInv, [Next]_vars
             PROVE  CountFull' /\ SourceFull'
    BY NextChain DEF CountInv
<1>1. ASSUME UNCHANGED <<created, relations, cross, source, inserted, taken, wanted>>
      PROVE  CountFull' /\ SourceFull'
  <2>1. \A s \in Sessions : Seen(s)' = Seen(s)
    BY <1>1 DEF Seen
  <2> QED
    BY <1>1, <2>1, SameCounts
<1>2. CASE UNCHANGED vars
    BY <1>1, <1>2 DEF vars, rows, columns, writers
<1>3. ASSUME NEW s \in Sessions, Begin(s)
      PROVE  CountFull' /\ SourceFull'
    BY <1>1, <1>3 DEF Begin, rows, columns
<1>4. ASSUME NEW s \in Sessions, CreateMemory(s)
      PROVE  CountFull' /\ SourceFull'
  <2>1. NextId(s) \in Ids
    BY <1>4, FreshId DEF CreateMemory, CountInv
  <2> QED
    BY <1>4, <2>1, WriteCount
<1>5. CASE (\E c \in Summaries : ReadStale(c)) \/ (\E m \in Seeds : SupersedeStale(m))
              \/ EndConsolidation
    BY <1>1, <1>5 DEF ReadStale, SupersedeStale, EndConsolidation, rows, columns, writers
<1> QED
    BY <1>2, <1>3, <1>4, <1>5, WriteCount, SupersedeCount, CommitCount, RollbackCount,
       SummaryCount
    DEF Next, WriterStep, WriteFails, DeadlockVictim

LEMMA CountHolds == Spec => []CountInv
<1>1. Init => CountInv
    BY InitChain, InitCount DEF CountInv
<1> QED
    BY <1>1, NextCount, PTL DEF Spec

(* A memory's count is the number of sessions that confirmed it, however   *)
(* many sessions overlap, repeat themselves, fail and are retried.         *)
THEOREM CountsAreRight == Spec => []CountsSessions
<1>1. CountInv => CountsSessions
    BY DEF CountInv, CountFull, Counted, Confirmed, CountsSessions, Confirms
<1> QED
    BY <1>1, CountHolds, PTL
=============================================================================
