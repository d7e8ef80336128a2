---------------------------- MODULE EngineProofs ----------------------------
(***************************************************************************)
(* Proofs about Engine and the BlockCache it composes, for every guest     *)
(* program, cache geometry, buffer size and host.  The cache: the          *)
(* structural invariant of its ways, the refinement of BlockMap and, for   *)
(* the geometry of the program, that a full set always evicts the same     *)
(* way.  The engine: type correctness, that it uses the block cache as     *)
(* BlockCache specifies, that a clear request takes effect, that dispatch  *)
(* is sound while the buffer is not reset under the cache, and that errors *)
(* are reported while the buffer has room.                                 *)
(***************************************************************************)
EXTENDS Engine, WellFoundedInduction, TLAPS

EmitLoop  == INSTANCE FoldTheorems WITH Op <- EmitValid
FlushLoop == INSTANCE FoldTheorems WITH Op <- FlushMacro

Assembler == [offset : Offset, status : X86!AsmStatus]
Block == [at : Offset, pc : Pc, next : SUBSET (Pc \union {SENTINEL}), ver : Nat]

-----------------------------------------------------------------------------
(* The block cache.                                                        *)

\* The first way of a nonempty set of ways exists: the loops of
\* block_cache_lookup and block_cache_insert stop at a way of the set, with
\* none of the set before it.
LEMMA FirstIsLeast ==
    ASSUME NEW ways \in SUBSET WayIds, ways # {}
    PROVE  /\ First(ways) \in ways
           /\ \A v \in ways : First(ways) <= v
<1>1. \E x \in ways : \A y \in ways : ~(<<y, x>> \in OpToRel(<, Nat))
  <2>1. ways \subseteq Nat
    BY DEF WayIds
  <2> QED
    BY <2>1, WFMin, NatLessThanWellFounded, Zenon
<1>2. PICK x \in ways : \A y \in ways : ~(<<y, x>> \in OpToRel(<, Nat))
  BY <1>1
<1>3. \A y \in ways : x <= y
  <2> SUFFICES ASSUME NEW y \in ways PROVE x <= y
    OBVIOUS
  <2>1. x \in Nat /\ y \in Nat
    BY DEF WayIds
  <2>2. <<y, x>> \notin OpToRel(<, Nat)
    BY <1>2
  <2>3. ~(y < x)
    BY <2>1, <2>2 DEF OpToRel
  <2> QED
    BY <2>1, <2>3
<1> QED
  BY <1>3 DEF First

\* set_index and evict_way stay within the arrays they index.
LEMMA IndexTypes ==
    ASSUME NEW pc \in Pc
    PROVE  set_index(pc) \in SetIds /\ evict_way(pc) \in WayIds
<1>1. pc \in Nat
  BY PcAssumption
<1>2. \A m \in Nat \ {0}, n \in Nat : n % m \in 0 .. m - 1
  OBVIOUS
<1>3. pc \div 4 \in Nat /\ pc \div 16 \in Nat
  BY <1>1
<1> QED
  BY <1>2, <1>3, GeometryAssumption DEF set_index, evict_way, SetIds, WayIds

\* block_cache_insert writes a way of the set that the address selects.
LEMMA TargetWayType ==
    ASSUME NEW ways, NEW pc \in Pc
    PROVE  TargetWay(ways, pc) \in WayIds
<1>1. Tagged(ways, pc) \in SUBSET WayIds /\ Free(ways) \in SUBSET WayIds
  BY DEF Tagged, Free
<1> QED
  BY <1>1, FirstIsLeast, IndexTypes DEF TargetWay

\* What an insertion leaves in the cache, way by way.
LEMMA InsertWrites ==
    ASSUME CacheTypeOK, NEW pc \in Pc, NEW h \in Code, Insert(pc, h)
    PROVE  /\ CacheTypeOK'
           /\ \A s \in SetIds, w \in WayIds :
                 block_cache'[s][w] =
                    IF s = set_index(pc) /\ w = TargetWay(block_cache[s], pc)
                    THEN [guest_address |-> pc, host_code |-> h]
                    ELSE block_cache[s][w]
<1> DEFINE s0 == set_index(pc)
           t  == TargetWay(block_cache[s0], pc)
           e  == [guest_address |-> pc, host_code |-> h]
<1>1. s0 \in SetIds /\ t \in WayIds
  BY IndexTypes, TargetWayType
<1>2. e \in Entry
  BY DEF Entry
<1> HIDE DEF e
<1>3. block_cache' = [block_cache EXCEPT ![s0] = [block_cache[s0] EXCEPT ![t] = e]]
  <2>1. block_cache' = block_cache_insert(block_cache, pc, h)
    BY DEF Insert
  <2> QED
    BY <2>1, <1>1 DEF block_cache_insert, CacheTypeOK, e
<1> HIDE DEF s0, t
<1>4. [block_cache[s0] EXCEPT ![t] = e] \in [WayIds -> Entry]
  BY <1>1, <1>2 DEF CacheTypeOK
<1>5. CacheTypeOK'
  BY <1>1, <1>3, <1>4 DEF CacheTypeOK
<1>6. \A s \in SetIds, w \in WayIds :
          block_cache'[s][w] = IF s = s0 /\ w = t THEN e ELSE block_cache[s][w]
  BY <1>1, <1>3 DEF CacheTypeOK
<1> QED
  BY <1>5, <1>6 DEF s0, t, e

-----------------------------------------------------------------------------
\* If the address is already filled in somewhere in its set, that is the way
\* the insertion replaces; if the insertion fills an empty way, every way
\* before it is filled.
LEMMA TargetWayFits ==
    ASSUME CacheTypeOK, WellFormed, NEW s \in SetIds, NEW pc \in Pc
    PROVE  /\ \A v \in WayIds :
                 /\ block_cache[s][v].host_code # NULL
                 /\ block_cache[s][v].guest_address = pc
                 => v = TargetWay(block_cache[s], pc)
           /\ \A v \in WayIds :
                 /\ block_cache[s][TargetWay(block_cache[s], pc)].host_code = NULL
                 /\ v < TargetWay(block_cache[s], pc)
                 => block_cache[s][v].host_code # NULL
<1> DEFINE ways == block_cache[s]
           t == TargetWay(ways, pc)
<1>1. Tagged(ways, pc) \in SUBSET WayIds /\ Free(ways) \in SUBSET WayIds
  BY DEF Tagged, Free
<1>2. t \in WayIds
  BY TargetWayType
<1>3. WayIds \subseteq Nat
  BY DEF WayIds
<1>4. ASSUME NEW v \in WayIds, ways[v].host_code # NULL, ways[v].guest_address = pc
      PROVE  v = t
  <2>1. v \in Tagged(ways, pc)
    BY <1>4 DEF Tagged
  <2>2. t = First(Tagged(ways, pc))
    BY <2>1 DEF TargetWay
  <2>3. t \in Tagged(ways, pc) /\ t <= v
    BY <2>1, <2>2, <1>1, FirstIsLeast
  <2>4. ways[t].host_code # NULL
    <3>1. t \in Nat /\ v \in Nat
      BY <1>2, <1>3, Zenon
    <3> HIDE DEF t
    <3>2. t = v \/ v > t
      BY <2>3, <3>1
    <3>3. \A u \in WayIds : ways[t].host_code = NULL /\ u > t
                              => ways[u].host_code = NULL
      BY <1>2 DEF WellFormed, FilledFirst
    <3> QED
      BY <1>2, <1>4, <3>2, <3>3
  <2> QED
    BY <1>2, <1>4, <2>3, <2>4 DEF WellFormed, NoDuplicate, Tagged
<1>5. ASSUME NEW v \in WayIds, ways[t].host_code = NULL, v < t,
             ways[v].host_code = NULL
      PROVE  FALSE
  <2>1. v \in Free(ways) /\ t \in Free(ways)
    BY <1>2, <1>5 DEF Free
  <2>2. CASE Tagged(ways, pc) # {}
    <3>1. t = First(Tagged(ways, pc))
      BY <2>2 DEF TargetWay
    <3>2. t \in Tagged(ways, pc) /\ \A u \in Tagged(ways, pc) : t <= u
      BY <3>1, <2>2, <1>1, FirstIsLeast
    <3>3. ways[v] = EmptyEntry /\ ways[t] = EmptyEntry
      BY <1>2, <1>5 DEF WellFormed, FilledFirst
    <3>4. v \in Tagged(ways, pc)
      BY <3>2, <3>3 DEF Tagged, EmptyEntry
    <3>5. t \in Nat /\ v \in Nat
      BY <1>2, <1>3, Zenon
    <3>6. t <= v
      BY <3>2, <3>4
    <3> HIDE DEF t
    <3> QED
      BY <3>5, <3>6, <1>5
  <2>3. CASE Tagged(ways, pc) = {}
    <3>1. t = First(Free(ways))
      BY <2>1, <2>3 DEF TargetWay
    <3>2. t <= v
      BY <2>1, <3>1, <1>1, FirstIsLeast
    <3> QED
      BY <3>2, <1>2, <1>3, <1>5
  <2> QED
    BY <2>2, <2>3
<1> QED
  BY <1>4, <1>5

\* Type correctness and well-formedness are inductive together.
CacheInv == CacheTypeOK /\ WellFormed

\* The zeroed cache that bal_engine_init and a clear leave is well formed.
LEMMA EmptyCacheInv == ASSUME block_cache = EmptyCache PROVE CacheInv
<1>1. CacheTypeOK
  BY DEF CacheTypeOK, EmptyCache, EmptyEntry, Entry
<1>2. \A s \in SetIds, w \in WayIds : block_cache[s][w] = EmptyEntry
  BY DEF EmptyCache
<1>3. EmptyEntry.host_code = NULL
  BY DEF EmptyEntry
<1> QED
  BY <1>1, <1>2, <1>3 DEF CacheInv, WellFormed, InItsSet, NoDuplicate, FilledFirst

\* block_cache_insert keeps the ways of every set in order.
LEMMA InsertInv ==
    ASSUME CacheInv, NEW pc \in Pc, NEW h \in Code, Insert(pc, h)
    PROVE  CacheInv'
<1> DEFINE s0 == set_index(pc)
           t  == TargetWay(block_cache[s0], pc)
           e  == [guest_address |-> pc, host_code |-> h]
<1>0. CacheTypeOK /\ WellFormed /\ InItsSet /\ NoDuplicate /\ FilledFirst
  BY DEF CacheInv, WellFormed
<1>1. s0 \in SetIds /\ t \in WayIds /\ WayIds \subseteq Nat
  BY IndexTypes, TargetWayType DEF WayIds
<1>2. CacheTypeOK'
  BY <1>0, InsertWrites
<1>3. \A s \in SetIds, w \in WayIds :
          block_cache'[s][w] = IF s = s0 /\ w = t THEN e ELSE block_cache[s][w]
  BY <1>0, InsertWrites
<1>4. e.host_code = h /\ e.guest_address = pc /\ h # NULL
  BY CodeAssumption
<1>5. /\ \A v \in WayIds :
            block_cache[s0][v].host_code # NULL /\ block_cache[s0][v].guest_address = pc
            => v = t
      /\ \A v \in WayIds :
            block_cache[s0][t].host_code = NULL /\ v < t
            => block_cache[s0][v].host_code # NULL
  BY <1>0, <1>1, TargetWayFits
<1> HIDE DEF t, e
<1>6. InItsSet'
  BY <1>0, <1>3, <1>4 DEF InItsSet
<1>7. NoDuplicate'
  BY <1>0, <1>1, <1>3, <1>4, <1>5 DEF NoDuplicate
<1>8. FilledFirst'
  <2> SUFFICES ASSUME NEW s \in SetIds, NEW w \in WayIds,
                      block_cache'[s][w].host_code = NULL
               PROVE  /\ block_cache'[s][w] = EmptyEntry
                      /\ \A v \in WayIds : v > w => block_cache'[s][v].host_code = NULL
    BY DEF FilledFirst
  <2>1. ~(s = s0 /\ w = t) /\ block_cache[s][w].host_code = NULL
    BY <1>3, <1>4
  <2>2. /\ block_cache[s][w] = EmptyEntry
        /\ \A v \in WayIds : v > w => block_cache[s][v].host_code = NULL
    BY <1>0, <2>1 DEF FilledFirst
  <2>3. ASSUME s = s0, t > w PROVE FALSE
    BY <1>1, <1>5, <2>1, <2>2, <2>3
  <2> QED
    BY <1>1, <1>3, <2>1, <2>2, <2>3
<1> QED
  BY <1>2, <1>6, <1>7, <1>8 DEF CacheInv, WellFormed

\* Every reachable cache is type correct and well formed: block_cache_insert
\* never puts an address in the wrong set, twice, or behind an empty way.
THEOREM CacheWellFormed == CacheSpec => [](CacheTypeOK /\ WellFormed)
<1>1. CacheInit => CacheInv
  BY EmptyCacheInv DEF CacheInit
<1>2. CacheInv /\ [CacheNext]_block_cache => CacheInv'
  <2> SUFFICES ASSUME CacheInv, [CacheNext]_block_cache PROVE CacheInv'
    OBVIOUS
  <2>1. CASE \E pc \in Pc, h \in Code : Insert(pc, h)
    BY <2>1, InsertInv
  <2>2. CASE Clear
    <3>1. CacheTypeOK'
      BY <2>2 DEF Clear, CacheTypeOK, EmptyCache, EmptyEntry, Entry
    <3>2. \A s \in SetIds, w \in WayIds : block_cache'[s][w] = EmptyEntry
      BY <2>2 DEF Clear, EmptyCache
    <3>3. EmptyEntry.host_code = NULL
      BY DEF EmptyEntry
    <3> QED
      BY <3>1, <3>2, <3>3 DEF CacheInv, WellFormed, InItsSet, NoDuplicate, FilledFirst
  <2>3. CASE UNCHANGED block_cache
    BY <2>3 DEF CacheInv, CacheTypeOK, WellFormed, InItsSet, NoDuplicate, FilledFirst
  <2> QED
    BY <2>1, <2>2, <2>3 DEF CacheNext
<1> QED
  BY <1>1, <1>2, PTL DEF CacheSpec, CacheInv

-----------------------------------------------------------------------------
\* In a well-formed cache a lookup finds the one way that is filled for the
\* address, and NULL when there is none.
LEMMA LookupIsUnique ==
    ASSUME NEW c, NEW pc,
           \A v, w \in WayIds :
               v \in Hits(c[set_index(pc)], pc) /\ w \in Hits(c[set_index(pc)], pc)
               => v = w
    PROVE  /\ \A w \in Hits(c[set_index(pc)], pc) :
                  block_cache_lookup(c, pc) = c[set_index(pc)][w].host_code
           /\ Hits(c[set_index(pc)], pc) = {} => block_cache_lookup(c, pc) = NULL
<1>1. Hits(c[set_index(pc)], pc) \in SUBSET WayIds
  BY DEF Hits, Tagged
<1> QED
  BY <1>1, FirstIsLeast DEF block_cache_lookup

\* An insertion, seen through lookups: the address is current, the address of
\* the way it took is forgotten, and every other lookup is unchanged.
LEMMA InsertSeen ==
    ASSUME CacheInv, NEW pc \in Pc, NEW h \in Code, Insert(pc, h)
    PROVE  Map!Insert(pc, h)
<1> DEFINE s0 == set_index(pc)
           t  == TargetWay(block_cache[s0], pc)
           e  == [guest_address |-> pc, host_code |-> h]
           lost == IF /\ block_cache[s0][t].host_code # NULL
                      /\ block_cache[s0][t].guest_address \in Pc
                   THEN block_cache[s0][t].guest_address ELSE pc
<1>1. s0 \in SetIds /\ t \in WayIds
  BY IndexTypes, TargetWayType
<1>2. \A s \in SetIds, w \in WayIds :
          block_cache'[s][w] = IF s = s0 /\ w = t THEN e ELSE block_cache[s][w]
  BY InsertWrites DEF CacheInv
<1>3. e.host_code = h /\ e.guest_address = pc /\ h # NULL
  BY CodeAssumption
<1>4. CacheInv'
  BY InsertInv
<1>5. \A q \in Pc, w \in WayIds :
          w \in Hits(block_cache[set_index(q)], q)
          <=> /\ block_cache[set_index(q)][w].guest_address = q
              /\ block_cache[set_index(q)][w].host_code # NULL
  BY DEF Hits, Tagged, Free
<1>6. \A q \in Pc, w \in WayIds :
          w \in Hits(block_cache'[set_index(q)], q)
          <=> /\ block_cache'[set_index(q)][w].guest_address = q
              /\ block_cache'[set_index(q)][w].host_code # NULL
  BY DEF Hits, Tagged, Free
<1>7. \A q \in Pc : Hits(block_cache[set_index(q)], q) \subseteq WayIds
                    /\ Hits(block_cache'[set_index(q)], q) \subseteq WayIds
  BY DEF Hits, Tagged
<1>8. ASSUME NEW q \in Pc
      PROVE  /\ \A w \in Hits(block_cache[set_index(q)], q) :
                    block_cache_lookup(block_cache, q) = block_cache[set_index(q)][w].host_code
             /\ Hits(block_cache[set_index(q)], q) = {}
                   => block_cache_lookup(block_cache, q) = NULL
  <2>1. set_index(q) \in SetIds
    BY IndexTypes
  <2>2. \A v, w \in WayIds :
            v \in Hits(block_cache[set_index(q)], q) /\ w \in Hits(block_cache[set_index(q)], q)
            => v = w
    BY <2>1, <1>5 DEF CacheInv, WellFormed, NoDuplicate
  <2> QED
    BY <2>2, LookupIsUnique
<1>9. ASSUME NEW q \in Pc
      PROVE  /\ \A w \in Hits(block_cache'[set_index(q)], q) :
                    block_cache_lookup(block_cache', q) = block_cache'[set_index(q)][w].host_code
             /\ Hits(block_cache'[set_index(q)], q) = {}
                   => block_cache_lookup(block_cache', q) = NULL
  <2>1. set_index(q) \in SetIds
    BY IndexTypes
  <2>2. \A v, w \in WayIds :
            v \in Hits(block_cache'[set_index(q)], q) /\ w \in Hits(block_cache'[set_index(q)], q)
            => v = w
    BY <2>1, <1>4, <1>6 DEF CacheInv, WellFormed, NoDuplicate
  <2> QED
    BY <2>2, LookupIsUnique
<1>10. lost \in Pc
  OBVIOUS
<1>11. block_cache_lookup(block_cache', pc) = h
  <2>1. t \in Hits(block_cache'[set_index(pc)], pc)
    BY <1>1, <1>2, <1>3, <1>6
  <2> QED
    BY <1>1, <1>2, <1>3, <1>9, <2>1
<1> HIDE DEF t, e
<1>12. ASSUME NEW q \in Pc, q # pc, q = lost
       PROVE  block_cache_lookup(block_cache', q) = NULL
  <2>1. block_cache[s0][t].host_code # NULL /\ block_cache[s0][t].guest_address = q
    BY <1>12
  <2>2. set_index(q) = s0
    BY <1>1, <2>1 DEF CacheInv, WellFormed, InItsSet
  <2>3. ASSUME NEW w \in Hits(block_cache'[set_index(q)], q) PROVE FALSE
    <3>1. /\ w \in WayIds /\ block_cache'[s0][w].guest_address = q
          /\ block_cache'[s0][w].host_code # NULL
      BY <1>6, <1>7, <2>2
    <3>2. w # t
      BY <3>1, <1>1, <1>2, <1>3, <1>12
    <3>3. block_cache[s0][w].guest_address = q /\ block_cache[s0][w].host_code # NULL
      BY <3>1, <3>2, <1>1, <1>2
    <3> QED
      BY <3>1, <3>2, <3>3, <2>1, <1>1 DEF CacheInv, WellFormed, NoDuplicate
  <2> QED
    BY <2>3, <1>9
<1>13. ASSUME NEW q \in Pc, q # pc, q # lost
       PROVE  block_cache_lookup(block_cache', q) = block_cache_lookup(block_cache, q)
  <2>1. set_index(q) \in SetIds
    BY IndexTypes
  <2>2. \A w \in WayIds :
            /\ w \in Hits(block_cache'[set_index(q)], q)
               <=> w \in Hits(block_cache[set_index(q)], q)
            /\ w \in Hits(block_cache[set_index(q)], q)
               => block_cache'[set_index(q)][w] = block_cache[set_index(q)][w]
    <3> SUFFICES ASSUME NEW w \in WayIds
                 PROVE  /\ w \in Hits(block_cache'[set_index(q)], q)
                           <=> w \in Hits(block_cache[set_index(q)], q)
                        /\ w \in Hits(block_cache[set_index(q)], q)
                           => block_cache'[set_index(q)][w] = block_cache[set_index(q)][w]
      OBVIOUS
    <3>1. CASE set_index(q) = s0 /\ w = t
      <4>1. w \notin Hits(block_cache'[set_index(q)], q)
        BY <3>1, <1>1, <1>2, <1>3, <1>6, <1>13
      <4>2. w \notin Hits(block_cache[set_index(q)], q)
        BY <3>1, <1>5, <1>13
      <4> QED
        BY <4>1, <4>2
    <3>2. CASE ~(set_index(q) = s0 /\ w = t)
      <4>1. block_cache'[set_index(q)][w] = block_cache[set_index(q)][w]
        BY <3>2, <2>1, <1>2
      <4> QED
        BY <4>1, <1>5, <1>6
    <3> QED
      BY <3>1, <3>2
  <2>3. CASE Hits(block_cache[set_index(q)], q) = {}
    <3>1. Hits(block_cache'[set_index(q)], q) = {}
      BY <2>2, <2>3, <1>7
    <3> QED
      BY <2>3, <3>1, <1>8, <1>9
  <2>4. CASE Hits(block_cache[set_index(q)], q) # {}
    <3>1. PICK w \in Hits(block_cache[set_index(q)], q) : TRUE
      BY <2>4
    <3>2. w \in WayIds /\ w \in Hits(block_cache'[set_index(q)], q)
      BY <3>1, <1>7, <2>2
    <3> QED
      BY <3>1, <3>2, <2>2, <1>8, <1>9
  <2> QED
    BY <2>3, <2>4
<1> HIDE DEF lost
<1> QED
  BY <1>10, <1>11, <1>12, <1>13 DEF Map!Insert

\* The zeroed cache answers every lookup with NULL.
LEMMA EmptySeen ==
    ASSUME NEW pc \in Pc
    PROVE  block_cache_lookup(EmptyCache, pc) = NULL
<1>1. set_index(pc) \in SetIds
  BY IndexTypes
<1>2. \A w \in WayIds : EmptyCache[set_index(pc)][w] = EmptyEntry
  BY <1>1 DEF EmptyCache
<1>3. EmptyEntry.host_code = NULL
  BY DEF EmptyEntry
<1>4. Hits(EmptyCache[set_index(pc)], pc) = {}
  BY <1>2, <1>3 DEF Hits, Tagged, Free
<1> QED
  BY <1>4 DEF block_cache_lookup

\* The set-associative cache of bal_engine.c implements the lossy map BlockMap:
\* whatever is inserted, evicted or cleared, a lookup returns the code last
\* inserted for its address or nothing, and one insertion forgets at most one
\* other address.
THEOREM CacheNeverLies == CacheSpec => NeverLies
<1>1. CacheInit => Map!Init
  BY EmptySeen DEF CacheInit, Map!Init
<1>2. CacheInv /\ [CacheNext]_block_cache =>
          [Map!Next]_[pc \in Pc |-> block_cache_lookup(block_cache, pc)]
  <2> SUFFICES ASSUME CacheInv, [CacheNext]_block_cache
               PROVE  Map!Next \/ UNCHANGED [pc \in Pc |-> block_cache_lookup(block_cache, pc)]
    OBVIOUS
  <2>1. CASE \E pc \in Pc, h \in Code : Insert(pc, h)
    BY <2>1, InsertSeen DEF Map!Next
  <2>2. CASE Clear
    BY <2>2, EmptySeen DEF Clear, Map!Next, Map!Clear
  <2>3. CASE UNCHANGED block_cache
    BY <2>3
  <2> QED
    BY <2>1, <2>2, <2>3 DEF CacheNext
<1>3. CacheSpec => []CacheInv
  BY CacheWellFormed, PTL DEF CacheInv
<1>4. CacheInv => SameOperation
  <2> SUFFICES ASSUME CacheInv PROVE SameOperation
    OBVIOUS
  <2>1. ASSUME NEW pc \in Pc, NEW host_code \in Code, Insert(pc, host_code)
        PROVE  Map!Insert(pc, host_code)
    BY <2>1, InsertSeen
  <2>2. Clear => Map!Clear
    BY EmptySeen DEF Clear, Map!Clear
  <2> QED
    BY <2>1, <2>2 DEF SameOperation
<1> QED
  BY <1>1, <1>2, <1>3, <1>4, PTL DEF CacheSpec, NeverLies, Map!Spec

-----------------------------------------------------------------------------
\* In the program's geometry the eviction bits are bits 2 and 3 of the set
\* index.
LEMMA EvictWayOfSet ==
    ASSUME BLOCK_CACHE_SETS = 4096, BLOCK_CACHE_WAYS = 4, NEW pc \in Pc
    PROVE  evict_way(pc) = (set_index(pc) \div 4) % BLOCK_CACHE_WAYS
<1>1. pc \in Nat
  BY PcAssumption
<1>2. \A p \in Nat : (p \div 16) % 4 = (((p \div 4) % 4096) \div 4) % 4
  BY Z3
<1> QED
  BY <1>1, <1>2 DEF evict_way, set_index

\* With 4096 sets of 4 ways, as in the program, three ways of a full set keep
\* their addresses until the cache is cleared: every eviction hits the fourth.
THEOREM FullSetsArePinned ==
    ASSUME BLOCK_CACHE_SETS = 4096, BLOCK_CACHE_WAYS = 4
    PROVE  CacheSpec => PinnedWays
<1>1. CacheInv /\ [CacheNext]_block_cache =>
          [\A s \in SetIds :
              Full(s) /\ ~Clear =>
                \A w \in WayIds :
                    w # (s \div 4) % BLOCK_CACHE_WAYS =>
                        block_cache'[s][w].guest_address = block_cache[s][w].guest_address
          ]_block_cache
  <2> SUFFICES ASSUME CacheInv, [CacheNext]_block_cache, NEW s \in SetIds, Full(s), ~Clear,
                      NEW w \in WayIds, w # (s \div 4) % BLOCK_CACHE_WAYS,
                      block_cache' # block_cache
               PROVE  block_cache'[s][w].guest_address = block_cache[s][w].guest_address
    OBVIOUS
  <2>1. PICK pc \in Pc, h \in Code : Insert(pc, h)
    BY DEF CacheNext
  <2>2. block_cache'[s][w] = IF s = set_index(pc) /\ w = TargetWay(block_cache[s], pc)
                       THEN [guest_address |-> pc, host_code |-> h]
                       ELSE block_cache[s][w]
    BY <2>1, InsertWrites DEF CacheInv
  <2>3. CASE s = set_index(pc) /\ w = TargetWay(block_cache[s], pc)
    <3>1. w # evict_way(pc)
      BY <2>3, EvictWayOfSet
    <3>2. Tagged(block_cache[s], pc) # {}
      BY <2>3, <3>1 DEF TargetWay, Full
    <3>3. w \in Tagged(block_cache[s], pc)
      <4>1. Tagged(block_cache[s], pc) \in SUBSET WayIds
        BY DEF Tagged
      <4> QED
        BY <2>3, <3>2, <4>1, FirstIsLeast DEF TargetWay
    <3>4. block_cache[s][w].guest_address = pc
      BY <3>3 DEF Tagged
    <3> QED
      BY <2>2, <2>3, <3>4
  <2>4. CASE ~(s = set_index(pc) /\ w = TargetWay(block_cache[s], pc))
    BY <2>2, <2>4
  <2> QED
    BY <2>3, <2>4
<1>2. CacheSpec => []CacheInv
  BY CacheWellFormed, PTL DEF CacheInv
<1> QED
  BY <1>1, <1>2, PTL DEF CacheSpec, PinnedWays

-----------------------------------------------------------------------------
(* The assembler and the compiler.                                         *)

\* The engine's host code pointers are offsets, and NULL is none of them.
LEMMA CodePointers == Code = Offset /\ NULL \notin Offset
BY BufferAssumption, CodeAssumption

\* EmitAll is the fold FoldTheorems speaks of.
LEMMA EmitAllIsFold ==
    ASSUME NEW a, NEW is
    PROVE  EmitAll(a, is) = EmitLoop!Fold(a, is)
BY DEF EmitAll, EmitLoop!Fold, FoldLeft, EmitLoop!FoldLeft, MapThenFoldSet,
       EmitLoop!MapThenFoldSet, Max, EmitLoop!Max

\* The same of the flush of several macros.
LEMMA FlushMacrosIsFold ==
    ASSUME NEW a, NEW ms
    PROVE  FlushMacros(a, ms) = FlushLoop!Fold(a, ms)
BY DEF FlushMacros, FlushLoop!Fold, FoldLeft, FlushLoop!FoldLeft, MapThenFoldSet,
       FlushLoop!MapThenFoldSet, Max, FlushLoop!Max

\* An emit call stays in the buffer's range, never moves back, and when it
\* succeeds it moves on and found no error.
LEMMA EmitMoves ==
    ASSUME NEW a \in Assembler, NEW i \in X86!Instr, NEW valid \in BOOLEAN
    PROVE  LET e == X86!Emit(a, i, valid)
           IN  /\ e \in Assembler
               /\ e.offset >= a.offset
               /\ e.status = SUCCESS => a.status = SUCCESS /\ e.offset > a.offset
<1> DEFINE e == X86!Emit(a, i, valid)
           c == X86!CheckedSize(i)
           n == X86!EmittedSize(i)
<1> SUFFICES /\ e \in Assembler
             /\ e.offset >= a.offset
             /\ e.status = SUCCESS => a.status = SUCCESS /\ e.offset > a.offset
  OBVIOUS
<1>1. i.op \in X86!Op /\ i.hi \in BOOLEAN /\ i.long \in BOOLEAN
  BY DEF X86!Instr
<1>2. c \in Nat \ {0} /\ n \in {c, c + 1}
  <2>1. X86!CheckedSize(i) \in Nat \ {0}
    BY <1>1 DEF X86!CheckedSize, X86!Op, X86!PushPop, X86!RegReg, X86!AluImm, X86!Shift,
                X86!Disp32
  <2>2. X86!EmittedSize(i) \in {X86!CheckedSize(i), X86!CheckedSize(i) + 1}
    BY DEF X86!EmittedSize
  <2> QED
    BY <2>1, <2>2
<1> HIDE DEF c, n
<1>3. /\ a.offset \in Nat /\ a.offset <= capacity + 1 /\ capacity \in Nat
      /\ a.status \in X86!AsmStatus
  BY BufferAssumption DEF Assembler, Offset
<1>4. /\ X86!INVALID_ARGUMENT \in X86!AsmStatus /\ X86!INSTRUCTION_OVERFLOW \in X86!AsmStatus
      /\ X86!INVALID_ARGUMENT # SUCCESS /\ X86!INSTRUCTION_OVERFLOW # SUCCESS
  BY DEF X86!AsmStatus, SUCCESS, X86!SUCCESS, X86!INVALID_ARGUMENT, X86!INSTRUCTION_OVERFLOW
<1>5. \/ a.status # SUCCESS /\ e = a
      \/ e = [a EXCEPT !.status = X86!INVALID_ARGUMENT]
      \/ e = [a EXCEPT !.status = X86!INSTRUCTION_OVERFLOW]
      \/ a.status = SUCCESS /\ a.offset + c <= capacity
         /\ e = [a EXCEPT !.offset = a.offset + n]
  BY DEF X86!Emit, X86!can_emit, SUCCESS, c, n
<1> HIDE DEF e
<1>6. CASE a.status # SUCCESS /\ e = a
  BY <1>3, <1>6
<1>7. ASSUME NEW st \in {X86!INVALID_ARGUMENT, X86!INSTRUCTION_OVERFLOW},
             e = [a EXCEPT !.status = st]
      PROVE  e \in Assembler /\ e.offset >= a.offset /\ e.status # SUCCESS
  BY <1>3, <1>4, <1>7 DEF Assembler
<1>8. CASE a.status = SUCCESS /\ a.offset + c <= capacity
           /\ e = [a EXCEPT !.offset = a.offset + n]
  <2>1. a.offset + n \in Offset /\ a.offset + n > a.offset /\ a.offset + n >= a.offset
    BY <1>2, <1>3, <1>8 DEF Offset
  <2> QED
    BY <1>3, <1>8, <2>1 DEF Assembler
<1>9. CASE e = [a EXCEPT !.status = X86!INVALID_ARGUMENT]
  BY <1>7, <1>9
<1>10. CASE e = [a EXCEPT !.status = X86!INSTRUCTION_OVERFLOW]
  BY <1>7, <1>10
<1> QED
  BY <1>5, <1>6, <1>8, <1>9, <1>10

\* The same for several calls.
LEMMA EmitAllMoves ==
    ASSUME NEW a \in Assembler, NEW is \in Seq(X86!Instr)
    PROVE  /\ EmitAll(a, is) \in Assembler
           /\ EmitAll(a, is).offset >= a.offset
           /\ is # <<>> /\ EmitAll(a, is).status = SUCCESS => EmitAll(a, is).offset > a.offset
<1> DEFINE I == {x \in Assembler : x.offset >= a.offset}
<1>1. \A x \in Assembler : x.offset \in Nat
  BY BufferAssumption DEF Assembler, Offset
<1>2. a \in I
  BY <1>1
<1>3. \A x \in I, i \in X86!Instr : EmitValid(x, i) \in I
  <2> SUFFICES ASSUME NEW x \in I, NEW i \in X86!Instr PROVE EmitValid(x, i) \in I
    OBVIOUS
  <2>1. EmitValid(x, i) \in Assembler /\ EmitValid(x, i).offset >= x.offset
    BY EmitMoves DEF EmitValid
  <2>2. x.offset >= a.offset /\ x.offset \in Nat /\ a.offset \in Nat
        /\ EmitValid(x, i).offset \in Nat
    BY <1>1, <2>1
  <2> QED
    BY <2>1, <2>2
<1>4. EmitAll(a, is) \in I
  <2> HIDE DEF I
  <2> QED
    BY <1>2, <1>3, EmitLoop!FoldInvariant, EmitAllIsFold
<1>5. ASSUME is # <<>>, EmitAll(a, is).status = SUCCESS
      PROVE  EmitAll(a, is).offset > a.offset
  <2> DEFINE n == Len(is) - 1
             front == EmitLoop!Prefix(is, n)
             x == EmitLoop!Fold(a, front)
  <2>1. n \in Nat /\ n + 1 = Len(is) /\ is[n + 1] \in X86!Instr
    BY <1>5
  <2>2. EmitLoop!Prefix(is, n + 1) = is /\ front \in Seq(X86!Instr)
    BY <2>1 DEF EmitLoop!Prefix
  <2> HIDE DEF n
  <2>3. EmitAll(a, is) = EmitValid(x, is[n + 1])
    BY <2>1, <2>2, EmitLoop!FoldPrefix, EmitAllIsFold
  <2>4. x \in I
    <3> HIDE DEF I, front
    <3> QED
      BY <1>2, <1>3, <2>2, EmitLoop!FoldInvariant
  <2> HIDE DEF x
  <2>5. EmitValid(x, is[n + 1]).offset > x.offset /\ EmitValid(x, is[n + 1]) \in Assembler
    BY <1>5, <2>1, <2>3, <2>4, EmitMoves DEF EmitValid
  <2>6. x.offset >= a.offset /\ x.offset \in Nat /\ a.offset \in Nat
        /\ EmitValid(x, is[n + 1]).offset \in Nat
    BY <1>1, <2>4, <2>5
  <2> QED
    BY <2>3, <2>5, <2>6
<1> QED
  BY <1>4, <1>5

\* flush_single_macro for every macro of a list.
LEMMA FlushMacrosMove ==
    ASSUME NEW a \in Assembler, NEW ms \in Seq(Macro)
    PROVE  /\ FlushMacros(a, ms) \in Assembler
           /\ FlushMacros(a, ms).offset >= a.offset
<1> DEFINE I == {x \in Assembler : x.offset >= a.offset}
<1>1. \A x \in Assembler : x.offset \in Nat
  BY BufferAssumption DEF Assembler, Offset
<1>2. a \in I
  BY <1>1
<1>3. \A x \in I, m \in Macro : FlushMacro(x, m) \in I
  <2> SUFFICES ASSUME NEW x \in I, NEW m \in Macro PROVE FlushMacro(x, m) \in I
    OBVIOUS
  <2>1. EmitAll(x, m) \in Assembler /\ EmitAll(x, m).offset >= x.offset
    BY EmitAllMoves DEF Macro
  <2>2. x.offset >= a.offset /\ x.offset \in Nat /\ a.offset \in Nat
        /\ EmitAll(x, m).offset \in Nat
    BY <1>1, <2>1
  <2> QED
    BY <2>1, <2>2 DEF FlushMacro
<1>4. FlushLoop!Fold(a, ms) \in I
  <2> HIDE DEF I
  <2> QED
    BY <1>2, <1>3, FlushLoop!FoldInvariant
<1>5. FlushMacros(a, ms) = FlushLoop!Fold(a, ms)
  BY FlushMacrosIsFold
<1> QED
  BY <1>4, <1>5

\* The fixed parts of a block are emit calls the assembler has.
LEMMA FixedParts ==
    /\ Prologue \in Seq(X86!Instr)
    /\ \A dynamic \in BOOLEAN :
           Epilogue(dynamic) \in Seq(X86!Instr) /\ Epilogue(dynamic) # <<>>
    /\ X86!Low("mov_r64_imm64") \in X86!Instr
    /\ <<X86!Low("ud2")>> \in Macro
<1>1. \A op \in X86!Op : X86!Low(op) \in X86!Instr /\ X86!High(op) \in X86!Instr
  BY Zenon DEF X86!Low, X86!High, X86!Instr
<1>2. {"push_r64", "pop_r64", "mov_r64_r64", "mov_r64_imm64", "store_r64_rbp_offset",
       "ret", "ud2"} \subseteq X86!Op
  BY DEF X86!Op, X86!PushPop, X86!RegReg, X86!Disp32
<1>3. Prologue \in Seq(X86!Instr)
  BY <1>1, <1>2 DEF Prologue
<1>4. ASSUME NEW dynamic \in BOOLEAN
      PROVE  Epilogue(dynamic) \in Seq(X86!Instr) /\ Epilogue(dynamic) # <<>>
  <2> DEFINE head == IF dynamic THEN <<>>
                     ELSE <<X86!Low("mov_r64_imm64"), X86!Low("store_r64_rbp_offset")>>
             tail == <<X86!High("pop_r64"), X86!High("pop_r64"), X86!High("pop_r64"),
                       X86!High("pop_r64"), X86!Low("pop_r64"), X86!Low("ret")>>
  <2>1. head \in Seq(X86!Instr) /\ tail \in Seq(X86!Instr) /\ Len(tail) = 6
    BY <1>1, <1>2
  <2>2. Epilogue(dynamic) = head \o tail
    BY DEF Epilogue
  <2> HIDE DEF head, tail
  <2>3. head \o tail \in Seq(X86!Instr) /\ Len(head \o tail) = Len(head) + 6
        /\ Len(head) \in Nat
    <3>1. \A S : \A u, v \in Seq(S) : u \o v \in Seq(S) /\ Len(u \o v) = Len(u) + Len(v)
                                     /\ Len(u) \in Nat
      OBVIOUS
    <3> QED
      BY <2>1, <3>1
  <2> QED
    BY <2>2, <2>3
<1> QED
  BY <1>1, <1>2, <1>3, <1>4 DEF Macro

\* bal_tier1_compiler_translate leaves the assembler and its status in their
\* types, and returns an entry point only for code that stands in the buffer
\* behind everything that was there.
LEMMA TranslateTyped ==
    ASSUME NEW a \in Assembler, NEW error \in Status, NEW b \in GuestBlock,
           b.kind # "undecodable"
    PROVE  LET t == Translate(a, error, b)
           IN  /\ t.asm \in Assembler /\ t.status \in Status
               /\ t.asm.offset >= a.offset
               /\ t.entry # NULL => t.entry = a.offset /\ t.asm.offset > a.offset
<1> DEFINE start == EmitAll(a, Prologue)
           loop == Loop(start, error, b)
           mid == FlushMacros(loop.asm, loop.late)
           end == EmitAll(mid, Epilogue(b.is_pc_dynamic))
           t == Translate(a, error, b)
<1>1. \A x \in Assembler : x.offset \in Nat
  BY BufferAssumption DEF Assembler, Offset
<1>2. /\ b.kind \in {"code", "trap", "unmapped"} /\ b.early \in Seq(Macro)
      /\ b.late \in Seq(Macro) /\ b.is_pc_dynamic \in BOOLEAN
  BY DEF GuestBlock
<1>3. start \in Assembler /\ start.offset >= a.offset
  BY EmitAllMoves, FixedParts
<1> HIDE DEF start
<1>4. /\ loop.asm \in Assembler /\ loop.asm.offset >= start.offset
      /\ loop.status \in Status /\ loop.late \in Seq(Macro)
  <2>1. <<>> \in Seq(Macro) /\ << <<X86!Low("ud2")>> >> \in Seq(Macro)
    BY FixedParts
  <2>2. start.offset >= start.offset
    BY <1>1, <1>3
  <2>3. CASE b.kind = "unmapped"
    <3>1. loop = [asm |-> start, status |-> MEMORY_FAULT, late |-> <<>>]
      BY <2>3 DEF Loop
    <3> QED
      BY <1>3, <2>1, <2>2, <3>1 DEF Status
  <2>4. CASE b.kind = "trap"
    <3>1. loop = [asm |-> start, status |-> UNKNOWN_INSTRUCTION,
                  late |-> << <<X86!Low("ud2")>> >>]
      BY <2>4 DEF Loop
    <3> QED
      BY <1>3, <2>1, <2>2, <3>1 DEF Status
  <2>5. CASE b.kind = "code" /\ error # SUCCESS
    <3> DEFINE bad == X86!Emit(start, X86!Low("mov_r64_imm64"), FALSE)
               next == IF b.allocates /\ start.status = SUCCESS THEN bad ELSE start
    <3>1. loop = [asm |-> next, status |-> error, late |-> <<>>]
      BY <2>5 DEF Loop
    <3>2. bad \in Assembler /\ bad.offset >= start.offset
      BY <1>3, FixedParts, EmitMoves
    <3>3. next \in Assembler /\ next.offset >= start.offset
      BY <1>3, <2>2, <3>2
    <3> HIDE DEF next
    <3> QED
      BY <2>1, <3>1, <3>3
  <2>6. CASE b.kind = "code" /\ error = SUCCESS
    <3> DEFINE done == FlushMacros(start, b.early)
    <3>1. loop = [asm |-> done, status |-> done.status, late |-> b.late]
      BY <2>6 DEF Loop
    <3>2. done \in Assembler /\ done.offset >= start.offset
      BY <1>2, <1>3, FlushMacrosMove
    <3>3. done.status \in Status
      BY <3>2 DEF Assembler, Status
    <3> HIDE DEF done
    <3> QED
      BY <1>2, <3>1, <3>2, <3>3
  <2> QED
    BY <1>2, <2>3, <2>4, <2>5, <2>6
<1> HIDE DEF loop
<1>5. mid \in Assembler /\ mid.offset >= loop.asm.offset
  BY <1>4, FlushMacrosMove
<1> HIDE DEF mid
<1>6. /\ end \in Assembler /\ end.offset >= mid.offset
      /\ end.status = SUCCESS => end.offset > mid.offset
  BY <1>2, <1>5, FixedParts, EmitAllMoves
<1> HIDE DEF end
<1>7. end.offset >= a.offset /\ (end.status = SUCCESS => end.offset > a.offset)
  BY <1>1, <1>3, <1>4, <1>5, <1>6
<1>8. t = [asm |-> end, status |-> loop.status,
           entry |-> IF loop.status = SUCCESS /\ end.status = SUCCESS
                     THEN a.offset ELSE NULL]
  BY DEF Translate, end, mid, loop, start
<1> HIDE DEF t
<1>9. /\ t.asm \in Assembler /\ t.status \in Status
      /\ t.asm.offset >= a.offset
      /\ t.entry # NULL => t.entry = a.offset /\ t.asm.offset > a.offset
  BY <1>4, <1>6, <1>7, <1>8
<1> QED
  BY <1>9 DEF t

\* The guest block that is compiled is a guest block, whatever the flags.
LEMMA SourceTyped ==
    ASSUME cpu_pc \in Pc
    PROVE  SourceBlock \in GuestBlock
<1>1. Guest[cpu_pc] \in GuestBlock
  BY GuestAssumption
<1>2. FirstOnly(cpu_pc) \in GuestBlock
  <2> DEFINE b == Guest[cpu_pc]
  <2>1. b \in GuestBlock
    BY <1>1
  <2> HIDE DEF b
  <2>2. [b EXCEPT !.next = {cpu_pc}, !.early = <<>>, !.late = b.first,
                  !.is_pc_dynamic = FALSE] \in GuestBlock
    <3>1. ASSUME NEW x \in GuestBlock
          PROVE  /\ [x EXCEPT !.next = {cpu_pc}] \in GuestBlock
                 /\ [x EXCEPT !.early = <<>>] \in GuestBlock
                 /\ \A l \in Seq(Macro) : [x EXCEPT !.late = l] \in GuestBlock
                 /\ \A d \in BOOLEAN : [x EXCEPT !.is_pc_dynamic = d] \in GuestBlock
      <4>1. {cpu_pc} \in SUBSET (Pc \union {SENTINEL}) /\ <<>> \in Seq(Macro)
        OBVIOUS
      <4>2. \A n \in SUBSET (Pc \union {SENTINEL}) : [x EXCEPT !.next = n] \in GuestBlock
        BY DEF GuestBlock
      <4>3. \A l \in Seq(Macro) : [x EXCEPT !.early = l] \in GuestBlock
        BY DEF GuestBlock
      <4>4. \A l \in Seq(Macro) : [x EXCEPT !.late = l] \in GuestBlock
        BY DEF GuestBlock
      <4>5. \A d \in BOOLEAN : [x EXCEPT !.is_pc_dynamic = d] \in GuestBlock
        BY DEF GuestBlock
      <4> QED
        BY <4>1, <4>2, <4>3, <4>4, <4>5
    <3>2. b.first \in Seq(Macro) /\ FALSE \in BOOLEAN
      BY <2>1 DEF GuestBlock
    <3> DEFINE b1 == [b EXCEPT !.next = {cpu_pc}]
               b2 == [b1 EXCEPT !.early = <<>>]
               b3 == [b2 EXCEPT !.late = b.first]
               b4 == [b3 EXCEPT !.is_pc_dynamic = FALSE]
    <3>3. b1 \in GuestBlock
      BY <2>1, <3>1
    <3>4. b2 \in GuestBlock
      <4> HIDE DEF b1
      <4> QED
        BY <3>1, <3>3
    <3>5. b3 \in GuestBlock
      <4> HIDE DEF b2
      <4> QED
        BY <3>1, <3>2, <3>4
    <3>6. b4 \in GuestBlock
      <4> HIDE DEF b3
      <4> QED
        BY <3>1, <3>2, <3>5, Zenon
    <3> QED
      BY <3>6, Zenon
  <2> QED
    BY <2>1, <2>2 DEF FirstOnly, b
<1> QED
  BY <1>1, <1>2 DEF SourceBlock

-----------------------------------------------------------------------------
(* The block cache, as the engine uses it.                                 *)

\* The insertion after a compilation or a hit writes one entry.
LEMMA PublishWrites ==
    ASSUME CacheTypeOK, cpu_pc \in Pc, entry_point \in Offset,
           block_cache' = block_cache_insert(block_cache, cpu_pc, entry_point)
    PROVE  /\ CacheTypeOK'
           /\ \A s \in SetIds, w \in WayIds :
                 \/ block_cache'[s][w] = block_cache[s][w]
                 \/ block_cache'[s][w] =
                       [guest_address |-> cpu_pc, host_code |-> entry_point]
<1>1. Insert(cpu_pc, entry_point) /\ Code = Offset
  BY CodePointers DEF Insert
<1>2. /\ CacheTypeOK'
      /\ \A s \in SetIds, w \in WayIds :
            block_cache'[s][w] =
               IF s = set_index(cpu_pc) /\ w = TargetWay(block_cache[s], cpu_pc)
               THEN [guest_address |-> cpu_pc, host_code |-> entry_point]
               ELSE block_cache[s][w]
  BY <1>1, InsertWrites
<1> QED
  BY <1>2

\* An emptied cache has its type and no filled entry.
LEMMA EmptyCacheTyped ==
    /\ EmptyCache \in [SetIds -> [WayIds -> Entry]]
    /\ \A s \in SetIds, w \in WayIds : EmptyCache[s][w].host_code = NULL
BY DEF EmptyCache, EmptyEntry, Entry

\* A lookup returns NULL or the code of an entry for the address.
LEMMA LookupFinds ==
    ASSUME CacheTypeOK, NEW pc \in Pc, block_cache_lookup(block_cache, pc) # NULL
    PROVE  \E s \in SetIds, w \in WayIds :
               /\ block_cache[s][w].guest_address = pc
               /\ block_cache[s][w].host_code = block_cache_lookup(block_cache, pc)
<1> DEFINE s == set_index(pc)
           hits == Hits(block_cache[s], pc)
           w == First(hits)
<1>1. s \in SetIds
  BY IndexTypes
<1>2. hits # {} /\ block_cache_lookup(block_cache, pc) = block_cache[s][w].host_code
  BY DEF block_cache_lookup
<1>3. hits \in SUBSET WayIds
  BY DEF Hits, Tagged
<1>4. w \in hits
  <2> HIDE DEF hits
  <2> QED
    BY <1>2, <1>3, FirstIsLeast
<1>5. block_cache[s][w].guest_address = pc /\ w \in WayIds
  BY <1>4 DEF Hits, Tagged
<1> QED
  BY <1>1, <1>2, <1>5

-----------------------------------------------------------------------------
(* Types, and where the blocks stand.                                      *)

\* The blocks in the buffer are blocks of the guest, and where one is compiled,
\* published or called the PC is an address of the guest.
Typed ==
    /\ TypeOK
    /\ jit \subseteq Block
    /\ guest_version \in Nat
    /\ label \in {"compile", "publish", "execute"} => cpu_pc \in Pc

\* Blocks stand one behind the other, below the position of the next one.
Apart(blocks, a) ==
    /\ \A b \in blocks : b.at < a.offset
    /\ \A b, d \in blocks : b.at = d.at => b = d

Placed == Typed /\ Apart(jit, asm)

\* TypeOK, with the definitions a step needs expanded.
LEMMA TypeFacts ==
    ASSUME Typed
    PROVE  /\ label \in Labels
           /\ is_executing \in BOOLEAN /\ stop_requested \in BOOLEAN
           /\ clear_cache_requested \in BOOLEAN
           /\ flags \subseteq Flags /\ flags_read \subseteq Flags
           /\ status \in Status /\ compiler_status \in Status
           /\ asm \in Assembler
           /\ block_cache \in [SetIds -> [WayIds -> Entry]]
           /\ cpu_pc \in Pc \union {SENTINEL}
           /\ entry_point \in Offset \union {NULL}
           /\ label \in {"publish", "execute"} => entry_point \in Offset /\ cpu_pc \in Pc
           /\ returned \in Status \union {"none", ALREADY_RUNNING}
BY DEF Typed, TypeOK, CacheTypeOK, Assembler

\* A compilation that starts from assembler a, with the blocks kept below it,
\* leaves blocks that stand apart.
LEMMA CompileTyped ==
    ASSUME Placed, label = "compile", SourceBlock.kind # "undecodable",
           NEW a \in Assembler, NEW error \in Status, NEW kept \in SUBSET Block,
           Apart(kept, a), NEW t, t = Translate(a, error, SourceBlock),
           Compiled(kept, t) \/ CompileError(kept, t), UNCHANGED_by_compile
    PROVE  Placed'
<1>1. cpu_pc \in Pc /\ guest_version \in Nat
  BY DEF Placed, Typed
<1>2. SourceBlock \in GuestBlock
  BY <1>1, SourceTyped
<1>3. /\ t.asm \in Assembler /\ t.status \in Status
      /\ t.asm.offset >= a.offset
      /\ t.entry # NULL => t.entry = a.offset /\ t.asm.offset > a.offset
  BY <1>2, TranslateTyped
<1>4. /\ a.offset \in Offset /\ a.offset \in Nat /\ t.asm.offset \in Nat
      /\ \A b \in Block : b.at \in Nat
  BY <1>3, BufferAssumption DEF Assembler, Offset, Block
<1>5. /\ controls' = controls /\ flags' = flags /\ flags_read' = flags_read
      /\ block_cache' = block_cache /\ cpu_pc' = cpu_pc /\ returned' = returned
      /\ guest_version' = guest_version
  BY DEF UNCHANGED_by_compile, guest
<1>6. CASE Compiled(kept, t)
  <2> DEFINE new == [at |-> t.entry, pc |-> cpu_pc, next |-> SourceBlock.next,
                     ver |-> guest_version]
  <2>1. /\ t.entry = a.offset /\ t.asm.offset > a.offset
        /\ asm' = t.asm /\ compiler_status' = t.status /\ entry_point' = t.entry
        /\ jit' = kept \union {new} /\ label' = "publish" /\ status' = status
    BY <1>3, <1>6 DEF Compiled
  <2>2. new \in Block /\ new.at = a.offset
    BY <1>1, <1>2, <1>4, <2>1 DEF Block, GuestBlock
  <2> HIDE DEF new
  <2>3. Apart(jit', asm')
    <3>1. \A b \in kept : b.at < a.offset /\ b.at \in Nat
      BY <1>4 DEF Apart
    <3>2. \A b \in jit' : b.at < asm'.offset
      BY <1>4, <2>1, <2>2, <3>1
    <3>3. \A b, d \in jit' : b.at = d.at => b = d
      BY <1>4, <2>1, <2>2, <3>1 DEF Apart
    <3> QED
      BY <3>2, <3>3 DEF Apart
  <2>4. TypeOK'
    BY <1>3, <1>4, <1>5, <2>1, TypeFacts, CodePointers, SentinelAssumption
       DEF Placed, TypeOK, CacheTypeOK, Assembler, Labels, controls
  <2> QED
    BY <1>1, <1>5, <2>1, <2>2, <2>3, <2>4 DEF Placed, Typed
<1>7. CASE CompileError(kept, t)
  <2>1. /\ asm' = t.asm /\ compiler_status' = t.status /\ entry_point' = NULL
        /\ jit' = kept /\ label' = "leave" /\ status' = t.status
    BY <1>7 DEF CompileError, Leave
  <2>2. \A b \in kept : b.at < asm'.offset
    <3>1. \A b \in kept : b.at < a.offset /\ b.at \in Nat
      BY <1>4 DEF Apart
    <3> QED
      BY <1>3, <1>4, <2>1, <3>1
  <2>3. Apart(jit', asm')
    BY <2>1, <2>2 DEF Apart
  <2>4. TypeOK'
    BY <1>3, <1>4, <1>5, <2>1, TypeFacts
       DEF Placed, TypeOK, CacheTypeOK, Assembler, Labels, controls
  <2> QED
    BY <1>1, <1>5, <2>1, <2>3, <2>4 DEF Placed, Typed
<1> QED
  BY <1>6, <1>7

\* A step that leaves the compiler alone keeps Placed if it keeps the types of
\* what it changes.
LEMMA Elsewhere ==
    ASSUME Placed, UNCHANGED compiler, TypeOK', guest_version' \in Nat,
           label' \in {"compile", "publish", "execute"} => cpu_pc' \in Pc
    PROVE  Placed'
BY DEF Placed, Typed, Apart, compiler

\* Every step keeps Placed.
LEMMA PlacedStep ==
    ASSUME Placed, [Next]_vars
    PROVE  Placed'
<1> USE DEF Goto, Leave, Labels, controls, compiler, guest, outcome
<1>1. /\ Typed /\ guest_version \in Nat /\ jit \subseteq Block /\ Apart(jit, asm)
      /\ label \in {"compile", "publish", "execute"} => cpu_pc \in Pc
  BY DEF Placed, Typed
<1> DEFINE
      T == /\ label \in Labels
           /\ is_executing \in BOOLEAN /\ stop_requested \in BOOLEAN
           /\ clear_cache_requested \in BOOLEAN
           /\ flags \subseteq Flags /\ flags_read \subseteq Flags
           /\ status \in Status /\ compiler_status \in Status
           /\ asm \in Assembler
           /\ block_cache \in [SetIds -> [WayIds -> Entry]]
           /\ cpu_pc \in Pc \union {SENTINEL}
           /\ entry_point \in Offset \union {NULL}
           /\ label \in {"publish", "execute"} => entry_point # NULL
           /\ returned \in Status \union {"none", ALREADY_RUNNING}
<1>2. T
  BY <1>1, TypeFacts, CodePointers, SentinelAssumption
<1>3. T' => TypeOK'
  BY DEF TypeOK, CacheTypeOK, Assembler
<1>4. SUCCESS \in Status
  BY DEF Status, X86!AsmStatus, SUCCESS
<1>5. CASE CheckStop
  <2>1. T'
    BY <1>2, <1>5 DEF CheckStop
  <2> QED
    BY <1>1, <1>3, <1>5, <2>1, Elsewhere DEF CheckStop
<1>6. CASE CheckClear
  <2>1. T'
    BY <1>2, <1>6 DEF CheckClear
  <2> QED
    BY <1>1, <1>3, <1>6, <2>1, Elsewhere DEF CheckClear
<1>7. CASE ClearCache
  <2>1. CASE CanReset
    <3>1. X86!FreshAssembler \in Assembler
      BY BufferAssumption DEF X86!FreshAssembler, Assembler, Offset, X86!AsmStatus
    <3>2. T'
      BY <1>2, <1>4, <1>7, <2>1, <3>1, EmptyCacheTyped DEF ClearCache
    <3> QED
      BY <1>1, <1>3, <1>7, <2>1, <3>2 DEF ClearCache, Placed, Typed, Apart
  <2>2. CASE ~CanReset
    <3>1. T'
      BY <1>2, <1>7, <2>2 DEF ClearCache
    <3> QED
      BY <1>1, <1>3, <1>7, <2>2, <3>1, Elsewhere DEF ClearCache
  <2> QED
    BY <2>1, <2>2
<1>8. CASE AckClear
  <2>1. T'
    BY <1>2, <1>8 DEF AckClear
  <2> QED
    BY <1>1, <1>3, <1>8, <2>1, Elsewhere DEF AckClear
<1>9. CASE CheckInterrupt
  <2>1. T'
    BY <1>2, <1>9 DEF CheckInterrupt
  <2> QED
    BY <1>1, <1>3, <1>9, <2>1, Elsewhere DEF CheckInterrupt
<1>10. CASE TakeInterrupt
  <2>1. T'
    BY <1>2, <1>10 DEF TakeInterrupt
  <2> QED
    BY <1>1, <1>3, <1>10, <2>1, Elsewhere DEF TakeInterrupt
<1>11. CASE Lookup
  <2>1. cpu_pc # SENTINEL => cpu_pc \in Pc
    BY <1>2
  <2>2. cpu_pc \in Pc /\ Found # NULL => Found \in Offset
    <3> SUFFICES ASSUME cpu_pc \in Pc, block_cache_lookup(block_cache, cpu_pc) # NULL
                 PROVE  block_cache_lookup(block_cache, cpu_pc) \in Offset
      BY DEF Found
    <3>1. PICK s \in SetIds, w \in WayIds :
              block_cache[s][w].host_code = block_cache_lookup(block_cache, cpu_pc)
      BY <1>2, LookupFinds DEF CacheTypeOK
    <3> QED
      BY <1>2, <3>1, CodePointers DEF Entry
  <2>3. T'
    BY <1>2, <1>11, <2>1, <2>2 DEF Lookup
  <2> QED
    BY <1>1, <1>3, <1>11, <2>1, <2>3, Elsewhere DEF Lookup
<1>12. CASE DecodeFails
  <2>1. T'
    BY <1>2, <1>12 DEF DecodeFails, UNCHANGED_by_compile
  <2> QED
    BY <1>1, <1>3, <1>12, <2>1, Elsewhere DEF DecodeFails, UNCHANGED_by_compile
<1>13. CASE Compile
  BY <1>1, <1>2, <1>13, CompileTyped DEF Compile
<1>14. CASE CompileAfterReset
  <2>1. CASE CanReset
    <3>1. X86!FreshAssembler \in Assembler /\ Apart({}, X86!FreshAssembler)
      BY BufferAssumption DEF X86!FreshAssembler, Assembler, Offset, X86!AsmStatus, Apart
    <3> QED
      BY <1>4, <1>14, <2>1, <3>1, CompileTyped DEF CompileAfterReset
  <2>2. CASE ~CanReset
    <3>1. T'
      BY <1>2, <1>14, <2>2 DEF CompileAfterReset, UNCHANGED_by_compile
    <3> QED
      BY <1>1, <1>3, <1>14, <2>2, <3>1, Elsewhere DEF CompileAfterReset, UNCHANGED_by_compile
  <2> QED
    BY <2>1, <2>2
<1>15. CASE Publish
  <2>1. cpu_pc \in Pc /\ entry_point \in Offset
    BY <1>1, <1>2, <1>15 DEF Publish
  <2>2. block_cache' \in [SetIds -> [WayIds -> Entry]]
    BY <1>2, <1>15, <2>1, PublishWrites DEF Publish, CacheTypeOK
  <2>3. T'
    BY <1>2, <1>15, <2>2 DEF Publish
  <2> QED
    BY <1>1, <1>3, <1>15, <2>1, <2>3, Elsewhere DEF Publish
<1>16. CASE Execute
  <2>1. cpu_pc' \in Pc \union {SENTINEL}
    <3>1. \A b \in BlockAt(entry_point) : b.next \subseteq Pc \union {SENTINEL}
      BY <1>1 DEF BlockAt, Block
    <3> QED
      BY <1>2, <1>16, <3>1 DEF Execute
  <2>2. T'
    BY <1>2, <1>16, <2>1 DEF Execute
  <2> QED
    BY <1>1, <1>3, <1>16, <2>2, Elsewhere DEF Execute
<1>17. CASE AfterExecute
  <2>1. T'
    BY <1>2, <1>17 DEF AfterExecute
  <2> QED
    BY <1>1, <1>3, <1>17, <2>1, Elsewhere DEF AfterExecute
<1>18. CASE LeaveLoop
  <2>1. T'
    BY <1>2, <1>18 DEF LeaveLoop
  <2> QED
    BY <1>1, <1>3, <1>18, <2>1, Elsewhere DEF LeaveLoop
<1>19. ASSUME NEW pc \in Pc, Run(pc)
       PROVE  Placed'
  <2>1. T'
    BY <1>2, <1>19 DEF Run
  <2> QED
    BY <1>1, <1>3, <1>19, <2>1, Elsewhere DEF Run
<1>20. CASE Patch \/ bal_engine_stop_thread \/ bal_engine_clear_cache
  <2>1. T'
    BY <1>2, <1>20 DEF Patch, bal_engine_stop_thread, bal_engine_clear_cache, engine_thread
  <2>2. guest_version' \in Nat /\ UNCHANGED <<compiler, label, cpu_pc>>
    BY <1>1, <1>20
       DEF Patch, bal_engine_stop_thread, bal_engine_clear_cache, engine_thread
  <2> QED
    BY <1>1, <1>3, <2>1, <2>2, Elsewhere
<1>21. ASSUME NEW f \in HostFlags, SetFlag(f) \/ ClearFlag(f)
       PROVE  Placed'
  <2>1. T'
    BY <1>2, <1>21, HostAssumption DEF SetFlag, ClearFlag, engine_thread
  <2> QED
    BY <1>1, <1>3, <1>21, <2>1, Elsewhere DEF SetFlag, ClearFlag, engine_thread
<1>22. CASE UNCHANGED vars
  <2>1. T'
    BY <1>2, <1>22 DEF vars
  <2> QED
    BY <1>1, <1>3, <1>22, <2>1, Elsewhere DEF vars
<1> QED
  BY <1>5, <1>6, <1>7, <1>8, <1>9, <1>10, <1>11, <1>12, <1>13, <1>14, <1>15, <1>16,
     <1>17, <1>18, <1>19, <1>20, <1>21, <1>22 DEF Next, EngineStep, HostStep

\* The initial state is Placed.
LEMMA PlacedInit == ASSUME Init PROVE Placed
<1>1. SUCCESS \in Status
  BY DEF Status, X86!AsmStatus, SUCCESS
<1>2. X86!FreshAssembler \in Assembler
  BY BufferAssumption DEF X86!FreshAssembler, Assembler, Offset, X86!AsmStatus
<1>3. TypeOK
  BY <1>1, <1>2, EmptyCacheTyped, HostAssumption
     DEF Init, TypeOK, Labels, Flags, CacheTypeOK, Assembler
<1> QED
  BY <1>3 DEF Init, Placed, Typed, Apart

\* Every variable of the engine keeps its type, the write position stays within
\* one byte of the buffer, and a block is only published or called through a
\* pointer into the buffer.
THEOREM EngineTyped == Spec => []TypeOK
<1>1. Placed => TypeOK
  BY DEF Placed, Typed
<1>2. Placed /\ [Next]_vars => Placed'
  BY PlacedStep
<1>3. Init => Placed
  BY PlacedInit
<1> QED
  BY <1>1, <1>2, <1>3, PTL DEF Spec

-----------------------------------------------------------------------------
(* The engine uses the block cache as BlockCache specifies.                *)

\* The only steps that touch the cache are the insertion of an address and a
\* pointer into the buffer, and the memset: the engine's cache is a BlockCache.
THEOREM EngineUsesCache == Spec => CacheSpec
<1>1. Init => CacheInit
  BY DEF Init, CacheInit
<1>2. Placed /\ [Next]_vars => [CacheNext]_block_cache
  <2> SUFFICES ASSUME Placed, [Next]_vars, block_cache' # block_cache
               PROVE  CacheNext
    OBVIOUS
  <2>1. Publish \/ ClearCache
    BY DEF Next, EngineStep, HostStep, CheckStop, CheckClear, AckClear, CheckInterrupt,
           TakeInterrupt, Lookup, DecodeFails, Compile, CompileAfterReset,
           UNCHANGED_by_compile, Execute, AfterExecute, LeaveLoop, Run, Patch,
           bal_engine_stop_thread, bal_engine_clear_cache, SetFlag, ClearFlag,
           engine_thread, vars
  <2>2. CASE Publish
    <3>1. cpu_pc \in Pc /\ entry_point \in Offset
      BY <2>2, TypeFacts DEF Publish, Goto, Placed
    <3>2. block_cache' = block_cache_insert(block_cache, cpu_pc, entry_point)
      BY <2>2 DEF Publish
    <3> QED
      BY <3>1, <3>2, CodePointers DEF CacheNext, Insert
  <2>3. CASE ClearCache
    BY <2>3 DEF ClearCache, CacheNext, Clear
  <2> QED
    BY <2>1, <2>2, <2>3
<1>3. Placed /\ [Next]_vars => Placed'
  BY PlacedStep
<1>4. Init => Placed
  BY PlacedInit
<1> QED
  BY <1>1, <1>2, <1>3, <1>4, PTL DEF Spec, CacheSpec

\* So what is proved of BlockCache holds in the engine: a lookup of the run loop
\* returns what was last inserted for the address, or NULL.
THEOREM EngineCacheNeverLies == Spec => NeverLies
<1>1. CacheSpec => NeverLies
  BY CacheNeverLies
<1> QED
  BY <1>1, EngineUsesCache

-----------------------------------------------------------------------------
(* Clear requests.                                                         *)

\* Where the thread is once it has looked at the clear request of an iteration.
Iterating == {"check_interrupt", "take_interrupt", "lookup", "compile", "publish",
              "execute"}

\* The inductive invariant: while no clear is pending every block is as recent as
\* the last request asks for, and an iteration that got past the request has no
\* block older than what requests before it asked for.
Recent ==
    /\ guest_version \in Nat /\ must_see \in Nat /\ must_run \in Nat
    /\ must_run <= must_see /\ must_see <= guest_version
    /\ \A b \in jit : b.ver \in Nat
    /\ clear_cache_requested \/ \A b \in jit : b.ver >= must_see
    /\ label = "ack_clear" => jit = {}
    /\ label \in Iterating => \A b \in jit : b.ver >= must_run

\* The new block of a compilation is as recent as it gets.
LEMMA CompileRecent ==
    ASSUME Recent, label = "compile", NEW kept, kept \subseteq jit, NEW t,
           Compiled(kept, t) \/ CompileError(kept, t), UNCHANGED_by_compile
    PROVE  Recent'
<1>1. /\ clear_cache_requested' = clear_cache_requested
      /\ guest_version' = guest_version /\ must_see' = must_see /\ must_run' = must_run
  BY DEF UNCHANGED_by_compile, guest, controls
<1>2. label' \in {"publish", "leave"}
  BY DEF Compiled, CompileError, Leave
<1>3. \A b \in jit' : b \in kept \/ b.ver = guest_version
  BY DEF Compiled, CompileError
<1>4. guest_version >= must_see /\ guest_version >= must_run /\ guest_version \in Nat
  BY DEF Recent
<1>5. \A b \in jit : b.ver >= must_run
  BY DEF Recent, Iterating
<1>6. \A b \in jit' : b.ver >= must_run /\ b.ver \in Nat
  BY <1>3, <1>4, <1>5 DEF Recent
<1>7. clear_cache_requested \/ \A b \in jit' : b.ver >= must_see
  BY <1>3, <1>4 DEF Recent
<1> QED
  BY <1>1, <1>2, <1>6, <1>7 DEF Recent

\* Every step keeps Recent.
LEMMA RecentStep ==
    ASSUME Recent, [Next]_vars
    PROVE  Recent'
<1> USE DEF Goto, Leave, controls, compiler, guest, outcome, Iterating
<1>1. CASE CheckStop
  BY <1>1 DEF CheckStop, Recent
<1>2. CASE CheckClear
  BY <1>2 DEF CheckClear, Recent
<1>3. CASE ClearCache
  BY <1>3 DEF ClearCache, Recent
<1>4. CASE AckClear
  BY <1>4 DEF AckClear, Recent
<1>5. CASE CheckInterrupt \/ TakeInterrupt \/ Lookup
  BY <1>5 DEF CheckInterrupt, TakeInterrupt, Lookup, Recent
<1>6. CASE DecodeFails
  BY <1>6 DEF DecodeFails, UNCHANGED_by_compile, Recent
<1>7. CASE Compile
  BY <1>7, CompileRecent DEF Compile
<1>8. CASE CompileAfterReset
  <2>1. CASE CanReset
    BY <1>8, <2>1, CompileRecent DEF CompileAfterReset
  <2>2. CASE ~CanReset
    BY <1>8, <2>2 DEF CompileAfterReset, UNCHANGED_by_compile, Recent
  <2> QED
    BY <2>1, <2>2
<1>9. CASE Publish \/ Execute \/ AfterExecute \/ LeaveLoop
  BY <1>9 DEF Publish, Execute, AfterExecute, LeaveLoop, Recent
<1>10. ASSUME NEW pc \in Pc, Run(pc)
       PROVE  Recent'
  BY <1>10 DEF Run, Recent
<1>11. CASE Patch
  BY <1>11 DEF Patch, engine_thread, Recent
<1>12. CASE bal_engine_stop_thread
  BY <1>12 DEF bal_engine_stop_thread, engine_thread, Recent
<1>13. CASE bal_engine_clear_cache
  BY <1>13 DEF bal_engine_clear_cache, engine_thread, Recent
<1>14. ASSUME NEW f \in HostFlags, SetFlag(f) \/ ClearFlag(f)
       PROVE  Recent'
  BY <1>14 DEF SetFlag, ClearFlag, engine_thread, Recent
<1>15. CASE UNCHANGED vars
  BY <1>15 DEF vars, Recent
<1> QED
  BY <1>1, <1>2, <1>3, <1>4, <1>5, <1>6, <1>7, <1>8, <1>9, <1>10, <1>11, <1>12, <1>13,
     <1>14, <1>15 DEF Next, EngineStep, HostStep

\* No iteration of the loop that begins after bal_engine_clear_cache returned
\* runs code compiled before the guest was last changed at that time: not even
\* when the engine's store of false wipes the request out.
THEOREM ClearRequestsTakeEffect == Spec => []ClearTakesEffect
<1>1. Init => Recent
  BY DEF Init, Recent
<1>2. Recent /\ [Next]_vars => Recent'
  BY RecentStep
<1>3. Recent => ClearTakesEffect
  BY DEF Recent, ClearTakesEffect, BlockAt, Iterating
<1> QED
  BY <1>1, <1>2, <1>3, PTL DEF Spec

-----------------------------------------------------------------------------
(* Dispatch.                                                               *)

\* A translation of the guest block at pc starts at at.
Stands(blocks, at, pc) == \E b \in blocks : b.at = at /\ b.pc = pc

\* Every filled entry of the cache leads to a translation of its address.
CacheLeadsTo(blocks, c) ==
    \A s \in SetIds, w \in WayIds :
        c[s][w].host_code # NULL => Stands(blocks, c[s][w].host_code, c[s][w].guest_address)

\* The inductive invariant: what is about to be published is sound already.
Dispatch ==
    /\ label \in {"publish", "execute"} => Stands(jit, entry_point, cpu_pc)
    /\ CacheLeadsTo(jit, block_cache)

\* The overflow path throws the blocks away and keeps the cache.  It is taken
\* only when the buffer is full and the mapping lets it be zeroed.
ResetUnderCache == CompileAfterReset /\ CanReset

\* A step that neither removes blocks nor touches the cache keeps Dispatch, if it
\* does not enter "publish" or "execute".
LEMMA DispatchKept ==
    ASSUME Dispatch, jit \subseteq jit', UNCHANGED block_cache,
           label' \in {"publish", "execute"} => Stands(jit', entry_point', cpu_pc')
    PROVE  Dispatch'
BY DEF Dispatch, CacheLeadsTo, Stands

\* Every step but a reset under the cache keeps Dispatch.
LEMMA DispatchStep ==
    ASSUME Placed, Dispatch, [Next]_vars, ~ResetUnderCache
    PROVE  Dispatch'
<1> USE DEF Goto, Leave, controls, compiler, guest, outcome
<1>1. CASE CheckStop \/ CheckClear \/ AckClear \/ CheckInterrupt \/ TakeInterrupt
  <2>1. UNCHANGED <<jit, block_cache>> /\ label' \notin {"publish", "execute"}
    BY <1>1 DEF CheckStop, CheckClear, AckClear, CheckInterrupt, TakeInterrupt
  <2> QED
    BY <2>1, DispatchKept
<1>2. CASE ClearCache
  <2>1. CASE CanReset
    <3>1. block_cache' = EmptyCache /\ label' = "ack_clear"
      BY <1>2, <2>1 DEF ClearCache
    <3>2. CacheLeadsTo(jit', block_cache')
      BY <3>1, EmptyCacheTyped DEF CacheLeadsTo
    <3> QED
      BY <3>1, <3>2 DEF Dispatch
  <2>2. CASE ~CanReset
    <3>1. UNCHANGED <<jit, block_cache>> /\ label' = "fault"
      BY <1>2, <2>2 DEF ClearCache
    <3> QED
      BY <3>1, DispatchKept
  <2> QED
    BY <2>1, <2>2
<1>3. CASE Lookup
  <2>1. UNCHANGED <<jit, block_cache, cpu_pc>>
    BY <1>3 DEF Lookup
  <2>2. ASSUME label' \in {"publish", "execute"}
        PROVE  Stands(jit, entry_point', cpu_pc)
    <3>1. cpu_pc # SENTINEL /\ Found # NULL /\ entry_point' = Found
      BY <1>3, <2>2 DEF Lookup
    <3>2. cpu_pc \in Pc /\ CacheTypeOK
      BY <3>1 DEF Placed, Typed, TypeOK
    <3>3. Found = block_cache_lookup(block_cache, cpu_pc)
      BY <3>1 DEF Found
    <3>4. PICK s \in SetIds, w \in WayIds :
              /\ block_cache[s][w].guest_address = cpu_pc
              /\ block_cache[s][w].host_code = Found
      BY <3>1, <3>2, <3>3, LookupFinds
    <3> QED
      BY <3>1, <3>4 DEF Dispatch, CacheLeadsTo
  <2> QED
    BY <2>1, <2>2, DispatchKept
<1>4. CASE DecodeFails
  <2>1. UNCHANGED <<jit, block_cache>> /\ label' = "spin"
    BY <1>4 DEF DecodeFails, UNCHANGED_by_compile
  <2> QED
    BY <2>1, DispatchKept
<1>5. CASE Compile
  <2>1. PICK t : Compiled(jit, t) \/ CompileError(jit, t)
    BY <1>5 DEF Compile
  <2>2. UNCHANGED <<block_cache, cpu_pc>>
    BY <1>5 DEF Compile, UNCHANGED_by_compile
  <2>3. CASE Compiled(jit, t)
    <3> DEFINE new == [at |-> t.entry, pc |-> cpu_pc, next |-> SourceBlock.next,
                       ver |-> guest_version]
    <3>1. jit' = jit \union {new} /\ entry_point' = t.entry
      BY <2>3 DEF Compiled
    <3>2. Stands(jit', entry_point', cpu_pc')
      <4>1. new.at = t.entry /\ new.pc = cpu_pc /\ new \in jit'
        BY <3>1
      <4> HIDE DEF new
      <4> QED
        BY <2>2, <3>1, <4>1 DEF Stands
    <3> QED
      BY <2>2, <3>1, <3>2, DispatchKept
  <2>4. CASE CompileError(jit, t)
    <3>1. jit' = jit /\ label' = "leave"
      BY <2>4 DEF CompileError
    <3> QED
      BY <2>2, <3>1, DispatchKept
  <2> QED
    BY <2>1, <2>3, <2>4
<1>6. CASE CompileAfterReset
  <2>1. ~CanReset
    BY <1>6 DEF ResetUnderCache
  <2>2. UNCHANGED <<jit, block_cache>> /\ label' = "fault"
    BY <1>6, <2>1 DEF CompileAfterReset, UNCHANGED_by_compile
  <2> QED
    BY <2>2, DispatchKept
<1>7. CASE Publish
  <2>1. UNCHANGED <<jit, entry_point, cpu_pc>> /\ Stands(jit, entry_point, cpu_pc)
    BY <1>7 DEF Publish, Dispatch
  <2>2. cpu_pc \in Pc /\ entry_point \in Offset /\ CacheTypeOK
    BY <1>7, TypeFacts DEF Publish, Placed, Typed, TypeOK
  <2>3. \A s \in SetIds, w \in WayIds :
            \/ block_cache'[s][w] = block_cache[s][w]
            \/ block_cache'[s][w] = [guest_address |-> cpu_pc, host_code |-> entry_point]
    BY <1>7, <2>2, PublishWrites DEF Publish
  <2>4. CacheLeadsTo(jit, block_cache')
    BY <2>1, <2>3 DEF Dispatch, CacheLeadsTo
  <2> QED
    BY <2>1, <2>4 DEF Dispatch, Stands
<1>8. CASE Execute \/ AfterExecute \/ LeaveLoop
  <2>1. UNCHANGED <<jit, block_cache>> /\ label' \notin {"publish", "execute"}
    BY <1>8 DEF Execute, AfterExecute, LeaveLoop
  <2> QED
    BY <2>1, DispatchKept
<1>9. ASSUME NEW pc \in Pc, Run(pc)
      PROVE  Dispatch'
  <2>1. UNCHANGED <<jit, block_cache>> /\ label' \notin {"publish", "execute"}
    BY <1>9 DEF Run
  <2> QED
    BY <2>1, DispatchKept
<1>10. CASE \/ Patch \/ bal_engine_stop_thread \/ bal_engine_clear_cache
            \/ \E f \in HostFlags : SetFlag(f) \/ ClearFlag(f)
            \/ UNCHANGED vars
  <2>1. UNCHANGED <<jit, block_cache, label, entry_point, cpu_pc>>
    BY <1>10 DEF Patch, bal_engine_stop_thread, bal_engine_clear_cache, SetFlag,
                 ClearFlag, engine_thread, vars
  <2> QED
    BY <2>1 DEF Dispatch, CacheLeadsTo, Stands
<1> QED
  BY <1>1, <1>2, <1>3, <1>4, <1>5, <1>6, <1>7, <1>8, <1>9, <1>10
     DEF Next, EngineStep, HostStep

\* At most one block starts at an offset, so the call through entry_point runs
\* the block that DispatchSound speaks of and no other.
OneBlockAt == \A b, d \in jit : b.at = d.at => b = d

\* As long as the overflow path does not reset the buffer under the cache, the
\* call through entry_point runs a complete translation of the block at the guest
\* PC, and so will every later call through the block cache.
THEOREM DispatchIsSound ==
    Spec /\ [][~ResetUnderCache]_vars => [](DispatchSound /\ OneBlockAt)
<1>1. Init => Placed /\ Dispatch
  <2>1. Init => CacheLeadsTo(jit, block_cache)
    BY EmptyCacheTyped DEF Init, CacheLeadsTo
  <2> QED
    BY <2>1, PlacedInit DEF Init, Dispatch
<1>2. Placed /\ Dispatch /\ [Next]_vars /\ [~ResetUnderCache]_vars => (Placed /\ Dispatch)'
  <2> SUFFICES ASSUME Placed, Dispatch, [Next]_vars, [~ResetUnderCache]_vars
               PROVE  Placed' /\ Dispatch'
    OBVIOUS
  <2>1. CASE ~ResetUnderCache
    BY <2>1, PlacedStep, DispatchStep
  <2>2. CASE UNCHANGED vars
    <3>1. UNCHANGED <<jit, block_cache, label, entry_point, cpu_pc>>
      BY <2>2 DEF vars, compiler
    <3> QED
      BY <3>1, PlacedStep DEF Dispatch, CacheLeadsTo, Stands
  <2> QED
    BY <2>1, <2>2
<1>3. Placed /\ Dispatch => DispatchSound /\ OneBlockAt
  BY DEF Placed, Apart, Dispatch, CacheLeadsTo, Stands, DispatchSound, BlockAt, OneBlockAt
<1> QED
  BY <1>1, <1>2, <1>3, PTL DEF Spec

\* With the two views of the Linux and Windows allocators the reset faults
\* before it throws anything away: there dispatch is always sound.
COROLLARY DispatchIsSoundOnDual ==
    ASSUME Mapping = "dual"
    PROVE  Spec => []DispatchSound
<1>1. ~ResetUnderCache
  BY DEF ResetUnderCache, CanReset
<1>2. [~ResetUnderCache]_vars
  BY <1>1
<1> QED
  BY <1>2, DispatchIsSound, PTL

-----------------------------------------------------------------------------
(* Error reports.                                                          *)

\* What a status must be if the guest address the run stopped at is outside guest
\* memory or holds an instruction the compiler rejects.
FitsGuest(s) ==
    /\ Guest[cpu_pc].kind = "unmapped" => s = MEMORY_FAULT
    /\ Guest[cpu_pc].kind = "trap" => s = UNKNOWN_INSTRUCTION

\* The inductive invariant: a run that is leaving with an error has it in
\* engine->status, and one that has left returned it.
Reported ==
    /\ label \notin {"leave", "idle"} => exit_reason # "error"
    /\ label = "leave" /\ exit_reason = "error" => FitsGuest(status)
    /\ label = "idle" /\ exit_reason = "error" => FitsGuest(returned)

\* Whatever the buffer has room for, and whatever error the compiler is in, the
\* status of bal_tier1_compiler_translate says what is wrong with the guest code.
LEMMA StatusFits ==
    ASSUME NEW a, NEW error
    PROVE  FitsGuest(Translate(a, error, SourceBlock).status)
<1> DEFINE loop == Loop(EmitAll(a, Prologue), error, SourceBlock)
<1>1. Translate(a, error, SourceBlock).status = loop.status
  BY DEF Translate
<1>2. Guest[cpu_pc].kind # "code" => SourceBlock = Guest[cpu_pc]
  BY DEF SourceBlock, FirstOnly
<1>3. CASE Guest[cpu_pc].kind = "unmapped"
  <2>1. SourceBlock.kind = "unmapped"
    BY <1>2, <1>3
  <2>2. loop.status = MEMORY_FAULT
    BY <2>1 DEF Loop
  <2> QED
    BY <1>1, <1>3, <2>2 DEF FitsGuest
<1>4. CASE Guest[cpu_pc].kind = "trap"
  <2>1. SourceBlock.kind = "trap"
    BY <1>2, <1>4
  <2>2. loop.status = UNKNOWN_INSTRUCTION
    BY <2>1 DEF Loop
  <2> QED
    BY <1>1, <1>4, <2>2 DEF FitsGuest
<1> QED
  BY <1>3, <1>4 DEF FitsGuest

\* A compilation that fails leaves that status in engine->status.
LEMMA CompileReported ==
    ASSUME label = "compile", cpu_pc' = cpu_pc, exit_reason # "error",
           NEW a, NEW error, NEW kept,
           LET t == Translate(a, error, SourceBlock)
           IN  Compiled(kept, t) \/ CompileError(kept, t)
    PROVE  Reported'
<1> DEFINE t == Translate(a, error, SourceBlock)
<1>1. FitsGuest(t.status)
  BY StatusFits
<1> HIDE DEF t
<1>2. CASE Compiled(kept, t)
  BY <1>2 DEF Compiled, Reported
<1>3. CASE CompileError(kept, t)
  BY <1>1, <1>3 DEF CompileError, Reported, FitsGuest, Leave
<1> QED
  BY <1>2, <1>3 DEF t

\* A run that stopped at an unmapped address returns BAL_ERROR_MEMORY_FAULT, one
\* that stopped at an instruction the compiler rejects
\* BAL_ERROR_UNKNOWN_INSTRUCTION: in any state of the buffer, after any number of
\* overflows and failed runs.
THEOREM GuestErrorsAreReported == Spec => []GuestErrorIsReported
<1>1. Init => Reported
  BY DEF Init, Reported
<1>2. Reported /\ [Next]_vars => Reported'
  <2> SUFFICES ASSUME Reported, [Next]_vars
               PROVE  Reported'
    OBVIOUS
  <2> USE DEF Goto, Leave, controls, compiler, guest, outcome
  <2>1. CASE \/ CheckStop \/ CheckClear \/ ClearCache \/ AckClear \/ CheckInterrupt
             \/ TakeInterrupt \/ Lookup \/ Publish \/ Execute \/ AfterExecute
    BY <2>1 DEF CheckStop, CheckClear, ClearCache, AckClear, CheckInterrupt,
                TakeInterrupt, Lookup, Publish, Execute, AfterExecute, Reported
  <2>2. CASE DecodeFails
    BY <2>2 DEF DecodeFails, UNCHANGED_by_compile, Reported
  <2>3. CASE Compile
    <3>1. exit_reason # "error" /\ label = "compile" /\ cpu_pc' = cpu_pc
      BY <2>3 DEF Compile, Reported, UNCHANGED_by_compile
    <3> QED
      BY <2>3, <3>1, CompileReported DEF Compile
  <2>4. CASE CompileAfterReset
    <3>1. exit_reason # "error" /\ label = "compile" /\ cpu_pc' = cpu_pc
      BY <2>4 DEF CompileAfterReset, Reported, UNCHANGED_by_compile
    <3>2. CASE CanReset
      BY <2>4, <3>1, <3>2, CompileReported DEF CompileAfterReset
    <3>3. CASE ~CanReset
      BY <2>4, <3>1, <3>3 DEF CompileAfterReset, Reported
    <3> QED
      BY <3>2, <3>3
  <2>5. CASE LeaveLoop
    BY <2>5 DEF LeaveLoop, Reported, FitsGuest
  <2>6. ASSUME NEW pc \in Pc, Run(pc)
        PROVE  Reported'
    BY <2>6 DEF Run, Reported
  <2>7. CASE \/ Patch \/ bal_engine_stop_thread \/ bal_engine_clear_cache
             \/ \E f \in HostFlags : SetFlag(f) \/ ClearFlag(f)
             \/ UNCHANGED vars
    <3>1. UNCHANGED <<label, exit_reason, status, returned, cpu_pc>>
      BY <2>7 DEF Patch, bal_engine_stop_thread, bal_engine_clear_cache, SetFlag,
                  ClearFlag, engine_thread, vars
    <3> QED
      BY <3>1 DEF Reported, FitsGuest
  <2> QED
    BY <2>1, <2>2, <2>3, <2>4, <2>5, <2>6, <2>7 DEF Next, EngineStep, HostStep
<1>3. Reported => GuestErrorIsReported
  BY DEF Reported, FitsGuest, GuestErrorIsReported
<1> QED
  BY <1>1, <1>2, <1>3, PTL DEF Spec
=============================================================================
