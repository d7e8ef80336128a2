----------------------------- MODULE BlockCache -----------------------------
(***************************************************************************)
(* The set-associative block cache of the engine (src/src/bal_engine.c):   *)
(* block_cache_lookup, block_cache_insert, and the memset that empties it  *)
(* when the cache is cleared or the engine is created.                     *)
(*                                                                         *)
(* The program has 4096 sets of 4 ways.  The set is taken from the bits of *)
(* the guest address above its two alignment bits, the way to evict from   *)
(* the bits above those two plus two.                                      *)
(***************************************************************************)
EXTENDS Naturals

CONSTANTS
    BLOCK_CACHE_SETS,   \* 4096 in the program
    BLOCK_CACHE_WAYS,   \* 4 in the program
    Pc,                 \* guest addresses at which blocks start
    Code,               \* host code pointers
    NULL                \* the NULL pointer

ASSUME GeometryAssumption ==
    /\ BLOCK_CACHE_SETS \in Nat \ {0}
    /\ BLOCK_CACHE_WAYS \in Nat \ {0}

ASSUME PcAssumption == Pc \subseteq Nat

ASSUME CodeAssumption == NULL \notin Code

VARIABLE block_cache    \* block_cache[set][way]: one block_cache_entry_t

SetIds == 0 .. BLOCK_CACHE_SETS - 1
WayIds == 0 .. BLOCK_CACHE_WAYS - 1

\* A zeroed entry has guest address 0 even though no block is there.
Entry == [guest_address : Pc \union {0}, host_code : Code \union {NULL}]
EmptyEntry == [guest_address |-> 0, host_code |-> NULL]
EmptyCache == [s \in SetIds |-> [w \in WayIds |-> EmptyEntry]]

\* Mutant: evict by the address bits above the set index.
evict_way_high_bits(pc) == (pc \div (4 * BLOCK_CACHE_SETS)) % BLOCK_CACHE_WAYS

set_index(pc) == (pc \div 4) % BLOCK_CACHE_SETS
evict_way(pc) == (pc \div 16) % BLOCK_CACHE_WAYS

\* The loops over the ways stop at the first one that fits.
First(ways) == CHOOSE w \in ways : \A v \in ways : w <= v

\* A way that has the address, filled or not: insertion does not look further.
Tagged(ways, pc) == {w \in WayIds : ways[w].guest_address = pc}
Free(ways) == {w \in WayIds : ways[w].host_code = NULL}
Hits(ways, pc) == Tagged(ways, pc) \ Free(ways)

block_cache_lookup(c, pc) ==
    LET ways == c[set_index(pc)]
    IN  IF Hits(ways, pc) = {} THEN NULL
        ELSE ways[First(Hits(ways, pc))].host_code

\* Mutant: the search for a way that already has the address is missing.
TargetWay_no_tag_search(ways, pc) ==
    IF Free(ways) # {} THEN First(Free(ways)) ELSE evict_way(pc)

\* The way an insertion writes: the one that has the address, else the first
\* empty one, else the one the address selects for eviction.
TargetWay(ways, pc) ==
    IF Tagged(ways, pc) # {} THEN First(Tagged(ways, pc))
    ELSE IF Free(ways) # {} THEN First(Free(ways))
    ELSE evict_way(pc)

\* Mutant: an eviction replaces the code and leaves the old address.
insert_keeps_tag(c, pc, host_code) ==
    [c EXCEPT ![set_index(pc)] =
        [@ EXCEPT ![TargetWay(@, pc)] =
            [guest_address |-> IF @.host_code = NULL THEN pc ELSE @.guest_address,
             host_code |-> host_code]]]

block_cache_insert(c, pc, host_code) ==
    [c EXCEPT ![set_index(pc)] =
        [@ EXCEPT ![TargetWay(@, pc)] =
            [guest_address |-> pc, host_code |-> host_code]]]

-----------------------------------------------------------------------------
CacheInit == block_cache = EmptyCache

Insert(pc, host_code) == block_cache' = block_cache_insert(block_cache, pc, host_code)

Clear == block_cache' = EmptyCache

CacheNext ==
    \/ \E pc \in Pc, host_code \in Code : Insert(pc, host_code)
    \/ Clear

CacheSpec == CacheInit /\ [][CacheNext]_block_cache

-----------------------------------------------------------------------------
\* The cache has the shape of block_cache_t: every way of every set is an
\* entry, and every address in it is one that was inserted or zero.
CacheTypeOK == block_cache \in [SetIds -> [WayIds -> Entry]]

\* A filled way belongs to the set its address selects, so a lookup, which
\* searches one set, cannot miss a block that is present.
InItsSet ==
    \A s \in SetIds, w \in WayIds :
        block_cache[s][w].host_code # NULL => set_index(block_cache[s][w].guest_address) = s

\* No address is filled in twice, so a later insertion cannot leave an older
\* translation behind for a later lookup.
NoDuplicate ==
    \A s \in SetIds, v, w \in WayIds :
        /\ block_cache[s][v].host_code # NULL
        /\ block_cache[s][w].host_code # NULL
        /\ block_cache[s][v].guest_address = block_cache[s][w].guest_address
        => v = w

\* The filled ways of a set come first, and an empty way still has the zeroed
\* address.  Insertion relies on it: it takes the first way tagged with the
\* address, filled or not, so a filled way behind an empty one with the same
\* address would be duplicated (address 0 is the case that comes close).
FilledFirst ==
    \A s \in SetIds, w \in WayIds :
        block_cache[s][w].host_code = NULL =>
            /\ block_cache[s][w] = EmptyEntry
            /\ \A v \in WayIds : v > w => block_cache[s][v].host_code = NULL

\* The structural facts that make a lookup trustworthy, together: filled ways
\* are in their set, unique, and in front of the empty ones.
WellFormed == InItsSet /\ NoDuplicate /\ FilledFirst

\* Refinement: seen through its lookups, the cache is a map that may forget
\* but never returns anything but the code last inserted for the address.
Map == INSTANCE BlockMap WITH
           block <- [pc \in Pc |-> block_cache_lookup(block_cache, pc)]

\* The operation on the cache and the step of the map are the same one.
SameOperation ==
    /\ \A pc \in Pc, host_code \in Code :
           Insert(pc, host_code) => Map!Insert(pc, host_code)
    /\ Clear => Map!Clear

\* Every insertion and clear of bal_engine.c's cache is BlockMap's insertion of
\* the same address and code, or its clear.
NeverLies == Map!Spec /\ [][SameOperation]_block_cache

\* block_cache_insert's eviction comment speaks of "the lower bits of the PC as
\* a cheap starting index".  Those bits are part of the set index, so all
\* addresses of a set evict the same way: once a set is full, its other ways
\* keep their addresses until the cache is cleared.
Full(s) == Free(block_cache[s]) = {}
PinnedWays ==
    [][ \A s \in SetIds :
            Full(s) /\ ~Clear =>
                \A w \in WayIds :
                    w # (s \div 4) % BLOCK_CACHE_WAYS =>
                        block_cache'[s][w].guest_address = block_cache[s][w].guest_address
      ]_block_cache
=============================================================================
