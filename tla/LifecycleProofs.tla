--------------------------- MODULE LifecycleProofs ---------------------------
(***************************************************************************)
(* Proofs about Lifecycle for every number of engines and processes, every *)
(* buffer and every registry: nothing is freed twice, destroying an engine *)
(* reclaims what it held, and the signal handler never blames another      *)
(* block or an earlier instruction for a fault.                            *)
(***************************************************************************)
EXTENDS Lifecycle, WellFoundedInduction, TLAPS

-----------------------------------------------------------------------------
(* The inductive invariant.                                                *)

Mapping == [x86_offset : Nat, guest_pc_offset : Nat]
Block == [start : Nat, size : Nat, base : Nat, pcs : Seq(Nat), mappings : Seq(Mapping)]
Context == [entries : Seq(Block), arena_offset : Nat,
            status : {"none", "BAL_SUCCESS", "BAL_ERROR_BUFFER_OVERFLOW"}]

\* What bal_engine_destroy cannot free.
Leaks == {"unfinished state", "fd", "view"}

Typed ==
    /\ host \in [Engines -> Processes]
    /\ alive \subseteq Processes
    /\ handler \in [Processes -> {"SIG_DFL", "segv_handler"}]
    /\ shm_name \in BOOLEAN /\ orphaned \in BOOLEAN
    /\ call \in [Engines -> Calls]
    /\ engine_state \in [Engines -> BOOLEAN]
    /\ inits \in [Engines -> 0 .. MaxInits]
    /\ memory \in [Engines -> SUBSET Allocation]
    /\ lost \in [Engines -> SUBSET Leaks]
    /\ debug_pointer \in [Engines -> Nat]
    /\ context \in [Engines -> Context]
    /\ blocks \in [Engines -> Seq(Block)]

\* An engine without the JIT debug context.
Bare == {"state", "buffer"}

\* What an engine has allocated at each point of its life.
Holds(e) ==
    \/ call[e] = "idle" /\ ~engine_state[e] /\ memory[e] = {}
    \/ call[e] \in {"shm_open", "shm_unlink", "map"} /\ ~engine_state[e] /\ memory[e] = {"state"}
    \/ call[e] = "debug" /\ ~engine_state[e] /\ memory[e] = Bare
    \/ call[e] = "compiler" /\ ~engine_state[e] /\ memory[e] \in {Bare, Allocation}
    \/ call[e] \in {"idle", "running"} /\ engine_state[e] /\ memory[e] \in {Bare, Allocation}

\* Another engine of the process was initialised and has no context.
Bereft(e) ==
    \E f \in Engines \ {e} : host[f] = host[e] /\ inits[f] > 0 /\ "entries" \notin memory[f]

\* Only an engine with a context has a pointer to one that lives.  It lacks the
\* handler only if another engine of the process took it away.
Pointers(e) ==
    /\ debug_pointer[e] <= inits[e]
    /\ call[e] # "idle" \/ engine_state[e] => inits[e] > 0
    /\ "entries" \in memory[e] => debug_pointer[e] = inits[e]
    /\ (call[e] # "idle" \/ engine_state[e]) /\ debug_pointer[e] = inits[e] =>
           "entries" \in memory[e]
    /\ "entries" \in memory[e] /\ handler[host[e]] = "SIG_DFL" => Bereft(e)

End(bs) == IF bs = <<>> THEN 0 ELSE Last(bs).start + Last(bs).size
Inside(b, rip) == b.start <= rip /\ rip < b.start + b.size

\* A block's code and mappings, as Compile makes them.
Formed(b) ==
    /\ b.size = Len(b.pcs) + 1
    /\ Len(b.mappings) <= Len(b.pcs)
    /\ b.mappings = <<>> => b.size = 1
    /\ \A k \in 1 .. Len(b.mappings) :
            /\ b.mappings[k].x86_offset \in 1 .. k
            /\ b.mappings[k].guest_pc_offset = b.pcs[k]

\* The blocks lie one after the other and leave no gap.
Tiled(bs) ==
    /\ \A k \in 1 .. Len(bs) : Formed(bs[k]) /\ bs[k].start + bs[k].size <= End(bs)
    /\ \A j, k \in 1 .. Len(bs) : j < k => bs[j].start + bs[j].size <= bs[k].start
    /\ \A rip \in 0 .. End(bs) - 1 : \E k \in 1 .. Len(bs) : Inside(bs[k], rip)

\* An entry of the registry is one of the blocks, and has mappings.
IsBlock(x, bs) == x.mappings # <<>> /\ \E i \in 1 .. Len(bs) : x = bs[i]

\* The registry has blocks with mappings in the order of their code, and all of
\* them unless it overflowed.
Registered(c, bs) ==
    /\ Len(c.entries) <= ENTRY_CAPACITY
    /\ c.arena_offset <= ARENA_CAPACITY
    /\ \A k \in 1 .. Len(c.entries) : IsBlock(c.entries[k], bs)
    /\ \A j, k \in 1 .. Len(c.entries) :
            j < k => c.entries[j].start + c.entries[j].size <= c.entries[k].start
    /\ c.status = "BAL_SUCCESS" => \A i \in 1 .. Len(bs) : bs[i].mappings # <<>> =>
            \E k \in 1 .. Len(c.entries) : c.entries[k] = bs[i]

Code(e) ==
    /\ Tiled(blocks[e])
    /\ Registered(context[e], blocks[e])
    /\ ~engine_state[e] => blocks[e] = <<>>
    /\ "entries" \in memory[e] <=> context[e].status # "none"

Inv ==
    /\ Typed
    /\ freed_twice = FALSE
    /\ \A e \in Engines : Holds(e) /\ Pointers(e) /\ Code(e)

-----------------------------------------------------------------------------
(* Blocks and the registry.                                                *)

\* An empty buffer has no code, and an empty registry lacks no block of it.
LEMMA NothingTiled ==
    /\ NoContext \in Context /\ FreshContext \in Context
    /\ NoContext.status = "none" /\ FreshContext.status = "BAL_SUCCESS"
    /\ Tiled(<<>>)
    /\ Registered(NoContext, <<>>)
    /\ Registered(FreshContext, <<>>)
    /\ <<>> \in Seq(Block)
<1>1. Tiled(<<>>)
  BY DEF Tiled, End
<1>2. <<>> \in Seq(Block)
  OBVIOUS
<1>3. /\ NoContext \in Context /\ FreshContext \in Context
      /\ NoContext.status = "none" /\ FreshContext.status = "BAL_SUCCESS"
      /\ NoContext.entries = <<>> /\ FreshContext.entries = <<>>
      /\ NoContext.arena_offset = 0 /\ FreshContext.arena_offset = 0
  BY <1>2 DEF NoContext, FreshContext, Context
<1>4. \A c \in Context : c.entries = <<>> /\ c.arena_offset = 0 => Registered(c, <<>>)
  BY BoundAssumption DEF Registered
<1> QED
  BY <1>1, <1>2, <1>3, <1>4

\* The block that Compile appends.
Compiled(bs, pcs, offsets) ==
    [start |-> End(bs), size |-> Len(pcs) + 1, base |-> 100 * (Len(bs) + 1), pcs |-> pcs,
     mappings |-> [k \in 1 .. Len(offsets) |-> [x86_offset |-> offsets[k],
                                                guest_pc_offset |-> pcs[k]]]]

\* The end of the code is a number.
LEMMA EndTyped ==
    ASSUME NEW bs \in Seq(Block)
    PROVE  End(bs) \in Nat
<1>1. CASE bs = <<>>
  BY <1>1 DEF End
<1>2. CASE bs # <<>>
  <2>1. Last(bs) \in Block
    BY <1>2 DEF Last
  <2>2. Last(bs).start \in Nat /\ Last(bs).size \in Nat
    BY <2>1 DEF Block
  <2>3. End(bs) = Last(bs).start + Last(bs).size
    BY <1>2 DEF End
  <2> QED
    BY <2>2, <2>3
<1> QED
  BY <1>1, <1>2

\* The guest offsets of a block are a sequence of numbers.
LEMMA GuestOffsetsTyped ==
    ASSUME NEW count \in Nat, NEW pcs \in GuestOffsets(count)
    PROVE  pcs \in Seq(Nat) /\ Len(pcs) = count
<1>1. PICK last \in JumpOffsets \union {4 * (count - 1)} :
          pcs = [k \in 1 .. count |-> IF k = count THEN last ELSE 4 * (k - 1)]
  BY DEF GuestOffsets
<1>2. ASSUME NEW k \in 1 .. count PROVE (IF k = count THEN last ELSE 4 * (k - 1)) \in Nat
  <2>1. last \in JumpOffsets => last \in Nat
    BY JumpAssumption
  <2> QED
    BY <1>1, <2>1
<1> QED
  BY <1>1, <1>2

\* The code offsets that a block's mappings have, one for each instruction up to
\* MAX_MAPPINGS.
LEMMA CodeOffsetsTyped ==
    ASSUME NEW count \in Nat, NEW offsets \in CodeOffsets(Min({count, MAX_MAPPINGS}))
    PROVE  /\ offsets \in Seq(Nat) /\ Len(offsets) <= count
           /\ Len(offsets) = 0 => count = 0
           /\ \A k \in 1 .. Len(offsets) : offsets[k] \in 1 .. k
<1> DEFINE n == Min({count, MAX_MAPPINGS})
<1>1. n \in Nat /\ n <= count /\ (n = 0 => count = 0)
  <2>1. \E x \in {count, MAX_MAPPINGS} : \A y \in {count, MAX_MAPPINGS} : x <= y
    BY BoundAssumption
  <2>2. n \in {count, MAX_MAPPINGS} /\ \A y \in {count, MAX_MAPPINGS} : n <= y
    BY <2>1, Zenon DEF Min
  <2> HIDE DEF n
  <2> QED
    BY <2>2, BoundAssumption
<1> HIDE DEF n
<1>2. offsets \in [1 .. n -> 1 .. n] /\ \A k \in 1 .. n : offsets[k] <= k
  BY DEF CodeOffsets, n
<1>3. offsets \in Seq(Nat) /\ Len(offsets) = n
  BY <1>1, <1>2
<1> QED
  BY <1>1, <1>2, <1>3

\* A block made by Compile has its type and its form.
LEMMA CompiledTyped ==
    ASSUME NEW bs \in Seq(Block), NEW pcs \in Seq(Nat), NEW offsets \in Seq(Nat),
           Len(offsets) <= Len(pcs), Len(offsets) = 0 => Len(pcs) = 0,
           \A k \in 1 .. Len(offsets) : offsets[k] \in 1 .. k
    PROVE  /\ Compiled(bs, pcs, offsets) \in Block
           /\ Formed(Compiled(bs, pcs, offsets))
           /\ Compiled(bs, pcs, offsets).start = End(bs)
           /\ Compiled(bs, pcs, offsets).mappings = <<>> <=> Len(offsets) = 0
<1> DEFINE at(k) == [x86_offset |-> offsets[k], guest_pc_offset |-> pcs[k]]
           ms == [k \in 1 .. Len(offsets) |-> at(k)]
           b == Compiled(bs, pcs, offsets)
<1>1. \A k \in 1 .. Len(offsets) :
          at(k) \in Mapping /\ at(k).x86_offset \in 1 .. k /\ at(k).guest_pc_offset = pcs[k]
  BY DEF Mapping
<1> HIDE DEF at
<1>2. /\ ms \in Seq(Mapping) /\ Len(ms) = Len(offsets)
      /\ \A k \in 1 .. Len(ms) : ms[k].x86_offset \in 1 .. k /\ ms[k].guest_pc_offset = pcs[k]
  BY <1>1
<1>3. b = [start |-> End(bs), size |-> Len(pcs) + 1, base |-> 100 * (Len(bs) + 1), pcs |-> pcs,
           mappings |-> ms]
  BY DEF Compiled, at
<1> HIDE DEF ms, b
<1>4. End(bs) \in Nat /\ Len(pcs) + 1 \in Nat /\ 100 * (Len(bs) + 1) \in Nat
  BY EndTyped
<1>5. b \in Block
  BY <1>2, <1>3, <1>4 DEF Block
<1>6. b.start = End(bs) /\ b.size = Len(pcs) + 1 /\ b.pcs = pcs /\ b.mappings = ms
  BY <1>3
<1>7. ms = <<>> <=> Len(offsets) = 0
  BY <1>2
<1>8. Formed(b)
  BY <1>2, <1>6, <1>7 DEF Formed
<1> QED
  BY <1>5, <1>6, <1>7, <1>8 DEF b

\* Appending it keeps the buffer tiled.
LEMMA AppendTiled ==
    ASSUME NEW bs \in Seq(Block), Tiled(bs), NEW b \in Block, Formed(b), b.start = End(bs)
    PROVE  Tiled(Append(bs, b)) /\ Append(bs, b) \in Seq(Block)
<1> DEFINE n == Len(bs)
           t == Append(bs, b)
<1>1. /\ n \in Nat /\ t \in Seq(Block) /\ Len(t) = n + 1 /\ t[n + 1] = b
      /\ \A k \in 1 .. n : t[k] = bs[k] /\ bs[k] \in Block
  OBVIOUS
<1>2. End(t) = b.start + b.size
  <2>1. t # <<>> /\ Last(t) = t[Len(t)]
    BY <1>1 DEF Last
  <2> HIDE DEF t, n
  <2> QED
    BY <1>1, <2>1 DEF End
<1>3. /\ End(bs) \in Nat /\ b.size \in Nat /\ b.start \in Nat
      /\ \A k \in 1 .. n : bs[k].start \in Nat /\ bs[k].size \in Nat
  BY <1>1, EndTyped DEF Block
<1> HIDE DEF t, n
<1>4. \A k \in 1 .. n + 1 : Formed(t[k]) /\ t[k].start + t[k].size <= End(t)
  <2> SUFFICES ASSUME NEW k \in 1 .. n + 1
               PROVE  Formed(t[k]) /\ t[k].start + t[k].size <= End(t)
    OBVIOUS
  <2>1. CASE k = n + 1
    BY <1>1, <1>2, <1>3, <2>1
  <2>2. CASE k # n + 1
    <3>1. k \in 1 .. n
      BY <1>1, <2>2
    <3>2. Formed(bs[k]) /\ bs[k].start + bs[k].size <= End(bs)
      BY <3>1 DEF Tiled, n
    <3>3. t[k] = bs[k] /\ bs[k].start \in Nat /\ bs[k].size \in Nat
      BY <1>1, <1>3, <3>1
    <3>4. End(t) \in Nat /\ End(bs) <= End(t)
      BY <1>2, <1>3
    <3>5. bs[k].start + bs[k].size <= End(t)
      BY <1>3, <3>2, <3>3, <3>4
    <3> QED
      BY <3>2, <3>3, <3>5
  <2> QED
    BY <2>1, <2>2
<1>5. \A j, k \in 1 .. n + 1 : j < k => t[j].start + t[j].size <= t[k].start
  <2> SUFFICES ASSUME NEW j \in 1 .. n + 1, NEW k \in 1 .. n + 1, j < k
               PROVE  t[j].start + t[j].size <= t[k].start
    OBVIOUS
  <2>1. j \in 1 .. n
    BY <1>1
  <2>2. CASE k = n + 1
    <3>1. bs[j].start + bs[j].size <= End(bs)
      BY <2>1 DEF Tiled, n
    <3> QED
      BY <1>1, <2>1, <2>2, <3>1
  <2>3. CASE k # n + 1
    <3>1. k \in 1 .. n
      BY <1>1, <2>3
    <3>2. bs[j].start + bs[j].size <= bs[k].start
      BY <2>1, <3>1 DEF Tiled, n
    <3> QED
      BY <1>1, <2>1, <3>1, <3>2
  <2> QED
    BY <2>2, <2>3
<1>6. \A rip \in 0 .. End(t) - 1 : \E k \in 1 .. n + 1 : Inside(t[k], rip)
  <2> SUFFICES ASSUME NEW rip \in 0 .. End(t) - 1
               PROVE  \E k \in 1 .. n + 1 : Inside(t[k], rip)
    OBVIOUS
  <2>1. CASE rip < End(bs)
    <3>1. rip \in 0 .. End(bs) - 1
      BY <1>3, <2>1
    <3>2. PICK k \in 1 .. n : Inside(bs[k], rip)
      BY <3>1 DEF Tiled, n
    <3>3. k \in 1 .. n + 1 /\ Inside(t[k], rip)
      BY <1>1, <3>2
    <3> QED
      BY <3>3
  <2>2. CASE ~(rip < End(bs))
    <3>1. n + 1 \in 1 .. n + 1 /\ Inside(t[n + 1], rip)
      BY <1>1, <1>2, <1>3, <2>2 DEF Inside
    <3> QED
      BY <3>1
  <2> QED
    BY <2>1, <2>2
<1> QED
  BY <1>1, <1>4, <1>5, <1>6 DEF Tiled, t

\* A buffer with one more block has the blocks it had.
LEMMA StillBlock ==
    ASSUME NEW bs \in Seq(Block), NEW b \in Block, NEW x, IsBlock(x, bs)
    PROVE  IsBlock(x, Append(bs, b))
<1>1. PICK i \in 1 .. Len(bs) : x = bs[i]
  BY DEF IsBlock
<1>2. /\ i \in 1 .. Len(Append(bs, b)) /\ Append(bs, b)[i] = bs[i]
  OBVIOUS
<1> QED
  BY <1>1, <1>2 DEF IsBlock

\* A registry that has overflowed, or that lacks nothing of a block without
\* mappings, is as good for the longer buffer.
LEMMA RegisteredStill ==
    ASSUME NEW c, NEW bs \in Seq(Block), NEW b \in Block, Registered(c, bs),
           c.status = "BAL_SUCCESS" => b.mappings = <<>>
    PROVE  Registered(c, Append(bs, b))
<1> DEFINE t == Append(bs, b)
<1>1. /\ Len(t) = Len(bs) + 1 /\ t[Len(bs) + 1] = b /\ Len(bs) \in Nat
      /\ \A i \in 1 .. Len(bs) : t[i] = bs[i]
  OBVIOUS
<1>2. \A k \in 1 .. Len(c.entries) : IsBlock(c.entries[k], t)
  BY StillBlock DEF Registered
<1> HIDE DEF t
<1>3. ASSUME c.status = "BAL_SUCCESS", NEW i \in 1 .. Len(t), t[i].mappings # <<>>
      PROVE  \E k \in 1 .. Len(c.entries) : c.entries[k] = t[i]
  <2>1. i # Len(bs) + 1
    BY <1>1, <1>3
  <2>2. i \in 1 .. Len(bs) /\ t[i] = bs[i]
    BY <1>1, <2>1
  <2> QED
    BY <1>3, <2>2 DEF Registered
<1> QED
  BY <1>2, <1>3 DEF Registered, t

\* bal_jit_debug_add_block keeps inside the arrays, and registers the block unless
\* there was or is an overflow.
LEMMA AddBlock ==
    ASSUME NEW c \in Context, NEW bs \in Seq(Block), Tiled(bs), NEW b \in Block,
           Registered(c, bs), b.start = End(bs), b.mappings # <<>>
    PROVE  LET d == bal_jit_debug_add_block(c, b)
           IN  /\ d \in Context
               /\ Registered(d, Append(bs, b))
               /\ d.status = "none" <=> c.status = "none"
<1> DEFINE t == Append(bs, b)
           n == Len(bs)
           d == bal_jit_debug_add_block(c, b)
           es == c.entries
           m == Len(b.mappings)
<1>1. /\ n \in Nat /\ Len(t) = n + 1 /\ t[n + 1] = b /\ \A k \in 1 .. n : t[k] = bs[k]
  OBVIOUS
<1>2. /\ es \in Seq(Block) /\ Len(es) \in Nat /\ c.arena_offset \in Nat /\ m \in Nat
      /\ ENTRY_CAPACITY \in Nat /\ ARENA_CAPACITY \in Nat
  <2>1. b.mappings \in Seq(Mapping)
    BY DEF Block
  <2> QED
    BY <2>1, BoundAssumption DEF Context
<1> HIDE DEF t, n, m
<1>3. CASE c.status # "BAL_SUCCESS"
  <2>1. d = c
    BY <1>3 DEF bal_jit_debug_add_block
  <2>2. Registered(c, t)
    BY <1>3, RegisteredStill DEF t
  <2> HIDE DEF d
  <2> QED
    BY <2>1, <2>2 DEF d, t
<1>4. CASE /\ c.status = "BAL_SUCCESS"
           /\ Len(es) >= ENTRY_CAPACITY \/ c.arena_offset + m + 1 > ARENA_CAPACITY
  <2>1. d = [c EXCEPT !.status = "BAL_ERROR_BUFFER_OVERFLOW"]
    BY <1>4 DEF bal_jit_debug_add_block, m
  <2> HIDE DEF d
  <2>2. /\ d \in Context /\ d.entries = es /\ d.arena_offset = c.arena_offset
        /\ d.status = "BAL_ERROR_BUFFER_OVERFLOW"
    BY <2>1 DEF Context
  <2>3. Registered(d, bs)
    BY <2>2 DEF Registered
  <2>4. Registered(d, t)
    BY <2>2, <2>3, RegisteredStill DEF t
  <2> QED
    BY <1>4, <2>2, <2>4 DEF d, t
<1>5. CASE /\ c.status = "BAL_SUCCESS"
           /\ ~(Len(es) >= ENTRY_CAPACITY \/ c.arena_offset + m + 1 > ARENA_CAPACITY)
  <2> DEFINE fs == Append(es, b)
  <2>1. d = [c EXCEPT !.entries = Append(@, b), !.arena_offset = @ + m + 1]
    BY <1>5 DEF bal_jit_debug_add_block, m
  <2>2. /\ fs \in Seq(Block) /\ Len(fs) = Len(es) + 1 /\ fs[Len(es) + 1] = b
        /\ \A k \in 1 .. Len(es) : fs[k] = es[k]
    BY <1>2
  <2> HIDE DEF d, fs
  <2>3. d = [entries |-> fs, arena_offset |-> c.arena_offset + m + 1, status |-> "BAL_SUCCESS"]
    BY <1>5, <2>1 DEF Context, fs
  <2>4. c.arena_offset + m + 1 \in Nat
    BY <1>2
  <2>5. /\ d \in Context /\ d.entries = fs /\ d.arena_offset = c.arena_offset + m + 1
        /\ d.status = "BAL_SUCCESS"
    BY <2>2, <2>3, <2>4 DEF Context
  <2>6. \A k \in 1 .. Len(fs) : IsBlock(fs[k], t)
    <3>1. IsBlock(b, t)
      <4>1. n + 1 \in 1 .. Len(t)
        BY <1>1
      <4> QED
        BY <1>1, <4>1 DEF IsBlock
    <3>2. \A k \in 1 .. Len(es) : IsBlock(es[k], t)
      BY StillBlock DEF Registered, t
    <3> QED
      BY <1>2, <2>2, <3>1, <3>2
  <2>7. \A j, k \in 1 .. Len(fs) : j < k => fs[j].start + fs[j].size <= fs[k].start
    <3> SUFFICES ASSUME NEW j \in 1 .. Len(fs), NEW k \in 1 .. Len(fs), j < k
                 PROVE  fs[j].start + fs[j].size <= fs[k].start
      OBVIOUS
    <3>1. j \in 1 .. Len(es) /\ fs[j] = es[j]
      BY <1>2, <2>2
    <3>2. CASE k = Len(es) + 1
      <4>1. IsBlock(es[j], bs)
        BY <3>1 DEF Registered
      <4>2. PICK i \in 1 .. Len(bs) : es[j] = bs[i]
        BY <4>1 DEF IsBlock
      <4>3. bs[i].start + bs[i].size <= End(bs)
        BY DEF Tiled
      <4> QED
        BY <2>2, <3>1, <3>2, <4>2, <4>3
    <3>3. CASE k # Len(es) + 1
      <4>1. k \in 1 .. Len(es) /\ fs[k] = es[k]
        BY <1>2, <2>2, <3>3
      <4> QED
        BY <3>1, <4>1 DEF Registered
    <3> QED
      BY <3>2, <3>3
  <2>8. ASSUME NEW i \in 1 .. Len(t), t[i].mappings # <<>>
        PROVE  \E k \in 1 .. Len(fs) : fs[k] = t[i]
    <3>1. CASE i = n + 1
      <4>1. Len(es) + 1 \in 1 .. Len(fs)
        BY <1>2, <2>2
      <4> QED
        BY <1>1, <2>2, <3>1, <4>1
    <3>2. CASE i # n + 1
      <4>1. i \in 1 .. n /\ t[i] = bs[i]
        BY <1>1, <3>2
      <4>2. PICK k \in 1 .. Len(es) : es[k] = bs[i]
        BY <1>5, <2>8, <4>1 DEF Registered, n
      <4>3. k \in 1 .. Len(fs) /\ fs[k] = es[k]
        BY <1>2, <2>2
      <4> QED
        BY <4>1, <4>2, <4>3
    <3> QED
      BY <3>1, <3>2
  <2>9. Len(fs) <= ENTRY_CAPACITY /\ c.arena_offset + m + 1 <= ARENA_CAPACITY
    BY <1>2, <1>5, <2>2
  <2>10. Registered(d, t)
    BY <2>5, <2>6, <2>7, <2>8, <2>9 DEF Registered
  <2> QED
    BY <1>5, <2>5, <2>10 DEF d, t
<1> QED
  BY <1>3, <1>4, <1>5

-----------------------------------------------------------------------------
(* Every action keeps the invariant.                                       *)

\* The pointers of an engine are as good as before if nobody got or lost a
\* context and no handler changed.
LEMMA PointersKept ==
    ASSUME NEW f \in Engines, Pointers(f),
           host' = host, handler' = handler, debug_pointer' = debug_pointer, inits' = inits,
           \A g \in Engines : "entries" \in memory'[g] <=> "entries" \in memory[g],
           call'[f] # "idle" \/ engine_state'[f] => call[f] # "idle" \/ engine_state[f]
    PROVE  Pointers(f)'
BY DEF Pointers, Bereft

\* The code of an engine is as it was.
LEMMA CodeKept ==
    ASSUME NEW f \in Engines, Code(f),
           blocks'[f] = blocks[f], context'[f] = context[f],
           "entries" \in memory'[f] <=> "entries" \in memory[f],
           ~engine_state'[f] => ~engine_state[f]
    PROVE  Code(f)'
BY DEF Code

\* An updated function keeps its type.
LEMMA Updated ==
    ASSUME NEW S, NEW T, NEW f \in [S -> T], NEW x \in S, NEW v \in T
    PROVE  [f EXCEPT ![x] = v] \in [S -> T]
OBVIOUS

\* The names of the allocations are different.
LEMMA Allocations ==
    /\ "entries" \notin {} /\ "entries" \notin {"state"} /\ "entries" \notin Bare
    /\ "entries" \in Allocation /\ {} # {"state"}
    /\ {{}, {"state"}, Bare, Allocation} \subseteq SUBSET Allocation
BY DEF Bare, Allocation

\* The first step of bal_engine_init.
LEMMA BeginInitInv ==
    ASSUME Inv, NEW e \in Engines, BeginInit(e)
    PROVE  Inv'
<1>1. /\ call[e] = "idle" /\ ~engine_state[e] /\ inits[e] < MaxInits
      /\ inits' = [inits EXCEPT ![e] = @ + 1]
      /\ \/ call' = call /\ memory' = memory
         \/ /\ call' = [call EXCEPT ![e] = "shm_open"]
            /\ memory' = [memory EXCEPT ![e] = {"state"}]
      /\ UNCHANGED <<host, alive, handler, shm_name, engine_state, lost, debug_pointer, context,
                     blocks, crashes, orphaned, freed_twice>>
  BY DEF BeginInit, At, Goto, Keeps
<1>2. Typed
  BY DEF Inv
<1>3. Typed'
  <2>1. inits[e] \in 0 .. MaxInits /\ MaxInits \in Nat
    BY <1>2, BoundAssumption DEF Typed
  <2>2. inits[e] + 1 \in 0 .. MaxInits
    BY <1>1, <2>1
  <2>3. inits' \in [Engines -> 0 .. MaxInits]
    BY <1>1, <1>2, <2>2, Updated DEF Typed
  <2>4. call' \in [Engines -> Calls]
    BY <1>1, <1>2 DEF Typed, Calls
  <2>5. {"state"} \in SUBSET Allocation
    BY Allocations
  <2>6. memory' \in [Engines -> SUBSET Allocation]
    <3>1. memory \in [Engines -> SUBSET Allocation]
      BY <1>2 DEF Typed
    <3> QED
      BY <1>1, <2>5, <3>1, Updated, Zenon
  <2> QED
    BY <1>1, <1>2, <2>3, <2>4, <2>6 DEF Typed
<1>4. Holds(e) /\ memory[e] = {}
  BY <1>1 DEF Inv, Holds
<1>5. \A f \in Engines : "entries" \in memory'[f] <=> "entries" \in memory[f]
  <2>1. CASE memory' = memory
    BY <2>1
  <2>2. CASE memory' = [memory EXCEPT ![e] = {"state"}]
    <3>1. memory \in [Engines -> SUBSET Allocation]
      BY <1>2 DEF Typed
    <3>2. memory'[e] = {"state"} /\ \A f \in Engines \ {e} : memory'[f] = memory[f]
      BY <2>2, <3>1
    <3> QED
      BY <1>4, <3>2, Allocations, Zenon
  <2> QED
    BY <1>1, <2>1, <2>2, Zenon
<1>6. ASSUME NEW f \in Engines PROVE Holds(f)'
  <2>1. CASE f = e
    BY <1>1, <1>2, <1>4, <2>1 DEF Holds, Typed
  <2>2. CASE f # e
    <3>1. call'[f] = call[f] /\ memory'[f] = memory[f] /\ engine_state' = engine_state
      BY <1>1, <1>2, <2>2 DEF Typed
    <3> QED
      BY <3>1 DEF Inv, Holds
  <2> QED
    BY <2>1, <2>2
<1>7. ASSUME NEW f \in Engines PROVE Pointers(f)'
  <2>1. \A g \in Engines : inits'[g] = IF g = e THEN inits[e] + 1 ELSE inits[g]
    BY <1>1, <1>2 DEF Typed
  <2>2. \A g \in Engines : inits[g] \in Nat /\ debug_pointer[g] \in Nat
    BY <1>2 DEF Typed
  <2>3. f # e => call'[f] = call[f]
    BY <1>1, <1>2 DEF Typed
  <2>4. Pointers(f)
    BY DEF Inv
  <2>5. \A g \in Engines : inits'[g] >= inits[g]
    BY <2>1, <2>2
  <2>6. "entries" \in memory[f] => f # e
    BY <1>4
  <2>7. Bereft(f) => Bereft(f)'
    BY <1>1, <1>5, <2>1, <2>2 DEF Bereft
  <2> QED
    BY <1>1, <1>5, <2>1, <2>2, <2>3, <2>4, <2>6, <2>7 DEF Pointers
<1>8. ASSUME NEW f \in Engines PROVE Code(f)'
  BY <1>1, <1>5, CodeKept DEF Inv
<1> QED
  BY <1>1, <1>3, <1>6, <1>7, <1>8 DEF Inv

\* A step of an init that only moves on, or gives up: the actions between shm_open
\* and the mapping of the buffer.
LEMMA AcquireInv ==
    ASSUME Inv, NEW e \in Engines, ShmOpen(e) \/ ShmUnlink(e) \/ MapBuffer(e)
    PROVE  Inv'
<1>1. /\ call[e] \in {"shm_open", "shm_unlink", "map"}
      /\ \/ /\ call' = [call EXCEPT ![e] = "idle"]
            /\ memory' = [memory EXCEPT ![e] = {}]
         \/ /\ call' = [call EXCEPT ![e] = "shm_unlink"]
            /\ memory' = memory
         \/ /\ call' = [call EXCEPT ![e] = "map"]
            /\ memory' = memory
         \/ /\ call' = [call EXCEPT ![e] = "debug"]
            /\ memory' = [memory EXCEPT ![e] = Bare]
      /\ \/ lost' = lost
         \/ \E more \in SUBSET Leaks :
                lost' = [lost EXCEPT ![e] = @ \union more]
      /\ shm_name' \in {shm_name, TRUE, FALSE}
      /\ UNCHANGED <<host, alive, handler, engine_state, inits, debug_pointer, context, blocks,
                     crashes, orphaned, freed_twice>>
  <2>1. CASE ShmOpen(e)
    <3>1. CASE shm_name
      <4>1. lost' = [lost EXCEPT ![e] = @ \union ({"unfinished state"} \union {})]
        BY <2>1, <3>1 DEF ShmOpen, GiveUp
      <4> QED
        BY <2>1, <3>1, <4>1 DEF ShmOpen, At, Goto, Keeps, GiveUp, Leaks
    <3>2. CASE ~shm_name
      BY <2>1, <3>2 DEF ShmOpen, At, Goto
    <3> QED
      BY <3>1, <3>2
  <2>2. CASE ShmUnlink(e)
    BY <2>2 DEF ShmUnlink, At, Goto
  <2>3. CASE MapBuffer(e)
    <3>1. \A others \in SUBSET {"fd", "view"} : GiveUp(e, others) =>
              /\ call' = [call EXCEPT ![e] = "idle"]
              /\ memory' = [memory EXCEPT ![e] = {}]
              /\ \E more \in SUBSET Leaks :
                    lost' = [lost EXCEPT ![e] = @ \union more]
      <4> SUFFICES ASSUME NEW others \in SUBSET {"fd", "view"}, GiveUp(e, others)
                   PROVE  \E more \in SUBSET Leaks :
                              lost' = [lost EXCEPT ![e] = @ \union more]
        BY DEF GiveUp, Goto, Keeps
      <4>1. lost' = [lost EXCEPT ![e] = @ \union ({"unfinished state"} \union others)]
        BY DEF GiveUp
      <4> QED
        BY <4>1 DEF Leaks
    <3>2. \/ GiveUp(e, {}) \/ GiveUp(e, {"fd"}) \/ GiveUp(e, {"fd", "view"})
          \/ /\ call' = [call EXCEPT ![e] = "debug"]
             /\ memory' = [memory EXCEPT ![e] = Bare]
             /\ lost' = [lost EXCEPT ![e] = @ \union {"fd"}]
      BY <2>3 DEF MapBuffer, Goto, Keeps, Bare
    <3>3. \/ /\ call' = [call EXCEPT ![e] = "idle"]
             /\ memory' = [memory EXCEPT ![e] = {}]
             /\ \E more \in SUBSET Leaks :
                    lost' = [lost EXCEPT ![e] = @ \union more]
          \/ /\ call' = [call EXCEPT ![e] = "debug"]
             /\ memory' = [memory EXCEPT ![e] = Bare]
             /\ \E more \in SUBSET Leaks :
                    lost' = [lost EXCEPT ![e] = @ \union more]
      BY <3>1, <3>2 DEF Leaks
    <3>4. /\ call[e] = "map"
          /\ UNCHANGED <<host, alive, handler, shm_name, engine_state, inits, debug_pointer,
                         context, blocks, crashes, orphaned, freed_twice>>
      BY <2>3 DEF MapBuffer, At
    <3> QED
      BY <3>3, <3>4
  <2> QED
    BY <2>1, <2>2, <2>3
<1>2. Typed /\ Holds(e)
  BY DEF Inv
<1>3. ~engine_state[e] /\ memory[e] = {"state"}
  BY <1>1, <1>2 DEF Holds
<1>4. Typed'
  <2> DEFINE L == Leaks
  <2>1. lost \in [Engines -> SUBSET L] /\ memory \in [Engines -> SUBSET Allocation]
    BY <1>2 DEF Typed
  <2>2. lost' = lost \/ \E more \in SUBSET L : lost' = [lost EXCEPT ![e] = lost[e] \union more]
    BY <1>1
  <2> HIDE DEF L
  <2>3. lost' \in [Engines -> SUBSET L]
    BY <2>1, <2>2
  <2>4. call' \in [Engines -> Calls]
    <3>1. "idle" \in Calls /\ "shm_unlink" \in Calls /\ "map" \in Calls /\ "debug" \in Calls
      BY DEF Calls
    <3>2. \E where \in Calls : call' = [call EXCEPT ![e] = where]
      BY <1>1, <3>1
    <3> QED
      BY <1>2, <3>2, Updated DEF Typed
  <2>5. {} \in SUBSET Allocation /\ Bare \in SUBSET Allocation
    BY Allocations
  <2>6. memory' \in [Engines -> SUBSET Allocation]
    BY <1>1, <2>1, <2>5, Updated, Zenon
  <2> QED
    BY <1>1, <1>2, <2>3, <2>4, <2>6 DEF Typed, L
<1>5. \A f \in Engines : "entries" \in memory'[f] <=> "entries" \in memory[f]
  BY <1>1, <1>2, <1>3, Allocations DEF Typed
<1>6. ASSUME NEW f \in Engines PROVE Holds(f)'
  <2>1. CASE f = e
    BY <1>1, <1>2, <1>3, <2>1 DEF Holds, Typed
  <2>2. CASE f # e
    <3>1. call'[f] = call[f] /\ memory'[f] = memory[f] /\ engine_state' = engine_state
      BY <1>1, <1>2, <2>2 DEF Typed
    <3> QED
      BY <3>1 DEF Inv, Holds
  <2> QED
    BY <2>1, <2>2
<1>7. ASSUME NEW f \in Engines PROVE Pointers(f)'
  <2>1. f = e \/ call'[f] = call[f]
    BY <1>1, <1>2 DEF Typed
  <2> QED
    BY <1>1, <1>5, <2>1, PointersKept DEF Inv
<1>8. ASSUME NEW f \in Engines PROVE Code(f)'
  BY <1>1, <1>5, CodeKept DEF Inv
<1> QED
  BY <1>1, <1>4, <1>6, <1>7, <1>8 DEF Inv

\* The debug context and the signal handler.
LEMMA DebugInitInv ==
    ASSUME Inv, NEW e \in Engines, DebugInit(e)
    PROVE  Inv'
<1>1. /\ call[e] = "debug" /\ call' = [call EXCEPT ![e] = "compiler"]
      /\ UNCHANGED <<host, alive, shm_name, engine_state, inits, lost, blocks, crashes, orphaned,
                     freed_twice>>
  BY DEF DebugInit, At, Goto
<1>2. Typed /\ Holds(e) /\ "compiler" \in Calls
  BY DEF Inv, Calls
<1>3. ~engine_state[e] /\ memory[e] = Bare
  BY <1>1, <1>2 DEF Holds
<1>4. CASE UNCHANGED <<memory, handler, debug_pointer, context>>
  <2>1. Typed'
    BY <1>1, <1>2, <1>4 DEF Typed
  <2>2. ASSUME NEW f \in Engines PROVE Holds(f)' /\ Pointers(f)' /\ Code(f)'
    <3>1. call'[f] = IF f = e THEN "compiler" ELSE call[f]
      BY <1>1, <1>2 DEF Typed
    <3>2. Holds(f)'
      BY <1>1, <1>3, <1>4, <3>1 DEF Inv, Holds
    <3>3. Pointers(f)'
      BY <1>1, <1>4, <3>1, PointersKept DEF Inv
    <3>4. Code(f)'
      BY <1>1, <1>4, CodeKept DEF Inv
    <3> QED
      BY <3>2, <3>3, <3>4
  <2> QED
    BY <1>1, <2>1, <2>2 DEF Inv
<1>5. CASE /\ memory' = [memory EXCEPT ![e] = Allocation]
           /\ handler' = [handler EXCEPT ![host[e]] = "segv_handler"]
           /\ debug_pointer' = [debug_pointer EXCEPT ![e] = inits[e]]
           /\ context' = [context EXCEPT ![e] = FreshContext]
  <2>1. Typed'
    <3>1. inits[e] \in Nat /\ host[e] \in Processes
      BY <1>2 DEF Typed
    <3>2. memory' \in [Engines -> SUBSET Allocation]
      <4>1. Allocation \in SUBSET Allocation
        OBVIOUS
      <4> QED
        BY <1>2, <1>5, <4>1, Updated, Zenon DEF Typed
    <3>3. context' \in [Engines -> Context] /\ debug_pointer' \in [Engines -> Nat]
      BY <1>2, <1>5, <3>1, NothingTiled, Updated DEF Typed
    <3>4. handler' \in [Processes -> {"SIG_DFL", "segv_handler"}]
      BY <1>2, <1>5, <3>1 DEF Typed
    <3>5. call' \in [Engines -> Calls]
      BY <1>1, <1>2, Updated DEF Typed
    <3> QED
      BY <1>1, <1>2, <3>2, <3>3, <3>4, <3>5 DEF Typed
  <2>2. ASSUME NEW f \in Engines, f # e PROVE Holds(f)' /\ Pointers(f)' /\ Code(f)'
    <3>1. /\ call'[f] = call[f] /\ memory'[f] = memory[f] /\ context'[f] = context[f]
          /\ debug_pointer'[f] = debug_pointer[f]
      BY <1>1, <1>2, <1>5, <2>2 DEF Typed
    <3>2. Holds(f)'
      BY <1>1, <3>1 DEF Inv, Holds
    <3>3. Code(f)'
      BY <1>1, <3>1, CodeKept DEF Inv
    <3>4. handler'[host[f]] = "SIG_DFL" => handler[host[f]] = "SIG_DFL" /\ host[f] # host[e]
      BY <1>2, <1>5 DEF Typed
    <3>5. Bereft(f) /\ host[f] # host[e] => Bereft(f)'
      BY <1>1, <1>2, <1>5 DEF Bereft, Typed
    <3>6. Pointers(f)'
      BY <1>1, <3>1, <3>4, <3>5 DEF Inv, Pointers
    <3> QED
      BY <3>2, <3>3, <3>6
  <2>3. Holds(e)' /\ Pointers(e)' /\ Code(e)'
    <3>1. /\ call'[e] = "compiler" /\ memory'[e] = Allocation /\ context'[e] = FreshContext
          /\ debug_pointer'[e] = inits[e] /\ handler'[host[e]] = "segv_handler"
          /\ inits[e] \in Nat
      BY <1>1, <1>2, <1>5 DEF Typed
    <3>2. Holds(e)'
      BY <1>1, <1>3, <3>1 DEF Holds
    <3>3. Pointers(e)'
      BY <1>1, <3>1, Allocations DEF Inv, Pointers
    <3>4. blocks[e] = <<>>
      BY <1>3 DEF Inv, Code
    <3>5. Code(e)'
      BY <1>1, <1>3, <3>1, <3>4, NothingTiled, Allocations DEF Code
    <3> QED
      BY <3>2, <3>3, <3>5
  <2> QED
    BY <1>1, <2>1, <2>2, <2>3 DEF Inv
<1> QED
  BY <1>4, <1>5 DEF DebugInit, Keeps, SetDebugPointer

\* The end of an init, and the start and the end of a run.
LEMMA MoveInv ==
    ASSUME Inv, NEW e \in Engines, FinishInit(e) \/ bal_engine_run_thread(e) \/ Return(e)
    PROVE  Inv'
<1>1. /\ \/ call[e] = "compiler" /\ engine_state' = [engine_state EXCEPT ![e] = TRUE]
            /\ call' = [call EXCEPT ![e] = "idle"] /\ blocks' = [blocks EXCEPT ![e] = <<>>]
         \/ call[e] = "idle" /\ engine_state[e] /\ call' = [call EXCEPT ![e] = "running"]
            /\ UNCHANGED <<engine_state, blocks>>
         \/ call[e] = "running" /\ call' = [call EXCEPT ![e] = "idle"]
            /\ UNCHANGED <<engine_state, blocks>>
      /\ UNCHANGED <<host, alive, handler, shm_name, inits, memory, lost, debug_pointer, context,
                     crashes, orphaned, freed_twice>>
  BY DEF FinishInit, bal_engine_run_thread, Return, At, Goto
<1>2. Typed /\ Holds(e) /\ Code(e)
  BY DEF Inv
<1>3. Typed'
  <2>1. "idle" \in Calls /\ "running" \in Calls /\ TRUE \in BOOLEAN
    BY DEF Calls
  <2>2. call' \in [Engines -> Calls]
    BY <1>1, <1>2, <2>1, Updated, Zenon DEF Typed
  <2>3. engine_state' \in [Engines -> BOOLEAN]
    BY <1>1, <1>2, <2>1, Updated, Zenon DEF Typed
  <2>4. blocks' \in [Engines -> Seq(Block)]
    BY <1>1, <1>2, NothingTiled, Updated, Zenon DEF Typed
  <2> QED
    BY <1>1, <1>2, <2>2, <2>3, <2>4 DEF Typed
<1>4. blocks' = blocks
  <2>1. call[e] = "compiler" => blocks[e] = <<>>
    BY <1>2 DEF Holds, Code
  <2> QED
    BY <1>1, <1>2, <2>1 DEF Typed
<1>5. ASSUME NEW f \in Engines, f # e PROVE Holds(f)' /\ Pointers(f)' /\ Code(f)'
  <2>1. call'[f] = call[f] /\ engine_state'[f] = engine_state[f]
    BY <1>1, <1>2, <1>5 DEF Typed
  <2>2. Holds(f)'
    BY <1>1, <2>1 DEF Inv, Holds
  <2>3. Pointers(f)'
    BY <1>1, <2>1, PointersKept DEF Inv
  <2>4. Code(f)'
    BY <1>1, <1>4, <2>1, CodeKept DEF Inv
  <2> QED
    BY <2>2, <2>3, <2>4
<1>6. Holds(e)' /\ Pointers(e)' /\ Code(e)'
  <2>1. /\ call'[e] \in {"idle", "running"} /\ engine_state'[e]
        /\ memory[e] \in {Bare, Allocation} /\ (call[e] # "idle" \/ engine_state[e])
    BY <1>1, <1>2 DEF Typed, Holds
  <2>2. Holds(e)'
    BY <1>1, <2>1 DEF Holds
  <2>3. Pointers(e)'
    BY <1>1, <2>1, PointersKept DEF Inv
  <2>4. Code(e)'
    BY <1>1, <1>2, <1>4, <2>1, CodeKept
  <2> QED
    BY <2>2, <2>3, <2>4
<1> QED
  BY <1>1, <1>3, <1>5, <1>6 DEF Inv

\* A block is compiled and registered.
LEMMA CompileInv ==
    ASSUME Inv, NEW e \in Engines, NEW count \in 0 .. BUFFER_SIZE,
           NEW pcs \in GuestOffsets(count),
           NEW offsets \in CodeOffsets(Min({count, MAX_MAPPINGS})),
           Compile(e, pcs, offsets)
    PROVE  Inv'
<1> DEFINE b == Compiled(blocks[e], pcs, offsets)
           added == "entries" \in memory[e] /\ Len(offsets) > 0
           d == IF added THEN bal_jit_debug_add_block(context[e], b) ELSE context[e]
<1>1. b = [start |-> CodeEnd(e), size |-> Len(pcs) + 1, base |-> 100 * (Len(blocks[e]) + 1),
           pcs |-> pcs,
           mappings |-> [k \in 1 .. Len(offsets) |-> [x86_offset |-> offsets[k],
                                                      guest_pc_offset |-> pcs[k]]]]
  BY DEF Compiled, CodeEnd, End
<1>2. /\ call[e] = "running"
      /\ blocks' = [blocks EXCEPT ![e] = Append(blocks[e], b)]
      /\ context' = [context EXCEPT ![e] = d]
      /\ UNCHANGED <<host, alive, handler, shm_name, call, engine_state, inits, memory, lost,
                     debug_pointer, crashes, orphaned, freed_twice>>
  BY <1>1 DEF Compile, At
<1>3. /\ Typed /\ Holds(e) /\ Code(e) /\ engine_state[e]
      /\ blocks[e] \in Seq(Block) /\ context[e] \in Context /\ count \in Nat
  <2>1. Typed /\ Holds(e) /\ Code(e)
    BY DEF Inv
  <2>2. engine_state[e]
    BY <1>2, <2>1 DEF Holds
  <2>3. count \in Nat
    BY BoundAssumption
  <2> QED
    BY <2>1, <2>2, <2>3 DEF Typed
<1> HIDE DEF b
<1>4. b \in Block /\ Formed(b) /\ b.start = End(blocks[e]) /\ (b.mappings = <<>> <=> Len(offsets) = 0)
  <2>1. pcs \in Seq(Nat) /\ Len(pcs) = count
    BY <1>3, GuestOffsetsTyped
  <2>2. /\ offsets \in Seq(Nat) /\ Len(offsets) <= count
        /\ Len(offsets) = 0 => count = 0
        /\ \A k \in 1 .. Len(offsets) : offsets[k] \in 1 .. k
    BY <1>3, CodeOffsetsTyped
  <2> QED
    BY <1>3, <2>1, <2>2, CompiledTyped DEF b
<1>5. Tiled(Append(blocks[e], b)) /\ Append(blocks[e], b) \in Seq(Block)
  BY <1>3, <1>4, AppendTiled DEF Code
<1>6. /\ d \in Context
      /\ Registered(d, Append(blocks[e], b))
      /\ d.status = "none" <=> context[e].status = "none"
  <2>1. CASE added
    <3>1. d = bal_jit_debug_add_block(context[e], b) /\ b.mappings # <<>>
      BY <1>4, <2>1
    <3> HIDE DEF d
    <3> QED
      BY <1>3, <1>4, <3>1, AddBlock DEF Code
  <2>2. CASE ~added
    <3>1. d = context[e]
      BY <2>2
    <3>2. context[e].status = "BAL_SUCCESS" => b.mappings = <<>>
      <4>1. context[e].status = "BAL_SUCCESS" => "entries" \in memory[e]
        BY <1>3 DEF Code
      <4>2. Len(offsets) \in Nat
        BY <1>3, CodeOffsetsTyped
      <4> QED
        BY <1>4, <2>2, <4>1, <4>2
    <3> HIDE DEF d
    <3> QED
      BY <1>3, <1>4, <3>1, <3>2, RegisteredStill DEF Code
  <2> QED
    BY <2>1, <2>2
<1>7. context' = [context EXCEPT ![e] = d]
  BY <1>2
<1> HIDE DEF d
<1>8. Typed'
  BY <1>2, <1>3, <1>5, <1>6, <1>7, Updated DEF Typed
<1>9. blocks'[e] = Append(blocks[e], b) /\ context'[e] = d
  BY <1>2, <1>3, <1>7 DEF Typed
<1>10. Code(e)'
  BY <1>2, <1>3, <1>5, <1>6, <1>9 DEF Code
<1>11. ASSUME NEW f \in Engines PROVE Holds(f)' /\ Pointers(f)' /\ Code(f)'
  <2>1. Holds(f)'
    BY <1>2 DEF Inv, Holds
  <2>2. Pointers(f)'
    BY <1>2, PointersKept DEF Inv
  <2>3. CASE f # e
    <3>1. blocks'[f] = blocks[f] /\ context'[f] = context[f]
      BY <1>2, <1>3, <1>7, <2>3 DEF Typed
    <3> QED
      BY <1>2, <2>1, <2>2, <3>1, CodeKept DEF Inv
  <2> QED
    BY <1>10, <2>1, <2>2, <2>3
<1> QED
  BY <1>2, <1>8, <1>11 DEF Inv

\* bal_engine_destroy.
LEMMA DestroyInv ==
    ASSUME Inv, NEW e \in Engines, bal_engine_destroy(e)
    PROVE  Inv'
<1>1. /\ call[e] = "idle"
      /\ UNCHANGED <<host, alive, shm_name, call, inits, debug_pointer, crashes, orphaned>>
  BY DEF bal_engine_destroy, At
<1>2. CASE ~engine_state[e]
  <2>1. UNCHANGED vars
    BY <1>1, <1>2 DEF bal_engine_destroy, vars, engines
  <2> QED
    BY <2>1 DEF vars, engines, Inv, Typed, Holds, Pointers, Bereft, Code
<1>3. CASE engine_state[e]
  <2>1. Typed /\ Holds(e) /\ freed_twice = FALSE
    BY DEF Inv
  <2>2. "state" \in memory[e] /\ memory[e] \ Freed = {}
    BY <1>3, <2>1 DEF Holds, Bare, Allocation, Freed
  <2>3. /\ handler' = [handler EXCEPT ![host[e]] = "SIG_DFL"]
        /\ freed_twice' = FALSE
        /\ lost' = [lost EXCEPT ![e] = lost[e] \union (memory[e] \ Freed)]
        /\ memory' = [memory EXCEPT ![e] = {}]
        /\ context' = [context EXCEPT ![e] = NoContext]
        /\ blocks' = [blocks EXCEPT ![e] = <<>>]
        /\ engine_state' = [engine_state EXCEPT ![e] = FALSE]
    BY <1>3, <2>1, <2>2 DEF bal_engine_destroy, Keeps, Cleared
  <2>4. lost' = lost
    BY <2>1, <2>2, <2>3 DEF Typed
  <2>5. Typed'
    <3>1. host[e] \in Processes /\ {} \in SUBSET Allocation /\ FALSE \in BOOLEAN
      BY <2>1 DEF Typed
    <3>2. memory' \in [Engines -> SUBSET Allocation]
      BY <2>1, <2>3, <3>1, Updated, Zenon DEF Typed
    <3>3. context' \in [Engines -> Context] /\ blocks' \in [Engines -> Seq(Block)]
      BY <2>1, <2>3, NothingTiled, Updated DEF Typed
    <3>4. handler' \in [Processes -> {"SIG_DFL", "segv_handler"}]
      BY <2>1, <2>3, <3>1 DEF Typed
    <3>5. engine_state' \in [Engines -> BOOLEAN]
      BY <2>1, <2>3, <3>1, Updated, Zenon DEF Typed
    <3> QED
      BY <1>1, <2>1, <2>4, <3>2, <3>3, <3>4, <3>5 DEF Typed
  <2>6. /\ memory'[e] = {} /\ context'[e] = NoContext /\ blocks'[e] = <<>>
        /\ ~engine_state'[e] /\ call'[e] = "idle"
    BY <1>1, <2>1, <2>3 DEF Typed
  <2>7. Holds(e)' /\ Pointers(e)' /\ Code(e)'
    <3>1. Holds(e)'
      BY <2>6 DEF Holds
    <3>2. Pointers(e)'
      BY <1>1, <2>6 DEF Inv, Pointers
    <3>3. Code(e)'
      BY <2>6, NothingTiled DEF Code
    <3> QED
      BY <3>1, <3>2, <3>3
  <2>8. ASSUME NEW f \in Engines, f # e PROVE Holds(f)' /\ Pointers(f)' /\ Code(f)'
    <3>1. /\ memory'[f] = memory[f] /\ context'[f] = context[f] /\ blocks'[f] = blocks[f]
          /\ engine_state'[f] = engine_state[f]
      BY <2>1, <2>3, <2>8 DEF Typed
    <3>2. Holds(f)'
      BY <1>1, <3>1 DEF Inv, Holds
    <3>3. Code(f)'
      BY <3>1, CodeKept DEF Inv
    <3>4. CASE host[f] = host[e]
      <4>1. inits[e] > 0
        BY <1>3 DEF Inv, Pointers
      <4>2. Bereft(f)'
        BY <1>1, <2>6, <2>8, <3>4, <4>1 DEF Bereft
      <4> QED
        BY <1>1, <3>1, <3>2, <3>3, <4>2 DEF Inv, Pointers
    <3>5. CASE host[f] # host[e]
      <4>1. handler'[host[f]] = handler[host[f]]
        BY <2>1, <2>3, <3>5 DEF Typed
      <4>2. Bereft(f) => Bereft(f)'
        BY <1>1, <2>1, <2>3 DEF Bereft, Typed
      <4> QED
        BY <1>1, <3>1, <3>2, <3>3, <4>1, <4>2 DEF Inv, Pointers
    <3> QED
      BY <3>4, <3>5
  <2> QED
    BY <2>3, <2>5, <2>7, <2>8 DEF Inv
<1> QED
  BY <1>2, <1>3

\* A process dies.
LEMMA DiesInv ==
    ASSUME Inv, NEW p \in Processes, Dies(p)
    PROVE  Inv'
<1>1. /\ alive' = alive \ {p}
      /\ handler' = [handler EXCEPT ![p] = "SIG_DFL"]
      /\ orphaned' = (orphaned \/ \E e \in Engines : host[e] = p /\ call[e] = "shm_unlink")
      /\ call' = [e \in Engines |-> IF host[e] = p THEN "idle" ELSE call[e]]
      /\ engine_state' = [e \in Engines |-> IF host[e] = p THEN FALSE ELSE engine_state[e]]
      /\ memory' = [e \in Engines |-> IF host[e] = p THEN {} ELSE memory[e]]
      /\ lost' = [e \in Engines |-> IF host[e] = p THEN {} ELSE lost[e]]
      /\ debug_pointer' = [e \in Engines |-> IF host[e] = p THEN 0 ELSE debug_pointer[e]]
      /\ context' = [e \in Engines |-> IF host[e] = p THEN NoContext ELSE context[e]]
      /\ blocks' = [e \in Engines |-> IF host[e] = p THEN <<>> ELSE blocks[e]]
      /\ UNCHANGED <<host, shm_name, inits, freed_twice>>
  BY DEF Dies
<1>2. Typed
  BY DEF Inv
<1>3. Typed'
  <2>1. orphaned' \in BOOLEAN
    BY <1>1, <1>2 DEF Typed
  <2>2. call' \in [Engines -> Calls] /\ engine_state' \in [Engines -> BOOLEAN]
    <3>1. "idle" \in Calls
      BY DEF Calls
    <3> QED
      BY <1>1, <1>2, <3>1 DEF Typed
  <2>3. memory' \in [Engines -> SUBSET Allocation]
    BY <1>1, <1>2 DEF Typed
  <2>4. lost' \in [Engines -> SUBSET Leaks]
    BY <1>1, <1>2 DEF Typed
  <2>5. /\ debug_pointer' \in [Engines -> Nat] /\ context' \in [Engines -> Context]
        /\ blocks' \in [Engines -> Seq(Block)]
    BY <1>1, <1>2, NothingTiled DEF Typed
  <2>6. handler' \in [Processes -> {"SIG_DFL", "segv_handler"}] /\ alive' \subseteq Processes
    BY <1>1, <1>2 DEF Typed
  <2> QED
    BY <1>1, <1>2, <2>1, <2>2, <2>3, <2>4, <2>5, <2>6 DEF Typed
<1>4. ASSUME NEW f \in Engines, host[f] = p PROVE Holds(f)' /\ Pointers(f)' /\ Code(f)'
  <2>1. /\ call'[f] = "idle" /\ ~engine_state'[f] /\ memory'[f] = {} /\ debug_pointer'[f] = 0
        /\ context'[f] = NoContext /\ blocks'[f] = <<>>
    BY <1>1, <1>4
  <2>2. inits'[f] \in Nat
    BY <1>3 DEF Typed
  <2> QED
    BY <2>1, <2>2, NothingTiled DEF Holds, Pointers, Code
<1>5. ASSUME NEW f \in Engines, host[f] # p PROVE Holds(f)' /\ Pointers(f)' /\ Code(f)'
  <2>1. /\ call'[f] = call[f] /\ engine_state'[f] = engine_state[f] /\ memory'[f] = memory[f]
        /\ debug_pointer'[f] = debug_pointer[f] /\ context'[f] = context[f]
        /\ blocks'[f] = blocks[f]
    BY <1>1, <1>5
  <2>2. Holds(f)'
    BY <2>1 DEF Inv, Holds
  <2>3. Code(f)'
    BY <2>1, CodeKept DEF Inv
  <2>4. Bereft(f) => Bereft(f)'
    BY <1>1, <1>5 DEF Bereft
  <2>5. handler'[host[f]] = handler[host[f]]
    BY <1>1, <1>2, <1>5 DEF Typed
  <2>6. Pointers(f)'
    BY <1>1, <2>1, <2>4, <2>5 DEF Inv, Pointers
  <2> QED
    BY <2>2, <2>3, <2>6
<1> QED
  BY <1>1, <1>3, <1>4, <1>5 DEF Inv

\* Inv is an invariant.
LEMMA Invariant == Spec => []Inv
<1>1. Init => Inv
  <2> SUFFICES ASSUME Init PROVE Inv
    OBVIOUS
  <2>1. Typed
    <3>1. "idle" \in Calls /\ FALSE \in BOOLEAN /\ 0 \in 0 .. MaxInits
      BY BoundAssumption DEF Calls
    <3>2. host \in [Engines -> Processes] /\ alive \subseteq Processes
          /\ handler \in [Processes -> {"SIG_DFL", "segv_handler"}]
          /\ shm_name \in BOOLEAN /\ orphaned \in BOOLEAN
      BY DEF Init
    <3>3. call \in [Engines -> Calls] /\ engine_state \in [Engines -> BOOLEAN]
          /\ inits \in [Engines -> 0 .. MaxInits] /\ debug_pointer \in [Engines -> Nat]
      BY <3>1 DEF Init
    <3>4. memory \in [Engines -> SUBSET Allocation]
          /\ lost \in [Engines -> SUBSET Leaks]
      BY DEF Init
    <3>5. context \in [Engines -> Context] /\ blocks \in [Engines -> Seq(Block)]
      BY NothingTiled DEF Init
    <3> QED
      BY <3>2, <3>3, <3>4, <3>5 DEF Typed
  <2>2. ASSUME NEW e \in Engines PROVE Holds(e) /\ Pointers(e) /\ Code(e)
    <3>1. /\ call[e] = "idle" /\ ~engine_state[e] /\ memory[e] = {} /\ debug_pointer[e] = 0
          /\ inits[e] = 0 /\ context[e] = NoContext /\ blocks[e] = <<>>
      BY DEF Init
    <3> QED
      BY <3>1, NothingTiled DEF Holds, Pointers, Code
  <2> QED
    BY <2>1, <2>2 DEF Inv, Init
<1>2. Inv /\ [Next]_vars => Inv'
  <2> SUFFICES ASSUME Inv, [Next]_vars PROVE Inv'
    OBVIOUS
  <2>1. ASSUME NEW e \in Engines,
               \/ BeginInit(e) \/ ShmOpen(e) \/ ShmUnlink(e) \/ MapBuffer(e) \/ DebugInit(e)
               \/ FinishInit(e)
               \/ bal_engine_run_thread(e) \/ Return(e)
               \/ \E count \in 0 .. BUFFER_SIZE :
                      \E pcs \in GuestOffsets(count),
                         offsets \in CodeOffsets(Min({count, MAX_MAPPINGS})) :
                          Compile(e, pcs, offsets)
               \/ Reset(e)
               \/ bal_engine_destroy(e)
        PROVE  Inv'
    <3>1. Reset(e) => \E p \in Processes : Dies(p)
      BY DEF Reset, Inv, Typed
    <3> QED
      BY <2>1, <3>1, BeginInitInv, AcquireInv, DebugInitInv, MoveInv, CompileInv, DestroyInv,
         DiesInv
  <2>2. ASSUME NEW p \in Processes, Crash(p) PROVE Inv'
    BY <2>2, DiesInv DEF Crash
  <2>3. ASSUME NEW p \in Processes, Restart(p) PROVE Inv'
    <3>1. /\ alive' = alive \union {p}
          /\ UNCHANGED <<host, handler, shm_name, engines, crashes, orphaned, freed_twice>>
      BY <2>3 DEF Restart
    <3> QED
      BY <3>1 DEF engines, Inv, Typed, Holds, Pointers, Bereft, Code
  <2>4. CASE UNCHANGED vars
    BY <2>4 DEF vars, engines, Inv, Typed, Holds, Pointers, Bereft, Code
  <2> QED
    BY <2>1, <2>2, <2>3, <2>4 DEF Next
<1> QED
  BY <1>1, <1>2, PTL DEF Spec

\* Every variable keeps its type and the registry its bounds.
THEOREM LifecycleTyped == Spec => []TypeOK
<1>1. Inv => TypeOK
  <2> SUFFICES ASSUME Inv PROVE TypeOK
    OBVIOUS
  <2>1. \A e \in Engines :
            /\ inits[e] \in 0 .. MaxInits /\ debug_pointer[e] \in 0 .. inits[e]
            /\ Len(context[e].entries) <= ENTRY_CAPACITY
            /\ context[e].arena_offset <= ARENA_CAPACITY
    BY DEF Inv, Typed, Pointers, Code, Registered
  <2>2. {shm_name, orphaned, freed_twice} \subseteq BOOLEAN
    BY DEF Inv, Typed
  <2> QED
    BY <2>1, <2>2 DEF Inv, Typed, TypeOK
<1> QED
  BY <1>1, Invariant, PTL

\* Whatever failed before it, bal_engine_destroy frees nothing twice, and an engine
\* that can run has its state and its buffer.
THEOREM FreedOnce == Spec => []NothingFreedTwice
<1>1. Inv => NothingFreedTwice
  BY DEF Inv, Holds, NothingFreedTwice, Bare, Allocation
<1> QED
  BY <1>1, Invariant, PTL

\* bal_engine_destroy leaves nothing that it could free: neither memory that the
\* engine holds nor any that nothing refers to.
THEOREM DestroyReclaimsAll == Spec => []DestroyReclaims
<1>1. Inv => DestroyReclaims
  <2> SUFFICES ASSUME Inv, NEW e \in Engines, call[e] = "idle", ~engine_state[e]
               PROVE  memory[e] = {} /\ lost[e] \intersect Allocation = {}
    BY DEF DestroyReclaims
  <2>1. memory[e] = {}
    BY DEF Inv, Holds
  <2>2. lost[e] \subseteq Leaks
    BY DEF Inv, Typed
  <2>3. Leaks \intersect Allocation = {}
    BY DEF Leaks, Allocation
  <2> QED
    BY <2>1, <2>2, <2>3
<1> QED
  BY <1>1, Invariant, PTL

-----------------------------------------------------------------------------
(* Faults in JIT code.                                                     *)

\* A set of numbers up to n that is not empty has a greatest element, its Max.
LEMMA MaxExists ==
    ASSUME NEW n \in Nat, NEW S \in SUBSET (1 .. n), S # {}
    PROVE  Max(S) \in S /\ \A y \in S : Max(S) >= y
<1> DEFINE T == {n - x : x \in S}
<1>1. T \in SUBSET Nat /\ T # {}
  <2>1. \A x \in S : n - x \in Nat
    OBVIOUS
  <2> QED
    BY <2>1
<1>2. \E t \in T : \A u \in T : ~(<<u, t>> \in OpToRel(<, Nat))
  <2> HIDE DEF T
  <2> QED
    BY <1>1, WFMin, NatLessThanWellFounded, Zenon
<1>3. PICK t \in T : \A u \in T : ~(u < t)
  BY <1>1, <1>2 DEF OpToRel
<1>4. PICK x \in S : t = n - x
  BY <1>3
<1>5. \A y \in S : x >= y
  <2> SUFFICES ASSUME NEW y \in S PROVE x >= y
    OBVIOUS
  <2>1. n - y \in T /\ ~(n - y < n - x)
    BY <1>3, <1>4
  <2> HIDE DEF T
  <2> QED
    BY <2>1
<1> QED
  BY <1>5, Zenon DEF Max

\* Min of a set with one element.
LEMMA MinOfOne ==
    ASSUME NEW S \in SUBSET Nat, NEW m \in S, \A y \in S : y = m
    PROVE  Min(S) = m
<1>1. \A y \in S : m <= y
  OBVIOUS
<1>2. Min(S) \in S
  BY <1>1, Zenon DEF Min
<1> QED
  BY <1>2

\* The scan of a block's mappings stops at that of the instruction whose code is
\* at the offset or of a later one, or at the last; only in the prologue it finds
\* none.
LEMMA ScanStops ==
    ASSUME NEW b \in Block, Formed(b), b.mappings # <<>>, NEW off \in 0 .. b.size - 1
    PROVE  LET reached == {k \in DOMAIN b.mappings :
                               \A j \in 1 .. k : Reaches(b.mappings[j], off)}
           IN  IF off = 0 THEN reached = {}
               ELSE /\ reached # {} /\ Max(reached) \in DOMAIN b.mappings
                    /\ Max(reached) >= off \/ Max(reached) = Len(b.mappings)
<1> DEFINE n == Len(b.mappings)
           x(k) == b.mappings[k].x86_offset
           reached == {k \in 1 .. n : \A j \in 1 .. k : x(j) <= off}
<1>1. /\ b.mappings \in Seq(Mapping) /\ b.size \in Nat /\ b.pcs \in Seq(Nat)
  BY DEF Block
<1>2. n \in Nat /\ n # 0 /\ DOMAIN b.mappings = 1 .. n /\ off \in Nat
  BY <1>1
<1>3. \A k \in 1 .. n : x(k) \in 1 .. k
  BY DEF Formed
<1>4. reached = {k \in DOMAIN b.mappings : \A j \in 1 .. k : Reaches(b.mappings[j], off)}
  BY <1>2 DEF Reaches
<1> HIDE DEF n, x
<1>5. CASE off = 0
  <2>1. x(1) \in 1 .. 1 /\ ~(x(1) <= off)
    BY <1>2, <1>3, <1>5
  <2>2. reached = {}
    BY <1>2, <2>1
  <2> HIDE DEF reached
  <2> QED
    BY <1>4, <1>5, <2>2
<1>6. CASE off # 0
  <2>1. \A k \in 1 .. n : k <= off => k \in reached
    BY <1>2, <1>3
  <2>2. 1 \in reached /\ reached \in SUBSET (1 .. n)
    BY <1>2, <1>6, <2>1
  <2> HIDE DEF reached
  <2>3. Max(reached) \in reached /\ \A k \in reached : Max(reached) >= k
    BY <1>2, <2>2, MaxExists
  <2>4. Max(reached) \in 1 .. n
    BY <2>2, <2>3
  <2>5. Max(reached) >= off \/ Max(reached) = n
    <3>1. CASE off <= n
      BY <1>2, <1>6, <2>1, <2>3, <3>1
    <3>2. CASE ~(off <= n)
      <4>1. n \in reached
        BY <1>2, <2>1, <3>2
      <4> QED
        BY <1>2, <2>3, <2>4, <4>1
    <3> QED
      BY <3>1, <3>2
  <2> QED
    BY <1>2, <1>4, <1>6, <2>2, <2>4, <2>5 DEF n
<1> QED
  BY <1>5, <1>6

\* No two entries of the registry overlap.
LEMMA OneEntry ==
    ASSUME NEW c, c.entries \in Seq(Block), NEW bs, Registered(c, bs), NEW rip \in Nat,
           NEW j \in 1 .. Len(c.entries), NEW k \in 1 .. Len(c.entries),
           Inside(c.entries[j], rip), Inside(c.entries[k], rip)
    PROVE  j = k
<1> DEFINE es == c.entries
<1>1. \A i \in 1 .. Len(es) : es[i].start \in Nat /\ es[i].size \in Nat
  <2>1. \A i \in 1 .. Len(es) : es[i] \in Block
    OBVIOUS
  <2> QED
    BY <2>1 DEF Block
<1>2. ASSUME NEW x \in 1 .. Len(es), NEW y \in 1 .. Len(es), Inside(es[x], rip),
             Inside(es[y], rip)
      PROVE  ~(x < y)
  <2> SUFFICES ASSUME x < y PROVE FALSE
    OBVIOUS
  <2>1. es[x].start + es[x].size <= es[y].start
    BY DEF Registered
  <2>2. /\ es[x].start \in Nat /\ es[x].size \in Nat /\ es[y].start \in Nat
        /\ rip < es[x].start + es[x].size /\ es[y].start <= rip
    BY <1>1, <1>2 DEF Inside
  <2> HIDE DEF es
  <2> QED
    BY <2>1, <2>2
<1>3. ~(j < k) /\ ~(k < j)
  BY <1>2
<1> QED
  BY <1>3

\* Whatever fault JIT code runs into, the signal handler blames the block whose
\* code it is and no earlier instruction, or has one of the excuses named.
LEMMA FaultBlamed ==
    ASSUME Inv, NEW e \in Engines, call[e] = "running", NEW rip \in 0 .. CodeEnd(e) - 1
    PROVE  LET report == handle_jit_fault(e, rip)
           IN  CASE report.what = "silent" ->
                        \/ "entries" \notin memory[e]
                        \/ \E f \in Engines \ {e} :
                               host[f] = host[e] /\ inits[f] > 0 /\ "entries" \notin memory[f]
                 [] report.what = "unknown block" ->
                        \/ context[e].status = "BAL_ERROR_BUFFER_OVERFLOW"
                        \/ \E b \in Range(blocks[e]) : b.start = rip /\ b.mappings = <<>>
                 [] report.what = "undefined" -> "entries" \notin memory[e]
                 [] report.what = "guest PC" -> Blamable(e, rip, report.pc)
<1> DEFINE c == context[e]
           bs == blocks[e]
           hit == {k \in DOMAIN c.entries :
                     c.entries[k].start <= rip /\ rip < c.entries[k].start + c.entries[k].size}
           entry == c.entries[Min(hit)]
           reached == {k \in DOMAIN entry.mappings :
                         \A j \in 1 .. k : Reaches(entry.mappings[j], rip - entry.start)}
           pc == IF reached = {} THEN entry.base
                 ELSE entry.base + entry.mappings[Max(reached)].guest_pc_offset
           said(what) == [what |-> what, pc |-> 0]
           report == handle_jit_fault(e, rip)
<1>1. /\ Typed /\ Holds(e) /\ Pointers(e) /\ Code(e)
      /\ c \in Context /\ bs \in Seq(Block) /\ c.entries \in Seq(Block)
  BY DEF Inv, Typed, Context
<1>2. engine_state[e] /\ inits[e] > 0 /\ inits[e] \in Nat
  BY <1>1 DEF Holds, Pointers, Typed
<1>3. rip \in Nat /\ rip \in 0 .. End(bs) - 1
  <2>1. CodeEnd(e) = End(bs)
    BY DEF CodeEnd, End
  <2> QED
    BY <2>1, <1>1, EndTyped
<1>4. report = IF handler[host[e]] = "SIG_DFL" \/ debug_pointer[e] = 0 THEN said("silent")
               ELSE IF debug_pointer[e] # inits[e] THEN said("undefined")
               ELSE IF hit = {} THEN said("unknown block")
               ELSE [what |-> "guest PC", pc |-> pc]
  BY DEF handle_jit_fault
<1>5. Tiled(bs) /\ Registered(c, bs)
  BY <1>1 DEF Code
<1>6. \A k : k \in hit <=> k \in 1 .. Len(c.entries) /\ Inside(c.entries[k], rip)
  BY <1>1 DEF Inside
<1> HIDE DEF report, hit, c, bs, pc
<1>7. CASE handler[host[e]] = "SIG_DFL" \/ debug_pointer[e] = 0
  <2>1. report.what = "silent"
    BY <1>4, <1>7
  <2>2. \/ "entries" \notin memory[e]
        \/ \E f \in Engines \ {e} :
               host[f] = host[e] /\ inits[f] > 0 /\ "entries" \notin memory[f]
    BY <1>1, <1>2, <1>7 DEF Pointers, Bereft
  <2> QED
    BY <2>1, <2>2 DEF report
<1>8. CASE /\ ~(handler[host[e]] = "SIG_DFL" \/ debug_pointer[e] = 0)
           /\ debug_pointer[e] # inits[e]
  <2>1. report.what = "undefined"
    BY <1>4, <1>8
  <2>2. "entries" \notin memory[e]
    BY <1>1, <1>8 DEF Pointers
  <2> QED
    BY <2>1, <2>2 DEF report
<1>9. CASE /\ ~(handler[host[e]] = "SIG_DFL" \/ debug_pointer[e] = 0)
           /\ debug_pointer[e] = inits[e]
           /\ hit = {}
  <2>1. report.what = "unknown block"
    BY <1>4, <1>9
  <2>2. "entries" \in memory[e] /\ c.status # "none"
    BY <1>1, <1>2, <1>9 DEF Pointers, Code, c
  <2>3. PICK i \in 1 .. Len(bs) : Inside(bs[i], rip)
    BY <1>3, <1>5 DEF Tiled
  <2>4. CASE bs[i].mappings = <<>>
    <3>1. bs[i] \in Block /\ Formed(bs[i]) /\ bs[i] \in Range(bs)
      BY <1>1, <1>5 DEF Tiled, Range
    <3>2. bs[i].size = 1 /\ bs[i].start \in Nat
      BY <2>4, <3>1 DEF Formed, Block
    <3>3. bs[i].start = rip
      BY <1>3, <2>3, <3>2 DEF Inside
    <3> QED
      BY <2>1, <2>4, <3>1, <3>3 DEF report, bs
  <2>5. CASE bs[i].mappings # <<>>
    <3>1. c.status # "BAL_SUCCESS"
      BY <1>5, <1>6, <1>9, <2>3, <2>5 DEF Registered
    <3>2. c.status = "BAL_ERROR_BUFFER_OVERFLOW"
      BY <1>1, <2>2, <3>1 DEF Context
    <3> QED
      BY <2>1, <3>2 DEF report, c
  <2> QED
    BY <2>4, <2>5
<1>10. CASE /\ ~(handler[host[e]] = "SIG_DFL" \/ debug_pointer[e] = 0)
            /\ debug_pointer[e] = inits[e]
            /\ hit # {}
  <2>1. report.what = "guest PC" /\ report.pc = pc
    BY <1>4, <1>10
  <2>2. PICK k : k \in hit
    BY <1>10
  <2>3. k \in 1 .. Len(c.entries) /\ Inside(c.entries[k], rip) /\ k \in Nat
    BY <1>1, <1>6, <2>2
  <2>4. hit \in SUBSET Nat /\ \A j \in hit : j = k
    <3> SUFFICES ASSUME NEW j \in hit PROVE j \in Nat /\ j = k
      OBVIOUS
    <3>1. j \in 1 .. Len(c.entries) /\ Inside(c.entries[j], rip)
      BY <1>6
    <3> QED
      BY <1>1, <1>3, <1>5, <2>3, <3>1, OneEntry
  <2>5. Min(hit) = k
    BY <2>2, <2>4, MinOfOne
  <2>6. IsBlock(c.entries[k], bs)
    BY <1>5, <2>3 DEF Registered
  <2>7. PICK i \in 1 .. Len(bs) : c.entries[k] = bs[i]
    BY <2>6 DEF IsBlock
  <2> DEFINE b == bs[i]
             off == rip - b.start
             found == {y \in DOMAIN b.mappings : \A j \in 1 .. y : Reaches(b.mappings[j], off)}
  <2>8. entry = b /\ b.mappings # <<>> /\ Inside(b, rip)
    BY <2>3, <2>5, <2>6, <2>7 DEF IsBlock
  <2>9. b \in Block /\ Formed(b) /\ b \in Range(bs)
    BY <1>1, <1>5 DEF Tiled, Range
  <2>10. pc = IF found = {} THEN b.base ELSE b.base + b.mappings[Max(found)].guest_pc_offset
    BY <2>8 DEF pc
  <2> HIDE DEF b, found
  <2>11. off \in 0 .. b.size - 1 /\ b.start \in Nat /\ (off = 0 <=> rip = b.start)
    BY <1>3, <2>8, <2>9 DEF Inside, Block
  <2>12. IF off = 0 THEN found = {}
         ELSE /\ found # {} /\ Max(found) \in DOMAIN b.mappings
              /\ Max(found) >= off \/ Max(found) = Len(b.mappings)
    BY <2>8, <2>9, <2>11, ScanStops DEF found
  <2> HIDE DEF off
  <2>13. IF rip = b.start THEN pc = b.base
         ELSE \E y \in DOMAIN b.mappings :
                  /\ pc = b.base + b.pcs[y]
                  /\ y >= off \/ y = Len(b.mappings)
    <3>1. CASE rip = b.start
      BY <2>10, <2>11, <2>12, <3>1
    <3>2. CASE rip # b.start
      <4> DEFINE y == Max(found)
      <4>1. /\ found # {} /\ y \in DOMAIN b.mappings /\ (y >= off \/ y = Len(b.mappings))
        BY <2>11, <2>12, <3>2
      <4> HIDE DEF y
      <4>2. b.mappings \in Seq(Mapping)
        BY <2>9 DEF Block
      <4>3. y \in 1 .. Len(b.mappings)
        BY <4>1, <4>2
      <4>4. b.mappings[y].guest_pc_offset = b.pcs[y]
        BY <2>9, <4>3 DEF Formed
      <4>5. pc = b.base + b.pcs[y]
        BY <2>10, <4>1, <4>4 DEF y
      <4> QED
        BY <3>2, <4>1, <4>5
    <3> QED
      BY <3>1, <3>2
  <2>14. Blamable(e, rip, pc)
    BY <2>8, <2>9, <2>13 DEF Blamable, Inside, bs, off
  <2> QED
    BY <2>1, <2>14 DEF report
<1> QED
  BY <1>7, <1>8, <1>9, <1>10

\* A fault in JIT code is never blamed on another block, nor on an instruction
\* before the one whose code faulted unless that has no mapping, whichever engines
\* of the process come and go meanwhile.
THEOREM FaultsBlamed == Spec => []FaultsAreBlamedRightly
<1>1. Inv => FaultsAreBlamedRightly
  BY FaultBlamed DEF FaultsAreBlamedRightly
<1> QED
  BY <1>1, Invariant, PTL
=============================================================================
