----------------------- MODULE RegisterAllocatorProofs -----------------------
(***************************************************************************)
(* Proofs about RegisterAllocator for every list of scratch registers: the *)
(* two register maps stay inverse to each other and no dirty bit outlives  *)
(* its mapping; and when the emitted macros run, no guest write is lost    *)
(* and every operand is where it is read.                                  *)
(***************************************************************************)
EXTENDS RegisterAllocator, WellFoundedInduction, SequenceTheorems, TLAPS

-----------------------------------------------------------------------------
\* A nonempty set of numbers has a least element: allocate_x86_register's search
\* for a free register stops somewhere.
LEMMA LeastExists ==
    ASSUME NEW S \in SUBSET Nat, S # {}
    PROVE  \E x \in S : \A y \in S : x <= y
<1>1. \E x \in S : \A y \in S : ~(<<y, x>> \in OpToRel(<, Nat))
  BY WFMin, NatLessThanWellFounded, Zenon
<1>2. PICK x \in S : \A y \in S : ~(<<y, x>> \in OpToRel(<, Nat))
  BY <1>1
<1>3. \A y \in S : x <= y
  <2> SUFFICES ASSUME NEW y \in S PROVE x <= y
    OBVIOUS
  <2>1. ~(y < x)
    BY <1>2 DEF OpToRel
  <2> QED
    BY <2>1
<1> QED
  BY <1>3

\* A nonempty set of numbers below a bound has a greatest one: the scan for a
\* clean victim ends with the last match.
LEMMA GreatestExists ==
    ASSUME NEW n \in Nat, NEW S \in SUBSET (0 .. n), S # {}
    PROVE  \E x \in S : \A y \in S : x >= y
<1> DEFINE T == {n - x : x \in S}
<1>1. T \in SUBSET Nat /\ T # {}
  <2>1. PICK x \in S : TRUE
    OBVIOUS
  <2>2. n - x \in T
    OBVIOUS
  <2>3. \A y \in S : n - y \in Nat
    OBVIOUS
  <2> QED
    BY <2>2, <2>3
<1>2. PICK t \in T : \A u \in T : t <= u
  BY <1>1, LeastExists
<1>3. PICK x \in S : t = n - x
  OBVIOUS
<1>4. \A y \in S : x >= y
  <2> SUFFICES ASSUME NEW y \in S PROVE x >= y
    OBVIOUS
  <2>1. t <= n - y
    BY <1>2
  <2> QED
    BY <2>1, <1>3
<1> QED
  BY <1>4

-----------------------------------------------------------------------------
\* A record with the fields of Begin.
Shape(s) ==
    s = [arm_to_x86 |-> s.arm_to_x86, x86_to_arm |-> s.x86_to_arm,
         is_dirty |-> s.is_dirty, eviction_cursor |-> s.eviction_cursor,
         status |-> s.status, macros |-> s.macros, got |-> s.got]

\* Its fields have the types of CompilerType.
Typed(s) ==
    /\ Shape(s)
    /\ s.arm_to_x86 \in [Arm -> Scratch \union {NONE}]
    /\ s.x86_to_arm \in [X86Registers -> Arm \union {NONE}]
    /\ s.is_dirty \in SUBSET Arm
    /\ s.eviction_cursor \in 0 .. CURSOR_RANGE - 1
    /\ s.status \in {SUCCESS, CORRUPTED, INCORRECT_REGISTER}

\* What every step of a translation keeps: types, and while there is no error,
\* consistent maps.
Sound(s) == Typed(s) /\ (s.status = SUCCESS => Consistent(s))

\* The register numbers are numbers, and none of them is the empty entry.
LEMMA Numbers ==
    /\ NONE \notin Arm
    /\ NONE \notin X86Registers
    /\ Scratch \subseteq X86Registers
    /\ SCRATCH_REGISTERS_SIZE \in 1 .. 16
    /\ \A i \in 1 .. SCRATCH_REGISTERS_SIZE : SCRATCH_REGISTERS[i] \in Scratch
<1>1. Scratch \subseteq X86Registers
  BY ScratchAssumption DEF Scratch, SCRATCH_REGISTERS_SIZE
<1>2. NONE \notin Arm /\ NONE \notin X86Registers
  BY ArmAssumption DEF NONE, X86Registers
<1> QED
  BY <1>1, <1>2, ScratchAssumption DEF Scratch

\* evict_x86_register frees the register and its guest register, keeps the rest
\* of both maps, and stays consistent.
LEMMA EvictSound ==
    ASSUME NEW s, Typed(s), Consistent(s),
           NEW x \in X86Registers, s.x86_to_arm[x] # NONE
    PROVE  LET t == evict_x86_register(s, x)
           IN  /\ Typed(t)
               /\ Consistent(t)
               /\ t.x86_to_arm[x] = NONE
               /\ x \in Scratch
               /\ t.status = s.status
               /\ t.eviction_cursor = s.eviction_cursor
               /\ \A r \in Arm : s.arm_to_x86[r] = NONE => t.arm_to_x86[r] = NONE
<1> DEFINE victim == s.x86_to_arm[x]
           stored == IF victim \in s.is_dirty THEN Push(s, Store(x, victim)) ELSE s
           t == evict_x86_register(s, x)
<1>1. victim \in Arm /\ s.arm_to_x86[victim] = x /\ x \in Scratch
  BY DEF Typed, Consistent
<1>2. /\ Shape(stored)
      /\ stored.arm_to_x86 = s.arm_to_x86
      /\ stored.x86_to_arm = s.x86_to_arm
      /\ stored.is_dirty = s.is_dirty
      /\ stored.status = s.status
      /\ stored.eviction_cursor = s.eviction_cursor
  <2>1. CASE victim \in s.is_dirty
    BY <2>1 DEF Push, Typed, Shape
  <2>2. CASE victim \notin s.is_dirty
    BY <2>2 DEF Typed
  <2> QED
    BY <2>1, <2>2
<1>3. t = [stored EXCEPT !.is_dirty = @ \ {victim}, !.arm_to_x86[victim] = NONE,
                         !.x86_to_arm[x] = NONE]
  BY DEF evict_x86_register
<1> HIDE DEF stored, t
<1>4. /\ Shape(t)
      /\ t.arm_to_x86 = [s.arm_to_x86 EXCEPT ![victim] = NONE]
      /\ t.x86_to_arm = [s.x86_to_arm EXCEPT ![x] = NONE]
      /\ t.is_dirty = s.is_dirty \ {victim}
      /\ t.status = s.status
      /\ t.eviction_cursor = s.eviction_cursor
  BY <1>2, <1>3 DEF Shape
<1>5. Typed(t)
  BY <1>1, <1>4 DEF Typed
<1>6. Consistent(t)
  BY <1>1, <1>4, Numbers DEF Typed, Consistent, Mapped
<1> QED
  BY <1>1, <1>4, <1>5, <1>6 DEF Typed, t

\* Vacate leaves an unmapped scratch register in got, whichever of the three
\* ways it was found.
LEMMA VacateSound ==
    ASSUME NEW s, Typed(s), Consistent(s)
    PROVE  LET v == Vacate(s)
           IN  /\ Typed(v)
               /\ Consistent(v)
               /\ v.got \in Scratch
               /\ v.x86_to_arm[v.got] = NONE
               /\ v.status = s.status
               /\ \A r \in Arm : s.arm_to_x86[r] = NONE => v.arm_to_x86[r] = NONE
<1> DEFINE v == Vacate(s)
<1>1. CASE FreeSlots(s) # {}
  <2> DEFINE first == CHOOSE i \in FreeSlots(s) : \A j \in FreeSlots(s) : i <= j
  <2>1. FreeSlots(s) \in SUBSET Nat
    BY DEF FreeSlots
  <2>2. first \in FreeSlots(s)
    BY <1>1, <2>1, LeastExists
  <2>3. v = [s EXCEPT !.got = SCRATCH_REGISTERS[first]]
    BY <1>1 DEF Vacate
  <2> HIDE DEF first, v
  <2>4. /\ SCRATCH_REGISTERS[first] \in Scratch
        /\ s.x86_to_arm[SCRATCH_REGISTERS[first]] = NONE
    BY <2>2, Numbers DEF FreeSlots
  <2>5. /\ Shape(v)
        /\ v.got = SCRATCH_REGISTERS[first]
        /\ v.arm_to_x86 = s.arm_to_x86
        /\ v.x86_to_arm = s.x86_to_arm
        /\ v.is_dirty = s.is_dirty
        /\ v.status = s.status
        /\ v.eviction_cursor = s.eviction_cursor
    BY <2>3 DEF Shape, Typed
  <2>6. Typed(v) /\ Consistent(v)
    BY <2>5 DEF Typed, Consistent, Mapped
  <2> QED
    BY <2>4, <2>5, <2>6 DEF v
<1>2. ASSUME NEW x \in X86Registers, s.x86_to_arm[x] # NONE,
             NEW k \in 0 .. CURSOR_RANGE - 1,
             \/ v = [evict_x86_register(s, x) EXCEPT !.got = x]
             \/ v = [evict_x86_register(s, x) EXCEPT !.got = x, !.eviction_cursor = k]
      PROVE  /\ Typed(v)
             /\ Consistent(v)
             /\ v.got \in Scratch
             /\ v.x86_to_arm[v.got] = NONE
             /\ v.status = s.status
             /\ \A r \in Arm : s.arm_to_x86[r] = NONE => v.arm_to_x86[r] = NONE
  <2> DEFINE e == evict_x86_register(s, x)
  <2>1. /\ Typed(e)
        /\ Consistent(e)
        /\ e.x86_to_arm[x] = NONE
        /\ x \in Scratch
        /\ e.status = s.status
        /\ \A r \in Arm : s.arm_to_x86[r] = NONE => e.arm_to_x86[r] = NONE
    BY <1>2, EvictSound
  <2>2. \/ v = [e EXCEPT !.got = x]
        \/ v = [e EXCEPT !.got = x, !.eviction_cursor = k]
    BY <1>2
  <2> HIDE DEF e, v
  <2>3. /\ Shape(v)
        /\ v.got = x
        /\ v.arm_to_x86 = e.arm_to_x86
        /\ v.x86_to_arm = e.x86_to_arm
        /\ v.is_dirty = e.is_dirty
        /\ v.status = e.status
        /\ v.eviction_cursor \in {e.eviction_cursor, k}
    BY <2>1, <2>2 DEF Shape, Typed
  <2>4. Typed(v)
    BY <2>1, <2>3 DEF Typed
  <2>5. Consistent(v)
    BY <2>1, <2>3 DEF Consistent, Mapped
  <2> QED
    BY <2>1, <2>3, <2>4, <2>5
<1>3. CASE FreeSlots(s) = {} /\ CleanLow(s) # {}
  <2> DEFINE last == CHOOSE x \in CleanLow(s) : \A y \in CleanLow(s) : x >= y
  <2>1. /\ SCRATCH_REGISTERS_SIZE - 1 \in Nat
        /\ CleanLow(s) \in SUBSET (0 .. SCRATCH_REGISTERS_SIZE - 1)
    BY Numbers DEF CleanLow
  <2>2. last \in CleanLow(s)
    BY <1>3, <2>1, GreatestExists
  <2>3. last \in X86Registers /\ s.x86_to_arm[last] # NONE
    BY <2>2, Numbers DEF CleanLow, X86Registers
  <2>4. v = [evict_x86_register(s, last) EXCEPT !.got = last]
    BY <1>3 DEF Vacate
  <2>5. 0 \in 0 .. CURSOR_RANGE - 1
    BY CursorAssumption
  <2> HIDE DEF last, v
  <2>6. Typed(v) /\ Consistent(v) /\ v.got \in Scratch /\ v.x86_to_arm[v.got] = NONE
        /\ v.status = s.status
        /\ \A r \in Arm : s.arm_to_x86[r] = NONE => v.arm_to_x86[r] = NONE
    BY <2>3, <2>4, <2>5, <1>2
  <2> QED
    BY <2>6 DEF v
<1>4. CASE FreeSlots(s) = {} /\ CleanLow(s) = {}
  <2> DEFINE x == CursorSlot(s)
             k == (s.eviction_cursor + 1) % CURSOR_RANGE
             i == (s.eviction_cursor % SCRATCH_REGISTERS_SIZE) + 1
  <2>1. \A m \in Nat \ {0}, n \in Nat : n % m \in 0 .. m - 1
    OBVIOUS
  <2>2. s.eviction_cursor \in Nat /\ s.eviction_cursor + 1 \in Nat
    BY CursorAssumption DEF Typed
  <2>3. i \in 1 .. SCRATCH_REGISTERS_SIZE
    BY <2>1, <2>2, Numbers
  <2>4. k \in 0 .. CURSOR_RANGE - 1
    BY <2>1, <2>2, CursorAssumption
  <2>5. x \in X86Registers /\ s.x86_to_arm[x] # NONE
    <3>1. i \notin FreeSlots(s)
      BY <1>4
    <3> QED
      BY <2>3, <3>1, Numbers DEF FreeSlots, CursorSlot
  <2>6. /\ evict_x86_register(s, x).eviction_cursor = s.eviction_cursor
        /\ Typed(evict_x86_register(s, x))
    BY <2>5, EvictSound
  <2>7. v = [evict_x86_register(s, x) EXCEPT
                !.got = x, !.eviction_cursor = (@ + 1) % CURSOR_RANGE]
    BY <1>4 DEF Vacate
  <2> HIDE DEF x, v
  <2>8. v = [evict_x86_register(s, x) EXCEPT !.got = x, !.eviction_cursor = k]
    <3> DEFINE e == evict_x86_register(s, x)
    <3>1. Shape(e) /\ e.eviction_cursor = s.eviction_cursor
      BY <2>6 DEF Typed
    <3>2. v = [e EXCEPT !.got = x, !.eviction_cursor = (@ + 1) % CURSOR_RANGE]
      BY <2>7
    <3> HIDE DEF e
    <3>3. v = [e EXCEPT !.got = x, !.eviction_cursor = k]
      BY <3>1, <3>2 DEF Shape
    <3> QED
      BY <3>3 DEF e
  <2>9. Typed(v) /\ Consistent(v) /\ v.got \in Scratch /\ v.x86_to_arm[v.got] = NONE
        /\ v.status = s.status
        /\ \A r \in Arm : s.arm_to_x86[r] = NONE => v.arm_to_x86[r] = NONE
    <3> HIDE DEF k
    <3> QED
      BY <2>4, <2>5, <2>8, <1>2
  <2> QED
    BY <2>9 DEF v
<1> QED
  BY <1>1, <1>3, <1>4

\* A miss maps the guest register and keeps everything consistent.
LEMMA MissSound ==
    ASSUME NEW s, Typed(s), Consistent(s), NEW r \in Arm, s.arm_to_x86[r] = NONE,
           NEW skip
    PROVE  LET a == Miss(s, r, skip)
           IN  /\ Typed(a)
               /\ Consistent(a)
               /\ a.arm_to_x86[r] # NONE
               /\ a.status = s.status
<1> DEFINE v == Vacate(s)
           mapped == [v EXCEPT !.arm_to_x86[r] = v.got, !.x86_to_arm[v.got] = r]
           a == Miss(s, r, skip)
<1>1. /\ Typed(v)
      /\ Consistent(v)
      /\ v.got \in Scratch
      /\ v.x86_to_arm[v.got] = NONE
      /\ v.status = s.status
      /\ v.arm_to_x86[r] = NONE
  BY VacateSound
<1>2. a = IF skip THEN mapped ELSE Push(mapped, Load(v.got, r))
  BY DEF Miss
<1>8. mapped = [v EXCEPT !.arm_to_x86[r] = v.got, !.x86_to_arm[v.got] = r]
  OBVIOUS
<1> HIDE DEF v, a, mapped
<1>3. /\ Shape(mapped)
      /\ mapped.arm_to_x86 = [v.arm_to_x86 EXCEPT ![r] = v.got]
      /\ mapped.x86_to_arm = [v.x86_to_arm EXCEPT ![v.got] = r]
      /\ mapped.is_dirty = v.is_dirty
      /\ mapped.status = v.status
      /\ mapped.eviction_cursor = v.eviction_cursor
  BY <1>1, <1>8 DEF Shape, Typed
<1>4. /\ Shape(a)
      /\ a.arm_to_x86 = mapped.arm_to_x86
      /\ a.x86_to_arm = mapped.x86_to_arm
      /\ a.is_dirty = mapped.is_dirty
      /\ a.status = mapped.status
      /\ a.eviction_cursor = mapped.eviction_cursor
  <2>1. CASE skip
    BY <1>2, <1>3, <2>1
  <2>2. CASE ~skip
    BY <1>2, <1>3, <2>2 DEF Push, Shape
  <2> QED
    BY <2>1, <2>2
<1>5. Typed(a)
  BY <1>1, <1>3, <1>4, Numbers DEF Typed
<1>6. Consistent(a)
  BY <1>1, <1>3, <1>4, Numbers DEF Typed, Consistent, Mapped
<1>7. a.arm_to_x86[r] # NONE
  BY <1>1, <1>3, <1>4, Numbers DEF Typed
<1> QED
  BY <1>1, <1>3, <1>4, <1>5, <1>6, <1>7 DEF a

\* A hit on a consistent state changes no map, unless it is reported as an error
\* (R15).
LEMMA HitSound ==
    ASSUME NEW s, Typed(s), Consistent(s), s.status = SUCCESS,
           NEW r \in Arm, s.arm_to_x86[r] # NONE
    PROVE  LET a == Hit(s, r)
           IN  /\ Typed(a)
               /\ a.status = SUCCESS => Consistent(a) /\ a.arm_to_x86[r] # NONE
<1> DEFINE x == s.arm_to_x86[r]
           a == Hit(s, r)
<1>1. x \in X86Registers /\ s.x86_to_arm[x] = r
  BY Numbers DEF Typed, Consistent
<1>2. CASE x >= R15
  <2>1. a = [s EXCEPT !.arm_to_x86[r] = NONE, !.status = CORRUPTED, !.got = INVALID]
    BY <1>2 DEF Hit
  <2> HIDE DEF a
  <2>2. /\ Shape(a)
        /\ a.arm_to_x86 = [s.arm_to_x86 EXCEPT ![r] = NONE]
        /\ a.x86_to_arm = s.x86_to_arm
        /\ a.is_dirty = s.is_dirty
        /\ a.status = CORRUPTED
        /\ a.eviction_cursor = s.eviction_cursor
    BY <2>1 DEF Shape, Typed
  <2>3. Typed(a)
    BY <2>2 DEF Typed
  <2> QED
    BY <2>2, <2>3 DEF a, SUCCESS, CORRUPTED
<1>3. CASE ~(x >= R15)
  <2>1. a = [s EXCEPT !.got = x]
    BY <1>1, <1>3 DEF Hit
  <2> HIDE DEF a
  <2>2. /\ Shape(a)
        /\ a.arm_to_x86 = s.arm_to_x86
        /\ a.x86_to_arm = s.x86_to_arm
        /\ a.is_dirty = s.is_dirty
        /\ a.status = s.status
        /\ a.eviction_cursor = s.eviction_cursor
    BY <2>1 DEF Shape, Typed
  <2>3. Typed(a) /\ Consistent(a)
    BY <2>2 DEF Typed, Consistent, Mapped
  <2> QED
    BY <2>2, <2>3 DEF a
<1> QED
  BY <1>2, <1>3

\* allocate_x86_register keeps a sound state sound and, unless it fails, maps the
\* register it was asked for.
LEMMA AllocateSound ==
    ASSUME NEW s, Sound(s), NEW r \in Arm, NEW skip
    PROVE  LET a == allocate_x86_register(s, r, skip)
           IN  /\ Sound(a)
               /\ a.status = SUCCESS => a.arm_to_x86[r] # NONE
<1> DEFINE a == allocate_x86_register(s, r, skip)
<1>1. CASE s.status # SUCCESS
  <2>1. a = [s EXCEPT !.got = INVALID]
    BY <1>1 DEF allocate_x86_register
  <2> HIDE DEF a
  <2>2. /\ Shape(a)
        /\ a.arm_to_x86 = s.arm_to_x86
        /\ a.x86_to_arm = s.x86_to_arm
        /\ a.is_dirty = s.is_dirty
        /\ a.status = s.status
        /\ a.eviction_cursor = s.eviction_cursor
    BY <2>1 DEF Shape, Typed, Sound
  <2> QED
    BY <1>1, <2>2 DEF Sound, Typed, a
<1>2. CASE s.status = SUCCESS /\ s.arm_to_x86[r] # NONE
  <2>1. a = Hit(s, r)
    BY <1>2 DEF allocate_x86_register
  <2> QED
    BY <1>2, <2>1, HitSound DEF Sound
<1>3. CASE s.status = SUCCESS /\ s.arm_to_x86[r] = NONE
  <2>1. a = Miss(s, r, skip)
    BY <1>3 DEF allocate_x86_register
  <2> QED
    BY <1>3, <2>1, MissSound DEF Sound
<1> QED
  BY <1>1, <1>2, <1>3

\* Returning the discard register instead changes nothing else.
LEMMA GotSound ==
    ASSUME NEW s, Sound(s), NEW x
    PROVE  Sound([s EXCEPT !.got = x])
<1> DEFINE t == [s EXCEPT !.got = x]
<1>1. t = [s EXCEPT !.got = x]
  OBVIOUS
<1> HIDE DEF t
<1>2. /\ Shape(t)
      /\ t.arm_to_x86 = s.arm_to_x86
      /\ t.x86_to_arm = s.x86_to_arm
      /\ t.is_dirty = s.is_dirty
      /\ t.status = s.status
      /\ t.eviction_cursor = s.eviction_cursor
  BY <1>1 DEF Shape, Typed, Sound
<1>3. Typed(t) /\ (t.status = SUCCESS => Consistent(t))
  BY <1>2 DEF Typed, Consistent, Mapped, Sound
<1> QED
  BY <1>3 DEF Sound, t

\* The end of a translation marks the destination dirty, which is mapped.
LEMMA FinishSound ==
    ASSUME NEW s, Sound(s), NEW rd \in Arm \union {NONE},
           s.status = SUCCESS /\ rd # NONE => s.arm_to_x86[rd] # NONE,
           NEW reads, NEW x, NEW moves
    PROVE  Sound(Finish(s, rd, reads, x, moves))
<1> DEFINE f == Finish(s, rd, reads, x, moves)
           kept == [s EXCEPT !.macros = @ \o moves \o << Op(reads, x, rd) >>]
<1>1. CASE s.status # SUCCESS
  <2>1. f = [s EXCEPT !.macros = <<>>]
    BY <1>1 DEF Finish
  <2> HIDE DEF f
  <2>2. /\ Shape(f)
        /\ f.arm_to_x86 = s.arm_to_x86
        /\ f.x86_to_arm = s.x86_to_arm
        /\ f.is_dirty = s.is_dirty
        /\ f.status = s.status
        /\ f.eviction_cursor = s.eviction_cursor
    BY <2>1 DEF Shape, Typed, Sound
  <2> QED
    BY <1>1, <2>2 DEF Sound, Typed, f
<1>2. CASE s.status = SUCCESS
  <2>1. f = IF rd = NONE THEN kept ELSE [kept EXCEPT !.is_dirty = @ \union {rd}]
    BY <1>2 DEF Finish, Dirty
  <2>2. \E ms : kept = [s EXCEPT !.macros = ms]
    OBVIOUS
  <2> HIDE DEF f, kept
  <2>3. /\ Shape(kept)
        /\ kept.arm_to_x86 = s.arm_to_x86
        /\ kept.x86_to_arm = s.x86_to_arm
        /\ kept.is_dirty = s.is_dirty
        /\ kept.status = s.status
        /\ kept.eviction_cursor = s.eviction_cursor
    BY <2>2 DEF Shape, Typed, Sound
  <2>4. /\ Shape(f)
        /\ f.arm_to_x86 = s.arm_to_x86
        /\ f.x86_to_arm = s.x86_to_arm
        /\ f.is_dirty = s.is_dirty \union ({rd} \ {NONE})
        /\ f.status = s.status
        /\ f.eviction_cursor = s.eviction_cursor
    BY <2>1, <2>3 DEF Shape
  <2>5. Typed(f)
    BY <2>4 DEF Typed, Sound
  <2>6. Consistent(f)
    BY <1>2, <2>4 DEF Consistent, Mapped, Sound, Typed
  <2> QED
    BY <2>5, <2>6 DEF Sound, f
<1> QED
  BY <1>1, <1>2

-----------------------------------------------------------------------------
(* What the macros do when the block runs.                                 *)

ExecLoop == INSTANCE FoldTheorems WITH Op <- Exec

Machine == [host : [X86Registers -> SUBSET Arm], memory : SUBSET Arm, wrong : BOOLEAN]

Loads  == {Load(x, r) : x \in X86Registers, r \in Arm}
Stores == {Store(x, r) : x \in X86Registers, r \in Arm}
Movs   == {Mov(x, y) : x \in X86Registers, y \in X86Registers}
Reads  == SUBSET (X86Registers \X Arm)
Ops    == {Op(reads, x, rd) : reads \in Reads,
                              x \in X86Registers \union {NONE}, rd \in Arm \union {NONE}}
Macro  == Loads \union Stores \union Movs \union Ops

\* The machine after the macros pushed so far.
After(s) == ExecAll(machine, s.macros)

\* Every mapped register's value is in the x86 register it is mapped to, those in
\* unloaded excepted, and every value that is not in bal_cpu_t is marked dirty.
Faithful(s, m, unloaded) ==
    /\ \A r \in Arm \ unloaded : s.arm_to_x86[r] # NONE => r \in m.host[s.arm_to_x86[r]]
    /\ \A r \in Arm : r \in m.memory \/ r \in s.is_dirty

\* A translation on its way: nothing was read yet.
Running(s, unloaded) ==
    /\ s.macros \in Seq(Macro)
    /\ After(s) \in Machine
    /\ After(s).wrong = machine.wrong
    /\ Faithful(s, After(s), unloaded)

\* ExecAll is the fold FoldTheorems speaks of.
LEMMA ExecAllIsFold ==
    ASSUME NEW m, NEW ms
    PROVE  ExecAll(m, ms) = ExecLoop!Fold(m, ms)
BY DEF ExecAll, ExecLoop!Fold, FoldLeft, ExecLoop!FoldLeft, MapThenFoldSet,
       ExecLoop!MapThenFoldSet, Max, ExecLoop!Max

\* A macro pushed last is executed last.
LEMMA ExecAllAppend ==
    ASSUME NEW m, NEW ms \in Seq(Macro), NEW e \in Macro
    PROVE  /\ ExecAll(m, <<>>) = m
           /\ ExecAll(m, Append(ms, e)) = Exec(ExecAll(m, ms), e)
           /\ ExecAll(m, ms \o <<e>>) = Exec(ExecAll(m, ms), e)
<1>1. ms \o <<e>> = Append(ms, e)
  BY AppendIsConcat
<1>2. ExecLoop!Fold(m, Append(ms, e)) = Exec(ExecLoop!Fold(m, ms), e)
  BY ExecLoop!FoldAppend
<1>3. ExecLoop!Fold(m, <<>>) = m
  BY ExecLoop!FoldEmpty
<1> QED
  BY <1>1, <1>2, <1>3, ExecAllIsFold

\* A LOAD puts the slot's value in the register.
LEMMA LoadEffect ==
    ASSUME NEW m \in Machine, NEW x \in X86Registers, NEW r \in Arm
    PROVE  LET e == Exec(m, Load(x, r))
           IN  /\ Load(x, r) \in Macro
               /\ e \in Machine
               /\ e.host = [m.host EXCEPT ![x] = {r} \intersect m.memory]
               /\ e.memory = m.memory
               /\ e.wrong = m.wrong
<1>1. Exec(m, Load(x, r)) = [m EXCEPT !.host[x] = {r} \intersect m.memory]
  BY DEF Exec, Load
<1>2. Load(x, r) \in Macro
  BY DEF Macro, Loads
<1> QED
  BY <1>1, <1>2 DEF Machine

\* A STORE of the register that has the value brings the slot up to date.
LEMMA StoreEffect ==
    ASSUME NEW m \in Machine, NEW x \in X86Registers, NEW r \in m.host[x]
    PROVE  LET e == Exec(m, Store(x, r))
           IN  /\ Store(x, r) \in Macro
               /\ e \in Machine
               /\ e.host = m.host
               /\ e.memory = m.memory \union {r}
               /\ e.wrong = m.wrong
<1>1. r \in Arm
  BY DEF Machine
<1>2. Exec(m, Store(x, r)) = [m EXCEPT !.memory = m.memory \union {r}]
  BY DEF Exec, Store, Machine
<1>3. Store(x, r) \in Macro
  BY <1>1 DEF Macro, Stores
<1> QED
  BY <1>1, <1>2, <1>3 DEF Machine

\* A MOV copies whatever the source has.
LEMMA MovEffect ==
    ASSUME NEW m \in Machine, NEW x \in X86Registers, NEW y \in X86Registers
    PROVE  LET e == Exec(m, Mov(x, y))
           IN  /\ Mov(x, y) \in Macro
               /\ e \in Machine
               /\ e.host = [m.host EXCEPT ![x] = m.host[y]]
               /\ e.memory = m.memory
               /\ e.wrong = m.wrong
<1>1. Exec(m, Mov(x, y)) = [m EXCEPT !.host[x] = m.host[y]]
  BY DEF Exec, Mov
<1>2. Mov(x, y) \in Macro
  BY DEF Macro, Movs
<1> QED
  BY <1>1, <1>2 DEF Machine

\* An operation leaves its result in x only, and is wrong only if an operand was
\* not where it was read.
LEMMA OpEffect ==
    ASSUME NEW m \in Machine, NEW reads \in Reads,
           NEW x \in X86Registers \union {NONE}, NEW rd \in Arm \union {NONE}
    PROVE  LET e == Exec(m, Op(reads, x, rd))
           IN  /\ Op(reads, x, rd) \in Macro
               /\ e \in Machine
               /\ e.host = [y \in X86Registers |->
                               IF y = x THEN {rd} \ {NONE} ELSE m.host[y] \ {rd}]
               /\ e.memory = m.memory \ {rd}
               /\ (\A read \in reads : read[2] \in m.host[read[1]]) => e.wrong = m.wrong
<1> DEFINE bad == \E read \in reads : read[2] \notin m.host[read[1]]
           n == [m EXCEPT !.wrong = m.wrong \/ bad]
           e == Exec(m, Op(reads, x, rd))
<1>1. e = Written(n, x, rd)
  BY DEF Exec, Op
<1>2. Op(reads, x, rd) \in Macro
  BY DEF Macro, Ops
<1>3. n \in Machine /\ n.host = m.host /\ n.memory = m.memory
  BY DEF Machine
<1>4. ~bad => n.wrong = m.wrong
  BY DEF Machine
<1>5. (\A read \in reads : read[2] \in m.host[read[1]]) => ~bad
  OBVIOUS
<1> HIDE DEF n, e, bad
<1>6. /\ e \in Machine
      /\ e.host = [y \in X86Registers |->
                     IF y = x THEN {rd} \ {NONE} ELSE m.host[y] \ {rd}]
      /\ e.memory = m.memory \ {rd}
      /\ e.wrong = n.wrong
  BY <1>1, <1>3 DEF Written, Machine
<1> QED
  BY <1>2, <1>4, <1>5, <1>6 DEF e

\* Pushing a macro executes it after the others.
LEMMA PushAfter ==
    ASSUME NEW s, Shape(s), s.macros \in Seq(Macro), NEW e \in Macro
    PROVE  /\ Push(s, e).macros \in Seq(Macro)
           /\ After(Push(s, e)) = Exec(After(s), e)
<1>1. Push(s, e).macros = Append(s.macros, e)
  BY DEF Push, Shape
<1>2. Append(s.macros, e) \in Seq(Macro)
  BY AppendProperties
<1>3. ExecAll(machine, Append(s.macros, e)) = Exec(ExecAll(machine, s.macros), e)
  BY ExecAllAppend
<1> QED
  BY <1>1, <1>2, <1>3 DEF After

\* Two states with the same macros and maps are at the same point.
LEMMA SameRunning ==
    ASSUME NEW s, NEW t, NEW unloaded, Running(s, unloaded), t.macros = s.macros,
           t.arm_to_x86 = s.arm_to_x86, t.is_dirty = s.is_dirty
    PROVE  Running(t, unloaded)
BY DEF Running, Faithful, After

\* evict_x86_register loses no value: a dirty one is stored, a clean one is in
\* bal_cpu_t already.
LEMMA EvictFaithful ==
    ASSUME NEW s, Typed(s), Consistent(s), Running(s, {}),
           NEW x \in X86Registers, s.x86_to_arm[x] # NONE
    PROVE  Running(evict_x86_register(s, x), {})
<1> DEFINE victim == s.x86_to_arm[x]
           stored == IF victim \in s.is_dirty THEN Push(s, Store(x, victim)) ELSE s
           t == evict_x86_register(s, x)
<1>1. victim \in Arm /\ s.arm_to_x86[victim] = x /\ NONE # x /\ Shape(s)
  BY Numbers DEF Typed, Consistent
<1>2. After(s) \in Machine /\ victim \in After(s).host[x]
  BY <1>1 DEF Running, Faithful
<1>3. /\ Shape(stored)
      /\ stored.arm_to_x86 = s.arm_to_x86
      /\ stored.is_dirty = s.is_dirty
      /\ stored.macros \in Seq(Macro)
      /\ After(stored) \in Machine
      /\ After(stored).wrong = machine.wrong
      /\ After(stored).host = After(s).host
      /\ After(stored).memory = After(s).memory \union {victim}
  <2>1. CASE victim \in s.is_dirty
    <3> DEFINE p == Push(s, Store(x, victim))
    <3>1. /\ p.macros \in Seq(Macro)
          /\ After(p) \in Machine
          /\ After(p).wrong = After(s).wrong
          /\ After(p).host = After(s).host
          /\ After(p).memory = After(s).memory \union {victim}
      BY <1>1, <1>2, PushAfter, StoreEffect DEF Running
    <3>2. /\ Shape(p)
          /\ p.arm_to_x86 = s.arm_to_x86
          /\ p.is_dirty = s.is_dirty
      BY <1>1 DEF Push, Shape
    <3>3. stored = p
      BY <2>1
    <3> HIDE DEF p, stored
    <3> QED
      BY <3>1, <3>2, <3>3 DEF Running
  <2>2. CASE victim \notin s.is_dirty
    <3>1. stored = s
      BY <2>2
    <3>2. After(s).memory = After(s).memory \union {victim}
      BY <1>1, <2>2 DEF Running, Faithful
    <3> HIDE DEF stored
    <3> QED
      BY <1>1, <3>1, <3>2 DEF Running
  <2> QED
    BY <2>1, <2>2
<1>4. t = [stored EXCEPT !.is_dirty = @ \ {victim}, !.arm_to_x86[victim] = NONE,
                         !.x86_to_arm[x] = NONE]
  BY DEF evict_x86_register
<1> HIDE DEF stored, t
<1>5. /\ t.arm_to_x86 = [s.arm_to_x86 EXCEPT ![victim] = NONE]
      /\ t.is_dirty = s.is_dirty \ {victim}
      /\ t.macros = stored.macros
  BY <1>3, <1>4 DEF Shape
<1>6. After(t) = After(stored)
  BY <1>5 DEF After
<1>7. Faithful(t, After(t), {})
  BY <1>1, <1>3, <1>5, <1>6 DEF Running, Faithful, Typed
<1>8. Running(t, {})
  BY <1>3, <1>5, <1>6, <1>7 DEF Running
<1> QED
  BY <1>8 DEF t

\* However the register is found, making room loses no value.
LEMMA VacateFaithful ==
    ASSUME NEW s, Typed(s), Consistent(s), Running(s, {})
    PROVE  Running(Vacate(s), {})
<1> DEFINE v == Vacate(s)
<1>1. ASSUME NEW x \in X86Registers, s.x86_to_arm[x] # NONE,
             \/ v = [evict_x86_register(s, x) EXCEPT !.got = x]
             \/ v = [evict_x86_register(s, x) EXCEPT
                        !.got = x, !.eviction_cursor = (@ + 1) % CURSOR_RANGE]
      PROVE  Running(v, {})
  <2> DEFINE e == evict_x86_register(s, x)
  <2>1. Running(e, {}) /\ Shape(e)
    BY <1>1, EvictFaithful, EvictSound DEF Typed
  <2>2. \/ v = [e EXCEPT !.got = x]
        \/ v = [e EXCEPT !.got = x, !.eviction_cursor = (@ + 1) % CURSOR_RANGE]
    BY <1>1
  <2> HIDE DEF e, v
  <2>3. v.macros = e.macros /\ v.arm_to_x86 = e.arm_to_x86 /\ v.is_dirty = e.is_dirty
    BY <2>1, <2>2 DEF Shape
  <2> QED
    BY <2>1, <2>3, SameRunning
<1>2. CASE FreeSlots(s) # {}
  <2>1. \E x : v = [s EXCEPT !.got = x]
    BY <1>2 DEF Vacate
  <2> HIDE DEF v
  <2>2. v.macros = s.macros /\ v.arm_to_x86 = s.arm_to_x86 /\ v.is_dirty = s.is_dirty
    BY <2>1 DEF Typed, Shape
  <2>3. Running(v, {})
    BY <2>2, SameRunning
  <2> QED
    BY <2>3 DEF v
<1>3. CASE FreeSlots(s) = {} /\ CleanLow(s) # {}
  <2> DEFINE last == CHOOSE x \in CleanLow(s) : \A y \in CleanLow(s) : x >= y
  <2>1. /\ SCRATCH_REGISTERS_SIZE - 1 \in Nat
        /\ CleanLow(s) \in SUBSET (0 .. SCRATCH_REGISTERS_SIZE - 1)
    BY Numbers DEF CleanLow
  <2>2. last \in CleanLow(s)
    BY <1>3, <2>1, GreatestExists
  <2>3. last \in X86Registers /\ s.x86_to_arm[last] # NONE
    BY <2>2, Numbers DEF CleanLow, X86Registers
  <2>4. v = [evict_x86_register(s, last) EXCEPT !.got = last]
    BY <1>3 DEF Vacate
  <2> HIDE DEF last, v
  <2>5. Running(v, {})
    BY <2>3, <2>4, <1>1
  <2> QED
    BY <2>5 DEF v
<1>4. CASE FreeSlots(s) = {} /\ CleanLow(s) = {}
  <2> DEFINE i == (s.eviction_cursor % SCRATCH_REGISTERS_SIZE) + 1
             x == CursorSlot(s)
  <2>1. \A m \in Nat \ {0}, n \in Nat : n % m \in 0 .. m - 1
    OBVIOUS
  <2>2. s.eviction_cursor \in Nat
    BY CursorAssumption DEF Typed
  <2>3. i \in 1 .. SCRATCH_REGISTERS_SIZE /\ i \notin FreeSlots(s)
    BY <1>4, <2>1, <2>2, Numbers
  <2>4. x \in X86Registers /\ s.x86_to_arm[x] # NONE
    BY <2>3, Numbers DEF FreeSlots, CursorSlot
  <2>5. v = [evict_x86_register(s, x) EXCEPT
                !.got = x, !.eviction_cursor = (@ + 1) % CURSOR_RANGE]
    BY <1>4 DEF Vacate
  <2> HIDE DEF x, v
  <2>6. Running(v, {})
    BY <2>4, <2>5, <1>1
  <2> QED
    BY <2>6 DEF v
<1> QED
  BY <1>2, <1>3, <1>4

\* A miss puts the guest register's value in the register it maps, unless the
\* load is skipped.
LEMMA MissFaithful ==
    ASSUME NEW s, Typed(s), Consistent(s), Running(s, {}),
           NEW r \in Arm, s.arm_to_x86[r] = NONE, NEW skip \in BOOLEAN
    PROVE  LET a == Miss(s, r, skip)
           IN  /\ Running(a, IF skip THEN {r} ELSE {})
               /\ a.got = a.arm_to_x86[r]
<1> DEFINE v == Vacate(s)
           mapped == [v EXCEPT !.arm_to_x86[r] = v.got, !.x86_to_arm[v.got] = r]
           a == Miss(s, r, skip)
<1>1. /\ Typed(v)
      /\ Consistent(v)
      /\ v.got \in Scratch
      /\ v.x86_to_arm[v.got] = NONE
      /\ v.arm_to_x86[r] = NONE
      /\ Running(v, {})
  BY VacateSound, VacateFaithful
<1>2. a = IF skip THEN mapped ELSE Push(mapped, Load(v.got, r))
  BY DEF Miss
<1>3. mapped = [v EXCEPT !.arm_to_x86[r] = v.got, !.x86_to_arm[v.got] = r]
  OBVIOUS
<1> HIDE DEF v, a, mapped
<1>4. /\ Shape(mapped)
      /\ mapped.arm_to_x86 = [v.arm_to_x86 EXCEPT ![r] = v.got]
      /\ mapped.is_dirty = v.is_dirty
      /\ mapped.macros = v.macros
      /\ mapped.got = v.got
  BY <1>1, <1>3 DEF Shape, Typed
<1>5. After(mapped) = After(v)
  BY <1>4 DEF After
<1>6. mapped.arm_to_x86[r] = v.got
  BY <1>1, <1>4 DEF Typed
<1>7. \A q \in Arm \ {r} : /\ mapped.arm_to_x86[q] = v.arm_to_x86[q]
                           /\ v.arm_to_x86[q] # v.got
  BY <1>1, <1>4, Numbers DEF Typed, Consistent
<1>8. CASE skip
  <2>1. a = mapped
    BY <1>2, <1>8
  <2>2. Faithful(mapped, After(mapped), {r})
    BY <1>1, <1>4, <1>5, <1>7 DEF Running, Faithful
  <2>3. Running(a, {r})
    BY <1>1, <1>4, <1>5, <2>1, <2>2 DEF Running
  <2> QED
    BY <1>4, <1>6, <1>8, <2>1, <2>3 DEF a
<1>9. CASE ~skip
  <2>1. a = Push(mapped, Load(v.got, r))
    BY <1>2, <1>9
  <2>2. v.got \in X86Registers /\ After(v) \in Machine /\ mapped.macros \in Seq(Macro)
    BY <1>1, <1>4, Numbers DEF Running
  <2>3. /\ a.macros \in Seq(Macro)
        /\ After(a) \in Machine
        /\ After(a).host = [After(v).host EXCEPT ![v.got] = {r} \intersect After(v).memory]
        /\ After(a).memory = After(v).memory
        /\ After(a).wrong = After(v).wrong
    BY <1>4, <1>5, <2>1, <2>2, PushAfter, LoadEffect
  <2>4. /\ a.arm_to_x86 = mapped.arm_to_x86
        /\ a.is_dirty = v.is_dirty
        /\ a.got = v.got
    BY <1>4, <2>1 DEF Push, Shape
  <2>5. r \in After(v).memory
    BY <1>1 DEF Running, Faithful, Consistent, Mapped
  <2>6. r \in After(a).host[a.arm_to_x86[r]]
    BY <1>6, <2>2, <2>3, <2>4, <2>5 DEF Machine
  <2>7. \A q \in Arm \ {r} : a.arm_to_x86[q] # NONE =>
                                q \in After(a).host[a.arm_to_x86[q]]
    <3> SUFFICES ASSUME NEW q \in Arm \ {r}, a.arm_to_x86[q] # NONE
                 PROVE  q \in After(a).host[a.arm_to_x86[q]]
      OBVIOUS
    <3>1. /\ a.arm_to_x86[q] = v.arm_to_x86[q]
          /\ v.arm_to_x86[q] # v.got
          /\ v.arm_to_x86[q] \in X86Registers
          /\ q \in After(v).host[v.arm_to_x86[q]]
      BY <1>1, <1>7, <2>4, Numbers DEF Typed, Running, Faithful
    <3> QED
      BY <2>2, <2>3, <3>1 DEF Machine
  <2>8. \A q \in Arm : q \in After(a).memory \/ q \in a.is_dirty
    BY <1>1, <2>3, <2>4 DEF Running, Faithful
  <2>9. Faithful(a, After(a), {})
    BY <2>6, <2>7, <2>8 DEF Faithful
  <2>10. Running(a, {})
    BY <1>1, <2>3, <2>9 DEF Running
  <2> QED
    BY <1>6, <1>9, <2>4, <2>10 DEF a
<1> QED
  BY <1>8, <1>9

\* A hit that is not an error changes nothing and returns the mapped register.
LEMMA HitFaithful ==
    ASSUME NEW s, Typed(s), Consistent(s), s.status = SUCCESS, Running(s, {}),
           NEW r \in Arm, s.arm_to_x86[r] # NONE
    PROVE  LET a == Hit(s, r)
           IN  a.status = SUCCESS =>
                   /\ Running(a, {})
                   /\ a.got = a.arm_to_x86[r]
                   /\ a.arm_to_x86 = s.arm_to_x86
<1> DEFINE x == s.arm_to_x86[r]
           a == Hit(s, r)
<1>1. x \in X86Registers /\ s.x86_to_arm[x] = r
  BY Numbers DEF Typed, Consistent
<1>2. CASE x >= R15
  <2>1. a = [s EXCEPT !.arm_to_x86[r] = NONE, !.status = CORRUPTED, !.got = INVALID]
    BY <1>2 DEF Hit
  <2> HIDE DEF a
  <2>2. a.status = CORRUPTED
    BY <2>1 DEF Shape, Typed
  <2> QED
    BY <2>2 DEF a, SUCCESS, CORRUPTED
<1>3. CASE ~(x >= R15)
  <2>1. a = [s EXCEPT !.got = x]
    BY <1>1, <1>3 DEF Hit
  <2> HIDE DEF a
  <2>2. /\ a.got = x
        /\ a.arm_to_x86 = s.arm_to_x86
        /\ a.is_dirty = s.is_dirty
        /\ a.macros = s.macros
    BY <2>1 DEF Shape, Typed
  <2>3. Running(a, {})
    BY <2>2, SameRunning
  <2> QED
    BY <2>2, <2>3 DEF a
<1> QED
  BY <1>2, <1>3

\* allocate_x86_register returns the register it mapped, and the value is in it
\* unless the register is new and its load was skipped.  Without an error now there
\* was none before.
LEMMA AllocateFaithful ==
    ASSUME NEW s, Sound(s), s.status = SUCCESS => Running(s, {}),
           NEW r \in Arm, NEW skip \in BOOLEAN
    PROVE  LET a == allocate_x86_register(s, r, skip)
           IN  a.status = SUCCESS =>
                   /\ s.status = SUCCESS
                   /\ a.got = a.arm_to_x86[r]
                   /\ a.got \in Scratch
                   /\ \/ Running(a, {})
                      \/ skip /\ s.arm_to_x86[r] = NONE /\ Running(a, {r})
                   /\ s.arm_to_x86[r] # NONE => a.arm_to_x86 = s.arm_to_x86
<1> DEFINE a == allocate_x86_register(s, r, skip)
<1>1. Sound(a) /\ (a.status = SUCCESS => a.arm_to_x86[r] \in Scratch)
  BY AllocateSound DEF Sound, Typed
<1>2. CASE s.status # SUCCESS
  <2>1. a = [s EXCEPT !.got = INVALID]
    BY <1>2 DEF allocate_x86_register
  <2> HIDE DEF a
  <2>2. a.status = s.status
    BY <2>1 DEF Shape, Typed, Sound
  <2> QED
    BY <1>2, <2>2 DEF a
<1>3. CASE s.status = SUCCESS /\ s.arm_to_x86[r] # NONE
  <2>1. a = Hit(s, r)
    BY <1>3 DEF allocate_x86_register
  <2> QED
    BY <1>1, <1>3, <2>1, HitFaithful DEF Sound
<1>4. CASE s.status = SUCCESS /\ s.arm_to_x86[r] = NONE
  <2>1. a = Miss(s, r, skip)
    BY <1>4 DEF allocate_x86_register
  <2>2. /\ Running(a, IF skip THEN {r} ELSE {})
        /\ a.got = a.arm_to_x86[r]
    BY <1>4, <2>1, MissFaithful DEF Sound
  <2> HIDE DEF a
  <2>3. \/ Running(a, {})
        \/ skip /\ Running(a, {r})
    BY <2>2
  <2> QED
    BY <1>1, <1>4, <2>2, <2>3 DEF a
<1> QED
  BY <1>2, <1>3, <1>4

\* A translation that failed leaves nothing to execute.
LEMMA FinishError ==
    ASSUME NEW s, Sound(s), s.status # SUCCESS, NEW rd, NEW reads, NEW x, NEW moves
    PROVE  LET f == Finish(s, rd, reads, x, moves)
           IN  f.status = s.status /\ After(f) = machine
<1> DEFINE f == Finish(s, rd, reads, x, moves)
<1>1. f = [s EXCEPT !.macros = <<>>]
  BY DEF Finish
<1> HIDE DEF f
<1>2. f.status = s.status /\ f.macros = <<>>
  BY <1>1 DEF Sound, Typed, Shape
<1>3. ExecAll(machine, <<>>) = machine
  BY ExecAllIsFold, ExecLoop!FoldEmpty
<1> QED
  BY <1>2, <1>3 DEF f, After

\* A translation in state s is ready for its last macros: at most one move into
\* the result's register x, then the operation.  Every mapped value is in its
\* place, but for rd's; y is what x holds once the move is done.
ReadyFor(s, rd, x, y, moves) ==
    /\ Sound(s)
    /\ s.status = SUCCESS
    /\ \/ moves = <<>> /\ y = x
       \/ moves = <<Mov(x, y)>> /\ x # NONE /\ y # NONE
    /\ rd = NONE => Running(s, {}) /\ x \notin Scratch
    /\ rd # NONE => /\ s.arm_to_x86[rd] = x
                    /\ Running(s, {}) \/ Running(s, {rd})

\* They make f of s: all values are in their places, and the operands were right
\* if they are where they are read once the move is done.
Finished(s, f, reads, x, y) ==
    /\ After(f) \in Machine
    /\ Faithful(f, After(f), {})
    /\ (\A z \in X86Registers, r \in Arm : <<z, r>> \in reads =>
             r \in After(s).host[IF z = x THEN y ELSE z])
         => After(f).wrong = machine.wrong

\* The end of a translation.
LEMMA FinishFaithful ==
    ASSUME NEW s, NEW rd \in Arm \union {NONE},
           NEW x \in X86Registers \union {NONE}, NEW y \in X86Registers \union {NONE},
           NEW reads \in Reads, NEW moves, ReadyFor(s, rd, x, y, moves)
    PROVE  Finished(s, Finish(s, rd, reads, x, moves), reads, x, y)
<1> SUFFICES ASSUME Sound(s), s.status = SUCCESS,
                    \/ moves = <<>> /\ y = x
                    \/ moves = <<Mov(x, y)>> /\ x # NONE /\ y # NONE,
                    rd = NONE => Running(s, {}) /\ x \notin Scratch,
                    rd # NONE => /\ s.arm_to_x86[rd] = x
                                 /\ Running(s, {}) \/ Running(s, {rd})
             PROVE  LET f == Finish(s, rd, reads, x, moves)
                    IN  /\ After(f) \in Machine
                        /\ Faithful(f, After(f), {})
                        /\ (\A z \in X86Registers, r \in Arm : <<z, r>> \in reads =>
                                 r \in After(s).host[IF z = x THEN y ELSE z])
                             => After(f).wrong = machine.wrong
  BY DEF ReadyFor, Finished
<1> DEFINE f == Finish(s, rd, reads, x, moves)
           op == Op(reads, x, rd)
           m == After(s)
           n == ExecAll(machine, s.macros \o moves)
           fine == \A z \in X86Registers, r \in Arm : <<z, r>> \in reads =>
                        r \in m.host[IF z = x THEN y ELSE z]
<1>1. /\ m \in Machine /\ m.wrong = machine.wrong /\ s.macros \in Seq(Macro)
      /\ Shape(s) /\ Consistent(s)
      /\ NONE \notin X86Registers /\ NONE \notin Arm
      /\ \A r \in Arm \ {rd} : s.arm_to_x86[r] # NONE => r \in m.host[s.arm_to_x86[r]]
      /\ \A r \in Arm : r \in m.memory \/ r \in s.is_dirty
  BY Numbers DEF Running, Faithful, Sound, Typed
<1>2. /\ s.macros \o moves \in Seq(Macro)
      /\ n \in Machine
      /\ n.memory = m.memory
      /\ n.wrong = m.wrong
      /\ \A z \in X86Registers : n.host[z] = m.host[IF z = x THEN y ELSE z]
  <2>1. CASE moves = <<>> /\ y = x
    <3>1. s.macros \o moves = s.macros
      BY <1>1, <2>1, ConcatEmptySeq
    <3> QED
      BY <1>1, <2>1, <3>1 DEF After
  <2>2. CASE moves = <<Mov(x, y)>> /\ x # NONE /\ y # NONE
    <3>1. x \in X86Registers /\ y \in X86Registers
      BY <2>2
    <3>2. /\ Mov(x, y) \in Macro
          /\ Exec(m, Mov(x, y)) \in Machine
          /\ Exec(m, Mov(x, y)).host = [m.host EXCEPT ![x] = m.host[y]]
          /\ Exec(m, Mov(x, y)).memory = m.memory
          /\ Exec(m, Mov(x, y)).wrong = m.wrong
      BY <1>1, <3>1, MovEffect
    <3>3. n = Exec(m, Mov(x, y))
      BY <1>1, <2>2, <3>2, ExecAllAppend DEF After
    <3>4. s.macros \o moves \in Seq(Macro)
      BY <1>1, <2>2, <3>2
    <3> HIDE DEF n, m
    <3>5. m.host \in [X86Registers -> SUBSET Arm]
      BY <1>1 DEF Machine
    <3> QED
      BY <3>1, <3>2, <3>3, <3>4, <3>5
  <2> QED
    BY <2>1, <2>2
<1> DEFINE g == Exec(n, op)
           h == [z \in X86Registers |-> IF z = x THEN {rd} \ {NONE} ELSE n.host[z] \ {rd}]
<1>3. /\ op \in Macro
      /\ g \in Machine
      /\ g.host = h
      /\ g.memory = n.memory \ {rd}
      /\ (\A read \in reads : read[2] \in n.host[read[1]]) => g.wrong = n.wrong
  <2> HIDE DEF n
  <2> QED
    BY <1>2, OpEffect
<1>4. ExecAll(machine, (s.macros \o moves) \o <<op>>) = g
  <2> HIDE DEF op
  <2>1. \A ms \in Seq(Macro), e \in Macro :
            ExecAll(machine, ms \o <<e>>) = Exec(ExecAll(machine, ms), e)
    BY ExecAllAppend
  <2> QED
    BY <1>2, <1>3, <2>1, Zenon
<1>5. /\ f.macros = (s.macros \o moves) \o <<op>>
      /\ f.arm_to_x86 = s.arm_to_x86
      /\ f.is_dirty = s.is_dirty \union ({rd} \ {NONE})
  <2> DEFINE ms == (s.macros \o moves) \o <<op>>
             kept == [s EXCEPT !.macros = ms]
  <2>1. f = IF rd = NONE THEN kept ELSE [kept EXCEPT !.is_dirty = @ \union {rd}]
    BY DEF Finish, Dirty
  <2> HIDE DEF ms, f
  <2>2. /\ Shape(kept)
        /\ kept.macros = ms
        /\ kept.arm_to_x86 = s.arm_to_x86
        /\ kept.is_dirty = s.is_dirty
    BY <1>1 DEF Shape
  <2> HIDE DEF kept
  <2>3. /\ f.macros = ms
        /\ f.arm_to_x86 = s.arm_to_x86
        /\ f.is_dirty = s.is_dirty \union ({rd} \ {NONE})
    BY <2>1, <2>2 DEF Shape
  <2> QED
    BY <2>3 DEF ms
<1>6. After(f) = g
  BY <1>4, <1>5 DEF After
<1>7. fine => \A read \in reads : read[2] \in n.host[read[1]]
  <2> HIDE DEF n, m
  <2> SUFFICES ASSUME fine, NEW read \in reads PROVE read[2] \in n.host[read[1]]
    OBVIOUS
  <2>1. PICK z \in X86Registers, r \in Arm : read = <<z, r>>
    BY DEF Reads
  <2>2. r \in n.host[z]
    BY <1>2, <2>1
  <2> QED
    BY <2>1, <2>2
<1> HIDE DEF n, m, f, op, g, fine
<1>8. \A r \in Arm : s.arm_to_x86[r] # NONE => r \in g.host[s.arm_to_x86[r]]
  <2> SUFFICES ASSUME NEW r \in Arm, s.arm_to_x86[r] # NONE
               PROVE  r \in g.host[s.arm_to_x86[r]]
    OBVIOUS
  <2>1. s.arm_to_x86[r] \in Scratch /\ s.arm_to_x86[r] \in X86Registers
    BY Numbers DEF Sound, Typed
  <2>2. CASE r = rd
    BY <1>1, <1>3, <2>1, <2>2
  <2>3. CASE r # rd
    <3>1. s.arm_to_x86[r] # x
      BY <1>1, <2>1, <2>3 DEF Consistent
    <3>2. r \in m.host[s.arm_to_x86[r]]
      BY <1>1, <2>3
    <3>3. r \in n.host[s.arm_to_x86[r]]
      BY <1>2, <2>1, <3>1, <3>2
    <3> QED
      BY <1>3, <2>1, <2>3, <3>1, <3>3
  <2> QED
    BY <2>2, <2>3
<1>9. \A r \in Arm : r \in g.memory \/ r \in f.is_dirty
  BY <1>1, <1>2, <1>3, <1>5
<1>10. Faithful(f, g, {})
  BY <1>5, <1>8, <1>9 DEF Faithful
<1>11. fine => g.wrong = machine.wrong
  BY <1>1, <1>2, <1>3, <1>7
<1> QED
  BY <1>3, <1>6, <1>10, <1>11 DEF f, fine, m

-----------------------------------------------------------------------------
\* The inductive invariant: the compiler's part of the state is typed, and its
\* maps are consistent.
Inv == c \in CompilerType /\ MapsConsistent

\* A translation starts from the compiler's own maps, which are sound.
LEMMA BeginSound ==
    ASSUME Inv
    PROVE  Sound(Begin)
BY DEF Inv, MapsConsistent, CompilerType, Sound, Typed, Shape, Begin, Consistent, Mapped

\* If a translation ends in a sound state, the compiler keeps the invariant.
LEMMA TranslatedInv ==
    ASSUME NEW s, NEW overwrites, Sound(s), Translated(s, overwrites)
    PROVE  Inv'
<1>1. c' \in CompilerType
  BY DEF Translated, Sound, Typed, CompilerType
<1>2. c'.status = SUCCESS => Consistent(c')
  BY DEF Translated, Sound, Consistent, Mapped
<1> QED
  BY <1>1, <1>2 DEF Inv, MapsConsistent, Consistent, Mapped

\* translate_mov_immediate ends in a sound state.
LEMMA MovImmediateSound ==
    ASSUME Inv, NEW rd \in Arm, NEW keep \in BOOLEAN
    PROVE  Sound(translate_mov_immediate(rd, keep))
<1> DEFINE s == allocate_x86_register(Begin, rd, ~keep)
<1>1. Sound(s) /\ (s.status = SUCCESS => s.arm_to_x86[rd] # NONE)
  BY BeginSound, AllocateSound
<1> HIDE DEF s
<1>2. Sound(Finish(s, rd, IF keep THEN {<<s.got, rd>>} ELSE {}, s.got, <<>>))
  BY <1>1, FinishSound
<1> QED
  BY <1>2 DEF translate_mov_immediate, s

\* translate_add_sub_imm ends in a sound state, also when the result is
\* discarded.
LEMMA AddSubImmSound ==
    ASSUME Inv, NEW rd \in Arm, NEW rn \in Arm, NEW discard \in BOOLEAN
    PROVE  Sound(translate_add_sub_imm(rd, rn, discard))
<1> DEFINE n == allocate_x86_register(Begin, rn, FALSE)
           d == IF discard THEN [n EXCEPT !.got = R11] ELSE allocate_x86_register(n, rd, TRUE)
           target == IF discard THEN NONE ELSE rd
           moves == IF d.got # n.got THEN <<Mov(d.got, n.got)>> ELSE <<>>
<1>1. Sound(n)
  BY BeginSound, AllocateSound
<1>2. Sound(d) /\ (d.status = SUCCESS /\ target # NONE => d.arm_to_x86[target] # NONE)
  <2>1. CASE discard
    BY <1>1, <2>1, GotSound
  <2>2. CASE ~discard
    BY <1>1, <2>2, AllocateSound
  <2> QED
    BY <2>1, <2>2
<1>3. target \in Arm \union {NONE}
  OBVIOUS
<1> HIDE DEF n, d, target, moves
<1>4. Sound(Finish(d, target, {<<d.got, rn>>}, d.got, moves))
  BY <1>2, <1>3, FinishSound
<1> QED
  BY <1>4 DEF translate_add_sub_imm, n, d, target, moves

\* translate_add_sub_reg ends in a sound state, also when allocating one operand
\* evicts another.
LEMMA AddSubRegSound ==
    ASSUME Inv, NEW rd \in Arm, NEW rn \in Arm, NEW rm \in Arm, NEW discard \in BOOLEAN
    PROVE  Sound(translate_add_sub_reg(rd, rn, rm, discard))
<1> DEFINE n == allocate_x86_register(Begin, rn, FALSE)
           m == allocate_x86_register(n, rm, FALSE)
           d == IF discard THEN [m EXCEPT !.got = R11] ELSE allocate_x86_register(m, rd, TRUE)
           target == IF discard THEN NONE ELSE rd
           moves == IF d.got # n.got THEN <<Mov(d.got, n.got)>> ELSE <<>>
<1>1. Sound(n)
  BY BeginSound, AllocateSound
<1>2. Sound(m)
  BY <1>1, AllocateSound
<1>3. Sound(d) /\ (d.status = SUCCESS /\ target # NONE => d.arm_to_x86[target] # NONE)
  <2> HIDE DEF m
  <2>1. CASE discard
    BY <1>2, <2>1, GotSound
  <2>2. CASE ~discard
    BY <1>2, <2>2, AllocateSound
  <2> QED
    BY <2>1, <2>2
<1>4. target \in Arm \union {NONE}
  OBVIOUS
<1> HIDE DEF n, m, d, target, moves
<1>5. Sound(Finish(d, target, {<<d.got, rn>>, <<m.got, rm>>}, d.got, moves))
  BY <1>3, <1>4, FinishSound
<1> QED
  BY <1>5 DEF translate_add_sub_reg, n, m, d, target, moves

\* translate_and ends in a sound state in each of its three cases.
LEMMA AndSound ==
    ASSUME Inv, NEW rd \in Arm, NEW rn \in Arm, NEW rm \in Arm
    PROVE  Sound(translate_and(rd, rn, rm))
<1> DEFINE n == allocate_x86_register(Begin, rn, FALSE)
           m == allocate_x86_register(n, rm, FALSE)
           d == allocate_x86_register(m, rd, TRUE)
           moves == IF d.got # n.got THEN <<Mov(d.got, n.got)>> ELSE <<>>
           t == translate_and(rd, rn, rm)
<1>1. Sound(n)
  BY BeginSound, AllocateSound
<1>2. Sound(m)
  BY <1>1, AllocateSound
<1>3. Sound(d) /\ (d.status = SUCCESS => d.arm_to_x86[rd] # NONE)
  <2> HIDE DEF m
  <2> QED
    BY <1>2, AllocateSound
<1>4. \/ t = [d EXCEPT !.status = INCORRECT_REGISTER, !.macros = <<>>]
      \/ t = Finish(d, rd, {}, d.got, <<>>)
      \/ t = Finish(d, rd, {<<d.got, rm>>, <<n.got, rn>>}, d.got, <<>>)
      \/ t = Finish(d, rd, {<<d.got, rn>>, <<m.got, rm>>}, d.got, moves)
  <2> HIDE DEF n, m, d, moves
  <2>1. t = IF d.status # SUCCESS
            THEN [d EXCEPT !.status = INCORRECT_REGISTER, !.macros = <<>>]
            ELSE CASE rd = 31 -> Finish(d, rd, {}, d.got, <<>>)
                   [] rd # 31 /\ d.got = m.got ->
                        Finish(d, rd, {<<d.got, rm>>, <<n.got, rn>>}, d.got, <<>>)
                   [] OTHER ->
                        Finish(d, rd, {<<d.got, rn>>, <<m.got, rm>>}, d.got, moves)
    BY DEF translate_and, n, m, d, moves
  <2> HIDE DEF t
  <2> QED
    BY <2>1
<1> HIDE DEF n, m, d, moves, t
<1>5. CASE t = [d EXCEPT !.status = INCORRECT_REGISTER, !.macros = <<>>]
  <2>1. /\ Shape(t)
        /\ t.arm_to_x86 = d.arm_to_x86
        /\ t.x86_to_arm = d.x86_to_arm
        /\ t.is_dirty = d.is_dirty
        /\ t.status = INCORRECT_REGISTER
        /\ t.eviction_cursor = d.eviction_cursor
    BY <1>3, <1>5 DEF Shape, Typed, Sound
  <2>2. Sound(t)
    BY <1>3, <2>1 DEF Sound, Typed, SUCCESS, INCORRECT_REGISTER
  <2> QED
    BY <2>2 DEF t
<1>6. Sound(t)
  BY <1>3, <1>4, <1>5, FinishSound DEF t
<1> QED
  BY <1>6 DEF t

\* translate_mov_register ends in a sound state.
LEMMA MovRegisterSound ==
    ASSUME Inv, NEW rd \in Arm, NEW rm \in Arm
    PROVE  Sound(translate_mov_register(rd, rm))
<1> DEFINE m == allocate_x86_register(Begin, rm, FALSE)
           d == allocate_x86_register(m, rd, TRUE)
<1>1. Sound(m)
  BY BeginSound, AllocateSound
<1>2. Sound(d) /\ (d.status = SUCCESS => d.arm_to_x86[rd] # NONE)
  <2> HIDE DEF m
  <2> QED
    BY <1>1, AllocateSound
<1> HIDE DEF m, d
<1>3. Sound(Finish(d, rd, {<<d.got, rm>>}, d.got, <<Mov(d.got, m.got)>>))
  BY <1>2, FinishSound
<1> QED
  BY <1>3 DEF translate_mov_register, m, d

\* RET, CBZ and CBNZ, which read one register, end in a sound state.
LEMMA ReadSound ==
    ASSUME Inv, NEW rn \in Arm
    PROVE  Sound(translate_read(rn))
<1> DEFINE n == allocate_x86_register(Begin, rn, FALSE)
<1>1. Sound(n)
  BY BeginSound, AllocateSound
<1> HIDE DEF n
<1>2. Sound(Finish(n, NONE, {<<n.got, rn>>}, NONE, <<>>))
  BY <1>1, FinishSound
<1> QED
  BY <1>2 DEF translate_read, n

-----------------------------------------------------------------------------
(* The instructions at run time.                                           *)

\* The machine has its type, and between two instructions every value is where
\* the allocator has it.
MachineInv ==
    /\ machine \in Machine
    /\ c.status = SUCCESS /\ phase # "ended" => Faithful(c, machine, {})

\* What a translation leaves behind once its macros are executed; overwrites is
\* whether it overwrote an operand itself.
Delivered(s, overwrites) ==
    /\ After(s) \in Machine
    /\ s.status = SUCCESS => Faithful(s, After(s), {})
    /\ ~overwrites => After(s).wrong = machine.wrong

\* A translation starts on its way.
LEMMA BeginRunning ==
    ASSUME Inv, MachineInv, phase = "open"
    PROVE  Sound(Begin) /\ (Begin.status = SUCCESS => Running(Begin, {}))
<1>1. Begin.macros = <<>> /\ Begin.status = c.status
      /\ Begin.arm_to_x86 = c.arm_to_x86 /\ Begin.is_dirty = c.is_dirty
  BY DEF Begin
<1>2. ExecAll(machine, <<>>) = machine
  BY ExecAllIsFold, ExecLoop!FoldEmpty
<1>3. After(Begin) = machine
  BY <1>1, <1>2 DEF After
<1>4. <<>> \in Seq(Macro)
  OBVIOUS
<1> QED
  BY <1>1, <1>3, <1>4, BeginSound DEF MachineInv, Running, Faithful

\* One that failed changes nothing at run time.
LEMMA ErrorDelivered ==
    ASSUME MachineInv, NEW s, Sound(s), s.status # SUCCESS,
           NEW rd, NEW reads, NEW x, NEW moves, NEW overwrites
    PROVE  Delivered(Finish(s, rd, reads, x, moves), overwrites)
BY FinishError DEF Delivered, MachineInv

\* FinishFaithful for an operation on a register that needs no move.
LEMMA FinishInPlace ==
    ASSUME NEW s, Sound(s), s.status = SUCCESS, NEW rd \in Arm,
           Running(s, {}) \/ Running(s, {rd}),
           NEW x \in X86Registers, s.arm_to_x86[rd] = x, NEW reads \in Reads
    PROVE  LET f == Finish(s, rd, reads, x, <<>>)
           IN  /\ After(f) \in Machine
               /\ Faithful(f, After(f), {})
               /\ (\A z \in X86Registers, r \in Arm : <<z, r>> \in reads =>
                        r \in After(s).host[z])
                    => After(f).wrong = machine.wrong
<1> DEFINE f == Finish(s, rd, reads, x, <<>>)
<1>1. ReadyFor(s, rd, x, x, <<>>)
  BY Numbers DEF ReadyFor
<1>2. Finished(s, f, reads, x, x)
  BY <1>1, FinishFaithful
<1>3. \A z : (IF z = x THEN x ELSE z) = z
  OBVIOUS
<1> HIDE DEF f
<1> QED
  BY <1>2, <1>3 DEF f, Finished

\* MOVZ, MOVN and MOVK.
LEMMA MovImmediateDelivered ==
    ASSUME Inv, MachineInv, phase = "open", NEW rd \in Arm, NEW keep \in BOOLEAN
    PROVE  Delivered(translate_mov_immediate(rd, keep), FALSE)
<1> DEFINE s == allocate_x86_register(Begin, rd, ~keep)
           reads == IF keep THEN {<<s.got, rd>>} ELSE {}
<1>1. /\ Sound(s)
      /\ s.status = SUCCESS => /\ s.got = s.arm_to_x86[rd]
                               /\ s.got \in Scratch
                               /\ Running(s, {}) \/ (~keep /\ Running(s, {rd}))
  BY BeginRunning, AllocateSound, AllocateFaithful
<1>2. translate_mov_immediate(rd, keep) = Finish(s, rd, reads, s.got, <<>>)
  BY DEF translate_mov_immediate
<1> HIDE DEF s
<1>3. CASE s.status # SUCCESS
  BY <1>1, <1>2, <1>3, ErrorDelivered
<1>4. CASE s.status = SUCCESS
  <2>1. s.got \in X86Registers /\ s.got # NONE /\ rd # NONE
    BY <1>1, <1>4, Numbers
  <2>2. reads \in Reads
    BY <2>1 DEF Reads
  <2>3. \A z \in X86Registers, r \in Arm : <<z, r>> \in reads =>
            r \in After(s).host[z]
    <3>1. CASE keep
      <4>1. rd \in After(s).host[s.got]
        BY <1>1, <1>4, <2>1, <3>1 DEF Running, Faithful
      <4> QED
        BY <3>1, <4>1
    <3>2. CASE ~keep
      BY <3>2
    <3> QED
      BY <3>1, <3>2
  <2> HIDE DEF reads
  <2> DEFINE f == Finish(s, rd, reads, s.got, <<>>)
  <2>4. /\ After(f) \in Machine
        /\ Faithful(f, After(f), {})
        /\ After(f).wrong = machine.wrong
    BY <1>1, <1>4, <2>1, <2>2, <2>3, FinishInPlace
  <2> QED
    BY <1>2, <2>4 DEF Delivered
<1> QED
  BY <1>3, <1>4

\* The same for a result that is discarded.
LEMMA FinishDiscarded ==
    ASSUME NEW s, Sound(s), s.status = SUCCESS, Running(s, {}),
           NEW x \in X86Registers, NEW y \in X86Registers, x \notin Scratch,
           NEW reads \in Reads, NEW moves, moves = <<Mov(x, y)>>
    PROVE  LET f == Finish(s, NONE, reads, x, moves)
           IN  /\ After(f) \in Machine
               /\ Faithful(f, After(f), {})
               /\ (\A z \in X86Registers, r \in Arm : <<z, r>> \in reads =>
                        r \in After(s).host[IF z = x THEN y ELSE z])
                    => After(f).wrong = machine.wrong
<1>1. x # NONE /\ y # NONE /\ NONE \in Arm \union {NONE}
  BY Numbers
<1>2. ReadyFor(s, NONE, x, y, moves)
  BY <1>1 DEF ReadyFor
<1>3. Finished(s, Finish(s, NONE, reads, x, moves), reads, x, y)
  BY <1>1, <1>2, FinishFaithful
<1> QED
  BY <1>3 DEF Finished

\* A translation that ends with the value of rn, allocated in n, moved from n's
\* register into d's: the moves argument of Finish, and where the move takes the
\* value from.
LEMMA MoveForm ==
    ASSUME NEW x \in X86Registers, NEW y \in X86Registers,
           NEW moves, moves = IF x # y THEN <<Mov(x, y)>> ELSE <<>>
    PROVE  \/ moves = <<>> /\ y = x
           \/ moves = <<Mov(x, y)>> /\ x # NONE /\ y # NONE
BY Numbers

\* ADD, ADDS, SUB and SUBS with an immediate.
LEMMA AddSubImmDelivered ==
    ASSUME Inv, MachineInv, phase = "open",
           NEW rd \in Arm, NEW rn \in Arm, NEW discard \in BOOLEAN
    PROVE  Delivered(translate_add_sub_imm(rd, rn, discard),
                     ~discard /\ TakesBackOne(rd, rn))
<1> DEFINE n == allocate_x86_register(Begin, rn, FALSE)
           a == allocate_x86_register(n, rd, TRUE)
           d == IF discard THEN [n EXCEPT !.got = R11] ELSE a
           target == IF discard THEN NONE ELSE rd
           moves == IF d.got # n.got THEN <<Mov(d.got, n.got)>> ELSE <<>>
           reads == {<<d.got, rn>>}
           overwrites == ~discard /\ TakesBackOne(rd, rn)
           f == Finish(d, target, reads, d.got, moves)
<1>1. /\ Sound(n)
      /\ n.status = SUCCESS => /\ n.got = n.arm_to_x86[rn]
                               /\ n.got \in Scratch
                               /\ Running(n, {})
  BY BeginRunning, AllocateSound, AllocateFaithful
<1>2. f = translate_add_sub_imm(rd, rn, discard)
  BY DEF translate_add_sub_imm
<1>3. overwrites <=> ~discard /\ a.arm_to_x86[rn] # n.got
  BY DEF TakesBackOne
<1>4. /\ Sound(a)
      /\ a.status = SUCCESS => /\ n.status = SUCCESS
                               /\ a.got = a.arm_to_x86[rd]
                               /\ a.got \in Scratch
                               /\ \/ Running(a, {})
                                  \/ n.arm_to_x86[rd] = NONE /\ Running(a, {rd})
  <2> HIDE DEF n
  <2> QED
    BY <1>1, AllocateSound, AllocateFaithful
<1> HIDE DEF n, a, overwrites
<1>5. CASE discard
  <2>1. d = [n EXCEPT !.got = R11] /\ target = NONE
    BY <1>5
  <2> HIDE DEF d, target
  <2>2. /\ d.got = R11 /\ d.status = n.status /\ d.macros = n.macros
        /\ d.arm_to_x86 = n.arm_to_x86 /\ d.is_dirty = n.is_dirty /\ Sound(d)
    BY <1>1, <2>1, GotSound DEF Sound, Typed, Shape
  <2>3. CASE d.status # SUCCESS
    BY <1>2, <2>2, <2>3, ErrorDelivered DEF overwrites
  <2>4. CASE d.status = SUCCESS
    <3>1. Running(d, {})
      BY <1>1, <2>2, <2>4, SameRunning
    <3>2. n.got \in X86Registers /\ d.got \in X86Registers /\ d.got \notin Scratch
      <4>1. R11 \notin Scratch /\ n.got \in X86Registers
        BY <1>1, <2>2, <2>4, Numbers, ScratchAssumption
      <4>2. R11 \in X86Registers
        BY DEF R11, X86Registers
      <4> QED
        BY <2>2, <4>1, <4>2
    <3>3. reads \in Reads
      BY <3>2 DEF Reads
    <3>4. \A z \in X86Registers, r \in Arm : <<z, r>> \in reads =>
              r \in After(d).host[IF z = d.got THEN n.got ELSE z]
      <4>1. rn \in After(d).host[n.got]
        BY <1>1, <2>2, <2>4, <3>1, <3>2, Numbers DEF Running, Faithful
      <4> QED
        BY <4>1
    <3>5. \/ moves = <<>> /\ n.got = d.got
          \/ moves = <<Mov(d.got, n.got)>> /\ d.got # NONE /\ n.got # NONE
      BY <3>2, MoveForm
    <3> HIDE DEF reads, moves
    <3>6. /\ After(f) \in Machine
          /\ Faithful(f, After(f), {})
          /\ After(f).wrong = machine.wrong
      <4>1. f = Finish(d, NONE, reads, d.got, moves) /\ Sound(d)
        BY <2>1, <2>2
      <4>2. moves = <<Mov(d.got, n.got)>>
        BY <1>1, <2>2, <2>4, <3>2, <3>5
      <4> HIDE DEF f
      <4> QED
        BY <2>4, <3>1, <3>2, <3>3, <3>4, <4>1, <4>2, FinishDiscarded
    <3> QED
      BY <1>2, <3>6 DEF Delivered, reads, moves
  <2> QED
    BY <2>3, <2>4
<1>6. CASE ~discard
  <2>1. d = a /\ target = rd
    BY <1>6
  <2> HIDE DEF d, target
  <2>2. CASE d.status # SUCCESS
    BY <1>2, <1>4, <2>1, <2>2, ErrorDelivered DEF overwrites
  <2>3. CASE d.status = SUCCESS
    <3>1. n.got \in X86Registers /\ d.got \in X86Registers /\ rd # NONE
      BY <1>1, <1>4, <2>1, <2>3, Numbers
    <3>2. reads \in Reads
      BY <3>1 DEF Reads
    <3>3. ~overwrites =>
            \A z \in X86Registers, r \in Arm : <<z, r>> \in reads =>
              r \in After(d).host[IF z = d.got THEN n.got ELSE z]
      <4> SUFFICES ASSUME ~overwrites PROVE rn \in After(d).host[n.got]
        OBVIOUS
      <4>1. a.arm_to_x86[rn] = n.got /\ n.got # NONE
        BY <1>3, <1>6, <3>1, Numbers
      <4>2. n.arm_to_x86[rn] # NONE
        BY <1>1, <1>4, <2>1, <2>3, <4>1
      <4> QED
        BY <1>4, <2>1, <2>3, <4>1, <4>2 DEF Running, Faithful
    <3>4. \/ moves = <<>> /\ n.got = d.got
          \/ moves = <<Mov(d.got, n.got)>> /\ d.got # NONE /\ n.got # NONE
      BY <3>1, MoveForm
    <3> HIDE DEF reads, moves
    <3>5. /\ After(f) \in Machine
          /\ Faithful(f, After(f), {})
          /\ ~overwrites => After(f).wrong = machine.wrong
      <4>1. f = Finish(d, rd, reads, d.got, moves) /\ Sound(d) /\ d.arm_to_x86[rd] = d.got
            /\ (Running(d, {}) \/ Running(d, {rd}))
        BY <1>4, <2>1, <2>3
      <4> HIDE DEF f
      <4>2. ReadyFor(d, rd, d.got, n.got, moves)
        BY <2>3, <3>1, <3>4, <4>1 DEF ReadyFor
      <4>3. Finished(d, f, reads, d.got, n.got)
        BY <3>1, <3>2, <4>1, <4>2, FinishFaithful
      <4> QED
        BY <3>3, <4>3 DEF Finished
    <3> QED
      BY <1>2, <3>5 DEF Delivered, reads, moves, overwrites
  <2> QED
    BY <2>2, <2>3
<1> QED
  BY <1>5, <1>6

\* ADD, ADDS, SUB and SUBS of two registers.
LEMMA AddSubRegDelivered ==
    ASSUME Inv, MachineInv, phase = "open",
           NEW rd \in Arm, NEW rn \in Arm, NEW rm \in Arm, NEW discard \in BOOLEAN
    PROVE  Delivered(translate_add_sub_reg(rd, rn, rm, discard),
                     (~discard /\ rd = rm) \/ TakesBack(rd, rn, rm, discard))
<1> DEFINE n == allocate_x86_register(Begin, rn, FALSE)
           m == allocate_x86_register(n, rm, FALSE)
           a == allocate_x86_register(m, rd, TRUE)
           d == IF discard THEN [m EXCEPT !.got = R11] ELSE a
           target == IF discard THEN NONE ELSE rd
           moves == IF d.got # n.got THEN <<Mov(d.got, n.got)>> ELSE <<>>
           reads == {<<d.got, rn>>, <<m.got, rm>>}
           overwrites == (~discard /\ rd = rm) \/ TakesBack(rd, rn, rm, discard)
           f == Finish(d, target, reads, d.got, moves)
<1>1. /\ Sound(n)
      /\ n.status = SUCCESS => /\ n.got = n.arm_to_x86[rn]
                               /\ n.got \in Scratch
                               /\ Running(n, {})
  BY BeginRunning, AllocateSound, AllocateFaithful
<1>2. f = translate_add_sub_reg(rd, rn, rm, discard)
  BY DEF translate_add_sub_reg
<1>3. /\ ~overwrites /\ discard => m.arm_to_x86[rn] = n.got
      /\ ~overwrites /\ ~discard => /\ rd # rm
                                    /\ m.arm_to_x86[rn] = n.got
                                    /\ a.arm_to_x86[rn] = n.got
                                    /\ a.arm_to_x86[rm] = m.got
  BY DEF TakesBack
<1>4. /\ Sound(m)
      /\ m.status = SUCCESS => /\ n.status = SUCCESS
                               /\ m.got = m.arm_to_x86[rm]
                               /\ m.got \in Scratch
                               /\ Running(m, {})
  <2> HIDE DEF n
  <2> QED
    BY <1>1, AllocateSound, AllocateFaithful
<1>5. /\ Sound(a)
      /\ a.status = SUCCESS => /\ m.status = SUCCESS
                               /\ a.got = a.arm_to_x86[rd]
                               /\ a.got \in Scratch
                               /\ \/ Running(a, {})
                                  \/ m.arm_to_x86[rd] = NONE /\ Running(a, {rd})
  <2> HIDE DEF m
  <2> QED
    BY <1>4, AllocateSound, AllocateFaithful
<1> HIDE DEF n, m, a, overwrites
<1>6. CASE discard
  <2>1. d = [m EXCEPT !.got = R11] /\ target = NONE
    BY <1>6
  <2> HIDE DEF d, target
  <2>2. /\ d.got = R11 /\ d.status = m.status /\ d.macros = m.macros
        /\ d.arm_to_x86 = m.arm_to_x86 /\ d.is_dirty = m.is_dirty /\ Sound(d)
    BY <1>4, <2>1, GotSound DEF Sound, Typed, Shape
  <2>3. CASE d.status # SUCCESS
    BY <1>2, <2>2, <2>3, ErrorDelivered DEF overwrites
  <2>4. CASE d.status = SUCCESS
    <3>1. Running(d, {})
      BY <1>4, <2>2, <2>4, SameRunning
    <3>2. /\ n.got \in X86Registers /\ m.got \in X86Registers /\ d.got \in X86Registers
          /\ d.got \notin Scratch /\ n.got # d.got /\ m.got # d.got
      <4>1. R11 \notin Scratch /\ n.got \in X86Registers /\ m.got \in X86Registers
        BY <1>1, <1>4, <2>2, <2>4, Numbers, ScratchAssumption
      <4>2. R11 \in X86Registers
        BY DEF R11, X86Registers
      <4> QED
        BY <1>1, <1>4, <2>2, <2>4, <4>1, <4>2
    <3>3. reads \in Reads
      BY <3>2 DEF Reads
    <3>4. ~overwrites =>
            \A z \in X86Registers, r \in Arm : <<z, r>> \in reads =>
              r \in After(d).host[IF z = d.got THEN n.got ELSE z]
      <4> SUFFICES ASSUME ~overwrites
                   PROVE  rn \in After(d).host[n.got] /\ rm \in After(d).host[m.got]
        BY <3>2
      <4>1. d.arm_to_x86[rn] = n.got /\ d.arm_to_x86[rm] = m.got
        BY <1>3, <1>4, <1>6, <2>2, <2>4
      <4> QED
        BY <3>1, <3>2, <4>1, Numbers DEF Running, Faithful
    <3>5. moves = <<Mov(d.got, n.got)>>
      BY <3>2
    <3> HIDE DEF reads, moves
    <3>6. /\ After(f) \in Machine
          /\ Faithful(f, After(f), {})
          /\ ~overwrites => After(f).wrong = machine.wrong
      <4>1. f = Finish(d, NONE, reads, d.got, moves) /\ Sound(d)
        BY <2>1, <2>2
      <4> HIDE DEF f
      <4> QED
        BY <2>4, <3>1, <3>2, <3>3, <3>4, <3>5, <4>1, FinishDiscarded
    <3> QED
      BY <1>2, <3>6 DEF Delivered, reads, moves, overwrites
  <2> QED
    BY <2>3, <2>4
<1>7. CASE ~discard
  <2>1. d = a /\ target = rd
    BY <1>7
  <2> HIDE DEF d, target
  <2>2. CASE d.status # SUCCESS
    BY <1>2, <1>5, <2>1, <2>2, ErrorDelivered DEF overwrites
  <2>3. CASE d.status = SUCCESS
    <3>1. /\ n.got \in X86Registers /\ m.got \in X86Registers /\ d.got \in X86Registers
          /\ rd # NONE
      BY <1>1, <1>4, <1>5, <2>1, <2>3, Numbers
    <3>2. reads \in Reads
      BY <3>1 DEF Reads
    <3>3. ~overwrites =>
            \A z \in X86Registers, r \in Arm : <<z, r>> \in reads =>
              r \in After(d).host[IF z = d.got THEN n.got ELSE z]
      <4> SUFFICES ASSUME ~overwrites
                   PROVE  /\ rn \in After(d).host[n.got]
                          /\ rm \in After(d).host[m.got] /\ m.got # d.got
        OBVIOUS
      <4>1. /\ d.arm_to_x86[rn] = n.got /\ n.got # NONE /\ m.arm_to_x86[rn] # NONE
            /\ d.arm_to_x86[rm] = m.got /\ m.got # NONE /\ rm # rd
        BY <1>3, <1>7, <2>1, <3>1, Numbers
      <4>2. m.got # d.got
        BY <1>5, <2>1, <2>3, <3>1, <4>1, Numbers DEF Sound, Consistent
      <4> QED
        BY <1>5, <2>1, <2>3, <4>1, <4>2 DEF Running, Faithful
    <3>4. \/ moves = <<>> /\ n.got = d.got
          \/ moves = <<Mov(d.got, n.got)>> /\ d.got # NONE /\ n.got # NONE
      BY <3>1, MoveForm
    <3> HIDE DEF reads, moves
    <3>5. /\ After(f) \in Machine
          /\ Faithful(f, After(f), {})
          /\ ~overwrites => After(f).wrong = machine.wrong
      <4>1. f = Finish(d, rd, reads, d.got, moves) /\ Sound(d) /\ d.arm_to_x86[rd] = d.got
            /\ (Running(d, {}) \/ Running(d, {rd}))
        BY <1>5, <2>1, <2>3
      <4> HIDE DEF f
      <4>2. ReadyFor(d, rd, d.got, n.got, moves)
        BY <2>3, <3>1, <3>4, <4>1 DEF ReadyFor
      <4>3. Finished(d, f, reads, d.got, n.got)
        BY <3>1, <3>2, <4>1, <4>2, FinishFaithful
      <4> QED
        BY <3>3, <4>3 DEF Finished
    <3> QED
      BY <1>2, <3>5 DEF Delivered, reads, moves, overwrites
  <2> QED
    BY <2>2, <2>3
<1> QED
  BY <1>6, <1>7

\* AND of two registers.
LEMMA AndDelivered ==
    ASSUME Inv, MachineInv, phase = "open",
           NEW rd \in Arm, NEW rn \in Arm, NEW rm \in Arm
    PROVE  Delivered(translate_and(rd, rn, rm), TakesBack(rd, rn, rm, FALSE))
<1> DEFINE n == allocate_x86_register(Begin, rn, FALSE)
           m == allocate_x86_register(n, rm, FALSE)
           d == allocate_x86_register(m, rd, TRUE)
           moves == IF d.got # n.got THEN <<Mov(d.got, n.got)>> ELSE <<>>
           swapped == {<<d.got, rm>>, <<n.got, rn>>}
           reads == {<<d.got, rn>>, <<m.got, rm>>}
           overwrites == TakesBack(rd, rn, rm, FALSE)
           t == translate_and(rd, rn, rm)
<1>1. /\ Sound(n)
      /\ n.status = SUCCESS => /\ n.got = n.arm_to_x86[rn]
                               /\ n.got \in Scratch
                               /\ Running(n, {})
  BY BeginRunning, AllocateSound, AllocateFaithful
<1>2. ~overwrites => /\ m.arm_to_x86[rn] = n.got
                     /\ d.arm_to_x86[rn] = n.got
                     /\ d.arm_to_x86[rm] = m.got
  BY DEF TakesBack
<1>3. /\ Sound(m)
      /\ m.status = SUCCESS => /\ n.status = SUCCESS
                               /\ m.got = m.arm_to_x86[rm]
                               /\ m.got \in Scratch
                               /\ Running(m, {})
  <2> HIDE DEF n
  <2> QED
    BY <1>1, AllocateSound, AllocateFaithful
<1>4. /\ Sound(d)
      /\ d.status = SUCCESS => /\ m.status = SUCCESS
                               /\ d.got = d.arm_to_x86[rd]
                               /\ d.got \in Scratch
                               /\ \/ Running(d, {})
                                  \/ m.arm_to_x86[rd] = NONE /\ Running(d, {rd})
  <2> HIDE DEF m
  <2> QED
    BY <1>3, AllocateSound, AllocateFaithful
<1>5. t = IF d.status # SUCCESS
          THEN [d EXCEPT !.status = INCORRECT_REGISTER, !.macros = <<>>]
          ELSE CASE rd = 31 -> Finish(d, rd, {}, d.got, <<>>)
                 [] rd # 31 /\ d.got = m.got -> Finish(d, rd, swapped, d.got, <<>>)
                 [] OTHER -> Finish(d, rd, reads, d.got, moves)
  BY DEF translate_and
<1> HIDE DEF n, m, d, overwrites, t
<1>6. CASE d.status # SUCCESS
  <2>1. t = [d EXCEPT !.status = INCORRECT_REGISTER, !.macros = <<>>]
    BY <1>5, <1>6
  <2>2. t.status # SUCCESS /\ t.macros = <<>>
    BY <1>4, <2>1 DEF Sound, Typed, Shape, SUCCESS, INCORRECT_REGISTER
  <2>3. ExecAll(machine, <<>>) = machine
    BY ExecAllIsFold, ExecLoop!FoldEmpty
  <2>4. Delivered(t, overwrites)
    BY <2>2, <2>3 DEF Delivered, After, MachineInv
  <2> QED
    BY <2>4 DEF t, overwrites
<1>7. CASE d.status = SUCCESS
  <2>1. /\ n.got \in X86Registers /\ m.got \in X86Registers /\ d.got \in X86Registers
        /\ rd # NONE /\ d.arm_to_x86[rd] = d.got
        /\ Running(d, {}) \/ Running(d, {rd})
    BY <1>1, <1>3, <1>4, <1>7, Numbers
  <2>2. ~overwrites => /\ rn \in After(d).host[n.got]
                       /\ d.got # m.got => rm \in After(d).host[m.got]
                       /\ d.got = m.got => rm \in After(d).host[d.got]
    <3> SUFFICES ASSUME ~overwrites
                 PROVE  rn \in After(d).host[n.got] /\ rm \in After(d).host[m.got]
      OBVIOUS
    <3>1. /\ d.arm_to_x86[rn] = n.got /\ n.got # NONE /\ m.arm_to_x86[rn] # NONE
          /\ d.arm_to_x86[rm] = m.got /\ m.got # NONE /\ m.arm_to_x86[rm] # NONE
      BY <1>2, <1>3, <1>4, <1>7, <2>1, Numbers
    <3> QED
      BY <1>4, <1>7, <3>1 DEF Running, Faithful
  <2>3. CASE rd = 31
    <3> DEFINE none == {}
               f == Finish(d, rd, none, d.got, <<>>)
    <3>1. t = f
      BY <1>5, <1>7, <2>3
    <3>2. /\ none \in Reads
          /\ \A z \in X86Registers, r \in Arm : <<z, r>> \in none =>
                r \in After(d).host[z]
      BY DEF Reads
    <3> HIDE DEF none
    <3>3. /\ After(f) \in Machine
          /\ Faithful(f, After(f), {})
          /\ After(f).wrong = machine.wrong
      BY <1>4, <1>7, <2>1, <3>2, FinishInPlace
    <3>4. Delivered(t, overwrites)
      BY <3>1, <3>3 DEF Delivered
    <3> QED
      BY <3>4 DEF t, overwrites
  <2>4. CASE rd # 31 /\ d.got = m.got
    <3> DEFINE f == Finish(d, rd, swapped, d.got, <<>>)
    <3>1. t = f
      BY <1>5, <1>7, <2>4
    <3>2. swapped \in Reads
      BY <2>1 DEF Reads
    <3>3. ~overwrites =>
            \A z \in X86Registers, r \in Arm : <<z, r>> \in swapped =>
                r \in After(d).host[z]
      BY <2>2, <2>4
    <3> HIDE DEF swapped
    <3>4. /\ After(f) \in Machine
          /\ Faithful(f, After(f), {})
          /\ ~overwrites => After(f).wrong = machine.wrong
      BY <1>4, <1>7, <2>1, <3>2, <3>3, FinishInPlace
    <3>5. Delivered(t, overwrites)
      BY <3>1, <3>4 DEF Delivered
    <3> QED
      BY <3>5 DEF t, overwrites
  <2>5. CASE rd # 31 /\ d.got # m.got
    <3> DEFINE f == Finish(d, rd, reads, d.got, moves)
    <3>1. t = f
      BY <1>5, <1>7, <2>5
    <3>2. reads \in Reads
      BY <2>1 DEF Reads
    <3>3. ~overwrites =>
            \A z \in X86Registers, r \in Arm : <<z, r>> \in reads =>
                r \in After(d).host[IF z = d.got THEN n.got ELSE z]
      BY <2>2, <2>5
    <3>4. \/ moves = <<>> /\ n.got = d.got
          \/ moves = <<Mov(d.got, n.got)>> /\ d.got # NONE /\ n.got # NONE
      BY <2>1, MoveForm
    <3> HIDE DEF reads, moves
    <3>5. /\ After(f) \in Machine
          /\ Faithful(f, After(f), {})
          /\ ~overwrites => After(f).wrong = machine.wrong
      <4>1. ReadyFor(d, rd, d.got, n.got, moves)
        BY <1>4, <1>7, <2>1, <3>4 DEF ReadyFor
      <4>2. Finished(d, f, reads, d.got, n.got)
        BY <2>1, <3>2, <4>1, FinishFaithful
      <4> HIDE DEF f
      <4> QED
        BY <3>3, <4>2 DEF Finished
    <3>6. Delivered(t, overwrites)
      BY <3>1, <3>5 DEF Delivered
    <3> QED
      BY <3>6 DEF t, overwrites
  <2> QED
    BY <2>3, <2>4, <2>5
<1> QED
  BY <1>6, <1>7

\* MOV between registers.
LEMMA MovRegisterDelivered ==
    ASSUME Inv, MachineInv, phase = "open", NEW rd \in Arm, NEW rm \in Arm
    PROVE  Delivered(translate_mov_register(rd, rm), TakesBackOne(rd, rm))
<1> DEFINE m == allocate_x86_register(Begin, rm, FALSE)
           d == allocate_x86_register(m, rd, TRUE)
           moves == <<Mov(d.got, m.got)>>
           reads == {<<d.got, rm>>}
           overwrites == TakesBackOne(rd, rm)
           f == Finish(d, rd, reads, d.got, moves)
<1>1. /\ Sound(m)
      /\ m.status = SUCCESS => /\ m.got = m.arm_to_x86[rm]
                               /\ m.got \in Scratch
                               /\ Running(m, {})
  BY BeginRunning, AllocateSound, AllocateFaithful
<1>2. f = translate_mov_register(rd, rm)
  BY DEF translate_mov_register
<1>3. overwrites <=> d.arm_to_x86[rm] # m.got
  BY DEF TakesBackOne
<1>4. /\ Sound(d)
      /\ d.status = SUCCESS => /\ m.status = SUCCESS
                               /\ d.got = d.arm_to_x86[rd]
                               /\ d.got \in Scratch
                               /\ \/ Running(d, {})
                                  \/ m.arm_to_x86[rd] = NONE /\ Running(d, {rd})
  <2> HIDE DEF m
  <2> QED
    BY <1>1, AllocateSound, AllocateFaithful
<1> HIDE DEF m, d, overwrites
<1>5. CASE d.status # SUCCESS
  BY <1>2, <1>4, <1>5, ErrorDelivered DEF overwrites
<1>6. CASE d.status = SUCCESS
  <2>1. m.got \in X86Registers /\ d.got \in X86Registers
        /\ rd # NONE /\ m.got # NONE /\ d.got # NONE
    BY <1>1, <1>4, <1>6, Numbers
  <2>2. reads \in Reads
    BY <2>1 DEF Reads
  <2>3. ~overwrites =>
          \A z \in X86Registers, r \in Arm : <<z, r>> \in reads =>
            r \in After(d).host[IF z = d.got THEN m.got ELSE z]
    <3> SUFFICES ASSUME ~overwrites PROVE rm \in After(d).host[m.got]
      OBVIOUS
    <3>1. d.arm_to_x86[rm] = m.got /\ m.arm_to_x86[rm] # NONE
      BY <1>1, <1>3, <1>4, <1>6, <2>1
    <3> QED
      BY <1>4, <1>6, <2>1, <3>1 DEF Running, Faithful
  <2> HIDE DEF reads
  <2>4. /\ After(f) \in Machine
        /\ Faithful(f, After(f), {})
        /\ ~overwrites => After(f).wrong = machine.wrong
    <3>1. ReadyFor(d, rd, d.got, m.got, moves)
      BY <1>4, <1>6, <2>1 DEF ReadyFor
    <3>2. Finished(d, f, reads, d.got, m.got)
      BY <2>1, <2>2, <3>1, FinishFaithful
    <3> HIDE DEF f
    <3> QED
      BY <2>3, <3>2 DEF Finished
  <2> QED
    BY <1>2, <2>4 DEF Delivered, reads, overwrites
<1> QED
  BY <1>5, <1>6

\* RET, CBZ and CBNZ.
LEMMA ReadDelivered ==
    ASSUME Inv, MachineInv, phase = "open", NEW rn \in Arm
    PROVE  Delivered(translate_read(rn), FALSE)
<1> DEFINE n == allocate_x86_register(Begin, rn, FALSE)
           reads == {<<n.got, rn>>}
           f == Finish(n, NONE, reads, NONE, <<>>)
<1>1. /\ Sound(n)
      /\ n.status = SUCCESS => /\ n.got = n.arm_to_x86[rn]
                               /\ n.got \in Scratch
                               /\ Running(n, {})
  BY BeginRunning, AllocateSound, AllocateFaithful
<1>2. f = translate_read(rn)
  BY DEF translate_read
<1> HIDE DEF n
<1>3. CASE n.status # SUCCESS
  BY <1>1, <1>2, <1>3, ErrorDelivered
<1>4. CASE n.status = SUCCESS
  <2>1. n.got \in X86Registers /\ n.got # NONE /\ NONE \notin Scratch
    BY <1>1, <1>4, Numbers
  <2>2. reads \in Reads
    BY <2>1 DEF Reads
  <2>3. \A z \in X86Registers, r \in Arm : <<z, r>> \in reads =>
            r \in After(n).host[IF z = NONE THEN NONE ELSE z]
    <3>1. rn \in After(n).host[n.got]
      BY <1>1, <1>4, <2>1 DEF Running, Faithful
    <3> QED
      BY <2>1, <3>1
  <2> HIDE DEF reads
  <2>4. /\ After(f) \in Machine
        /\ Faithful(f, After(f), {})
        /\ After(f).wrong = machine.wrong
    <3>1. ReadyFor(n, NONE, NONE, NONE, <<>>)
      BY <1>1, <1>4, <2>1 DEF ReadyFor
    <3>2. Finished(n, f, reads, NONE, NONE)
      BY <2>2, <3>1, FinishFaithful
    <3> HIDE DEF f
    <3> QED
      BY <2>3, <3>2 DEF Finished
  <2> QED
    BY <1>2, <2>4 DEF Delivered, reads
<1> QED
  BY <1>3, <1>4

-----------------------------------------------------------------------------
\* reset_register_allocator leaves the invariant true.
LEMMA EmptyMapsInv ==
    ASSUME c' = EmptyMaps(SUCCESS)
    PROVE  Inv'
<1>1. c' \in CompilerType
  BY CursorAssumption DEF EmptyMaps, CompilerType
<1>2. Consistent(c')
  BY DEF EmptyMaps, Consistent, Mapped
<1> QED
  BY <1>1, <1>2 DEF Inv, MapsConsistent, Consistent, Mapped

\* The invariant holds at the start.
LEMMA InvInit ==
    ASSUME Init
    PROVE  Inv
<1>1. c \in CompilerType
  BY CursorAssumption DEF Init, EmptyMaps, CompilerType
<1>2. Consistent(c)
  BY DEF Init, EmptyMaps, Consistent, Mapped
<1> QED
  BY <1>1, <1>2 DEF Inv, MapsConsistent

\* Every action keeps it.
LEMMA InvNext ==
    ASSUME Inv, [Next]_vars
    PROVE  Inv'
<1>1. CASE MovImmediate
  BY <1>1, MovImmediateSound, TranslatedInv DEF MovImmediate, Instruction
<1>2. CASE AddSubImm
  BY <1>2, AddSubImmSound, TranslatedInv DEF AddSubImm, Instruction
<1>3. CASE AddSubReg
  BY <1>3, AddSubRegSound, TranslatedInv DEF AddSubReg, Instruction
<1>4. CASE And
  BY <1>4, AndSound, TranslatedInv DEF And, Instruction
<1>5. CASE MovRegister
  BY <1>5, MovRegisterSound, TranslatedInv DEF MovRegister, LastInstruction
<1>6. CASE ReadOnly
  BY <1>6, ReadSound, TranslatedInv DEF ReadOnly, LastInstruction
<1>7. CASE terminate_block
  BY <1>7 DEF terminate_block, Inv, MapsConsistent, Consistent, Mapped
<1>8. CASE NextBlock
  BY <1>8, EmptyMapsInv DEF NextBlock
<1>9. CASE bal_tier1_compiler_reset
  BY <1>9, EmptyMapsInv DEF bal_tier1_compiler_reset
<1>10. CASE UNCHANGED vars
  BY <1>10 DEF vars, Inv, MapsConsistent, Consistent, Mapped
<1> QED
  BY <1>1, <1>2, <1>3, <1>4, <1>5, <1>6, <1>7, <1>8, <1>9, <1>10 DEF Next

\* Over any sequence of instructions and blocks the allocator's two maps are
\* inverse to each other, use only scratch registers, and every dirty register
\* is mapped, as long as no error was reported.
THEOREM AllocatorConsistent == Spec => []MapsConsistent
<1>1. Inv => MapsConsistent
  BY DEF Inv
<1> QED
  BY <1>1, InvInit, InvNext, PTL DEF Spec

-----------------------------------------------------------------------------
\* The inductive invariant of the block at run time: besides MachineInv, no
\* operand was wrong, and a block that has run left every value in bal_cpu_t.
RunInv ==
    /\ Inv
    /\ MachineInv
    /\ phase \in {"open", "last", "ended"}
    /\ ~machine.wrong
    /\ c.status = SUCCESS /\ phase = "ended" => machine.memory = Arm

\* What is left when a translation's macros are executed is what RunInv asks.
LEMMA TranslatedRun ==
    ASSUME RunInv, NEW s, NEW overwrites \in BOOLEAN, Delivered(s, overwrites),
           Translated(s, overwrites), phase' \in {"open", "last"}, Inv'
    PROVE  RunInv'
<1> DEFINE m == After(s)
<1>1. /\ m \in Machine /\ machine \in Machine /\ ~machine.wrong
      /\ ~overwrites => m.wrong = machine.wrong
  BY DEF RunInv, MachineInv, Delivered
<1>2. machine' = [m EXCEPT !.wrong = machine.wrong \/ (m.wrong /\ ~overwrites)]
  BY DEF Translated, After
<1>3. ~(machine.wrong \/ (m.wrong /\ ~overwrites))
  BY <1>1
<1>4. machine' = [m EXCEPT !.wrong = FALSE]
  BY <1>2, <1>3
<1> HIDE DEF m
<1>5. /\ machine' \in Machine
      /\ machine'.host = m.host
      /\ machine'.memory = m.memory
      /\ ~machine'.wrong
  BY <1>1, <1>4 DEF Machine
<1>6. /\ c'.arm_to_x86 = s.arm_to_x86
      /\ c'.is_dirty = s.is_dirty
      /\ c'.status = s.status
  BY DEF Translated
<1>7. c'.status = SUCCESS => Faithful(c', machine', {})
  BY <1>5, <1>6 DEF Delivered, Faithful, m
<1>8. phase' # "ended"
  OBVIOUS
<1> QED
  BY <1>5, <1>7, <1>8 DEF RunInv, MachineInv, Machine, Faithful

\* Each instruction's macros keep RunInv.
LEMMA InstructionRun ==
    ASSUME RunInv, Inv',
           MovImmediate \/ AddSubImm \/ AddSubReg \/ And \/ MovRegister \/ ReadOnly
    PROVE  RunInv'
<1> USE DEF Instruction, LastInstruction
<1>1. CASE MovImmediate
  <2>1. PICK rd \in Arm, keep \in BOOLEAN :
            Instruction(translate_mov_immediate(rd, keep), FALSE)
    BY <1>1 DEF MovImmediate
  <2>2. Delivered(translate_mov_immediate(rd, keep), FALSE)
    BY <2>1, MovImmediateDelivered DEF RunInv
  <2> QED
    BY <2>1, <2>2, TranslatedRun
<1>2. CASE AddSubImm
  <2>1. PICK rd \in Arm, rn \in Arm, discard \in BOOLEAN :
            Instruction(translate_add_sub_imm(rd, rn, discard),
                        ~discard /\ TakesBackOne(rd, rn))
    BY <1>2 DEF AddSubImm
  <2>2. Delivered(translate_add_sub_imm(rd, rn, discard), ~discard /\ TakesBackOne(rd, rn))
    BY <2>1, AddSubImmDelivered DEF RunInv
  <2> QED
    BY <2>1, <2>2, TranslatedRun
<1>3. CASE AddSubReg
  <2>1. PICK rd \in Arm, rn \in Arm, rm \in Arm, discard \in BOOLEAN :
            Instruction(translate_add_sub_reg(rd, rn, rm, discard),
                        (~discard /\ rd = rm) \/ TakesBack(rd, rn, rm, discard))
    BY <1>3 DEF AddSubReg
  <2>2. Delivered(translate_add_sub_reg(rd, rn, rm, discard),
                  (~discard /\ rd = rm) \/ TakesBack(rd, rn, rm, discard))
    BY <2>1, AddSubRegDelivered DEF RunInv
  <2> QED
    BY <2>1, <2>2, TranslatedRun
<1>4. CASE And
  <2>1. PICK rd \in Arm, rn \in Arm, rm \in Arm :
            Instruction(translate_and(rd, rn, rm), TakesBack(rd, rn, rm, FALSE))
    BY <1>4 DEF And
  <2>2. Delivered(translate_and(rd, rn, rm), TakesBack(rd, rn, rm, FALSE))
    BY <2>1, AndDelivered DEF RunInv
  <2>3. TakesBack(rd, rn, rm, FALSE) \in BOOLEAN
    BY DEF TakesBack
  <2> QED
    BY <2>1, <2>2, <2>3, TranslatedRun
<1>5. CASE MovRegister
  <2>1. PICK rd \in Arm, rm \in Arm :
            LastInstruction(translate_mov_register(rd, rm), TakesBackOne(rd, rm))
    BY <1>5 DEF MovRegister
  <2>2. Delivered(translate_mov_register(rd, rm), TakesBackOne(rd, rm))
    BY <2>1, MovRegisterDelivered DEF RunInv
  <2>3. TakesBackOne(rd, rm) \in BOOLEAN
    BY DEF TakesBackOne
  <2> QED
    BY <2>1, <2>2, <2>3, TranslatedRun
<1>6. CASE ReadOnly
  <2>1. PICK rn \in Arm : LastInstruction(translate_read(rn), FALSE)
    BY <1>6 DEF ReadOnly
  <2>2. Delivered(translate_read(rn), FALSE)
    BY <2>1, ReadDelivered DEF RunInv
  <2> QED
    BY <2>1, <2>2, TranslatedRun
<1> QED
  BY <1>1, <1>2, <1>3, <1>4, <1>5, <1>6

\* The empty maps are faithful to a machine whose values are all in bal_cpu_t.
LEMMA EmptyMapsRun ==
    ASSUME Inv', c' = EmptyMaps(SUCCESS), phase' = "open",
           machine' \in Machine, machine'.memory = Arm, ~machine'.wrong
    PROVE  RunInv'
<1>1. Faithful(c', machine', {})
  BY DEF EmptyMaps, Faithful
<1> QED
  BY <1>1 DEF RunInv, MachineInv, Machine, Faithful

\* RunInv is an invariant.
LEMMA RunInvariant == Spec => []RunInv
<1>1. Init => RunInv
  <2> SUFFICES ASSUME Init PROVE RunInv
    OBVIOUS
  <2>1. Inv
    BY InvInit
  <2>2. machine \in Machine /\ machine.memory = Arm /\ ~machine.wrong
    BY DEF Init, FreshMachine, Machine
  <2>3. Faithful(c, machine, {}) /\ phase = "open"
    BY DEF Init, EmptyMaps, FreshMachine, Faithful
  <2> QED
    BY <2>1, <2>2, <2>3 DEF RunInv, MachineInv
<1>2. RunInv /\ [Next]_vars => RunInv'
  <2> SUFFICES ASSUME RunInv, [Next]_vars PROVE RunInv'
    OBVIOUS
  <2>1. Inv'
    BY InvNext DEF RunInv
  <2>2. CASE MovImmediate \/ AddSubImm \/ AddSubReg \/ And \/ MovRegister \/ ReadOnly
    BY <2>1, <2>2, InstructionRun
  <2>3. CASE terminate_block
    <3>1. /\ phase' = "ended" /\ c' = c /\ phase \in {"open", "last"}
          /\ machine' = IF c.status = SUCCESS THEN flush_dirty_registers(machine, c)
                                              ELSE machine
          /\ machine \in Machine /\ ~machine.wrong
      BY <2>3 DEF terminate_block, RunInv, MachineInv
    <3>2. CASE c.status # SUCCESS
      BY <2>1, <3>1, <3>2 DEF RunInv, MachineInv, Machine, Faithful
    <3>3. CASE c.status = SUCCESS
      <4> DEFINE flushed == (machine.memory \ c.is_dirty) \union
                            {r \in c.is_dirty : r \in machine.host[c.arm_to_x86[r]]}
      <4>1. machine' = [machine EXCEPT !.memory = flushed]
        BY <3>1, <3>3 DEF flush_dirty_registers
      <4>2. flushed = Arm
        BY <3>1, <3>3 DEF RunInv, MachineInv, Faithful, Inv, MapsConsistent, Consistent,
                          Mapped, Machine
      <4> HIDE DEF flushed
      <4>3. machine' \in Machine /\ machine'.memory = Arm /\ machine'.wrong = machine.wrong
        BY <3>1, <4>1, <4>2 DEF Machine
      <4> QED
        BY <2>1, <3>1, <4>3 DEF RunInv, MachineInv, Machine, Faithful
    <3> QED
      BY <3>2, <3>3
  <2>4. CASE NextBlock
    <3>1. /\ machine \in Machine /\ machine.memory = Arm /\ ~machine.wrong
          /\ c' = EmptyMaps(SUCCESS) /\ phase' = "open"
          /\ machine' = [machine EXCEPT !.host = FreshMachine.host]
      BY <2>4 DEF NextBlock, RunInv, MachineInv
    <3>2. machine' \in Machine /\ machine'.memory = Arm /\ ~machine'.wrong
      BY <3>1 DEF Machine, FreshMachine
    <3> QED
      BY <2>1, <3>1, <3>2, EmptyMapsRun
  <2>5. CASE bal_tier1_compiler_reset
    <3>1. machine' \in Machine /\ machine'.memory = Arm /\ ~machine'.wrong
      BY <2>5 DEF bal_tier1_compiler_reset, Machine, FreshMachine
    <3> QED
      BY <2>1, <2>5, <3>1, EmptyMapsRun DEF bal_tier1_compiler_reset
  <2>6. CASE UNCHANGED vars
    BY <2>1, <2>6 DEF vars, RunInv, MachineInv, Machine, Faithful
  <2> QED
    BY <2>2, <2>3, <2>4, <2>5, <2>6 DEF Next
<1> QED
  BY <1>1, <1>2, PTL DEF Spec

\* The compiler's fields and the machine keep their types: the guest numbers in
\* x86_to_arm are registers and the numbers in arm_to_x86 are scratch registers,
\* whatever reset, hit and eviction do.
THEOREM AllocatorTyped == Spec => []TypeOK
<1>1. RunInv => TypeOK
  BY DEF RunInv, Inv, MachineInv, Machine, TypeOK
<1> QED
  BY <1>1, RunInvariant, PTL

\* allocate_x86_register, eviction and flush_dirty_registers lose no guest write, for
\* every list of scratch registers that does not hold R11.
THEOREM NoWriteIsLost == Spec => []NoLostWrite
<1>1. RunInv => NoLostWrite
  BY DEF RunInv, Inv, MapsConsistent, Consistent, Mapped, MachineInv, Faithful, NoLostWrite
<1> QED
  BY <1>1, RunInvariant, PTL

\* Every translated instruction finds its operands where it reads them, unless its
\* own translation overwrites them.
THEOREM OperandsAreIntact == Spec => []OperandsIntact
<1>1. RunInv => OperandsIntact
  BY DEF RunInv, OperandsIntact
<1> QED
  BY <1>1, RunInvariant, PTL
=============================================================================
