------------------------- MODULE Tier1CompilerProofs -------------------------
(***************************************************************************)
(* Proofs about Tier1Compiler for every set of guest programs, page size,  *)
(* limit, window size and number of debug entries.                         *)
(***************************************************************************)
EXTENDS Tier1Compiler, FiniteSetTheorems, TLAPS

PushLoop == INSTANCE FoldTheorems WITH Op <- PushMacro
StepLoop == INSTANCE FoldTheorems WITH Op <- Step
SizeLoop == INSTANCE FoldTheorems WITH Op <- AddSize

-----------------------------------------------------------------------------
(* Sequences of pieces of host code, whose operands have no type.          *)

IsSeq(s) == \E S : s \in Seq(S)

\* The length and the domain of a sequence.
LEMMA SeqFacts ==
    ASSUME NEW s, IsSeq(s)
    PROVE  Len(s) \in Nat /\ DOMAIN s = 1 .. Len(s)
BY DEF IsSeq

\* A function on 1..n is a sequence of length n.
LEMMA FunctionIsSeq ==
    ASSUME NEW n \in Nat, NEW s, s = [j \in 1 .. n |-> s[j]]
    PROVE  IsSeq(s) /\ Len(s) = n
<1>1. s \in [1 .. n -> {s[j] : j \in 1 .. n}]
  OBVIOUS
<1>2. s \in Seq({s[j] : j \in 1 .. n})
  BY <1>1
<1>3. DOMAIN s = 1 .. n
  BY <1>1
<1>4. Len(s) = n
  BY <1>2, <1>3
<1>5. IsSeq(s)
  BY <1>2, Zenon DEF IsSeq
<1> QED
  BY <1>4, <1>5

\* The elements of a concatenation.
LEMMA ConcatIs ==
    ASSUME NEW s, NEW u, IsSeq(s), IsSeq(u)
    PROVE  /\ IsSeq(s \o u)
           /\ Len(s \o u) = Len(s) + Len(u)
           /\ \A j \in 1 .. Len(s) : (s \o u)[j] = s[j]
           /\ \A j \in 1 .. Len(u) : (s \o u)[Len(s) + j] = u[j]
<1>1. PICK S, U : s \in Seq(S) /\ u \in Seq(U)
  BY DEF IsSeq
<1>2. s \in Seq(S \union U) /\ u \in Seq(S \union U)
  BY <1>1
<1> QED
  BY <1>2 DEF IsSeq

\* The elements of a sequence that one was appended to.
LEMMA AppendIs ==
    ASSUME NEW s, IsSeq(s), NEW e
    PROVE  /\ IsSeq(Append(s, e))
           /\ Len(Append(s, e)) = Len(s) + 1
           /\ \A j \in 1 .. Len(s) : Append(s, e)[j] = s[j]
           /\ Append(s, e)[Len(s) + 1] = e
<1>1. PICK S : s \in Seq(S)
  BY DEF IsSeq
<1>2. s \in Seq(S \union {e}) /\ e \in S \union {e}
  BY <1>1
<1> QED
  BY <1>2 DEF IsSeq

\* Two sequences with the same elements are equal.
LEMMA SameSeq ==
    ASSUME NEW s, NEW u, IsSeq(s), IsSeq(u), Len(s) = Len(u),
           \A j \in 1 .. Len(s) : s[j] = u[j]
    PROVE  s = u
<1>1. PICK S, U : s \in Seq(S) /\ u \in Seq(U)
  BY DEF IsSeq
<1>2. s \in Seq(S \union U) /\ u \in Seq(S \union U)
  BY <1>1
<1> QED
  BY <1>2

\* The empty sequence and sequences of one element.
LEMMA ShortSeqs ==
    /\ IsSeq(<<>>) /\ Len(<<>>) = 0
    /\ \A e : IsSeq(<<e>>) /\ Len(<<e>>) = 1 /\ <<e>>[1] = e
<1>1. << >> \in Seq({})
  OBVIOUS
<1>2. \A e : <<e>> \in Seq({e})
  OBVIOUS
<1> QED
  BY <1>1, <1>2 DEF IsSeq

-----------------------------------------------------------------------------
(* Pushing and emitting.                                                   *)

CompilerFields ==
    {"code", "window", "mapped", "is_dirty", "status", "guest_address", "i", "readable",
     "is_block_terminated", "is_pc_dynamic", "count", "mappings", "limited", "instruction",
     "metadata"}

\* Four fields, kept from the provers' eyes.
CodeOf(c) == c.code
Queue(c) == c.window
DirtyOf(c) == c.is_dirty
CountOf(c) == c.count

\* A state of the compiler that code can be emitted in.
Coded(c) ==
    /\ DOMAIN c = CompilerFields
    /\ IsSeq(CodeOf(c)) /\ IsSeq(Queue(c))
    /\ Len(Queue(c)) <= WINDOW_CAPACITY
    /\ IsFiniteSet(DirtyOf(c))
    /\ CountOf(c) \in Nat

\* What no part of the switch changes.
Kept(c, d) ==
    /\ CountOf(d) = CountOf(c) /\ d.i = c.i /\ d.readable = c.readable
    /\ d.mappings = c.mappings /\ d.limited = c.limited
    /\ d.instruction = c.instruction /\ d.metadata = c.metadata

\* What emitting code does not change.
Frame(c, d) ==
    /\ Kept(c, d)
    /\ d.guest_address = c.guest_address /\ d.status = c.status
    /\ d.is_block_terminated = c.is_block_terminated
    /\ d.is_pc_dynamic = c.is_pc_dynamic

\* The code of a block that has been emitted or is still in the window.
Pending(c) == CodeOf(c) \o Queue(c)

Longer(s, u) == Len(s) <= Len(u) /\ \A j \in 1 .. Len(s) : u[j] = s[j]

\* d is c after the pieces hs.
Pushes(c, d, hs) ==
    /\ Coded(d) /\ Frame(c, d) /\ DirtyOf(d) = DirtyOf(c)
    /\ Longer(CodeOf(c), CodeOf(d))
    /\ Longer(Pending(c), Pending(d))
    /\ Len(Pending(d)) = Len(Pending(c)) + Len(hs)
    /\ \A j \in 1 .. Len(hs) : Pending(d)[Len(Pending(c)) + j] = Tag(hs[j], CountOf(c) + 1)

\* The code of a state that has none in the window.
LEMMA PendingIs ==
    ASSUME NEW c, Coded(c)
    PROVE  /\ IsSeq(Pending(c)) /\ Len(Pending(c)) = Len(CodeOf(c)) + Len(Queue(c))
           /\ Longer(CodeOf(c), Pending(c))
           /\ Queue(c) = <<>> => Pending(c) = CodeOf(c)
<1>1. IsSeq(CodeOf(c)) /\ IsSeq(Queue(c))
  BY DEF Coded
<1>2. /\ IsSeq(Pending(c)) /\ Len(Pending(c)) = Len(CodeOf(c)) + Len(Queue(c))
      /\ \A j \in 1 .. Len(CodeOf(c)) : Pending(c)[j] = CodeOf(c)[j]
  BY <1>1, ConcatIs DEF Pending
<1>3. Len(CodeOf(c)) \in Nat /\ Len(Queue(c)) \in Nat
  BY <1>1, SeqFacts
<1>4. ASSUME Queue(c) = <<>> PROVE Pending(c) = CodeOf(c)
  <2>1. Len(Queue(c)) = 0
    BY <1>4, ShortSeqs
  <2> QED
    BY <1>1, <1>2, <1>3, <2>1, SameSeq
<1> QED
  BY <1>2, <1>3, <1>4 DEF Longer

\* bal_sliding_window_flush_all moves the window behind the code.
LEMMA FlushIs ==
    ASSUME NEW c, Coded(c)
    PROVE  /\ Coded(flush_all(c)) /\ Frame(c, flush_all(c))
           /\ DirtyOf(flush_all(c)) = DirtyOf(c)
           /\ CodeOf(flush_all(c)) = Pending(c) /\ Queue(flush_all(c)) = <<>>
           /\ Pending(flush_all(c)) = Pending(c)
<1> DEFINE d == flush_all(c)
<1>1. /\ DOMAIN d = CompilerFields /\ CodeOf(d) = Pending(c) /\ Queue(d) = <<>>
      /\ DirtyOf(d) = DirtyOf(c) /\ Frame(c, d)
  BY DEF flush_all, Pending, Coded, CompilerFields, Frame, Kept, CodeOf, Queue, DirtyOf, CountOf
<1>2. IsSeq(Queue(d)) /\ Len(Queue(d)) = 0 /\ IsSeq(CodeOf(d))
  BY <1>1, ShortSeqs, PendingIs
<1> HIDE DEF d
<1>3. Coded(d)
  BY <1>1, <1>2, BoundsAssumption DEF Coded, Frame, Kept
<1>4. Pending(d) = Pending(c)
  BY <1>1, <1>3, PendingIs
<1> QED
  BY <1>1, <1>3, <1>4 DEF d

\* bal_sliding_window_push adds its macro to the code, flushed or not.
LEMMA PushMacroIs ==
    ASSUME NEW c, Coded(c), NEW h
    PROVE  Pushes(c, PushMacro(c, h), <<h>>)
<1> DEFINE room == IF Len(Queue(c)) = WINDOW_CAPACITY THEN flush_all(c) ELSE c
           e == Tag(h, CountOf(c) + 1)
           d == PushMacro(c, h)
<1>1. /\ Coded(room) /\ Frame(c, room) /\ DirtyOf(room) = DirtyOf(c)
      /\ Pending(room) = Pending(c) /\ Longer(CodeOf(c), CodeOf(room))
      /\ Len(Queue(room)) < WINDOW_CAPACITY
  <2>1. CASE Len(Queue(c)) = WINDOW_CAPACITY
    <3>1. room = flush_all(c)
      BY <2>1
    <3> HIDE DEF room
    <3> QED
      BY <3>1, FlushIs, PendingIs, ShortSeqs, BoundsAssumption
  <2>2. CASE Len(Queue(c)) # WINDOW_CAPACITY
    <3>1. room = c /\ Len(Queue(c)) \in Nat /\ Len(Queue(c)) <= WINDOW_CAPACITY
      BY <2>2, SeqFacts DEF Coded
    <3>2. Len(Queue(c)) < WINDOW_CAPACITY
      BY <2>2, <3>1, BoundsAssumption
    <3>3. Frame(c, c) /\ Longer(CodeOf(c), CodeOf(c))
      BY SeqFacts DEF Frame, Kept, Longer, Coded
    <3> HIDE DEF room
    <3> QED
      BY <3>1, <3>2, <3>3
  <2> QED
    BY <2>1, <2>2
<1>2. d = [room EXCEPT !.window = Append(Queue(room), e)]
  BY DEF PushMacro, Queue, CountOf
<1> HIDE DEF room, d, e
<1>3. /\ DOMAIN d = CompilerFields /\ CodeOf(d) = CodeOf(room)
      /\ Queue(d) = Append(Queue(room), e) /\ DirtyOf(d) = DirtyOf(room) /\ Frame(room, d)
  BY <1>1, <1>2 DEF Coded, CompilerFields, Frame, Kept, CodeOf, Queue, DirtyOf, CountOf
<1>4. /\ IsSeq(Queue(room)) /\ IsSeq(CodeOf(room))
      /\ Len(Queue(room)) \in Nat /\ Len(CodeOf(room)) \in Nat
      /\ IsFiniteSet(DirtyOf(room)) /\ CountOf(room) \in Nat
  BY <1>1, SeqFacts DEF Coded
<1>5. /\ IsSeq(Queue(d)) /\ Len(Queue(d)) = Len(Queue(room)) + 1
      /\ \A j \in 1 .. Len(Queue(room)) : Queue(d)[j] = Queue(room)[j]
      /\ Queue(d)[Len(Queue(room)) + 1] = e
  BY <1>3, <1>4, AppendIs
<1>6. Coded(d)
  BY <1>1, <1>3, <1>4, <1>5, BoundsAssumption DEF Coded, Frame, Kept
<1>7. /\ Len(Pending(d)) = Len(CodeOf(room)) + Len(Queue(room)) + 1
      /\ \A j \in 1 .. Len(CodeOf(room)) : Pending(d)[j] = CodeOf(room)[j]
      /\ \A j \in 1 .. Len(Queue(d)) : Pending(d)[Len(CodeOf(room)) + j] = Queue(d)[j]
  BY <1>3, <1>4, <1>5, ConcatIs DEF Pending
<1>8. /\ Len(Pending(room)) = Len(CodeOf(room)) + Len(Queue(room))
      /\ \A j \in 1 .. Len(CodeOf(room)) : Pending(room)[j] = CodeOf(room)[j]
      /\ \A j \in 1 .. Len(Queue(room)) : Pending(room)[Len(CodeOf(room)) + j] = Queue(room)[j]
  BY <1>4, ConcatIs DEF Pending
<1>9. ASSUME NEW j \in 1 .. Len(Pending(room))
      PROVE  Pending(d)[j] = Pending(room)[j]
  <2>1. CASE j \in 1 .. Len(CodeOf(room))
    BY <1>7, <1>8, <2>1
  <2>2. CASE j > Len(CodeOf(room))
    <3>1. PICK k \in 1 .. Len(Queue(room)) : j = Len(CodeOf(room)) + k
      <4>1. PICK p \in Nat : p = Len(CodeOf(room))
        BY <1>4
      <4>2. j - p \in 1 .. Len(Queue(room)) /\ j = p + (j - p)
        BY <1>4, <1>8, <2>2, <4>1
      <4> QED
        BY <4>1, <4>2
    <3>2. k \in 1 .. Len(Queue(d))
      BY <1>4, <1>5
    <3> QED
      BY <1>5, <1>7, <1>8, <3>1, <3>2
  <2> QED
    BY <1>4, <1>8, <2>1, <2>2
<1>10. /\ Len(Pending(d)) = Len(Pending(c)) + 1
       /\ Pending(d)[Len(Pending(c)) + 1] = e
  <2>1. Len(Queue(room)) + 1 \in 1 .. Len(Queue(d))
    BY <1>4, <1>5
  <2> QED
    BY <1>1, <1>4, <1>5, <1>7, <1>8, <2>1
<1>11. Longer(Pending(c), Pending(d))
  BY <1>1, <1>4, <1>8, <1>9, <1>10 DEF Longer
<1>12. Frame(c, d) /\ DirtyOf(d) = DirtyOf(c) /\ Longer(CodeOf(c), CodeOf(d))
  BY <1>1, <1>3 DEF Frame, Kept
<1>13. \A j \in 1 .. Len(<<h>>) : Pending(d)[Len(Pending(c)) + j] = Tag(<<h>>[j], CountOf(c) + 1)
  <2>1. Len(<<h>>) = 1 /\ <<h>>[1] = h
    BY ShortSeqs
  <2>2. \A j \in 1 .. 1 : j = 1
    OBVIOUS
  <2> QED
    BY <1>10, <2>1, <2>2 DEF e
<1>14. Len(<<h>>) = 1
  BY ShortSeqs
<1> QED
  BY <1>6, <1>10, <1>11, <1>12, <1>13, <1>14 DEF Pushes, d

\* The pieces of one push after those of earlier ones.
LEMMA PushesOneMore ==
    ASSUME NEW c, NEW d, NEW e, NEW hs, NEW gs, NEW h, Coded(c), IsSeq(hs), IsSeq(gs),
           Pushes(c, d, hs), Pushes(d, e, <<h>>),
           Longer(hs, gs), Len(gs) = Len(hs) + 1, gs[Len(hs) + 1] = h
    PROVE  Pushes(c, e, gs)
<1>1. PICK m, n, p \in Nat : m = Len(Pending(c)) /\ n = Len(hs) /\ p = Len(Pending(d))
  <2>1. IsSeq(Pending(c)) /\ IsSeq(Pending(d))
    BY PendingIs DEF Pushes
  <2> QED
    BY <2>1, SeqFacts
<1>2. /\ p = m + n /\ Len(Pending(e)) = p + 1
      /\ CountOf(d) = CountOf(c)
      /\ Coded(e) /\ Frame(c, e) /\ DirtyOf(e) = DirtyOf(c)
  BY <1>1, ShortSeqs DEF Pushes, Frame, Kept
<1>3. Pending(e)[p + 1] = Tag(h, CountOf(c) + 1)
  <2>1. 1 \in 1 .. Len(<<h>>) /\ <<h>>[1] = h
    BY ShortSeqs
  <2> QED
    BY <1>1, <1>2, <2>1 DEF Pushes
<1>4. /\ \A j \in 1 .. m : Pending(d)[j] = Pending(c)[j]
      /\ \A j \in 1 .. p : Pending(e)[j] = Pending(d)[j]
      /\ \A j \in 1 .. n : Pending(d)[m + j] = Tag(hs[j], CountOf(c) + 1)
  BY <1>1 DEF Pushes, Longer
<1>5. Longer(Pending(c), Pending(e))
  <2>1. \A j \in 1 .. m : j \in 1 .. p
    BY <1>1, <1>2
  <2> QED
    BY <1>1, <1>2, <1>4, <2>1 DEF Longer
<1>6. Longer(CodeOf(c), CodeOf(e))
  <2>1. Longer(CodeOf(c), CodeOf(d)) /\ Longer(CodeOf(d), CodeOf(e))
    BY DEF Pushes
  <2>2. Len(CodeOf(c)) \in Nat /\ Len(CodeOf(d)) \in Nat /\ Len(CodeOf(e)) \in Nat
    BY <1>2, SeqFacts DEF Coded, Pushes
  <2> QED
    BY <2>1, <2>2 DEF Longer
<1>7. ASSUME NEW j \in 1 .. n + 1
      PROVE  Pending(e)[m + j] = Tag(gs[j], CountOf(c) + 1)
  <2>1. CASE j = n + 1
    <3>1. m + j = p + 1 /\ gs[j] = h
      BY <1>1, <1>2, <2>1
    <3> QED
      BY <1>3, <3>1
  <2>2. CASE j \in 1 .. n
    <3>1. m + j \in 1 .. p /\ gs[j] = hs[j]
      BY <1>1, <1>2, <2>2 DEF Longer
    <3> QED
      BY <1>4, <2>2, <3>1
  <2> QED
    BY <1>1, <2>1, <2>2
<1>8. Len(gs) = n + 1 /\ Len(Pending(e)) = m + Len(gs)
  BY <1>1, <1>2
<1> QED
  BY <1>1, <1>2, <1>5, <1>6, <1>7, <1>8 DEF Pushes

\* Pushing nothing.
LEMMA PushesNothing ==
    ASSUME NEW c, Coded(c)
    PROVE  Pushes(c, c, <<>>)
<1>1. Len(Pending(c)) \in Nat /\ Len(CodeOf(c)) \in Nat
  BY PendingIs, SeqFacts DEF Coded
<1>2. Longer(Pending(c), Pending(c)) /\ Longer(CodeOf(c), CodeOf(c))
  BY <1>1 DEF Longer
<1>3. Len(<<>>) = 0 /\ Len(Pending(c)) = Len(Pending(c)) + 0
  BY <1>1, ShortSeqs
<1> QED
  BY <1>2, <1>3 DEF Pushes, Frame, Kept

\* Several pushes add their macros to the code, in order.
LEMMA PushMacrosIs ==
    ASSUME NEW c, Coded(c), NEW hs, IsSeq(hs)
    PROVE  Pushes(c, PushMacros(c, hs), hs)
<1> DEFINE At(k) == PushLoop!Fold(c, PushLoop!Prefix(hs, k))
           K == {k \in Nat : k <= Len(hs) => Pushes(c, At(k), PushLoop!Prefix(hs, k))}
<1>1. Len(hs) \in Nat /\ DOMAIN hs = 1 .. Len(hs)
  BY SeqFacts
<1>2. \A k \in Nat : IsSeq(PushLoop!Prefix(hs, k)) /\ Len(PushLoop!Prefix(hs, k)) = k
  <2> SUFFICES ASSUME NEW k \in Nat
               PROVE  IsSeq(PushLoop!Prefix(hs, k)) /\ Len(PushLoop!Prefix(hs, k)) = k
    OBVIOUS
  <2>1. PushLoop!Prefix(hs, k) = [j \in 1 .. k |-> PushLoop!Prefix(hs, k)[j]]
    BY DEF PushLoop!Prefix
  <2> QED
    BY <2>1, FunctionIsSeq
<1>3. 0 \in K
  <2>1. PushLoop!Prefix(hs, 0) = <<>>
    BY DEF PushLoop!Prefix
  <2>2. At(0) = c
    BY <2>1, PushLoop!FoldEmpty
  <2> QED
    BY <2>1, <2>2, PushesNothing
<1>4. ASSUME NEW k \in Nat, k \in K, k + 1 <= Len(hs)
      PROVE  Pushes(c, At(k + 1), PushLoop!Prefix(hs, k + 1))
  <2>1. Pushes(c, At(k), PushLoop!Prefix(hs, k))
    BY <1>1, <1>4
  <2>2. At(k + 1) = PushMacro(At(k), hs[k + 1])
    BY PushLoop!FoldPrefix
  <2> HIDE DEF At
  <2>3. Pushes(At(k), At(k + 1), <<hs[k + 1]>>)
    BY <2>1, <2>2, PushMacroIs DEF Pushes
  <2>4. /\ Longer(PushLoop!Prefix(hs, k), PushLoop!Prefix(hs, k + 1))
        /\ PushLoop!Prefix(hs, k + 1)[k + 1] = hs[k + 1]
    <3>1. k + 1 \in 1 .. k + 1 /\ \A j \in 1 .. k : j \in 1 .. k + 1
      OBVIOUS
    <3>2. k + 1 \in Nat
      OBVIOUS
    <3>3. Len(PushLoop!Prefix(hs, k)) = k /\ Len(PushLoop!Prefix(hs, k + 1)) = k + 1
      BY <1>2, <3>2
    <3> QED
      BY <3>1, <3>3 DEF Longer, PushLoop!Prefix
  <2>5. /\ IsSeq(PushLoop!Prefix(hs, k)) /\ IsSeq(PushLoop!Prefix(hs, k + 1))
        /\ Len(PushLoop!Prefix(hs, k)) = k /\ Len(PushLoop!Prefix(hs, k + 1)) = k + 1
    <3>1. k + 1 \in Nat
      OBVIOUS
    <3> QED
      BY <1>2, <3>1
  <2> QED
    BY <2>1, <2>3, <2>4, <2>5, PushesOneMore
<1>5. Len(hs) \in K
  <2>1. \A k \in Nat : k \in K => k + 1 \in K
    BY <1>4
  <2> HIDE DEF K
  <2> QED
    BY <1>1, <1>3, <2>1, PushLoop!SetInduction
<1>6. PushLoop!Prefix(hs, Len(hs)) = hs
  <2>1. IsSeq(PushLoop!Prefix(hs, Len(hs))) /\ Len(PushLoop!Prefix(hs, Len(hs))) = Len(hs)
    BY <1>1, <1>2
  <2>2. \A j \in 1 .. Len(hs) : PushLoop!Prefix(hs, Len(hs))[j] = hs[j]
    BY DEF PushLoop!Prefix
  <2> QED
    BY <2>1, <2>2, SameSeq
<1>7. PushMacros(c, hs) = PushLoop!Fold(c, hs)
  BY DEF PushMacros, PushLoop!Fold, FoldLeft, PushLoop!FoldLeft, MapThenFoldSet,
         PushLoop!MapThenFoldSet, Max, PushLoop!Max
<1> QED
  BY <1>1, <1>5, <1>6, <1>7

\* What Emit appends to the code of a flushed window.
LEMMA EmitIs ==
    ASSUME NEW c, Coded(c), NEW hs, IsSeq(hs)
    PROVE  /\ Pushes(c, Emit(flush_all(c), hs), hs)
           /\ Queue(Emit(flush_all(c), hs)) = <<>>
<1> DEFINE f == flush_all(c)
           d == Emit(flush_all(c), hs)
           new == [k \in DOMAIN hs |-> Tag(hs[k], CountOf(c) + 1)]
<1>1. /\ Coded(f) /\ Frame(c, f) /\ DirtyOf(f) = DirtyOf(c) /\ CodeOf(f) = Pending(c)
      /\ Queue(f) = <<>> /\ CountOf(f) = CountOf(c)
  BY FlushIs DEF Frame, Kept
<1>2. d = [f EXCEPT !.code = CodeOf(f) \o new]
  BY <1>1 DEF Emit, CodeOf, CountOf
<1>3. Len(hs) \in Nat /\ DOMAIN hs = 1 .. Len(hs)
  BY SeqFacts
<1>4. IsSeq(new) /\ Len(new) = Len(hs)
  <2>1. new = [j \in 1 .. Len(hs) |-> new[j]]
    BY <1>3
  <2> HIDE DEF new
  <2> QED
    BY <1>3, <2>1, FunctionIsSeq
<1>5. \A j \in 1 .. Len(hs) : new[j] = Tag(hs[j], CountOf(c) + 1)
  BY <1>3
<1> HIDE DEF f, d, new
<1>6. /\ DOMAIN d = CompilerFields /\ CodeOf(d) = CodeOf(f) \o new
      /\ Queue(d) = Queue(f) /\ DirtyOf(d) = DirtyOf(f) /\ Frame(f, d)
  BY <1>1, <1>2 DEF Coded, CompilerFields, Frame, Kept, CodeOf, Queue, DirtyOf, CountOf
<1>7. IsSeq(Pending(c)) /\ Len(Pending(c)) \in Nat /\ Longer(CodeOf(c), Pending(c))
  BY PendingIs, SeqFacts
<1>8. /\ IsSeq(CodeOf(d)) /\ Len(CodeOf(d)) = Len(Pending(c)) + Len(hs)
      /\ \A j \in 1 .. Len(Pending(c)) : CodeOf(d)[j] = Pending(c)[j]
      /\ \A j \in 1 .. Len(hs) : CodeOf(d)[Len(Pending(c)) + j] = new[j]
  <2> DEFINE s == Pending(c)
             u == new
  <2>1. IsSeq(s) /\ IsSeq(u)
    BY <1>4, <1>7
  <2> HIDE DEF s, u
  <2>2. /\ IsSeq(s \o u) /\ Len(s \o u) = Len(s) + Len(u)
        /\ \A j \in 1 .. Len(s) : (s \o u)[j] = s[j]
        /\ \A j \in 1 .. Len(u) : (s \o u)[Len(s) + j] = u[j]
    BY <2>1, ConcatIs
  <2>3. CodeOf(d) = s \o u /\ Len(u) = Len(hs)
    BY <1>1, <1>4, <1>6 DEF s, u
  <2>4. /\ IsSeq(CodeOf(d)) /\ Len(CodeOf(d)) = Len(s) + Len(hs)
        /\ \A j \in 1 .. Len(s) : CodeOf(d)[j] = s[j]
        /\ \A j \in 1 .. Len(hs) : CodeOf(d)[Len(s) + j] = u[j]
    BY <2>2, <2>3
  <2> QED
    BY <2>4 DEF s, u
<1>9. Coded(d)
  BY <1>1, <1>6, <1>8 DEF Coded, Frame, Kept
<1>10. Pending(d) = CodeOf(d)
  BY <1>1, <1>6, <1>9, PendingIs
<1>11. Longer(Pending(c), CodeOf(d))
  BY <1>3, <1>7, <1>8 DEF Longer
<1>12. Longer(CodeOf(c), CodeOf(d))
  <2>1. Len(CodeOf(c)) \in Nat
    BY SeqFacts DEF Coded
  <2> QED
    BY <1>3, <1>7, <1>8, <1>11, <2>1 DEF Longer
<1>13. Frame(c, d)
  BY <1>1, <1>6 DEF Frame, Kept
<1> QED
  BY <1>1, <1>5, <1>6, <1>8, <1>9, <1>10, <1>11, <1>12, <1>13 DEF Pushes, d, f

-----------------------------------------------------------------------------
(* The pieces of host code and their sizes.                                *)

\* A piece that neither ends the block, nor jumps, nor counts, nor uses the stack.
QuietOps == {"MOV_RBP", "LOAD", "STORE", "STORE_PC", "MOV", "MOV_REGISTER", "ADD",
             "ADD_REGISTER", "SUB", "SUB_REGISTER", "AND", "OR", "AND_REGISTER", "SETCC"}
EndOps == {"PUSH", "POP", "RET", "ICOUNT", "CMP_FLAG", "JCC", "UD2"}
AllOps == QuietOps \union EndOps

Sized(h, Ops) == h.op \in Ops /\ h.size \in Nat

AllSized(hs, Ops) == IsSeq(hs) /\ \A j \in 1 .. Len(hs) : Sized(hs[j], Ops)

\* The fields of a piece.
LEMMA HostIs ==
    ASSUME NEW op, NEW emitted, NEW a, NEW b
    PROVE  /\ Host(op, emitted, a, b).op = op /\ Host(op, emitted, a, b).a = a
           /\ Host(op, emitted, a, b).b = b
           /\ Host(op, emitted, a, b).size = X86!EmittedSize(emitted)
BY DEF Host

\* The fields of a tagged piece.
LEMMA TagIs ==
    ASSUME NEW h, NEW n
    PROVE  /\ Tag(h, n).op = h.op /\ Tag(h, n).a = h.a /\ Tag(h, n).b = h.b
           /\ Tag(h, n).size = h.size /\ Tag(h, n).of = n
BY DEF Tag

\* The sizes of the instructions without a long form.
LEMMA LowSizes ==
    /\ X86!EmittedSize(X86!Low("push_r64")) = 1 /\ X86!EmittedSize(X86!High("push_r64")) = 2
    /\ X86!EmittedSize(X86!Low("pop_r64")) = 1 /\ X86!EmittedSize(X86!High("pop_r64")) = 2
    /\ X86!EmittedSize(X86!Low("ret")) = 1
    /\ X86!EmittedSize(X86!Low("ud2")) = 2
    /\ \A op \in X86!RegReg : X86!EmittedSize(X86!Low(op)) = 3
    /\ \A op \in X86!AluImm : X86!EmittedSize(X86!Low(op)) = 4
    /\ \A op \in X86!Disp32 : X86!EmittedSize(X86!Low(op)) = 7
    /\ X86!EmittedSize(X86!Low("mov_r64_imm64")) = 5
    /\ X86!EmittedSize(X86!Low("jcc_rel32")) = 6
    /\ X86!EmittedSize(X86!Low("cmp_mem8_rbp_offset_imm")) = 8
    /\ X86!EmittedSize(X86!Low("add_mem64_rbp_offset_imm")) = 8
BY DEF X86!EmittedSize, X86!CheckedSize, X86!Low, X86!High, X86!PushPop, X86!RegReg,
       X86!AluImm, X86!Disp32, X86!Shift

\* The sizes of the moves of an immediate.
LEMMA MoveSizes ==
    ASSUME NEW long \in BOOLEAN
    PROVE  /\ X86!EmittedSize([X86!Low("mov_r64_imm64") EXCEPT !.long = long])
                = IF long THEN 10 ELSE 5
           /\ X86!EmittedSize([X86!High("mov_r64_imm64") EXCEPT !.long = long])
                = IF long THEN 10 ELSE 6
BY DEF X86!EmittedSize, X86!CheckedSize, X86!Low, X86!High, X86!PushPop, X86!RegReg,
       X86!AluImm, X86!Disp32, X86!Shift

\* The pieces of the epilogues and of the prologue.
LEMMA PieceSizes ==
    /\ \A r : Sized(Store(r), {"STORE"}) /\ Store(r).size = 7 /\ Store(r).a = r
    /\ \A r : Sized(StorePc(r), {"STORE_PC"}) /\ StorePc(r).size = 7
    /\ \A r : Sized(Push(r), {"PUSH"}) /\ Push(r).a = r
    /\ \A r : Sized(Pop(r), {"POP"}) /\ Pop(r).a = r /\ Pop(r).size = IF r = "rbp" THEN 1 ELSE 2
    /\ Sized(Ret, {"RET"}) /\ Ret.size = 1
    /\ \A pc : /\ Sized(MovRax(pc), {"MOV"})
               /\ MovRax(pc).size = IF pc >= LONG_FROM THEN 10 ELSE 5
<1>1. "store_r64_rbp_offset" \in X86!Disp32
  BY DEF X86!Disp32
<1>2. \A r : Sized(Store(r), {"STORE"}) /\ Store(r).size = 7 /\ Store(r).a = r
  BY <1>1, LowSizes, HostIs DEF Store, Sized
<1>3. \A r : Sized(StorePc(r), {"STORE_PC"}) /\ StorePc(r).size = 7
  BY <1>1, LowSizes, HostIs DEF StorePc, Sized
<1>4. \A r : Sized(Push(r), {"PUSH"}) /\ Push(r).a = r
  BY LowSizes, HostIs DEF Push, Sized
<1>5. \A r : Sized(Pop(r), {"POP"}) /\ Pop(r).a = r /\ Pop(r).size = IF r = "rbp" THEN 1 ELSE 2
  BY LowSizes, HostIs DEF Pop, Sized
<1>6. Sized(Ret, {"RET"}) /\ Ret.size = 1
  BY LowSizes, HostIs DEF Ret, Sized
<1>7. \A pc : /\ Sized(MovRax(pc), {"MOV"})
              /\ MovRax(pc).size = IF pc >= LONG_FROM THEN 10 ELSE 5
  <2> TAKE pc
  <2> DEFINE long == pc >= LONG_FROM
             emitted == [X86!Low("mov_r64_imm64") EXCEPT !.long = long]
  <2>1. long \in BOOLEAN
    OBVIOUS
  <2>2. MovRax(pc) = Host("MOV", emitted, RAX, pc)
    BY DEF MovRax
  <2> HIDE DEF long
  <2>3. X86!EmittedSize(emitted) = IF long THEN 10 ELSE 5
    BY <2>1, MoveSizes
  <2> HIDE DEF emitted
  <2>4. MovRax(pc).op = "MOV" /\ MovRax(pc).size = IF long THEN 10 ELSE 5
    BY <2>2, <2>3, HostIs
  <2> QED
    BY <2>4 DEF long, Sized
<1> QED
  BY <1>2, <1>3, <1>4, <1>5, <1>6, <1>7

\* Sequences of sized pieces.
LEMMA SizedSeqs ==
    ASSUME NEW Ops
    PROVE  /\ AllSized(<<>>, Ops)
           /\ \A h : Sized(h, Ops) => AllSized(<<h>>, Ops)
           /\ \A hs, gs : AllSized(hs, Ops) /\ AllSized(gs, Ops) => AllSized(hs \o gs, Ops)
<1>1. AllSized(<<>>, Ops)
  BY ShortSeqs DEF AllSized
<1>2. ASSUME NEW h, Sized(h, Ops)
      PROVE  AllSized(<<h>>, Ops)
  <2>1. \A j \in 1 .. 1 : j = 1
    OBVIOUS
  <2> QED
    BY <1>2, <2>1, ShortSeqs DEF AllSized
<1>3. ASSUME NEW hs, NEW gs, AllSized(hs, Ops), AllSized(gs, Ops)
      PROVE  AllSized(hs \o gs, Ops)
  <2> DEFINE s == hs \o gs
  <2>1. IsSeq(hs) /\ IsSeq(gs) /\ Len(hs) \in Nat /\ Len(gs) \in Nat
    BY <1>3, SeqFacts DEF AllSized
  <2>2. /\ IsSeq(s) /\ Len(s) = Len(hs) + Len(gs)
        /\ \A j \in 1 .. Len(hs) : s[j] = hs[j]
        /\ \A j \in 1 .. Len(gs) : s[Len(hs) + j] = gs[j]
    BY <2>1, ConcatIs
  <2> HIDE DEF s
  <2>3. ASSUME NEW j \in 1 .. Len(s)
        PROVE  Sized(s[j], Ops)
    <3>1. CASE j \in 1 .. Len(hs)
      BY <1>3, <2>2, <3>1 DEF AllSized
    <3>2. CASE j \notin 1 .. Len(hs)
      <4>1. PICK k \in 1 .. Len(gs) : j = Len(hs) + k
        <5>1. PICK p \in Nat : p = Len(hs)
          BY <2>1
        <5>2. j - p \in 1 .. Len(gs) /\ j = p + (j - p)
          BY <2>1, <2>2, <3>2, <5>1
        <5> QED
          BY <5>1, <5>2
      <4> QED
        BY <1>3, <2>2, <4>1 DEF AllSized
    <3> QED
      BY <3>1, <3>2
  <2> QED
    BY <2>2, <2>3 DEF AllSized, s
<1> QED
  BY <1>1, <1>2, <1>3

\* Tuples of sized pieces.
LEMMA SizedTuples ==
    ASSUME NEW Ops, NEW a, NEW b, Sized(a, Ops), Sized(b, Ops)
    PROVE  /\ AllSized(<<a, b>>, Ops)
           /\ \A c, d : Sized(c, Ops) /\ Sized(d, Ops) => AllSized(<<a, b, c, d>>, Ops)
<1>1. AllSized(<<a, b>>, Ops)
  <2>1. <<a, b>> \in Seq({a, b}) /\ Len(<<a, b>>) = 2
    OBVIOUS
  <2>2. \A j \in 1 .. 2 : <<a, b>>[j] \in {a, b}
    BY <2>1
  <2>3. IsSeq(<<a, b>>)
    BY <2>1 DEF IsSeq
  <2> QED
    BY <2>1, <2>2, <2>3 DEF AllSized
<1>2. ASSUME NEW c, NEW d, Sized(c, Ops), Sized(d, Ops)
      PROVE  AllSized(<<a, b, c, d>>, Ops)
  <2>1. <<a, b, c, d>> \in Seq({a, b, c, d}) /\ Len(<<a, b, c, d>>) = 4
    OBVIOUS
  <2>2. \A j \in 1 .. 4 : <<a, b, c, d>>[j] \in {a, b, c, d}
    BY <2>1
  <2>3. IsSeq(<<a, b, c, d>>)
    BY <2>1 DEF IsSeq
  <2> QED
    BY <1>2, <2>1, <2>2, <2>3 DEF AllSized
<1> QED
  BY <1>1, <1>2

-----------------------------------------------------------------------------
(* What translating an instruction adds to the code.                       *)

\* d is c with more code of the instruction that is being translated.
Grown(c, d, Ops) ==
    /\ Coded(d) /\ Kept(c, d)
    /\ Longer(CodeOf(c), CodeOf(d)) /\ Longer(Pending(c), Pending(d))
    /\ \A j \in 1 .. Len(Pending(d)) :
          j > Len(Pending(c)) => /\ Sized(Pending(d)[j], Ops)
                                 /\ Pending(d)[j].of = CountOf(c) + 1

\* The same, and the translation goes on as it would have.
Works(c, d) == Grown(c, d, QuietOps) /\ Frame(c, d)

\* The lengths in a state of the compiler.
LEMMA Lengths ==
    ASSUME NEW c, Coded(c)
    PROVE  /\ Len(CodeOf(c)) \in Nat /\ Len(Pending(c)) \in Nat /\ CountOf(c) \in Nat
           /\ Len(CodeOf(c)) <= Len(Pending(c))
BY PendingIs, SeqFacts DEF Coded, Longer

\* Code that nothing was added to.
LEMMA GrownByNothing ==
    ASSUME NEW c, NEW d, NEW Ops, Coded(c), Kept(c, d), DOMAIN d = CompilerFields,
           CodeOf(d) = CodeOf(c), Queue(d) = Queue(c), IsFiniteSet(DirtyOf(d))
    PROVE  Grown(c, d, Ops)
<1>1. Coded(d)
  BY DEF Coded, Kept
<1>2. Pending(d) = Pending(c)
  BY DEF Pending
<1>3. Longer(CodeOf(c), CodeOf(c)) /\ Longer(Pending(c), Pending(c))
  BY Lengths DEF Longer
<1>4. \A j \in 1 .. Len(Pending(c)) : ~(j > Len(Pending(c)))
  BY Lengths
<1> QED
  BY <1>1, <1>2, <1>3, <1>4 DEF Grown

\* Code that was added to twice.
LEMMA GrownTwice ==
    ASSUME NEW c, NEW d, NEW e, NEW Ops, NEW More, Ops \subseteq More,
           Coded(c), Grown(c, d, Ops), Grown(d, e, More)
    PROVE  Grown(c, e, More)
<1>1. PICK k, l, m \in Nat : k = Len(Pending(c)) /\ l = Len(Pending(d)) /\ m = Len(Pending(e))
  BY Lengths DEF Grown
<1>2. Coded(e) /\ Kept(c, e) /\ CountOf(d) = CountOf(c)
  BY DEF Grown, Kept
<1>3. k <= l /\ l <= m
  BY <1>1 DEF Grown, Longer
<1>4. Longer(Pending(c), Pending(e))
  <2>1. \A j \in 1 .. k : j \in 1 .. l
    BY <1>3
  <2> QED
    BY <1>1, <1>3, <2>1 DEF Grown, Longer
<1>5. Longer(CodeOf(c), CodeOf(e))
  <2>1. PICK x, y, z \in Nat : x = Len(CodeOf(c)) /\ y = Len(CodeOf(d)) /\ z = Len(CodeOf(e))
    BY Lengths DEF Grown
  <2>2. x <= y /\ y <= z /\ \A j \in 1 .. x : j \in 1 .. y
    BY <2>1 DEF Grown, Longer
  <2> QED
    BY <2>1, <2>2 DEF Grown, Longer
<1>6. ASSUME NEW j \in 1 .. m, j > k
      PROVE  Sized(Pending(e)[j], More) /\ Pending(e)[j].of = CountOf(c) + 1
  <2>1. CASE j > l
    BY <1>1, <1>2, <2>1 DEF Grown
  <2>2. CASE ~(j > l)
    <3>1. j \in 1 .. l
      BY <1>3, <2>2
    <3>2. Pending(e)[j] = Pending(d)[j]
      BY <1>1, <3>1 DEF Grown, Longer
    <3>3. Sized(Pending(d)[j], Ops) /\ Pending(d)[j].of = CountOf(c) + 1
      BY <1>1, <1>6, <3>1 DEF Grown
    <3> QED
      BY <3>2, <3>3 DEF Sized
  <2> QED
    BY <2>1, <2>2
<1> QED
  BY <1>1, <1>2, <1>4, <1>5, <1>6 DEF Grown

\* Work done after work is work.
LEMMA WorksTwice ==
    ASSUME NEW c, NEW d, NEW e, Coded(c), Works(c, d), Works(d, e)
    PROVE  Works(c, e)
BY GrownTwice DEF Works, Frame, Kept

\* Code that pieces were pushed to.
LEMMA PushesGrow ==
    ASSUME NEW c, NEW d, NEW hs, NEW Ops, Coded(c), Pushes(c, d, hs), AllSized(hs, Ops)
    PROVE  Grown(c, d, Ops) /\ Frame(c, d)
<1>1. PICK m, n \in Nat : m = Len(Pending(c)) /\ n = Len(hs)
  BY Lengths, SeqFacts DEF AllSized
<1>2. Len(Pending(d)) = m + n
  BY <1>1 DEF Pushes
<1>3. ASSUME NEW j \in 1 .. m + n, j > m
      PROVE  Sized(Pending(d)[j], Ops) /\ Pending(d)[j].of = CountOf(c) + 1
  <2>1. j - m \in 1 .. n /\ j = m + (j - m)
    BY <1>3
  <2>2. PICK k \in 1 .. n : j = m + k
    BY <2>1
  <2>3. Pending(d)[j] = Tag(hs[k], CountOf(c) + 1) /\ Sized(hs[k], Ops)
    BY <1>1, <2>2 DEF Pushes, AllSized
  <2> QED
    BY <2>3, TagIs DEF Sized
<1> QED
  BY <1>1, <1>2, <1>3 DEF Grown, Pushes, Frame

\* The pieces of a translated instruction are pushed into the sliding window.
LEMMA WorkOfPushes ==
    ASSUME NEW c, Coded(c)
    PROVE  /\ \A h : Sized(h, QuietOps) => Works(c, PushMacro(c, h))
           /\ \A hs : AllSized(hs, QuietOps) => Works(c, PushMacros(c, hs))
BY PushMacroIs, PushMacrosIs, PushesGrow, SizedSeqs DEF Works, AllSized

\* allocate_x86_register.
LEMMA WorkOfAllocation ==
    ASSUME NEW c, Coded(c), NEW r, NEW skip
    PROVE  Works(c, allocate_x86_register(c, r, skip))
<1> DEFINE d == [c EXCEPT !.mapped = @ \union {r}]
           h == Host("LOAD", X86!Low("load_r64_rbp_offset"), r, 0)
<1>1. /\ DOMAIN d = CompilerFields /\ CodeOf(d) = CodeOf(c) /\ Queue(d) = Queue(c)
      /\ DirtyOf(d) = DirtyOf(c) /\ Frame(c, d)
  BY DEF Coded, CompilerFields, Frame, Kept, CodeOf, Queue, DirtyOf, CountOf
<1> HIDE DEF d
<1>2. Works(c, d)
  BY <1>1, GrownByNothing DEF Works, Frame, Coded
<1>3. Works(d, PushMacro(d, h))
  <2>1. "load_r64_rbp_offset" \in X86!Disp32
    BY DEF X86!Disp32
  <2>2. Sized(h, QuietOps)
    BY <2>1, LowSizes, HostIs DEF Sized, QuietOps
  <2> HIDE DEF h
  <2> QED
    BY <1>2, <2>2, WorkOfPushes DEF Works, Grown
<1>4. allocate_x86_register(c, r, skip) \in {d, PushMacro(d, h)}
  BY DEF allocate_x86_register, d
<1> HIDE DEF h
<1> QED
  BY <1>2, <1>3, <1>4, WorksTwice

\* Marking a host register dirty is work: it emits nothing.
LEMMA WorkOfDirty ==
    ASSUME NEW c, Coded(c), NEW r
    PROVE  Works(c, Dirty(c, r))
<1> DEFINE d == Dirty(c, r)
<1>1. /\ DOMAIN d = CompilerFields /\ CodeOf(d) = CodeOf(c) /\ Queue(d) = Queue(c)
      /\ DirtyOf(d) = DirtyOf(c) \union {r} /\ Frame(c, d)
  BY DEF Dirty, Coded, CompilerFields, Frame, Kept, CodeOf, Queue, DirtyOf, CountOf
<1>2. IsFiniteSet(DirtyOf(c) \union {r})
  BY FS_AddElement DEF Coded
<1> HIDE DEF d
<1>3. Works(c, d)
  BY <1>1, <1>2, GrownByNothing DEF Works, Frame
<1> QED
  BY <1>3 DEF d

\* The pieces that translate_* functions push.
LEMMA QuietPieces ==
    /\ \A r, v : /\ Sized(Host("MOV", X86!Low("mov_r64_imm64"), r, v), QuietOps)
                 /\ Sized(Host("MOV_REGISTER", X86!Low("mov_r64_r64"), r, v), QuietOps)
                 /\ Sized(Host("ADD", X86!Low("add_r64_imm32"), r, v), QuietOps)
                 /\ Sized(Host("SUB", X86!Low("sub_r64_imm32"), r, v), QuietOps)
                 /\ Sized(Host("ADD_REGISTER", X86!Low("add_r64_r64"), r, v), QuietOps)
                 /\ Sized(Host("SUB_REGISTER", X86!Low("sub_r64_r64"), r, v), QuietOps)
                 /\ Sized(Host("AND_REGISTER", X86!Low("and_r64_r64"), r, v), QuietOps)
                 /\ Sized(Host("SETCC", X86!Low("setcc_mem8_rbp_offset"), r, v), QuietOps)
    /\ \A r, v, long : Sized(ThroughR11("AND", r, v, (long = TRUE)), QuietOps)
                       /\ Sized(ThroughR11("OR", r, v, (long = TRUE)), QuietOps)
<1>1. /\ "mov_r64_r64" \in X86!RegReg /\ "add_r64_r64" \in X86!RegReg
      /\ "sub_r64_r64" \in X86!RegReg /\ "and_r64_r64" \in X86!RegReg
      /\ "add_r64_imm32" \in X86!AluImm /\ "sub_r64_imm32" \in X86!AluImm
      /\ "setcc_mem8_rbp_offset" \in X86!Disp32
  BY DEF X86!RegReg, X86!AluImm, X86!Disp32
<1>2. \A r, v, long : \A op \in {"AND", "OR"} : Sized(ThroughR11(op, r, v, (long = TRUE)), QuietOps)
  <2> TAKE r, v, l
  <2> TAKE op \in {"AND", "OR"}
  <2> DEFINE long == l = TRUE
             n == X86!EmittedSize([X86!High("mov_r64_imm64") EXCEPT !.long = long])
             h == Host(op, X86!Low("and_r64_r64"), r, v)
  <2>1. long \in BOOLEAN
    OBVIOUS
  <2>2. ThroughR11(op, r, v, long) = [h EXCEPT !.size = @ + n]
    BY DEF ThroughR11
  <2> HIDE DEF long
  <2>3. n \in Nat
    <3>1. n = IF long THEN 10 ELSE 6
      BY <2>1, MoveSizes, Zenon
    <3> HIDE DEF n
    <3> QED
      BY <2>1, <3>1
  <2>4. DOMAIN h = {"op", "size", "a", "b"} /\ h.op = op /\ h.size = 3
    BY <1>1, LowSizes DEF Host
  <2> HIDE DEF n, h
  <2>5. PICK k \in Nat : k = h.size + n
    BY <2>3, <2>4
  <2>6. ThroughR11(op, r, v, long).op = op /\ ThroughR11(op, r, v, long).size = k
    BY <2>2, <2>4, <2>5
  <2> QED
    BY <2>6 DEF Sized, QuietOps, long
<1>3. \A r, v, op, emitted : op \in QuietOps /\ X86!EmittedSize(emitted) \in Nat
                                => Sized(Host(op, emitted, r, v), QuietOps)
  BY HostIs DEF Sized
<1>4. {"MOV", "MOV_REGISTER", "ADD", "SUB", "ADD_REGISTER", "SUB_REGISTER", "AND_REGISTER",
       "SETCC"} \subseteq QuietOps
  BY DEF QuietOps
<1>5. /\ X86!EmittedSize(X86!Low("mov_r64_imm64")) \in Nat
      /\ X86!EmittedSize(X86!Low("mov_r64_r64")) \in Nat
      /\ X86!EmittedSize(X86!Low("add_r64_imm32")) \in Nat
      /\ X86!EmittedSize(X86!Low("sub_r64_imm32")) \in Nat
      /\ X86!EmittedSize(X86!Low("add_r64_r64")) \in Nat
      /\ X86!EmittedSize(X86!Low("sub_r64_r64")) \in Nat
      /\ X86!EmittedSize(X86!Low("and_r64_r64")) \in Nat
      /\ X86!EmittedSize(X86!Low("setcc_mem8_rbp_offset")) \in Nat
  BY <1>1, LowSizes
<1> QED
  BY <1>2, <1>3, <1>4, <1>5

\* The sequences of pieces that translate_* functions push.
LEMMA QuietSequences ==
    /\ \A x, y : AllSized(MovTo(x, y), QuietOps)
    /\ \A is_sub : AllSized(SetFlags(is_sub), QuietOps)
<1>1. ASSUME NEW x, NEW y
      PROVE  AllSized(MovTo(x, y), QuietOps)
  BY QuietPieces, SizedSeqs DEF MovTo
<1>2. ASSUME NEW is_sub
      PROVE  AllSized(SetFlags(is_sub), QuietOps)
  <2> DEFINE set(flag, condition) ==
                 Host("SETCC", X86!Low("setcc_mem8_rbp_offset"), flag, condition)
             a == set("n", "S")
             b == set("z", "E")
             c == set("v", "O")
             d == set("c", IF is_sub THEN "AE" ELSE "B")
  <2>1. Sized(a, QuietOps) /\ Sized(b, QuietOps) /\ Sized(c, QuietOps) /\ Sized(d, QuietOps)
    BY QuietPieces
  <2>2. SetFlags(is_sub) = <<a, b, c, d>>
    BY DEF SetFlags
  <2> HIDE DEF a, b, c, d
  <2> QED
    BY <2>1, <2>2, SizedTuples
<1> QED
  BY <1>1, <1>2

\* translate_mov_immediate.
LEMMA WorkOfMovImmediate ==
    ASSUME NEW c, Coded(c), NEW word, NEW md, md.name \in {"MOVZ", "MOVN", "MOVK"}
    PROVE  Works(c, translate_mov_immediate(c, word, md))
<1> DEFINE rd == Operand(word, md, 0)
           hw == Operand(word, md, 2)
           value == Operand(word, md, 1) * HALF^hw
           z == <<Host("MOV", X86!Low("mov_r64_imm64"), rd, value)>>
           n == <<Host("MOV", X86!Low("mov_r64_imm64"), rd, Modulus - 1 - value)>>
           first == ThroughR11("AND", rd, Modulus - 1 - (HALF - 1) * HALF^hw, TRUE)
           second == ThroughR11("OR", rd, value, hw >= 2)
           d == allocate_x86_register(c, rd, md.name # "MOVK")
<1>1. PICK hs \in {z, n, <<first, second>>} :
          translate_mov_immediate(c, word, md) = Dirty(PushMacros(d, hs), rd)
  BY DEF translate_mov_immediate
<1>2. AllSized(z, QuietOps) /\ AllSized(n, QuietOps)
  BY QuietPieces, SizedSeqs
<1>3. AllSized(<<first, second>>, QuietOps)
  <2>1. ((hw >= 2) = TRUE) = (hw >= 2) /\ (TRUE = TRUE) = TRUE
    OBVIOUS
  <2>2. Sized(first, QuietOps) /\ Sized(second, QuietOps)
    BY <2>1, QuietPieces, Zenon
  <2> HIDE DEF first, second
  <2> QED
    BY <2>2, SizedTuples
<1>4. Works(c, d)
  BY WorkOfAllocation
<1> HIDE DEF d, z, n, first, second, rd
<1>5. Works(d, PushMacros(d, hs))
  BY <1>1, <1>2, <1>3, <1>4, WorkOfPushes DEF Works, Grown
<1>6. Works(PushMacros(d, hs), Dirty(PushMacros(d, hs), rd))
  BY <1>5, WorkOfDirty DEF Works, Grown
<1>7. Coded(d)
  BY <1>4 DEF Works, Grown
<1> QED
  BY <1>1, <1>4, <1>5, <1>6, <1>7, WorksTwice

\* translate_mov_register.
LEMMA WorkOfMovRegister ==
    ASSUME NEW c, Coded(c), NEW word, NEW md
    PROVE  Works(c, translate_mov_register(c, word, md))
<1> DEFINE rd == Operand(word, md, 0)
           rm == Operand(word, md, 1)
           d == allocate_x86_register(c, rm, FALSE)
           e == allocate_x86_register(d, rd, TRUE)
           h == Host("MOV_REGISTER", X86!Low("mov_r64_r64"), rd, rm)
           f == PushMacro(e, h)
<1>1. translate_mov_register(c, word, md) = Dirty(f, rd)
  BY DEF translate_mov_register
<1>2. Sized(h, QuietOps)
  BY QuietPieces
<1>3. Works(c, d) /\ Coded(d)
  BY WorkOfAllocation DEF Works, Grown
<1> HIDE DEF d
<1>4. Works(d, e) /\ Coded(e)
  BY <1>3, WorkOfAllocation DEF Works, Grown
<1> HIDE DEF e, h
<1>5. Works(e, f) /\ Coded(f)
  BY <1>2, <1>4, WorkOfPushes DEF Works, Grown
<1> HIDE DEF f
<1>6. Works(f, Dirty(f, rd))
  BY <1>5, WorkOfDirty
<1> QED
  BY <1>1, <1>3, <1>4, <1>5, <1>6, WorksTwice

\* What addition and subtraction do once their operands are allocated.
LEMMA WorkOfAddSub ==
    ASSUME NEW c, Coded(c), NEW rd, NEW rn, NEW h, NEW is_sub, NEW md,
           \A x : Sized([h EXCEPT !.a = x], QuietOps)
    PROVE  Works(c, AddSub(c, rd, rn, h, is_sub, md))
<1> DEFINE setting == md.name \in {"ADDS", "SUBS"}
           discarded == setting /\ rd = 31
           d == IF discarded THEN c ELSE allocate_x86_register(c, rd, TRUE)
           x == IF discarded THEN R11 ELSE rd
           last == IF setting THEN SetFlags(is_sub) ELSE <<>>
           hs == MovTo(x, rn) \o <<[h EXCEPT !.a = x]>> \o last
           done == PushMacros(d, hs)
<1>1. AddSub(c, rd, rn, h, is_sub, md) = IF discarded THEN done ELSE Dirty(done, rd)
  BY DEF AddSub
<1>2. Works(c, d) /\ Coded(d)
  <2>1. Works(c, c)
    BY GrownByNothing DEF Works, Frame, Kept, Coded
  <2>2. Works(c, allocate_x86_register(c, rd, TRUE))
    BY WorkOfAllocation
  <2>3. d = c \/ d = allocate_x86_register(c, rd, TRUE)
    OBVIOUS
  <2> HIDE DEF d
  <2> QED
    BY <2>1, <2>2, <2>3 DEF Works, Grown
<1>3. AllSized(hs, QuietOps)
  <2>1. AllSized(MovTo(x, rn), QuietOps) /\ AllSized(last, QuietOps)
    BY QuietSequences, SizedSeqs
  <2>2. AllSized(<<[h EXCEPT !.a = x]>>, QuietOps)
    BY SizedSeqs
  <2> HIDE DEF x, last
  <2> QED
    BY <2>1, <2>2, SizedSeqs
<1> HIDE DEF d, hs
<1>4. Works(d, done) /\ Coded(done)
  BY <1>2, <1>3, WorkOfPushes DEF Works, Grown
<1> HIDE DEF done
<1>5. Works(done, Dirty(done, rd))
  BY <1>4, WorkOfDirty
<1>6. Works(c, done) /\ Works(c, Dirty(done, rd))
  BY <1>2, <1>4, <1>5, WorksTwice
<1> QED
  BY <1>1, <1>6

\* translate_add_sub_imm.
LEMMA WorkOfAddSubImm ==
    ASSUME NEW c, Coded(c), NEW word, NEW md, NEW is_sub
    PROVE  Works(c, translate_add_sub_imm(c, word, md, is_sub))
<1> DEFINE rd == Operand(word, md, 0)
           rn == Operand(word, md, 1)
           value == Operand(word, md, 2) * (IF Operand(word, md, 3) = 1 THEN 2^12 ELSE 1)
           h == IF is_sub THEN Host("SUB", X86!Low("sub_r64_imm32"), 0, value)
                ELSE Host("ADD", X86!Low("add_r64_imm32"), 0, value)
           d == allocate_x86_register(c, rn, FALSE)
<1>1. translate_add_sub_imm(c, word, md, is_sub) = AddSub(d, rd, rn, h, is_sub, md)
  BY DEF translate_add_sub_imm
<1>2. \A x : Sized([h EXCEPT !.a = x], QuietOps)
  <2> TAKE x
  <2> HIDE DEF value
  <2>1. \/ [h EXCEPT !.a = x] = Host("SUB", X86!Low("sub_r64_imm32"), x, value)
        \/ [h EXCEPT !.a = x] = Host("ADD", X86!Low("add_r64_imm32"), x, value)
    BY DEF Host
  <2> HIDE DEF h
  <2> QED
    BY <2>1, QuietPieces
<1>3. Works(c, d) /\ Coded(d)
  BY WorkOfAllocation DEF Works, Grown
<1> HIDE DEF d, h, rd, rn, value
<1>4. Works(d, AddSub(d, rd, rn, h, is_sub, md))
  BY <1>2, <1>3, WorkOfAddSub
<1> QED
  BY <1>1, <1>3, <1>4, WorksTwice

\* translate_add_sub_reg, of an instruction that it accepts.
LEMMA WorkOfAddSubReg ==
    ASSUME NEW c, Coded(c), NEW word, NEW md, NEW is_sub
    PROVE  \/ translate_add_sub_reg(c, word, md, is_sub) = Unknown(c)
           \/ Works(c, translate_add_sub_reg(c, word, md, is_sub))
<1> DEFINE rd == Operand(word, md, 0)
           rn == Operand(word, md, 1)
           rm == Operand(word, md, 3)
           h == IF is_sub THEN Host("SUB_REGISTER", X86!Low("sub_r64_r64"), 0, rm)
                ELSE Host("ADD_REGISTER", X86!Low("add_r64_r64"), 0, rm)
           d == allocate_x86_register(c, rn, FALSE)
           e == allocate_x86_register(d, rm, FALSE)
<1>1. translate_add_sub_reg(c, word, md, is_sub) \in {Unknown(c), AddSub(e, rd, rn, h, is_sub, md)}
  BY DEF translate_add_sub_reg
<1>2. \A x : Sized([h EXCEPT !.a = x], QuietOps)
  <2> TAKE x
  <2> HIDE DEF rm
  <2>1. \/ [h EXCEPT !.a = x] = Host("SUB_REGISTER", X86!Low("sub_r64_r64"), x, rm)
        \/ [h EXCEPT !.a = x] = Host("ADD_REGISTER", X86!Low("add_r64_r64"), x, rm)
    BY DEF Host
  <2> HIDE DEF h
  <2> QED
    BY <2>1, QuietPieces
<1>3. Works(c, d) /\ Coded(d)
  BY WorkOfAllocation DEF Works, Grown
<1> HIDE DEF d, h, rd, rn, rm
<1>4. Works(d, e) /\ Coded(e)
  BY <1>3, WorkOfAllocation DEF Works, Grown
<1> HIDE DEF e
<1>5. Works(e, AddSub(e, rd, rn, h, is_sub, md))
  BY <1>2, <1>4, WorkOfAddSub
<1>6. Works(c, AddSub(e, rd, rn, h, is_sub, md))
  BY <1>3, <1>4, <1>5, WorksTwice
<1> QED
  BY <1>1, <1>6

\* translate_and, of an instruction that it accepts.
LEMMA WorkOfAnd ==
    ASSUME NEW c, Coded(c), NEW word, NEW md
    PROVE  \/ translate_and(c, word, md) = Unknown(c)
           \/ Works(c, translate_and(c, word, md))
<1> DEFINE rd == Operand(word, md, 0)
           rn == Operand(word, md, 1)
           rm == Operand(word, md, 3)
           d == allocate_x86_register(c, rn, FALSE)
           e == allocate_x86_register(d, rm, FALSE)
           f == allocate_x86_register(e, rd, TRUE)
           first == IF rd = 31 THEN <<Host("MOV", X86!Low("mov_r64_imm64"), rd, 0)>>
                    ELSE IF rd = rm THEN <<>> ELSE MovTo(rd, rn)
           source == IF rd # 31 /\ rd = rm THEN rn ELSE rm
           h == Host("AND_REGISTER", X86!Low("and_r64_r64"), rd, source)
           hs == first \o <<h>>
           g == PushMacros(f, hs)
<1>1. translate_and(c, word, md) \in {Unknown(c), Dirty(g, rd)}
  BY DEF translate_and
<1>2. AllSized(hs, QuietOps)
  <2>1. AllSized(first, QuietOps)
    BY QuietPieces, QuietSequences, SizedSeqs
  <2>2. AllSized(<<h>>, QuietOps)
    BY QuietPieces, SizedSeqs
  <2> HIDE DEF first, h
  <2> QED
    BY <2>1, <2>2, SizedSeqs
<1>3. Works(c, d) /\ Coded(d)
  BY WorkOfAllocation DEF Works, Grown
<1> HIDE DEF d, hs, rd, rn, rm
<1>4. Works(d, e) /\ Coded(e)
  BY <1>3, WorkOfAllocation DEF Works, Grown
<1> HIDE DEF e
<1>5. Works(e, f) /\ Coded(f)
  BY <1>4, WorkOfAllocation DEF Works, Grown
<1> HIDE DEF f
<1>6. Works(f, g) /\ Coded(g)
  BY <1>2, <1>5, WorkOfPushes DEF Works, Grown
<1> HIDE DEF g
<1>7. Works(g, Dirty(g, rd))
  BY <1>6, WorkOfDirty
<1>8. Works(c, Dirty(g, rd))
  BY <1>3, <1>4, <1>5, <1>6, <1>7, WorksTwice
<1> QED
  BY <1>1, <1>8

-----------------------------------------------------------------------------
(* The epilogues.                                                          *)

\* The stores of flush_dirty_registers.
Stores(c) ==
    [k \in 1 .. Cardinality(DirtyOf(c)) |-> Store(SetToSortSeq(DirtyOf(c), <)[k])]

SetPc(pc) == <<MovRax(pc), StorePc(RAX)>>
PopOne(pc) == <<MovRax(pc), StorePc(RAX), Pop("rbp"), Ret>>

\* The pieces of flush_dirty_registers are stores of seven bytes.
LEMMA StoresAre ==
    ASSUME NEW c, Coded(c)
    PROVE  /\ AllSized(Stores(c), {"STORE"})
           /\ Cardinality(DirtyOf(c)) \in Nat /\ Len(Stores(c)) = Cardinality(DirtyOf(c))
           /\ \A j \in 1 .. Len(Stores(c)) : Stores(c)[j].size = 7
<1>1. Cardinality(DirtyOf(c)) \in Nat
  BY FS_CardinalityType DEF Coded
<1> DEFINE n == Cardinality(DirtyOf(c))
<1>2. Stores(c) = [k \in 1 .. n |-> Stores(c)[k]]
  BY DEF Stores
<1>3. \A k \in 1 .. n : Sized(Stores(c)[k], {"STORE"}) /\ Stores(c)[k].size = 7
  <2> TAKE k \in 1 .. n
  <2> DEFINE r == SetToSortSeq(DirtyOf(c), <)[k]
  <2>1. Stores(c)[k] = Store(r)
    BY DEF Stores
  <2> HIDE DEF r
  <2> QED
    BY <2>1, PieceSizes
<1> HIDE DEF n
<1>4. IsSeq(Stores(c)) /\ Len(Stores(c)) = n
  <2> DEFINE s == Stores(c)
  <2>1. n \in Nat /\ s = [k \in 1 .. n |-> s[k]]
    BY <1>1, <1>2 DEF n
  <2> HIDE DEF s
  <2>2. IsSeq(s) /\ Len(s) = n
    BY <2>1, FunctionIsSeq
  <2> QED
    BY <2>2 DEF s
<1> QED
  BY <1>1, <1>3, <1>4 DEF AllSized, n

\* flush_dirty_registers pushes them.
LEMMA FlushDirtyIs ==
    ASSUME NEW c, Coded(c)
    PROVE  Pushes(c, flush_dirty_registers(c), Stores(c))
<1>1. flush_dirty_registers(c) = PushMacros(c, Stores(c))
  BY DEF flush_dirty_registers, Stores, DirtyOf
<1> QED
  BY <1>1, StoresAre, PushMacrosIs DEF AllSized

\* The six pieces of the full epilogue.
LEMMA FullEpilogueIs ==
    /\ AllSized(FullEpilogue, {"POP", "RET"}) /\ Len(FullEpilogue) = 6
    /\ FullEpilogue[1] = Pop("r15") /\ FullEpilogue[2] = Pop("r14") /\ FullEpilogue[3] = Pop("r13")
    /\ FullEpilogue[4] = Pop("r12") /\ FullEpilogue[5] = Pop("rbp") /\ FullEpilogue[6] = Ret
<1> DEFINE a == Pop("r15")
           b == Pop("r14")
           c == Pop("r13")
           d == Pop("r12")
           e == Pop("rbp")
           f == Ret
           S == {a, b, c, d, e, f}
<1>1. FullEpilogue = <<a, b, c, d, e, f>>
  BY DEF FullEpilogue
<1>2. \A h \in S : Sized(h, {"POP", "RET"})
  <2>1. Sized(a, {"POP"}) /\ Sized(b, {"POP"}) /\ Sized(c, {"POP"}) /\ Sized(d, {"POP"})
        /\ Sized(e, {"POP"}) /\ Sized(f, {"RET"})
    BY PieceSizes
  <2> HIDE DEF a, b, c, d, e, f
  <2> QED
    BY <2>1 DEF Sized
<1> HIDE DEF a, b, c, d, e, f
<1>3. FullEpilogue \in Seq(S) /\ Len(FullEpilogue) = 6
  BY <1>1
<1>4. /\ FullEpilogue[1] = a /\ FullEpilogue[2] = b /\ FullEpilogue[3] = c
      /\ FullEpilogue[4] = d /\ FullEpilogue[5] = e /\ FullEpilogue[6] = f
  BY <1>1
<1>5. \A j \in 1 .. 6 : FullEpilogue[j] \in S
  <2>1. \A j \in 1 .. 6 : j = 1 \/ j = 2 \/ j = 3 \/ j = 4 \/ j = 5 \/ j = 6
    OBVIOUS
  <2> QED
    BY <1>4, <2>1, Zenon
<1> HIDE DEF S
<1>6. AllSized(FullEpilogue, {"POP", "RET"})
  BY <1>2, <1>3, <1>5 DEF AllSized, IsSeq
<1> QED
  BY <1>3, <1>4, <1>6 DEF a, b, c, d, e, f

\* A sequence of pieces is one of more operations.
LEMMA MoreOps ==
    ASSUME NEW hs, NEW Ops, NEW More, AllSized(hs, Ops), Ops \subseteq More
    PROVE  AllSized(hs, More)
BY DEF AllSized, Sized

\* The other sequences of pieces that end a block.
LEMMA EndPieces ==
    /\ \A pc : AllSized(SetPc(pc), {"MOV", "STORE_PC"})
    /\ \A pc : AllSized(PopOne(pc), AllOps)
    /\ \A a, b : AllSized(<<Host("JCC", X86!Low("jcc_rel32"), a, b)>>, AllOps)
    /\ \A a, b : AllSized(<<Host("CMP_FLAG", X86!Low("cmp_mem8_rbp_offset_imm"), a, b)>>, AllOps)
    /\ \A c : AllSized(CountMacro(c), {"ICOUNT"})
    /\ Sized(Host("UD2", X86!Low("ud2"), 0, 0), AllOps)
<1>1. \A pc : AllSized(SetPc(pc), {"MOV", "STORE_PC"})
  <2> TAKE pc
  <2>1. Sized(MovRax(pc), {"MOV", "STORE_PC"}) /\ Sized(StorePc(RAX), {"MOV", "STORE_PC"})
    BY PieceSizes DEF Sized
  <2> QED
    BY <2>1, SizedTuples DEF SetPc
<1>2. \A pc : AllSized(PopOne(pc), AllOps)
  <2> TAKE pc
  <2>1. /\ Sized(MovRax(pc), AllOps) /\ Sized(StorePc(RAX), AllOps)
        /\ Sized(Pop("rbp"), AllOps) /\ Sized(Ret, AllOps)
    BY PieceSizes DEF Sized, AllOps, QuietOps, EndOps
  <2> QED
    BY <2>1, SizedTuples DEF PopOne
<1>3. \A a, b : AllSized(<<Host("JCC", X86!Low("jcc_rel32"), a, b)>>, AllOps)
  <2> TAKE a, b
  <2>1. Sized(Host("JCC", X86!Low("jcc_rel32"), a, b), AllOps)
    BY LowSizes, HostIs DEF Sized, AllOps, EndOps
  <2> QED
    BY <2>1, SizedSeqs
<1>4. \A a, b : AllSized(<<Host("CMP_FLAG", X86!Low("cmp_mem8_rbp_offset_imm"), a, b)>>, AllOps)
  <2> TAKE a, b
  <2>1. Sized(Host("CMP_FLAG", X86!Low("cmp_mem8_rbp_offset_imm"), a, b), AllOps)
    BY LowSizes, HostIs DEF Sized, AllOps, EndOps
  <2> QED
    BY <2>1, SizedSeqs
<1>5. \A c : AllSized(CountMacro(c), {"ICOUNT"})
  <2> TAKE c
  <2> DEFINE h == Host("ICOUNT", X86!Low("add_mem64_rbp_offset_imm"), c.count, 0)
  <2>1. Sized(h, {"ICOUNT"})
    BY LowSizes, HostIs DEF Sized
  <2>2. CountMacro(c) = <<h>> \/ CountMacro(c) = <<>>
    BY DEF CountMacro
  <2> HIDE DEF h
  <2> QED
    BY <2>1, <2>2, SizedSeqs
<1>6. Sized(Host("UD2", X86!Low("ud2"), 0, 0), AllOps)
  BY LowSizes, HostIs DEF Sized, AllOps, EndOps
<1> QED
  BY <1>1, <1>2, <1>3, <1>4, <1>5, <1>6

\* Emitting behind the stores of the dirty registers.
LEMMA GrowthOfEpilogue ==
    ASSUME NEW c, Coded(c), NEW hs, AllSized(hs, AllOps)
    PROVE  LET d == Emit(flush_all(flush_dirty_registers(c)), hs)
           IN  Grown(c, d, AllOps) /\ Frame(c, d) /\ DirtyOf(d) = DirtyOf(c) /\ Queue(d) = <<>>
<1> DEFINE e == flush_dirty_registers(c)
           d == Emit(flush_all(e), hs)
<1>1. Pushes(c, e, Stores(c))
  BY FlushDirtyIs
<1>2. Coded(e)
  BY <1>1 DEF Pushes
<1> HIDE DEF e
<1>3. Pushes(e, d, hs) /\ Queue(d) = <<>>
  BY <1>2, EmitIs DEF AllSized
<1> HIDE DEF d
<1>4. AllSized(Stores(c), AllOps)
  BY StoresAre, MoreOps DEF AllOps, QuietOps
<1>5. Grown(c, e, AllOps) /\ Frame(c, e) /\ Grown(e, d, AllOps) /\ Frame(e, d)
  BY <1>1, <1>2, <1>3, <1>4, PushesGrow
<1>6. Grown(c, d, AllOps)
  BY <1>5, GrownTwice
<1>7. Frame(c, d) /\ DirtyOf(d) = DirtyOf(c)
  BY <1>1, <1>3, <1>5 DEF Frame, Kept, Pushes
<1> QED
  BY <1>3, <1>6, <1>7 DEF d, e

\* terminate_block.
LEMMA GrowthOfTermination ==
    ASSUME NEW c, Coded(c)
    PROVE  /\ Grown(c, terminate_block(c), AllOps) /\ Frame(c, terminate_block(c))
           /\ Queue(terminate_block(c)) = <<>>
<1> DEFINE pc == IF c.is_pc_dynamic THEN <<>> ELSE SetPc(c.guest_address)
           hs == pc \o FullEpilogue
           d == PushMacros(c, CountMacro(c))
           e == Emit(flush_all(flush_dirty_registers(d)), hs)
<1>1. terminate_block(c) = e
  BY DEF terminate_block, SetPc
<1>2. AllSized(hs, AllOps)
  <2>1. {"MOV", "STORE_PC"} \subseteq AllOps /\ {"POP", "RET"} \subseteq AllOps
    BY DEF AllOps, QuietOps, EndOps
  <2>2. AllSized(SetPc(c.guest_address), AllOps) /\ AllSized(FullEpilogue, AllOps)
    BY <2>1, EndPieces, FullEpilogueIs, MoreOps
  <2>3. pc = <<>> \/ pc = SetPc(c.guest_address)
    OBVIOUS
  <2> HIDE DEF pc
  <2> QED
    BY <2>2, <2>3, SizedSeqs
<1>3. Grown(c, d, AllOps) /\ Frame(c, d)
  <2>1. AllSized(CountMacro(c), {"ICOUNT"}) /\ {"ICOUNT"} \subseteq AllOps
    BY EndPieces DEF AllOps, EndOps
  <2>2. AllSized(CountMacro(c), AllOps) /\ IsSeq(CountMacro(c))
    BY <2>1, MoreOps DEF AllSized
  <2> QED
    BY <2>2, PushMacrosIs, PushesGrow
<1> HIDE DEF d, hs
<1>4. Grown(d, e, AllOps) /\ Frame(d, e) /\ Queue(e) = <<>>
  BY <1>2, <1>3, GrowthOfEpilogue DEF Grown
<1> HIDE DEF e
<1>5. Grown(c, e, AllOps) /\ Frame(c, e)
  BY <1>3, <1>4, GrownTwice DEF Frame, Kept
<1> QED
  BY <1>1, <1>4, <1>5

\* The steps of translate_b_cond on the flags.
FlagOf(word) == <<"z", "c", "n", "v">>[(Number(word, 0, 4) \div 2) + 1]
TakenPc(c, word) == c.guest_address + 4 * SignExtend(Number(word, 5, 19), 19)
Tested(c, word) ==
    Emit(flush_all(c), <<Host("CMP_FLAG", X86!Low("cmp_mem8_rbp_offset_imm"), FlagOf(word), 0)>>)
JumpOver(c, condition) ==
    Host("JCC", X86!Low("jcc_rel32"), condition, EpilogueSize(c, c.guest_address + 4))
Jumped(c, condition) == Emit(flush_all(c), <<JumpOver(c, condition)>>)
FallenThrough(c, pc) == Emit(flush_all(flush_dirty_registers(c)), SetPc(pc) \o FullEpilogue)
Branched(c, pc) == Emit(flush_all(flush_dirty_registers(c)), PopOne(pc))

JumpIf(word) == IF TestForZero(Number(word, 0, 4)) THEN "E" ELSE "NE"

\* translate_b_cond is made of them.
LEMMA BCondIs ==
    ASSUME NEW c, Coded(c), NEW word
    PROVE  /\ Number(word, 0, 4) \in 0 .. 7 =>
                translate_b_cond(c, word) =
                  LET tested == Tested(c, word)
                      jumped == Jumped(tested, JumpIf(word))
                  IN  Branched(FallenThrough(jumped, c.guest_address + 4), TakenPc(c, word))
           /\ Number(word, 0, 4) = 14 => translate_b_cond(c, word) = Branched(c, TakenPc(c, word))
           /\ Number(word, 0, 4) \notin 0 .. 7 /\ Number(word, 0, 4) # 14 =>
                translate_b_cond(c, word) = Unknown(c)
<1> DEFINE n == Number(word, 0, 4)
<1>1. Pushes(c, Tested(c, word),
             <<Host("CMP_FLAG", X86!Low("cmp_mem8_rbp_offset_imm"), FlagOf(word), 0)>>)
  BY EmitIs, ShortSeqs DEF Tested
<1>2. Tested(c, word).guest_address = c.guest_address
  BY <1>1 DEF Pushes, Frame
<1>3. ASSUME n \in 0 .. 7
      PROVE translate_b_cond(c, word) =
                  LET tested == Tested(c, word)
                      jumped == Jumped(tested, JumpIf(word))
                  IN  Branched(FallenThrough(jumped, c.guest_address + 4), TakenPc(c, word))
  <2>1. translate_b_cond(c, word) =
          terminate_block_conditional(Tested(c, word), JumpIf(word), c.guest_address + 4,
                                      TakenPc(c, word))
    <3> DEFINE x == terminate_block_conditional(Tested(c, word), JumpIf(word),
                                                c.guest_address + 4, TakenPc(c, word))
               y == Branched(c, TakenPc(c, word))
    <3>1. translate_b_cond(c, word) =
              CASE n \in 0 .. 7 -> x [] n = 14 -> y [] OTHER -> Unknown(c)
      BY Zenon DEF translate_b_cond, Tested, JumpIf, TakenPc, FlagOf, Branched, PopOne
    <3> HIDE DEF n, x, y
    <3>2. n # 14
      BY <1>3
    <3>3. translate_b_cond(c, word) = x
      BY <1>3, <3>1, <3>2
    <3> QED
      BY <3>3 DEF x
  <2> QED
    BY <1>2, <2>1, Zenon DEF terminate_block_conditional, Branched, FallenThrough, Jumped, JumpOver, SetPc,
       PopOne
<1>4. ASSUME n = 14
      PROVE translate_b_cond(c, word) = Branched(c, TakenPc(c, word))
  <2>1. ~(14 \in 0 .. 7)
    OBVIOUS
  <2> QED
    BY <1>4, <2>1, Zenon DEF translate_b_cond, Branched, TakenPc, PopOne
<1>5. ASSUME n \notin 0 .. 7, n # 14
      PROVE translate_b_cond(c, word) = Unknown(c)
  BY <1>5, Zenon DEF translate_b_cond
<1> QED
  BY <1>3, <1>4, <1>5

\* What each of the steps pushes.
LEMMA BCondPushes ==
    ASSUME NEW c, Coded(c)
    PROVE  /\ \A word : Pushes(c, Tested(c, word),
                            <<Host("CMP_FLAG", X86!Low("cmp_mem8_rbp_offset_imm"), FlagOf(word), 0)>>)
           /\ \A condition : Pushes(c, Jumped(c, condition), <<JumpOver(c, condition)>>)
           /\ \A pc : /\ Grown(c, FallenThrough(c, pc), AllOps) /\ Frame(c, FallenThrough(c, pc))
                      /\ DirtyOf(FallenThrough(c, pc)) = DirtyOf(c)
           /\ \A pc : /\ Grown(c, Branched(c, pc), AllOps) /\ Frame(c, Branched(c, pc))
                      /\ DirtyOf(Branched(c, pc)) = DirtyOf(c)
<1>1. \A word : Pushes(c, Tested(c, word),
                  <<Host("CMP_FLAG", X86!Low("cmp_mem8_rbp_offset_imm"), FlagOf(word), 0)>>)
  BY EmitIs, ShortSeqs DEF Tested
<1>2. \A condition : Pushes(c, Jumped(c, condition), <<JumpOver(c, condition)>>)
  BY EmitIs, ShortSeqs DEF Jumped
<1>3. ASSUME NEW pc
      PROVE  /\ Grown(c, FallenThrough(c, pc), AllOps) /\ Frame(c, FallenThrough(c, pc))
             /\ DirtyOf(FallenThrough(c, pc)) = DirtyOf(c)
  <2>1. {"MOV", "STORE_PC"} \subseteq AllOps /\ {"POP", "RET"} \subseteq AllOps
    BY DEF AllOps, QuietOps, EndOps
  <2>2. AllSized(SetPc(pc), AllOps) /\ AllSized(FullEpilogue, AllOps)
    BY <2>1, EndPieces, FullEpilogueIs, MoreOps
  <2>3. AllSized(SetPc(pc) \o FullEpilogue, AllOps)
    BY <2>2, SizedSeqs
  <2> QED
    BY <2>3, GrowthOfEpilogue DEF FallenThrough
<1>4. ASSUME NEW pc
      PROVE  /\ Grown(c, Branched(c, pc), AllOps) /\ Frame(c, Branched(c, pc))
             /\ DirtyOf(Branched(c, pc)) = DirtyOf(c)
  BY EndPieces, GrowthOfEpilogue DEF Branched
<1> QED
  BY <1>1, <1>2, <1>3, <1>4

\* translate_b_cond, of a condition that it accepts.
LEMMA GrowthOfBCond ==
    ASSUME NEW c, Coded(c), NEW word
    PROVE  LET d == translate_b_cond(c, word)
           IN  d = Unknown(c) \/ (Grown(c, d, AllOps) /\ Frame(c, d))
<1> DEFINE pc == TakenPc(c, word)
           tested == Tested(c, word)
           jumped == Jumped(tested, JumpIf(word))
           fallen == FallenThrough(jumped, c.guest_address + 4)
           branched == Branched(fallen, pc)
<1>1. Grown(c, tested, AllOps) /\ Frame(c, tested)
  <2>1. Pushes(c, tested,
            <<Host("CMP_FLAG", X86!Low("cmp_mem8_rbp_offset_imm"), FlagOf(word), 0)>>)
    BY BCondPushes
  <2> HIDE DEF tested
  <2> QED
    BY <2>1, EndPieces, PushesGrow
<1> HIDE DEF tested
<1>2. Grown(tested, jumped, AllOps) /\ Frame(tested, jumped)
  <2>1. Coded(tested)
    BY <1>1 DEF Grown
  <2>2. Pushes(tested, jumped, <<JumpOver(tested, JumpIf(word))>>)
    BY <2>1, BCondPushes
  <2> HIDE DEF jumped
  <2>3. AllSized(<<JumpOver(tested, JumpIf(word))>>, AllOps)
    BY EndPieces DEF JumpOver
  <2> QED
    BY <2>1, <2>2, <2>3, PushesGrow
<1> HIDE DEF jumped
<1>3. Grown(jumped, fallen, AllOps) /\ Frame(jumped, fallen)
  BY <1>2, BCondPushes DEF Grown
<1> HIDE DEF fallen
<1>4. Grown(fallen, branched, AllOps) /\ Frame(fallen, branched)
  BY <1>3, BCondPushes DEF Grown
<1> HIDE DEF branched
<1>5. Grown(c, branched, AllOps)
  <2>1. Coded(tested) /\ Coded(jumped) /\ Coded(fallen)
    BY <1>1, <1>2, <1>3 DEF Grown
  <2>2. Grown(c, jumped, AllOps)
    BY <1>1, <1>2, GrownTwice
  <2>3. Grown(c, fallen, AllOps)
    BY <1>3, <2>2, GrownTwice
  <2> QED
    BY <1>4, <2>3, GrownTwice
<1>6. Frame(c, branched)
  BY <1>1, <1>2, <1>3, <1>4 DEF Frame, Kept
<1>7. Grown(c, Branched(c, pc), AllOps) /\ Frame(c, Branched(c, pc))
  BY BCondPushes
<1>8. translate_b_cond(c, word) \in {branched, Branched(c, pc), Unknown(c)}
  BY BCondIs DEF branched, fallen, jumped, tested
<1> QED
  BY <1>5, <1>6, <1>7, <1>8

-----------------------------------------------------------------------------
(* The switch.                                                             *)

\* A state that differs from another in none of the fields of the code.
LEMMA GrownAlike ==
    ASSUME NEW c, NEW d, NEW e, NEW Ops, Coded(c), Grown(c, d, Ops),
           DOMAIN e = CompilerFields, Kept(d, e), CodeOf(e) = CodeOf(d),
           Queue(e) = Queue(d), DirtyOf(e) = DirtyOf(d)
    PROVE  Grown(c, e, Ops)
<1>1. Grown(d, e, Ops)
  BY GrownByNothing DEF Coded, Grown
<1> QED
  BY <1>1, GrownTwice

\* The compiler's exit flags do not touch the code: the end of the block,
LEMMA EndIs ==
    ASSUME NEW c, NEW d, NEW Ops, Coded(c), Grown(c, d, Ops)
    PROVE  /\ Grown(c, End(d), Ops) /\ End(d).guest_address = d.guest_address
           /\ End(d).status = d.status /\ End(d).is_block_terminated = TRUE
<1>1. DOMAIN d = CompilerFields
  BY DEF Coded, Grown
<1> DEFINE e == End(d)
<1>2. /\ DOMAIN e = CompilerFields /\ Kept(d, e) /\ CodeOf(e) = CodeOf(d)
      /\ Queue(e) = Queue(d) /\ DirtyOf(e) = DirtyOf(d)
      /\ e.guest_address = d.guest_address /\ e.status = d.status /\ e.is_block_terminated = TRUE
  BY <1>1 DEF End, Kept, CodeOf, Queue, DirtyOf, CountOf, CompilerFields
<1> HIDE DEF e
<1>3. Grown(c, e, Ops)
  BY <1>2, GrownAlike
<1> QED
  BY <1>2, <1>3 DEF e

\* an error,
LEMMA UnknownIs ==
    ASSUME NEW c, NEW d, NEW Ops, Coded(c), Grown(c, d, Ops)
    PROVE  /\ Grown(c, Unknown(d), Ops) /\ Unknown(d).guest_address = d.guest_address
           /\ Unknown(d).status = UNKNOWN_INSTRUCTION
           /\ Unknown(d).is_block_terminated = d.is_block_terminated
<1>1. DOMAIN d = CompilerFields
  BY DEF Coded, Grown
<1> DEFINE e == Unknown(d)
<1>2. /\ DOMAIN e = CompilerFields /\ Kept(d, e) /\ CodeOf(e) = CodeOf(d)
      /\ Queue(e) = Queue(d) /\ DirtyOf(e) = DirtyOf(d)
      /\ e.guest_address = d.guest_address /\ e.status = UNKNOWN_INSTRUCTION
      /\ e.is_block_terminated = d.is_block_terminated
  BY <1>1 DEF Unknown, Kept, CodeOf, Queue, DirtyOf, CountOf, CompilerFields
<1> HIDE DEF e
<1>3. Grown(c, e, Ops)
  BY <1>2, GrownAlike
<1> QED
  BY <1>2, <1>3 DEF e

\* a jump,
LEMMA JumpIs ==
    ASSUME NEW c, NEW d, NEW Ops, Coded(c), Grown(c, d, Ops), NEW e, NEW a,
           e = [End(d) EXCEPT !.guest_address = a]
    PROVE  /\ Grown(c, e, Ops)
           /\ e.status = d.status /\ e.is_block_terminated = TRUE
<1>1. DOMAIN d = CompilerFields
  BY DEF Coded, Grown
<1>2. /\ DOMAIN e = CompilerFields /\ Kept(d, e) /\ CodeOf(e) = CodeOf(d)
      /\ Queue(e) = Queue(d) /\ DirtyOf(e) = DirtyOf(d)
      /\ e.status = d.status /\ e.is_block_terminated = TRUE
  BY <1>1 DEF End, Kept, CodeOf, Queue, DirtyOf, CountOf, CompilerFields
<1>3. Grown(c, e, Ops)
  BY <1>2, GrownAlike
<1> QED
  BY <1>2, <1>3

\* and a return.
LEMMA ReturnIs ==
    ASSUME NEW c, NEW d, NEW Ops, Coded(c), Grown(c, d, Ops), NEW e,
           e = [End(d) EXCEPT !.is_pc_dynamic = TRUE]
    PROVE  /\ Grown(c, e, Ops) /\ e.guest_address = d.guest_address
           /\ e.status = d.status /\ e.is_block_terminated = TRUE
<1>1. DOMAIN d = CompilerFields
  BY DEF Coded, Grown
<1>2. /\ DOMAIN e = CompilerFields /\ Kept(d, e) /\ CodeOf(e) = CodeOf(d)
      /\ Queue(e) = Queue(d) /\ DirtyOf(e) = DirtyOf(d)
      /\ e.status = d.status /\ e.is_block_terminated = TRUE
      /\ e.guest_address = d.guest_address
  BY <1>1 DEF End, Kept, CodeOf, Queue, DirtyOf, CountOf, CompilerFields
<1>3. Grown(c, e, Ops)
  BY <1>2, GrownAlike
<1> QED
  BY <1>2, <1>3

\* What the switch leaves to the rest of the loop.
Switched(c, d, opcode) ==
    /\ Grown(c, d, AllOps)
    /\ d.status \in {SUCCESS, UNKNOWN_INSTRUCTION}
    /\ d.is_block_terminated \in BOOLEAN
    /\ d.status = SUCCESS =>
          /\ opcode # "BRANCH_CONDITIONAL" => Grown(c, d, QuietOps)
          /\ opcode # "JUMP" => d.guest_address = c.guest_address
          /\ opcode \in {"JUMP", "BRANCH_CONDITIONAL"} => d.is_block_terminated = TRUE

\* Adding pieces of more operations.
LEMMA GrownMore ==
    ASSUME NEW c, NEW d, NEW Ops, NEW More, Grown(c, d, Ops), Ops \subseteq More
    PROVE  Grown(c, d, More)
BY DEF Grown, Sized

\* An instruction that is translated, whether it ends the block or not, and one that
\* is not translated.
LEMMA SwitchedBy ==
    ASSUME NEW c, Coded(c), c.status = SUCCESS, c.is_block_terminated \in BOOLEAN, NEW opcode
    PROVE  /\ \A d : Works(c, d) /\ opcode \notin {"JUMP", "BRANCH_CONDITIONAL"} =>
                         Switched(c, d, opcode)
           /\ \A d : Works(c, d) => Switched(c, End(d), opcode)
           /\ Switched(c, Unknown(c), opcode) /\ Unknown(c).status = UNKNOWN_INSTRUCTION
           /\ Works(c, c)
<1>1. QuietOps \subseteq AllOps
  BY DEF AllOps
<1>2. ASSUME NEW d, Works(c, d), opcode \notin {"JUMP", "BRANCH_CONDITIONAL"}
      PROVE  Switched(c, d, opcode)
  BY <1>1, <1>2, GrownMore DEF Works, Frame, Switched
<1>3. ASSUME NEW d, Works(c, d)
      PROVE  Switched(c, End(d), opcode)
  <2>1. Coded(d) /\ Grown(c, d, QuietOps) /\ d.guest_address = c.guest_address
        /\ d.status = SUCCESS
    BY <1>3 DEF Works, Frame, Grown
  <2>2. Grown(c, End(d), QuietOps) /\ End(d).guest_address = d.guest_address
        /\ End(d).status = d.status /\ End(d).is_block_terminated = TRUE
    BY <2>1, EndIs
  <2> QED
    BY <1>1, <2>1, <2>2, GrownMore DEF Switched
<1>4. Works(c, c)
  BY GrownByNothing DEF Works, Frame, Kept, Coded
<1>5. Switched(c, Unknown(c), opcode) /\ Unknown(c).status = UNKNOWN_INSTRUCTION
  <2>1. /\ Grown(c, Unknown(c), QuietOps) /\ Unknown(c).status = UNKNOWN_INSTRUCTION
        /\ Unknown(c).is_block_terminated = c.is_block_terminated
    BY <1>4, UnknownIs DEF Works
  <2> QED
    BY <1>1, <2>1, GrownMore DEF Switched, SUCCESS, UNKNOWN_INSTRUCTION
<1> QED
  BY <1>2, <1>3, <1>4, <1>5

\* The switch of an instruction.
LEMMA SwitchIs ==
    ASSUME Coded(t), t.status = SUCCESS, t.is_block_terminated \in BOOLEAN
    PROVE  /\ Switched(t, Switch(t), metadata.ir_opcode)
           /\ metadata.ir_opcode = "BRANCH_CONDITIONAL" =>
                  Switch(t) = End(translate_b_cond(t, t.instruction))
<1> DEFINE op == metadata.ir_opcode
           word == t.instruction
           md == metadata
           d == Switch(t)
<1>1. CASE op = "MOV" /\ md.name \in {"MOVZ", "MOVN", "MOVK"}
  <2>1. d = translate_mov_immediate(t, word, md)
    BY <1>1 DEF Switch
  <2> HIDE DEF d, op, md
  <2> QED
    BY <1>1, <2>1, WorkOfMovImmediate, SwitchedBy DEF op, d
<1>2. CASE op = "MOV" /\ md.name \notin {"MOVZ", "MOVN", "MOVK"}
  <2> DEFINE x == translate_mov_register(t, word, md)
  <2>1. d \in {End(x), End(t)}
    BY <1>2 DEF Switch
  <2>2. Works(t, x) /\ Works(t, t)
    BY WorkOfMovRegister, SwitchedBy
  <2> HIDE DEF d, op, md, x
  <2>3. Switched(t, d, op)
    BY <2>1, <2>2, SwitchedBy
  <2> QED
    BY <1>2, <2>3 DEF op, d
<1>3. CASE op \in {"ADD", "SUB", "CMP"}
  <2> DEFINE x == translate_add_sub_reg(t, word, md, op # "ADD")
             y == translate_add_sub_imm(t, word, md, op # "ADD")
  <2>1. d \in {x, y, End(t)}
    BY <1>3 DEF Switch
  <2>2. Works(t, y) /\ (Works(t, x) \/ x = Unknown(t)) /\ Works(t, t)
    BY WorkOfAddSubImm, WorkOfAddSubReg, SwitchedBy
  <2> HIDE DEF d, op, md, x, y
  <2>3. Switched(t, d, op)
    BY <1>3, <2>1, <2>2, SwitchedBy
  <2> QED
    BY <1>3, <2>3 DEF op, d
<1>4. CASE op = "JUMP"
  <2> DEFINE a == translate_jump(t, word, md)
  <2>1. d = [End(t) EXCEPT !.guest_address = a]
    BY <1>4 DEF Switch
  <2>2. Grown(t, t, QuietOps)
    BY SwitchedBy DEF Works
  <2> HIDE DEF a
  <2>3. Grown(t, d, QuietOps) /\ d.status = SUCCESS /\ d.is_block_terminated = TRUE
    <3> HIDE DEF d, op, md
    <3> QED
      BY <2>1, <2>2, JumpIs, Zenon
  <2>4. Grown(t, d, AllOps)
    BY <2>3, GrownMore DEF AllOps
  <2> QED
    BY <1>4, <2>3, <2>4 DEF Switched
<1>5. CASE op = "BRANCH_CONDITIONAL"
  <2> DEFINE x == translate_b_cond(t, word)
  <2>1. d = End(x)
    BY <1>5 DEF Switch
  <2>2. x = Unknown(t) \/ (Grown(t, x, AllOps) /\ Frame(t, x))
    BY GrowthOfBCond
  <2> HIDE DEF x
  <2>3. Grown(t, x, AllOps) /\ x.guest_address = t.guest_address
        /\ x.status \in {SUCCESS, UNKNOWN_INSTRUCTION}
    <3>1. Grown(t, t, AllOps)
      BY SwitchedBy, GrownMore DEF Works, AllOps
    <3> QED
      BY <2>2, <3>1, UnknownIs DEF Frame
  <2>4. Grown(t, d, AllOps) /\ d.guest_address = x.guest_address
        /\ d.status = x.status /\ d.is_block_terminated = TRUE
    <3> HIDE DEF d, op, md
    <3> QED
      BY <2>1, <2>3, EndIs, Zenon
  <2> QED
    BY <1>5, <2>1, <2>3, <2>4 DEF Switched, x
<1>6. CASE op = "RETURN"
  <2> DEFINE r == Operand(word, md, 0)
             x == allocate_x86_register(t, r, FALSE)
             y == PushMacro(x, StorePc(r))
  <2>1. d = [End(y) EXCEPT !.is_pc_dynamic = TRUE]
    BY <1>6 DEF Switch, Return
  <2> HIDE DEF r
  <2>2. Works(t, x)
    BY WorkOfAllocation
  <2> HIDE DEF x
  <2>3. Works(x, y)
    <3>1. Sized(StorePc(r), QuietOps)
      BY PieceSizes DEF Sized, QuietOps
    <3> QED
      BY <2>2, <3>1, WorkOfPushes DEF Works, Grown
  <2> HIDE DEF y
  <2>4. Works(t, y)
    BY <2>2, <2>3, WorksTwice
  <2>5. Grown(t, d, QuietOps) /\ d.status = SUCCESS /\ d.is_block_terminated = TRUE
        /\ d.guest_address = t.guest_address
    <3>1. Grown(t, y, QuietOps) /\ y.status = SUCCESS /\ y.guest_address = t.guest_address
      BY <2>4 DEF Works, Frame
    <3> HIDE DEF d, op, md
    <3>2. /\ Grown(t, d, QuietOps) /\ d.guest_address = y.guest_address
          /\ d.status = y.status /\ d.is_block_terminated = TRUE
      BY <2>1, <3>1, ReturnIs, Zenon
    <3> QED
      BY <3>1, <3>2, Zenon
  <2>6. Grown(t, d, AllOps)
    BY <2>5, GrownMore DEF AllOps
  <2> QED
    BY <1>6, <2>5, <2>6 DEF Switched
<1>7. CASE op = "TRAP"
  <2> DEFINE x == flush_all(t)
             h == Host("UD2", X86!Low("ud2"), 0, 0)
             y == PushMacro(x, h)
  <2>1. d = Unknown(End(y))
    BY <1>7 DEF Switch
  <2>2. Coded(x) /\ Grown(t, x, AllOps) /\ Frame(t, x)
    <3>1. Pushes(t, x, <<>>)
      <4>1. Coded(x) /\ Frame(t, x) /\ DirtyOf(x) = DirtyOf(t) /\ CodeOf(x) = Pending(t)
            /\ Pending(x) = Pending(t)
        BY FlushIs
      <4>2. Longer(CodeOf(t), Pending(t)) /\ Len(Pending(t)) \in Nat
        BY PendingIs, Lengths
      <4>3. Longer(Pending(t), Pending(t)) /\ Len(<<>>) = 0
        BY <4>2, ShortSeqs DEF Longer
      <4> HIDE DEF x
      <4> QED
        BY <4>1, <4>2, <4>3 DEF Pushes
    <3> HIDE DEF x
    <3>2. AllSized(<<>>, AllOps)
      BY SizedSeqs
    <3> QED
      BY <3>1, <3>2, PushesGrow DEF Grown
  <2> HIDE DEF x
  <2>3. Grown(x, y, AllOps) /\ Frame(x, y)
    <3>1. AllSized(<<h>>, AllOps)
      BY EndPieces, SizedSeqs
    <3> HIDE DEF h
    <3> QED
      BY <2>2, <3>1, PushMacroIs, PushesGrow
  <2> HIDE DEF y
  <2>4. Grown(t, y, AllOps) /\ Coded(y)
    <3>1. Grown(t, y, AllOps)
      BY <2>2, <2>3, GrownTwice
    <3> QED
      BY <3>1 DEF Grown
  <2>5. Grown(t, End(y), AllOps) /\ End(y).is_block_terminated = TRUE
    BY <2>4, EndIs
  <2>6. Grown(t, d, AllOps) /\ d.status = UNKNOWN_INSTRUCTION /\ d.is_block_terminated = TRUE
    BY <2>1, <2>5, UnknownIs
  <2> QED
    BY <1>7, <2>6 DEF Switched, SUCCESS, UNKNOWN_INSTRUCTION
<1>8. CASE op = "AND"
  <2> DEFINE x == translate_and(t, word, md)
  <2>1. d = x
    BY <1>8 DEF Switch
  <2>2. Works(t, x) \/ x = Unknown(t)
    BY WorkOfAnd
  <2> HIDE DEF x, op, md, d
  <2>3. Switched(t, d, op)
    BY <1>8, <2>1, <2>2, SwitchedBy
  <2> QED
    BY <1>8, <2>3 DEF op, d
<1>9. CASE op \notin {"MOV", "ADD", "SUB", "CMP", "JUMP", "BRANCH_CONDITIONAL", "RETURN", "TRAP",
                      "AND"}
  <2>1. d = Unknown(End(t))
    BY <1>9 DEF Switch
  <2>2. Grown(t, t, QuietOps) /\ Grown(t, t, AllOps)
    BY SwitchedBy, GrownMore DEF Works, AllOps
  <2>3. Grown(t, End(t), QuietOps) /\ End(t).is_block_terminated = TRUE
    BY <2>2, EndIs
  <2>4. /\ Grown(t, d, QuietOps) /\ d.status = UNKNOWN_INSTRUCTION
        /\ d.is_block_terminated = TRUE
    BY <2>1, <2>3, UnknownIs
  <2>5. Grown(t, d, AllOps)
    BY <2>4, GrownMore DEF AllOps
  <2> QED
    BY <1>9, <2>4, <2>5 DEF Switched, SUCCESS, UNKNOWN_INSTRUCTION
<1> HIDE DEF d, op, md
<1>10. \/ op \in {"MOV", "ADD", "SUB", "CMP", "JUMP", "BRANCH_CONDITIONAL", "RETURN", "TRAP", "AND"}
       \/ op \notin {"MOV", "ADD", "SUB", "CMP", "JUMP", "BRANCH_CONDITIONAL", "RETURN", "TRAP",
                     "AND"}
  OBVIOUS
<1> QED
  BY <1>1, <1>2, <1>3, <1>4, <1>5, <1>6, <1>7, <1>8, <1>9, <1>10 DEF op, d

-----------------------------------------------------------------------------
(* Pages.                                                                  *)

\* Division with remainder.
LEMMA DivMod ==
    ASSUME NEW a \in Int, NEW q \in Nat \ {0}
    PROVE  /\ a \div q \in Int /\ a % q \in 0 .. q - 1
           /\ a = q * (a \div q) + (a % q)
OBVIOUS

\* Division is monotone.
LEMMA DivMonotone ==
    ASSUME NEW a \in Int, NEW b \in Int, NEW q \in Nat \ {0}, a <= b
    PROVE  a \div q <= b \div q
<1>1. PICK x, y \in Int : x = a \div q /\ y = b \div q
  OBVIOUS
<1>2. PICK m, n \in 0 .. q - 1 : a = q * x + m /\ b = q * y + n
  <2>1. a % q \in 0 .. q - 1 /\ b % q \in 0 .. q - 1
    BY DivMod
  <2>2. a = q * x + (a % q) /\ b = q * y + (b % q)
    BY <1>1, DivMod
  <2> QED
    BY <2>1, <2>2
<1>3. CASE x > y
  <2>1. q * x >= q * (y + 1)
    BY <1>3
  <2>2. q * (y + 1) = q * y + q
    OBVIOUS
  <2> QED
    BY <1>2, <2>1, <2>2
<1> QED
  BY <1>1, <1>3

\* Division of a multiple.
LEMMA DivMultiple ==
    ASSUME NEW x \in Int, NEW q \in Nat \ {0}
    PROVE  (q * x) \div q = x
<1>1. PICK y \in Int, m \in 0 .. q - 1 : y = (q * x) \div q /\ q * x = q * y + m
  BY DivMod
<1>2. CASE x > y
  <2>1. q * x >= q * (y + 1)
    BY <1>2
  <2>2. q * (y + 1) = q * y + q
    OBVIOUS
  <2> QED
    BY <1>1, <2>1, <2>2
<1>3. CASE x < y
  <2>1. q * y >= q * (x + 1)
    BY <1>3
  <2>2. q * (x + 1) = q * x + q
    OBVIOUS
  <2> QED
    BY <1>1, <2>1, <2>2
<1> QED
  BY <1>1, <1>2, <1>3

\* Where the multiple after a begins.
LEMMA NextMultiple ==
    ASSUME NEW a \in Nat, NEW q \in Nat \ {0}
    PROVE  (a + (q - (a % q))) \div q = (a \div q) + 1
<1>1. PICK x \in Int, m \in 0 .. q - 1 : x = a \div q /\ m = a % q /\ a = q * x + m
  BY DivMod
<1>2. a + (q - m) = q * (x + 1)
  BY <1>1
<1>3. (q * (x + 1)) \div q = x + 1
  BY DivMultiple
<1> QED
  BY <1>1, <1>2, <1>3

\* A multiple of four has a remainder of that kind modulo another.
LEMMA FourfoldRemainder ==
    ASSUME NEW a \in Nat, a % 4 = 0, NEW p \in Nat \ {0}
    PROVE  \E k \in 0 .. p - 1 : a % (4 * p) = 4 * k
<1>1. PICK z \in Nat : a = 4 * z
  <2>1. a \div 4 \in Nat /\ a = 4 * (a \div 4)
    OBVIOUS
  <2> QED
    BY <2>1
<1>2. PICK q \in Nat \ {0} : q = 4 * p
  OBVIOUS
<1>3. PICK x \in Int, m \in 0 .. q - 1 : x = a \div q /\ m = a % q /\ a = q * x + m
  <2>1. a \in Int
    OBVIOUS
  <2>2. a \div q \in Int /\ a % q \in 0 .. q - 1 /\ a = q * (a \div q) + (a % q)
    BY <2>1, DivMod
  <2> QED
    BY <2>2, Zenon
<1>4. PICK w \in Int : w = p * x
  OBVIOUS
<1>5. q * x = 4 * w
  BY <1>2, <1>4
<1>6. m = 4 * (z - w)
  BY <1>1, <1>3, <1>5
<1>7. z - w \in 0 .. p - 1
  BY <1>2, <1>6
<1> QED
  BY <1>2, <1>3, <1>6, <1>7
Page(a) == a \div (4 * PAGE)

\* The smaller of two numbers.
LEMMA MinOfTwo ==
    ASSUME NEW x \in Int, NEW y \in Int
    PROVE  Min({x, y}) = IF x <= y THEN x ELSE y
<1> DEFINE z == IF x <= y THEN x ELSE y
           S == {x, y}
<1>1. z \in S /\ \A w \in S : z <= w
  OBVIOUS
<1>2. \A v \in S : (\A w \in S : v <= w) => v = z
  OBVIOUS
<1>3. Min(S) \in S /\ \A w \in S : Min(S) <= w
  BY <1>1, Zenon DEF Min
<1> HIDE DEF z, S
<1>4. Min(S) = z
  BY <1>2, <1>3
<1> QED
  BY <1>4 DEF z, S

\* What is readable at an address of the program,
LEMMA ReadableInside ==
    ASSUME program \in Programs, NEW a \in 0 .. 4 * Len(program) - 1
    PROVE  Len(program) \in Nat /\ ReadableBytes(a) \in Nat \ {0}
<1>1. PICK n \in Nat : n = Len(program)
  BY ProgramsAssumption
<1>2. PICK q \in Nat \ {0} : q = 4 * PAGE
  BY PageAssumption
<1>3. PICK x, y \in Nat \ {0} : x = q - (a % q) /\ y = 4 * n - a
  <2>1. a % q \in 0 .. q - 1
    <3>1. a \in Int
      BY <1>1
    <3> QED
      BY <3>1, DivMod
  <2>2. q - (a % q) \in Nat \ {0}
    BY <2>1
  <2>3. 4 * n - a \in Nat \ {0}
    BY <1>1
  <2> QED
    BY <2>2, <2>3
<1>4. ReadableBytes(a) = Min({x, y})
  BY <1>1, <1>2, <1>3 DEF ReadableBytes
<1>5. Min({x, y}) = IF x <= y THEN x ELSE y
  BY MinOfTwo
<1> QED
  BY <1>1, <1>4, <1>5

\* and how much that is when the address is that of an instruction: up to the next
\* page or to the end of the program.
LEMMA ReadableIs ==
    ASSUME program \in Programs, NEW a \in 0 .. 4 * Len(program) - 1, a % 4 = 0
    PROVE  \E r \in Nat \ {0} :
               /\ ReadableBytes(a) \div 4 = r /\ a + 4 * r <= 4 * Len(program)
               /\ a + 4 * r = 4 * Len(program) \/ Page(a + 4 * r) = Page(a) + 1
<1>1. PICK n \in Nat : n = Len(program)
  BY ProgramsAssumption
<1>2. PICK q \in Nat \ {0} : q = 4 * PAGE
  BY PageAssumption
<1>3. PICK k \in 0 .. PAGE - 1 : a % q = 4 * k
  <2>1. a \in Nat
    BY <1>1
  <2>2. \E k \in 0 .. PAGE - 1 : a % (4 * PAGE) = 4 * k
    BY <2>1, FourfoldRemainder, PageAssumption
  <2> QED
    BY <1>2, <2>2
<1>4. PICK z \in Nat : a = 4 * z
  <2>1. a \div 4 \in Nat /\ a = 4 * (a \div 4)
    BY <1>1
  <2> QED
    BY <2>1
<1>5. PICK r, s \in Nat \ {0} : r = PAGE - k /\ s = n - z
  <2>1. PAGE - k \in Nat \ {0}
    BY PageAssumption
  <2>2. n - z \in Nat \ {0}
    BY <1>1, <1>4
  <2> QED
    BY <2>1, <2>2
<1>6. q - (a % q) = 4 * r /\ 4 * n - a = 4 * s
  BY <1>1, <1>2, <1>3, <1>4, <1>5, PageAssumption
<1>7. ReadableBytes(a) = Min({4 * r, 4 * s})
  BY <1>1, <1>2, <1>6 DEF ReadableBytes
<1>8. Min({4 * r, 4 * s}) = IF 4 * r <= 4 * s THEN 4 * r ELSE 4 * s
  <2>1. 4 * r \in Int /\ 4 * s \in Int
    OBVIOUS
  <2> QED
    BY <2>1, MinOfTwo
<1>9. (a + 4 * r) \div q = (a \div q) + 1
  <2>1. a \in Nat
    BY <1>1
  <2>2. (a + (q - (a % q))) \div q = (a \div q) + 1
    BY <2>1, NextMultiple
  <2> QED
    BY <1>6, <2>2
<1>10. CASE r <= s
  <2>1. ReadableBytes(a) = 4 * r
    BY <1>7, <1>8, <1>10
  <2>2. ReadableBytes(a) \div 4 = r /\ a + 4 * r <= 4 * n
    BY <1>4, <1>5, <1>10, <2>1
  <2> QED
    BY <1>1, <1>2, <1>9, <2>2 DEF Page
<1>11. CASE ~(r <= s)
  <2>1. ReadableBytes(a) = 4 * s
    BY <1>7, <1>8, <1>11
  <2>2. ReadableBytes(a) \div 4 = s /\ a + 4 * s = 4 * n
    BY <1>4, <1>5, <2>1
  <2> QED
    BY <1>1, <2>2
<1> QED
  BY <1>10, <1>11

-----------------------------------------------------------------------------
(* The way of the translation through the guest program.                   *)

AddressOf(c) == c.guest_address
IndexOf(c) == c.i
ReadableOf(c) == c.readable

\* Where the translation last fetched.
Base(c) == AddressOf(c) - 4 * IndexOf(c)

Undecodable(a) == a < 4 * Len(program) /\ MetadataOf[InstructionAt(a)] = Undecoded

Far(n) == n > max_instructions => Page(start) # Page(start + 4 * (n - 1))

Inputs ==
    /\ program \in Programs /\ start \in Nat /\ max_instructions \in Nat \ {0} /\ cpu \in Cpus
    /\ start % 4 # 0 => "STRICT_ALIGNMENT" \in engine_flags \/ ReadableBytes(start) < 4

\* Until the block ends, no error has happened and the address has moved with the count.
GoingOn(l, c) ==
    l \in {"fetch", "loop", "translate"} =>
        /\ c.status = SUCCESS /\ c.is_block_terminated = FALSE
        /\ AddressOf(c) = start + 4 * CountOf(c)

\* A fetch, but the first, is behind a page or is for nothing.
Fetching(l, c) ==
    l = "fetch" =>
        /\ CountOf(c) = 0 \/ start % 4 = 0
        /\ \/ CountOf(c) = 0
           \/ Page(start) < Page(AddressOf(c))
           \/ AddressOf(c) >= 4 * Len(program)
           \/ Undecodable(AddressOf(c))

\* What was fetched at Base is in one page and in the program.
InRun(l, c) ==
    l \in {"loop", "translate"} =>
        /\ IndexOf(c) \in Nat /\ IndexOf(c) < max_instructions /\ IndexOf(c) <= CountOf(c)
        /\ Base(c) \in 0 .. 4 * Len(program) - 1 /\ start % 4 = 0
        /\ ReadableOf(c) = Min({ReadableBytes(Base(c)) \div 4, max_instructions})
        /\ IndexOf(c) <= ReadableOf(c)
        /\ \/ IndexOf(c) = CountOf(c)
           \/ Page(start) < Page(Base(c))
           \/ IndexOf(c) = 0 /\ Undecodable(Base(c))

\* The word that is being translated.
Translating(l, c) ==
    l = "translate" =>
        /\ IndexOf(c) < ReadableOf(c)
        /\ c.instruction = WordOf[InstructionAt(AddressOf(c))]
        /\ c.metadata = MetadataOf[InstructionAt(AddressOf(c))]

Statuses == {SUCCESS, MEMORY_FAULT, PC_ALIGNMENT, UNKNOWN_INSTRUCTION}

Path(l, c) ==
    /\ Inputs /\ l \in Labels /\ c.status \in Statuses
    /\ Coded(c)
    /\ l = "failed" <=> c.status # SUCCESS /\ l # "terminate"
    /\ l \in {"execute", "done"} => Queue(c) = <<>>
    /\ GoingOn(l, c) /\ Fetching(l, c) /\ InRun(l, c) /\ Translating(l, c)
    /\ Far(CountOf(c))

PathInv == Path(label, t)

\* The invariant in the next state.
LEMMA PathPrimed ==
    ASSUME UNCHANGED inputs, Path(label', t')
    PROVE  PathInv'
<1> DEFINE L == label'
           T == t'
<1>1. program' = program /\ start' = start /\ max_instructions' = max_instructions
      /\ engine_flags' = engine_flags /\ cpu' = cpu
  BY DEF inputs
<1>2. Inputs' /\ L \in Labels /\ T.status \in Statuses
  BY <1>1 DEF Path, Inputs, ReadableBytes
<1>3. Coded(t)'
  BY DEF Path, Coded, CodeOf, Queue, DirtyOf, CountOf, IsSeq
<1>4. GoingOn(label, t)'
  BY <1>1 DEF Path, GoingOn, AddressOf, CountOf
<1>5. Fetching(label, t)'
  BY <1>1 DEF Path, Fetching, AddressOf, CountOf, Page, Undecodable, InstructionAt
<1>6. InRun(label, t)'
  BY <1>1 DEF Path, InRun, AddressOf, CountOf, IndexOf, ReadableOf, Base, Page, Undecodable, InstructionAt, ReadableBytes
<1>7. Translating(label, t)'
  BY <1>1 DEF Path, Translating, AddressOf, IndexOf, ReadableOf, InstructionAt
<1>8. Far(CountOf(t))'
  BY <1>1 DEF Path, Far, CountOf, Page
<1>9. (Queue(t))' = Queue(t')
  BY DEF Queue
<1> QED
  BY <1>2, <1>3, <1>4, <1>5, <1>6, <1>7, <1>8, <1>9 DEF PathInv, Path

\* The six pieces of the prologue.
LEMMA PrologueIs ==
    /\ AllSized(Prologue, AllOps) /\ Len(Prologue) = 6
    /\ Prologue[1] = Push("rbp") /\ Prologue[2] = Push("r12") /\ Prologue[3] = Push("r13")
    /\ Prologue[4] = Push("r14") /\ Prologue[5] = Push("r15") /\ Sized(Prologue[6], {"MOV_RBP"})
<1> DEFINE a == Push("rbp")
           b == Push("r12")
           c == Push("r13")
           d == Push("r14")
           e == Push("r15")
           f == Host("MOV_RBP", X86!Low("mov_r64_r64"), 0, 0)
           S == {a, b, c, d, e, f}
<1>1. Prologue = <<a, b, c, d, e, f>>
  BY DEF Prologue
<1>2. Sized(f, {"MOV_RBP"})
  BY LowSizes, HostIs DEF Sized, X86!RegReg
<1>3. \A h \in S : Sized(h, AllOps)
  <2>1. Sized(a, {"PUSH"}) /\ Sized(b, {"PUSH"}) /\ Sized(c, {"PUSH"}) /\ Sized(d, {"PUSH"})
        /\ Sized(e, {"PUSH"})
    BY PieceSizes
  <2> HIDE DEF a, b, c, d, e, f
  <2> QED
    BY <1>2, <2>1 DEF Sized, AllOps, QuietOps, EndOps
<1> HIDE DEF a, b, c, d, e, f
<1>4. Prologue \in Seq(S) /\ Len(Prologue) = 6
  BY <1>1
<1>5. /\ Prologue[1] = a /\ Prologue[2] = b /\ Prologue[3] = c
      /\ Prologue[4] = d /\ Prologue[5] = e /\ Prologue[6] = f
  BY <1>1
<1>6. \A j \in 1 .. 6 : Prologue[j] \in S
  <2>1. \A j \in 1 .. 6 : j = 1 \/ j = 2 \/ j = 3 \/ j = 4 \/ j = 5 \/ j = 6
    OBVIOUS
  <2> QED
    BY <1>5, <2>1, Zenon
<1> HIDE DEF S
<1>7. AllSized(Prologue, AllOps)
  BY <1>3, <1>4, <1>6 DEF AllSized, IsSeq
<1> QED
  BY <1>2, <1>4, <1>5, <1>7 DEF a, b, c, d, e

\* The prologue in the code of a block that has nothing else.
Started(c) ==
    /\ Coded(c) /\ Queue(c) = <<>> /\ CountOf(c) = 0
    /\ Len(CodeOf(c)) = 6
    /\ \A j \in 1 .. 6 : CodeOf(c)[j] = Tag(Prologue[j], 0)

\* The compiler starts so.
LEMMA StartedInit ==
    ASSUME Init
    PROVE  /\ Started(t) /\ AddressOf(t) = start /\ t.status = SUCCESS
           /\ t.is_block_terminated = FALSE /\ t.mappings = <<>> /\ t.is_pc_dynamic = FALSE
<1> DEFINE code == [k \in DOMAIN Prologue |-> Tag(Prologue[k], 0)]
<1>1. DOMAIN Prologue = 1 .. 6
  BY PrologueIs, SeqFacts DEF AllSized
<1>2. code = [k \in 1 .. 6 |-> code[k]] /\ \A k \in 1 .. 6 : code[k] = Tag(Prologue[k], 0)
  BY <1>1
<1>3. t = [code |-> code,
            window |-> <<>>, mapped |-> {}, is_dirty |-> {}, status |-> SUCCESS,
            guest_address |-> start, i |-> 0, readable |-> 0,
            is_block_terminated |-> FALSE, is_pc_dynamic |-> FALSE, count |-> 0,
            mappings |-> <<>>, limited |-> FALSE,
            instruction |-> {}, metadata |-> Undecoded]
  BY DEF Init
<1> HIDE DEF code
<1>4. IsSeq(code) /\ Len(code) = 6
  BY <1>2, FunctionIsSeq
<1>5. /\ DOMAIN t = CompilerFields /\ CodeOf(t) = code /\ Queue(t) = <<>> /\ CountOf(t) = 0
      /\ DirtyOf(t) = {} /\ AddressOf(t) = start /\ t.status = SUCCESS
      /\ t.is_block_terminated = FALSE /\ t.mappings = <<>> /\ t.is_pc_dynamic = FALSE
  BY <1>3 DEF CompilerFields, CodeOf, Queue, CountOf, DirtyOf, AddressOf
<1>6. Coded(t)
  BY <1>4, <1>5, ShortSeqs, FS_EmptySet, BoundsAssumption DEF Coded
<1> QED
  BY <1>2, <1>4, <1>5, <1>6 DEF Started

\* The loop starts on its way.
LEMMA PathInit ==
    ASSUME Init
    PROVE  PathInv
<1>1. /\ Started(t) /\ AddressOf(t) = start /\ t.status = SUCCESS
      /\ t.is_block_terminated = FALSE
  BY StartedInit
<1>2. label = "fetch" /\ Coded(t) /\ CountOf(t) = 0
  BY <1>1 DEF Init, Started
<1>3. Inputs
  BY StartsAssumption, LimitsAssumption DEF Init, Inputs
<1>4. GoingOn(label, t) /\ Fetching(label, t) /\ InRun(label, t) /\ Translating(label, t)
  BY <1>1, <1>2, <1>3 DEF GoingOn, Fetching, InRun, Translating, Inputs
<1>5. Far(0)
  BY <1>3 DEF Far, Inputs
<1>6. label \in Labels /\ t.status \in Statuses
  BY <1>1, <1>2 DEF Labels, Statuses
<1> QED
  BY <1>1, <1>2, <1>3, <1>4, <1>5, <1>6, Zenon DEF PathInv, Path

\* Mapped, Advance and the count after a translated instruction.
After(c) == Advance([Mapped(t, c) EXCEPT !.count = @ + 1])

Over(c) == IndexOf(c) + 1 = max_instructions \/ c.is_block_terminated

\* What they change.
LEMMA AfterIs ==
    ASSUME NEW c, Coded(c), c.is_block_terminated \in BOOLEAN
    PROVE  LET d == After(c)
           IN  /\ Coded(d) /\ CodeOf(d) = CodeOf(c) /\ Queue(d) = Queue(c)
               /\ CountOf(d) = CountOf(c) + 1 /\ d.status = c.status
               /\ ReadableOf(d) = ReadableOf(c) /\ d.is_pc_dynamic = c.is_pc_dynamic
               /\ d.mappings = Mapped(t, c).mappings
               /\ Over(c) => /\ d.is_block_terminated = TRUE /\ AddressOf(d) = AddressOf(c)
                             /\ IndexOf(d) = IndexOf(c)
               /\ ~Over(c) => /\ d.is_block_terminated = FALSE
                              /\ AddressOf(d) = AddressOf(c) + 4 /\ IndexOf(d) = IndexOf(c) + 1
<1> DEFINE a == Mapped(t, c)
           n == CountOf(c) + 1
           b == [a EXCEPT !.count = n]
           d == After(c)
<1>1. /\ DOMAIN a = CompilerFields /\ CodeOf(a) = CodeOf(c) /\ Queue(a) = Queue(c) /\ DirtyOf(a) = DirtyOf(c)
      /\ a.status = c.status /\ AddressOf(a) = AddressOf(c) /\ IndexOf(a) = IndexOf(c)
      /\ ReadableOf(a) = ReadableOf(c) /\ a.is_pc_dynamic = c.is_pc_dynamic
      /\ a.is_block_terminated = c.is_block_terminated /\ CountOf(a) = CountOf(c)
  BY DEF Mapped, Coded, CompilerFields, Kept, CodeOf, Queue, DirtyOf, CountOf, AddressOf,
         IndexOf, ReadableOf
<1>2. d = Advance(b)
  BY <1>1 DEF After, CountOf
<1> HIDE DEF a, d, n
<1>3. /\ DOMAIN b = CompilerFields /\ CodeOf(b) = CodeOf(c) /\ Queue(b) = Queue(c)
      /\ DirtyOf(b) = DirtyOf(c) /\ CountOf(b) = n /\ b.mappings = a.mappings
      /\ b.status = c.status /\ AddressOf(b) = AddressOf(c) /\ IndexOf(b) = IndexOf(c)
      /\ ReadableOf(b) = ReadableOf(c) /\ b.is_pc_dynamic = c.is_pc_dynamic
      /\ b.is_block_terminated = c.is_block_terminated
  BY <1>1 DEF CompilerFields, CodeOf, Queue, DirtyOf, CountOf, AddressOf, IndexOf, ReadableOf
<1>4. Over(b) <=> Over(c)
  BY <1>3 DEF Over
<1> HIDE DEF b
<1>5. CASE Over(b)
  <2>1. d = [b EXCEPT !.limited = ~b.is_block_terminated, !.is_block_terminated = TRUE]
    BY <1>2, <1>5 DEF Advance, Over, IndexOf
  <2>2. /\ DOMAIN d = CompilerFields /\ CodeOf(d) = CodeOf(b) /\ Queue(d) = Queue(b)
        /\ DirtyOf(d) = DirtyOf(b) /\ CountOf(d) = CountOf(b) /\ d.mappings = b.mappings
        /\ d.status = b.status /\ AddressOf(d) = AddressOf(b) /\ IndexOf(d) = IndexOf(b)
        /\ ReadableOf(d) = ReadableOf(b) /\ d.is_pc_dynamic = b.is_pc_dynamic
        /\ d.is_block_terminated = TRUE
    BY <1>3, <2>1 DEF CompilerFields, CodeOf, Queue, DirtyOf, CountOf, AddressOf, IndexOf, ReadableOf
  <2>3. Coded(d) /\ n \in Nat
    BY <1>3, <2>2 DEF Coded, n
  <2> QED
    BY <1>3, <1>4, <1>5, <2>2, <2>3 DEF d, n, a
<1>6. CASE ~Over(b)
  <2> DEFINE x == AddressOf(b) + 4
             y == IndexOf(b) + 1
  <2>1. d = [b EXCEPT !.guest_address = x, !.i = y]
    BY <1>2, <1>6 DEF Advance, Over, AddressOf, IndexOf
  <2> HIDE DEF x, y
  <2>2. /\ DOMAIN d = CompilerFields /\ CodeOf(d) = CodeOf(b) /\ Queue(d) = Queue(b)
        /\ DirtyOf(d) = DirtyOf(b) /\ CountOf(d) = CountOf(b) /\ d.mappings = b.mappings
        /\ d.status = b.status /\ AddressOf(d) = x /\ IndexOf(d) = y
        /\ ReadableOf(d) = ReadableOf(b) /\ d.is_pc_dynamic = b.is_pc_dynamic
        /\ d.is_block_terminated = b.is_block_terminated
    BY <1>3, <2>1 DEF CompilerFields, CodeOf, Queue, DirtyOf, CountOf, AddressOf, IndexOf, ReadableOf
  <2>3. Coded(d) /\ n \in Nat
    BY <1>3, <2>2 DEF Coded, n
  <2>4. d.is_block_terminated = FALSE
    BY <1>3, <1>6, <2>2 DEF Over
  <2> QED
    BY <1>3, <1>4, <1>6, <2>2, <2>3, <2>4 DEF d, n, x, y, a
<1> QED
  BY <1>5, <1>6

\* The head of the outer loop fetches at the address, or ends the block.
LEMMA PathFetch ==
    ASSUME PathInv, Fetch
    PROVE  Path(label', t')
<1>1. /\ Inputs /\ Coded(t) /\ Far(CountOf(t)) /\ t.status = SUCCESS /\ CountOf(t) \in Nat
      /\ t.is_block_terminated = FALSE /\ AddressOf(t) = start + 4 * CountOf(t)
      /\ Fetching("fetch", t)
  BY DEF PathInv, Path, Fetch, GoingOn, Coded
<1>2. start \in Nat /\ max_instructions \in Nat \ {0} /\ program \in Programs
  BY <1>1 DEF Inputs
<1>3. CASE FetchError # SUCCESS
  <2>1. label' = "terminate" /\ t' = [t EXCEPT !.status = FetchError]
    BY <1>3 DEF Fetch
  <2>2. FetchError \in Statuses
    <3>1. CASE AddressOf(t) \notin 0 .. 4 * Len(program) - 1
      BY <3>1 DEF FetchError, AddressOf, Statuses
    <3>2. CASE AddressOf(t) \in 0 .. 4 * Len(program) - 1
      <4>1. PICK n \in Nat \ {0} : n = ReadableBytes(AddressOf(t))
        BY <1>2, <3>2, ReadableInside
      <4>2. n \in 1 .. 3 \/ (n >= 4 /\ n \notin 1 .. 3)
        OBVIOUS
      <4> QED
        BY <3>2, <4>1, <4>2 DEF FetchError, AddressOf, Statuses
    <3> QED
      BY <3>1, <3>2
  <2> HIDE DEF FetchError
  <2>3. /\ DOMAIN t' = CompilerFields /\ Kept(t, t') /\ CodeOf(t') = CodeOf(t)
        /\ Queue(t') = Queue(t) /\ DirtyOf(t') = DirtyOf(t) /\ t'.status = FetchError
    BY <1>1, <2>1 DEF Coded, Kept, CodeOf, Queue, DirtyOf, CountOf, CompilerFields
  <2>4. Coded(t') /\ CountOf(t') = CountOf(t)
    BY <1>1, <2>3 DEF Coded, Kept
  <2> QED
    BY <1>1, <2>1, <2>2, <2>3, <2>4, Zenon DEF Path, GoingOn, Fetching, InRun, Translating, Labels
<1>4. CASE FetchError = SUCCESS
  <2> DEFINE a == AddressOf(t)
             r == Min({ReadableBytes(a) \div 4, max_instructions})
  <2>1. label' = "loop" /\ t' = [t EXCEPT !.i = 0, !.readable = r]
    BY <1>4 DEF Fetch, AddressOf
  <2>2. a \in 0 .. 4 * Len(program) - 1 /\ ReadableBytes(a) >= 4
        /\ ("STRICT_ALIGNMENT" \in engine_flags => a % 4 = 0)
    <3>1. a \in 0 .. 4 * Len(program) - 1
      <4>1. ASSUME a \notin 0 .. 4 * Len(program) - 1
            PROVE  FetchError = MEMORY_FAULT
        <5>1. ReadableBytes(a) = 0
          BY <4>1 DEF ReadableBytes
        <5>2. ~(0 \in 1 .. 3) /\ ~(0 >= 4)
          OBVIOUS
        <5> QED
          BY <4>1, <5>1, <5>2 DEF FetchError, AddressOf
      <4>2. MEMORY_FAULT # SUCCESS
        BY DEF SUCCESS, MEMORY_FAULT
      <4> HIDE DEF a, FetchError
      <4> QED
        BY <1>4, <4>1, <4>2, Zenon
    <3>2. PICK n \in Nat \ {0} : n = ReadableBytes(a)
      BY <1>2, <3>1, ReadableInside
    <3>3. n >= 4
      <4>1. CASE n \in 1 .. 3
        BY <1>4, <3>1, <3>2, <4>1 DEF FetchError, AddressOf, SUCCESS, PC_ALIGNMENT
      <4> QED
        BY <4>1
    <3>4. n \notin 1 .. 3
      BY <3>3
    <3> QED
      BY <1>4, <3>1, <3>2, <3>3, <3>4 DEF FetchError, AddressOf, SUCCESS, PC_ALIGNMENT
  <2>3. start % 4 = 0
    <3>1. CASE CountOf(t) = 0
      <4>1. a = start
        BY <1>1, <1>2, <3>1
      <4> HIDE DEF a
      <4> QED
        <5>1. PICK n \in Nat : n = ReadableBytes(a) /\ n >= 4
          BY <1>2, <2>2, ReadableInside
        <5> QED
          BY <1>1, <2>2, <4>1, <5>1 DEF Inputs
    <3> QED
      BY <1>1, <3>1 DEF Fetching
  <2>4. a % 4 = 0
    BY <1>1, <1>2, <2>3
  <2> HIDE DEF r
  <2>5. /\ DOMAIN t' = CompilerFields /\ CodeOf(t') = CodeOf(t) /\ Queue(t') = Queue(t)
        /\ DirtyOf(t') = DirtyOf(t) /\ t'.status = SUCCESS /\ CountOf(t') = CountOf(t)
        /\ t'.is_block_terminated = FALSE /\ AddressOf(t') = a /\ IndexOf(t') = 0
        /\ ReadableOf(t') = r
    BY <1>1, <2>1 DEF Coded, CodeOf, Queue, DirtyOf, CountOf, CompilerFields, AddressOf, IndexOf,
                      ReadableOf
  <2>6. Coded(t') /\ Base(t') = a
    <3>1. Coded(t')
      BY <1>1, <2>5 DEF Coded
    <3>2. a - 4 * 0 = a
      BY <1>1, <1>2
    <3> QED
      BY <2>5, <3>1, <3>2 DEF Base
  <2>7. r \in Nat \ {0}
    <3>1. PICK k \in Nat \ {0} : ReadableBytes(a) \div 4 = k
      BY <1>2, <2>2, <2>4, ReadableIs
    <3>2. Min({k, max_instructions}) = IF k <= max_instructions THEN k ELSE max_instructions
      BY <1>2, MinOfTwo
    <3> QED
      BY <1>2, <3>1, <3>2 DEF r
  <2>8. CountOf(t) = 0 \/ Page(start) < Page(a) \/ Undecodable(a)
    <3>1. Len(program) \in Nat
      BY <1>2, <2>2, ReadableInside
    <3>2. ~(a >= 4 * Len(program))
      BY <2>2, <3>1
    <3> QED
      BY <1>1, <3>2 DEF Fetching
  <2> HIDE DEF a
  <2>9. InRun("loop", t')
    BY <1>1, <1>2, <2>2, <2>3, <2>5, <2>6, <2>7, <2>8 DEF InRun, r
  <2>10. GoingOn("loop", t') /\ Fetching("loop", t') /\ Translating("loop", t')
    BY <1>1, <2>5 DEF GoingOn, Fetching, Translating, a
  <2> QED
    BY <1>1, <2>1, <2>5, <2>6, <2>9, <2>10 DEF Path, Labels, Statuses
<1> QED
  BY <1>3, <1>4

\* Where an instruction of the run lies.
LEMMA InsideRun ==
    ASSUME PathInv, label \in {"loop", "translate"}
    PROVE  /\ start \in Nat /\ max_instructions \in Nat \ {0} /\ Len(program) \in Nat
           /\ CountOf(t) \in Nat /\ IndexOf(t) \in Nat /\ ReadableOf(t) \in Nat
           /\ AddressOf(t) = start + 4 * CountOf(t) /\ Base(t) \in Nat /\ Base(t) % 4 = 0
           /\ AddressOf(t) = Base(t) + 4 * IndexOf(t) /\ IndexOf(t) <= CountOf(t)
           /\ IndexOf(t) < ReadableOf(t) => AddressOf(t) + 4 <= 4 * Len(program)
           /\ ReadableOf(t) < max_instructions =>
                  \/ Base(t) + 4 * ReadableOf(t) = 4 * Len(program)
                  \/ Page(Base(t) + 4 * ReadableOf(t)) = Page(Base(t)) + 1
<1>1. /\ Inputs /\ Coded(t) /\ CountOf(t) \in Nat
      /\ AddressOf(t) = start + 4 * CountOf(t) /\ InRun("loop", t)
  BY DEF PathInv, Path, GoingOn, InRun, Coded
<1>2. start \in Nat /\ max_instructions \in Nat \ {0} /\ program \in Programs
  BY <1>1 DEF Inputs
<1>3. PICK a, i, n, c \in Nat : a = AddressOf(t) /\ i = IndexOf(t) /\ c = CountOf(t)
                             /\ n = Len(program)
  BY <1>1, <1>2, ProgramsAssumption DEF InRun
<1>4. i <= c /\ start % 4 = 0 /\ a = start + 4 * c
  BY <1>1, <1>3 DEF InRun
<1>5. PICK b \in Nat : b = Base(t)
  BY <1>1, <1>3 DEF InRun
<1>6. b = a - 4 * i /\ b % 4 = 0 /\ a = b + 4 * i
  <2>1. b = a - 4 * i
    BY <1>3, <1>5 DEF Base
  <2>2. b = start + 4 * (c - i)
    BY <1>2, <1>4, <2>1
  <2> QED
    BY <1>2, <1>4, <2>1, <2>2
<1>7. b \in 0 .. 4 * n - 1
  BY <1>1, <1>3, <1>5 DEF InRun
<1>8. PICK k \in Nat \ {0} : /\ ReadableBytes(b) \div 4 = k /\ b + 4 * k <= 4 * n
                             /\ b + 4 * k = 4 * n \/ Page(b + 4 * k) = Page(b) + 1
  BY <1>2, <1>3, <1>6, <1>7, ReadableIs
<1>9. ReadableOf(t) = IF k <= max_instructions THEN k ELSE max_instructions
  <2>1. Min({k, max_instructions}) = IF k <= max_instructions THEN k ELSE max_instructions
    BY <1>2, MinOfTwo
  <2> QED
    <3>1. ReadableOf(t) = Min({ReadableBytes(Base(t)) \div 4, max_instructions})
      BY <1>1 DEF InRun
    <3>2. ReadableOf(t) = Min({k, max_instructions})
      BY <1>5, <1>8, <3>1, Zenon
    <3> QED
      BY <2>1, <3>2, Zenon
<1>10. PICK r \in Nat : r = ReadableOf(t) /\ r <= k /\ (r < max_instructions => r = k)
  BY <1>2, <1>9
<1>11. i < r => a + 4 <= 4 * n
  <2>1. a = b + 4 * i /\ b + 4 * k <= 4 * n /\ r <= k
    BY <1>6, <1>8, <1>10, Zenon
  <2> QED
    BY <2>1
<1>12. r < max_instructions => b + 4 * r = 4 * n \/ Page(b + 4 * r) = Page(b) + 1
  BY <1>8, <1>10
<1> QED
  BY <1>2, <1>3, <1>4, <1>5, <1>6, <1>10, <1>11, <1>12

\* The test of the inner loop reads a word of the run, or goes back to fetch behind it.
LEMMA PathLoop ==
    ASSUME PathInv, Loop
    PROVE  Path(label', t')
<1>1. label = "loop" /\ Inputs /\ Coded(t) /\ Far(CountOf(t)) /\ t.status = SUCCESS
      /\ t.is_block_terminated = FALSE /\ AddressOf(t) = start + 4 * CountOf(t)
      /\ InRun("loop", t)
  BY DEF PathInv, Path, Loop, GoingOn
<1>2. CASE IndexOf(t) < ReadableOf(t)
  <2> DEFINE g == InstructionAt(AddressOf(t))
  <2>1. label' = "translate" /\ t' = [t EXCEPT !.instruction = WordOf[g], !.metadata = MetadataOf[g]]
    BY <1>2 DEF Loop, AddressOf, IndexOf, ReadableOf
  <2>2. /\ DOMAIN t' = CompilerFields /\ CodeOf(t') = CodeOf(t) /\ Queue(t') = Queue(t)
        /\ DirtyOf(t') = DirtyOf(t) /\ t'.status = SUCCESS /\ CountOf(t') = CountOf(t)
        /\ t'.is_block_terminated = FALSE /\ AddressOf(t') = AddressOf(t)
        /\ IndexOf(t') = IndexOf(t) /\ ReadableOf(t') = ReadableOf(t)
        /\ t'.instruction = WordOf[g] /\ t'.metadata = MetadataOf[g]
    BY <1>1, <2>1 DEF Coded, CodeOf, Queue, DirtyOf, CountOf, CompilerFields, AddressOf, IndexOf,
                      ReadableOf
  <2>3. Coded(t') /\ Base(t') = Base(t)
    BY <1>1, <2>2 DEF Coded, Base
  <2>4. InRun("translate", t')
    BY <1>1, <2>2, <2>3 DEF InRun
  <2>5. GoingOn("translate", t') /\ Fetching("translate", t') /\ Translating("translate", t')
    BY <1>1, <1>2, <2>2 DEF GoingOn, Fetching, Translating
  <2> QED
    BY <1>1, <2>1, <2>2, <2>3, <2>4, <2>5 DEF Path, Labels, Statuses
<1>3. CASE ~(IndexOf(t) < ReadableOf(t))
  <2>1. label' = "fetch" /\ t' = t
    BY <1>3 DEF Loop, AddressOf, IndexOf, ReadableOf
  <2>2. PICK i, n, c, b, m \in Nat : /\ i = IndexOf(t) /\ c = CountOf(t) /\ n = Len(program)
                                     /\ b = Base(t) /\ m = max_instructions
    BY <1>1, InsideRun
  <2>3. /\ start \in Nat /\ ReadableOf(t) \in Nat /\ i <= c /\ AddressOf(t) = start + 4 * c
        /\ AddressOf(t) = b + 4 * i
        /\ ReadableOf(t) < m => b + 4 * ReadableOf(t) = 4 * n \/ Page(b + 4 * ReadableOf(t)) = Page(b) + 1
    BY <1>1, <2>2, InsideRun
  <2>4. i = ReadableOf(t) /\ i < m /\ start % 4 = 0
    BY <1>1, <1>3, <2>2, <2>3 DEF InRun
  <2>5. AddressOf(t) = 4 * n \/ Page(AddressOf(t)) = Page(b) + 1
    BY <2>3, <2>4
  <2>6. Page(start) <= Page(b) /\ Page(start) \in Int /\ Page(b) \in Int
    <3>1. start <= b
      BY <2>3
    <3>2. PICK q \in Nat \ {0} : q = 4 * PAGE
      BY PageAssumption
    <3>3. start \in Int /\ b \in Int
      BY <2>3
    <3> QED
      BY <3>1, <3>2, <3>3, DivMonotone, DivMod DEF Page
  <2>7. AddressOf(t) >= 4 * Len(program) \/ Page(start) < Page(AddressOf(t))
    BY <2>2, <2>5, <2>6
  <2>8. Fetching("fetch", t)
    BY <2>4, <2>7 DEF Fetching
  <2>9. GoingOn("fetch", t) /\ InRun("fetch", t) /\ Translating("fetch", t)
    BY <1>1 DEF GoingOn, InRun, Translating
  <2> QED
    BY <1>1, <2>1, <2>8, <2>9 DEF Path, Labels, Statuses
<1> QED
  BY <1>2, <1>3

\* A word that does not decode is fetched again.
LEMMA PathDecodeFails ==
    ASSUME PathInv, DecodeFails
    PROVE  Path(label', t')
<1>1. /\ label = "translate" /\ label' = "fetch" /\ t' = t /\ Inputs /\ Coded(t)
      /\ Far(CountOf(t)) /\ t.status = SUCCESS /\ t.is_block_terminated = FALSE
      /\ AddressOf(t) = start + 4 * CountOf(t) /\ InRun("loop", t) /\ Translating("translate", t)
      /\ t.metadata = Undecoded
  BY DEF PathInv, Path, DecodeFails, GoingOn, InRun, metadata
<1>2. PICK n, a \in Nat : n = Len(program) /\ a = AddressOf(t) /\ a + 4 <= 4 * n
  <2>1. IndexOf(t) < ReadableOf(t)
    BY <1>1 DEF Translating
  <2> QED
    BY <1>1, <2>1, InsideRun
<1>3. a < 4 * n
  BY <1>2
<1>4. Undecodable(AddressOf(t))
  BY <1>1, <1>2, <1>3 DEF Undecodable, Translating
<1>5. Fetching("fetch", t)
  BY <1>1, <1>4 DEF Fetching, InRun
<1>6. GoingOn("fetch", t) /\ InRun("fetch", t) /\ Translating("fetch", t)
  BY <1>1 DEF GoingOn, InRun, Translating
<1> QED
  BY <1>1, <1>5, <1>6 DEF Path, Labels, Statuses

\* The count after one more instruction of the run.
LEMMA FarAfter ==
    ASSUME PathInv, label = "translate", t.metadata # Undecoded
    PROVE  /\ Far(CountOf(t) + 1)
           /\ IndexOf(t) = CountOf(t) \/ Page(start) < Page(Base(t))
<1>1. InRun("translate", t) /\ Translating("translate", t)
  BY DEF PathInv, Path
<1>2. PICK i, c, b, m \in Nat : /\ i = IndexOf(t) /\ c = CountOf(t) /\ b = Base(t)
                                /\ m = max_instructions
  BY InsideRun
<1>3. start \in Nat /\ i <= c /\ AddressOf(t) = start + 4 * c /\ AddressOf(t) = b + 4 * i /\ i < m
  BY <1>1, <1>2, InsideRun DEF InRun
<1>4. i = c \/ Page(start) < Page(b)
  <2>1. ASSUME i = 0, Undecodable(b)
        PROVE  FALSE
    <3>1. b = AddressOf(t)
      BY <1>3, <2>1
    <3> QED
      BY <1>1, <2>1, <3>1 DEF Undecodable, Translating
  <2> QED
    BY <1>1, <1>2, <2>1 DEF InRun
<1>5. CASE i = c
  <2>1. ~(c + 1 > m)
    BY <1>3, <1>5
  <2> QED
    BY <1>2, <1>4, <2>1 DEF Far
<1>6. CASE Page(start) < Page(b)
  <2>1. PICK q \in Nat \ {0} : q = 4 * PAGE
    BY PageAssumption
  <2>2. start + 4 * ((c + 1) - 1) = b + 4 * i
    BY <1>3
  <2>3. b <= b + 4 * i /\ b \in Int /\ b + 4 * i \in Int /\ start \in Int
    BY <1>3
  <2>4. b \div q <= (b + 4 * i) \div q /\ b \div q \in Int /\ (b + 4 * i) \div q \in Int
        /\ start \div q \in Int
    BY <2>3, DivMonotone, DivMod
  <2>5. Page(start) # Page(b + 4 * i)
    BY <1>6, <2>1, <2>4 DEF Page
  <2> QED
    BY <1>2, <1>4, <2>2, <2>5 DEF Far
<1> QED
  BY <1>4, <1>5, <1>6

\* One iteration of the inner loop.
LEMMA PathTranslate ==
    ASSUME PathInv, Translate
    PROVE  Path(label', t')
<1> DEFINE c == Switch(t)
           d == After(c)
<1>1. /\ label = "translate" /\ Inputs /\ Coded(t) /\ Far(CountOf(t)) /\ t.status = SUCCESS
      /\ t.is_block_terminated = FALSE /\ AddressOf(t) = start + 4 * CountOf(t)
      /\ InRun("translate", t) /\ Translating("translate", t) /\ metadata # Undecoded
  BY DEF PathInv, Path, Translate, GoingOn
<1>2. Switched(t, c, metadata.ir_opcode)
  BY <1>1, SwitchIs
<1>3. c.status # SUCCESS => t' = c /\ label' = "terminate"
  BY DEF Translate, After
<1>4. c.status = SUCCESS => t' = d /\ label' = IF d.is_block_terminated THEN "terminate" ELSE "loop"
  BY DEF Translate, After
<1> HIDE DEF c, d
<1>5. Coded(c) /\ Kept(t, c) /\ CountOf(c) = CountOf(t) /\ c.status \in Statuses
  BY <1>2 DEF Switched, Grown, Kept, Statuses
<1>6. CASE c.status # SUCCESS
  <2>1. GoingOn("terminate", c) /\ Fetching("terminate", c) /\ InRun("terminate", c)
        /\ Translating("terminate", c)
    BY DEF GoingOn, Fetching, InRun, Translating
  <2> QED
    BY <1>1, <1>3, <1>5, <1>6, <2>1 DEF Path, Labels
<1>7. CASE c.status = SUCCESS
  <2>1. /\ Coded(d) /\ CountOf(d) = CountOf(t) + 1 /\ d.status = SUCCESS
        /\ ReadableOf(d) = ReadableOf(t)
        /\ Over(c) => d.is_block_terminated = TRUE
        /\ ~Over(c) => /\ d.is_block_terminated = FALSE
                       /\ AddressOf(d) = AddressOf(c) + 4 /\ IndexOf(d) = IndexOf(c) + 1
    <3>1. ReadableOf(c) = ReadableOf(t) /\ c.is_block_terminated \in BOOLEAN
      BY <1>2, <1>5 DEF Kept, ReadableOf, Switched
    <3> QED
      BY <1>5, <1>7, <3>1, AfterIs DEF d
  <2>2. Far(CountOf(d))
    BY <1>1, <2>1, FarAfter DEF metadata
  <2>3. CASE Over(c)
    <3>1. t' = d /\ label' = "terminate"
      BY <1>4, <1>7, <2>1, <2>3
    <3>2. GoingOn("terminate", d) /\ Fetching("terminate", d) /\ InRun("terminate", d)
          /\ Translating("terminate", d)
      BY DEF GoingOn, Fetching, InRun, Translating
    <3> QED
      BY <1>1, <2>1, <2>2, <3>1, <3>2 DEF Path, Labels, Statuses
  <2>4. CASE ~Over(c)
    <3>1. t' = d /\ label' = "loop"
      BY <1>4, <1>7, <2>1, <2>4
    <3>2. AddressOf(c) = AddressOf(t) /\ IndexOf(c) = IndexOf(t)
      <4>1. metadata.ir_opcode # "JUMP"
        BY <1>2, <1>7, <2>4 DEF Switched, Over
      <4> QED
        BY <1>2, <1>5, <1>7, <4>1 DEF Switched, Kept, AddressOf, IndexOf
    <3>3. PICK i, n, k, b, m, r \in Nat :
              /\ i = IndexOf(t) /\ k = CountOf(t) /\ n = Len(program)
              /\ b = Base(t) /\ m = max_instructions /\ r = ReadableOf(t)
      BY <1>1, InsideRun
    <3>4. start \in Nat /\ AddressOf(t) = start + 4 * k /\ AddressOf(t) = b + 4 * i
          /\ i < r /\ i < m /\ i + 1 # m /\ i <= k
      BY <1>1, <2>4, <3>2, <3>3, InsideRun DEF Over, InRun, Translating
    <3>5. AddressOf(d) = start + 4 * (k + 1) /\ IndexOf(d) = i + 1 /\ Base(d) = b
      <4>1. AddressOf(d) = start + 4 * (k + 1) /\ AddressOf(d) = b + 4 * (i + 1) /\ IndexOf(d) = i + 1
        <5>1. AddressOf(d) = AddressOf(t) + 4 /\ IndexOf(d) = i + 1
          BY <2>1, <2>4, <3>2, <3>3, Zenon
        <5>2. PICK a \in Nat : a = AddressOf(t)
          BY <3>4
        <5>3. AddressOf(d) = a + 4 /\ a = start + 4 * k /\ a = b + 4 * i /\ start \in Nat
          BY <3>4, <5>1, <5>2
        <5>4. a + 4 = start + 4 * (k + 1) /\ a + 4 = b + 4 * (i + 1)
          BY <5>3
        <5> QED
          BY <5>1, <5>3, <5>4
      <4> QED
        BY <4>1 DEF Base
    <3>6. i + 1 <= r /\ i + 1 < m /\ i + 1 <= k + 1 /\ i + 1 \in Nat
      BY <3>4
    <3>7. i + 1 = k + 1 \/ Page(start) < Page(b)
      BY <1>1, <3>3, FarAfter DEF metadata
    <3>8. InRun("loop", d)
      BY <1>1, <2>1, <3>3, <3>5, <3>6, <3>7 DEF InRun
    <3>9. GoingOn("loop", d) /\ Fetching("loop", d) /\ Translating("loop", d)
      BY <2>1, <2>4, <3>3, <3>5 DEF GoingOn, Fetching, Translating
    <3> QED
      BY <1>1, <2>1, <2>2, <3>1, <3>8, <3>9 DEF Path, Labels, Statuses
  <2> QED
    BY <2>3, <2>4
<1> QED
  BY <1>6, <1>7

\* The end of a block.
LEMMA PathTerminate ==
    ASSUME PathInv, Terminate
    PROVE  Path(label', t')
<1>1. Inputs /\ Coded(t) /\ Far(CountOf(t)) /\ t.status \in Statuses
  BY DEF PathInv, Path
<1>2. /\ Grown(t, t', AllOps) /\ Frame(t, t') /\ Queue(t') = <<>>
      /\ label' = IF t.status = SUCCESS THEN "execute" ELSE "failed"
  BY <1>1, GrowthOfTermination DEF Terminate
<1>3. Coded(t') /\ CountOf(t') = CountOf(t) /\ t'.status = t.status
  BY <1>2 DEF Grown, Frame, Kept
<1>4. label' \in {"execute", "failed"} /\ (label' = "failed" <=> t'.status # SUCCESS)
  BY <1>2, <1>3
<1>5. GoingOn(label', t') /\ Fetching(label', t') /\ InRun(label', t') /\ Translating(label', t')
  BY <1>4 DEF GoingOn, Fetching, InRun, Translating
<1> QED
  BY <1>1, <1>2, <1>3, <1>4, <1>5 DEF Path, Labels

\* The translation stays on its way through every step.
LEMMA PathNext ==
    ASSUME PathInv, [Next]_vars
    PROVE  PathInv'
<1>1. CASE Fetch
  BY <1>1, PathFetch, PathPrimed DEF Fetch
<1>2. CASE Loop
  BY <1>2, PathLoop, PathPrimed DEF Loop
<1>3. CASE DecodeFails
  BY <1>3, PathDecodeFails, PathPrimed DEF DecodeFails
<1>4. CASE Yield
  <2>1. label = "translate" /\ label' = "terminate" /\ t' = t /\ UNCHANGED inputs
    BY <1>4 DEF Yield
  <2>2. Path("terminate", t)
    BY <2>1 DEF PathInv, Path, GoingOn, Fetching, InRun, Translating, Labels
  <2> QED
    BY <2>1, <2>2, PathPrimed
<1>5. CASE Translate
  BY <1>5, PathTranslate, PathPrimed DEF Translate
<1>6. CASE Terminate
  BY <1>6, PathTerminate, PathPrimed DEF Terminate
<1>7. CASE Execute
  <2>1. label = "execute" /\ label' = "done" /\ t' = t /\ UNCHANGED inputs
    BY <1>7 DEF Execute
  <2>2. Path("done", t)
    BY <2>1 DEF PathInv, Path, GoingOn, Fetching, InRun, Translating, Labels
  <2> QED
    BY <2>1, <2>2, PathPrimed
<1>8. CASE UNCHANGED vars
  <2>1. label' = label /\ t' = t /\ UNCHANGED inputs
    BY <1>8 DEF vars
  <2>2. Path(label', t')
    BY <2>1 DEF PathInv
  <2> QED
    BY <2>1, <2>2, PathPrimed
<1> QED
  BY <1>1, <1>2, <1>3, <1>4, <1>5, <1>6, <1>7, <1>8 DEF Next, Finished

\* The translation stays on its way.
THEOREM TranslationKeepsItsWay == Spec => []PathInv
<1>1. Init => PathInv
  BY PathInit
<1>2. PathInv /\ [Next]_vars => PathInv'
  BY PathNext
<1> QED
  BY <1>1, <1>2, PTL DEF Spec

\* The state of the translation has its type.
THEOREM TranslationTyped == Spec => []TypeOK
<1>1. PathInv => TypeOK
  BY DEF PathInv, Path, Coded, Translating, TypeOK, Statuses, Queue, IndexOf, ReadableOf
<1> QED
  BY <1>1, TranslationKeepsItsWay, PTL

\* max_instructions bounds a block, except one that goes on into another page.
THEOREM LimitBoundsTheBlock == Spec => []LimitHolds
<1>1. PathInv => LimitHolds
  BY DEF PathInv, Path, Far, Page, CountOf, LimitHolds
<1> QED
  BY <1>1, TranslationKeepsItsWay, PTL

-----------------------------------------------------------------------------
(* The size of code.                                                       *)

\* The bytes of the first n pieces.
SizeAt(s, n) == SizeLoop!Fold(0, SizeLoop!Prefix(s, n))

SizedCode(s) == \A j \in 1 .. Len(s) : Sized(s[j], AllOps)

\* Nothing has no size, and one more piece adds its own.
LEMMA SizeAtNext ==
    ASSUME NEW s
    PROVE  /\ SizeAt(s, 0) = 0
           /\ \A n \in Nat : SizeAt(s, n + 1) = SizeAt(s, n) + s[n + 1].size
<1>1. SizeLoop!Prefix(s, 0) = <<>>
  BY DEF SizeLoop!Prefix
<1>2. SizeAt(s, 0) = 0
  BY <1>1, SizeLoop!FoldEmpty DEF SizeAt
<1>3. ASSUME NEW n \in Nat
      PROVE  SizeAt(s, n + 1) = SizeAt(s, n) + s[n + 1].size
  <2>1. SizeAt(s, n + 1) = AddSize(SizeAt(s, n), s[n + 1])
    BY SizeLoop!FoldPrefix DEF SizeAt
  <2> QED
    BY <2>1, Zenon DEF AddSize
<1> QED
  BY <1>2, <1>3

\* The size of a prefix does not depend on what follows it.
LEMMA SizeAtLonger ==
    ASSUME NEW s, NEW u, IsSeq(s), Longer(s, u), NEW n \in 0 .. Len(s)
    PROVE  SizeAt(u, n) = SizeAt(s, n)
<1>1. Len(s) \in Nat
  BY SeqFacts
<1>2. \A j \in 1 .. n : u[j] = s[j]
  BY <1>1 DEF Longer
<1>3. SizeLoop!Prefix(u, n) = SizeLoop!Prefix(s, n)
  BY <1>2 DEF SizeLoop!Prefix
<1> QED
  BY <1>3 DEF SizeAt

\* The size of a prefix is a number, and grows with the prefix.
LEMMA SizeGrows ==
    ASSUME NEW s, IsSeq(s), SizedCode(s), NEW m \in Nat, NEW n \in Nat, m <= n, n <= Len(s)
    PROVE  SizeAt(s, m) \in Nat /\ SizeAt(s, n) \in Nat /\ SizeAt(s, m) <= SizeAt(s, n)
<1>1. Len(s) \in Nat
  BY SeqFacts
<1> DEFINE K == {k \in Nat : k <= Len(s) => SizeAt(s, k) \in Nat}
           J == {k \in Nat : m + k <= Len(s) => SizeAt(s, m) <= SizeAt(s, m + k)}
<1>2. ASSUME NEW k \in Nat, k + 1 <= Len(s)
      PROVE  SizeAt(s, k + 1) = SizeAt(s, k) + s[k + 1].size /\ s[k + 1].size \in Nat
  <2>1. k + 1 \in 1 .. Len(s)
    BY <1>1, <1>2
  <2>2. s[k + 1].size \in Nat
    BY <2>1 DEF SizedCode, Sized
  <2> QED
    BY <2>2, SizeAtNext
<1>3. \A k \in Nat : k \in K
  <2>1. 0 \in K
    BY SizeAtNext
  <2>2. ASSUME NEW k \in Nat, k \in K
        PROVE  k + 1 \in K
    <3> SUFFICES ASSUME k + 1 <= Len(s) PROVE SizeAt(s, k + 1) \in Nat
      OBVIOUS
    <3>1. k <= Len(s)
      BY <1>1
    <3>2. PICK x, y \in Nat : x = SizeAt(s, k) /\ y = s[k + 1].size
      BY <1>2, <2>2, <3>1
    <3>3. SizeAt(s, k + 1) = x + y
      BY <1>2, <3>2
    <3> QED
      BY <3>3
  <2> HIDE DEF K
  <2> QED
    BY <2>1, <2>2, SizeLoop!SetInduction
<1>4. \A k \in Nat : k \in J
  <2>1. 0 \in J
    <3>1. m + 0 = m /\ m <= Len(s)
      BY <1>1
    <3>2. SizeAt(s, m) \in Nat
      BY <1>3, <3>1
    <3> QED
      BY <3>1, <3>2
  <2>2. ASSUME NEW k \in Nat, k \in J
        PROVE  k + 1 \in J
    <3> SUFFICES ASSUME m + (k + 1) <= Len(s)
                 PROVE  SizeAt(s, m) <= SizeAt(s, m + (k + 1))
      OBVIOUS
    <3>1. PICK l \in Nat : l = m + k
      OBVIOUS
    <3>2. m + (k + 1) = l + 1 /\ l + 1 <= Len(s) /\ l <= Len(s) /\ m <= Len(s)
      BY <1>1, <3>1
    <3>3. PICK x, y, z \in Nat : x = SizeAt(s, l) /\ y = s[l + 1].size /\ z = SizeAt(s, m)
      BY <1>2, <1>3, <3>2
    <3>4. SizeAt(s, l + 1) = x + y
      BY <1>2, <3>2, <3>3
    <3>5. z <= x
      BY <2>2, <3>1, <3>2, <3>3
    <3> QED
      BY <3>2, <3>3, <3>4, <3>5
  <2> HIDE DEF J
  <2> QED
    BY <2>1, <2>2, SizeLoop!SetInduction
<1>5. n - m \in Nat /\ m + (n - m) = n /\ m <= Len(s)
  BY <1>1
<1> QED
  BY <1>3, <1>4, <1>5

\* The size of a sequence, and of its first pieces.
LEMMA SizeIs ==
    ASSUME NEW s, IsSeq(s)
    PROVE  /\ Size(s) = SizeAt(s, Len(s))
           /\ \A n \in 0 .. Len(s) : Size(SubSeq(s, 1, n)) = SizeAt(s, n)
<1>1. Len(s) \in Nat
  BY SeqFacts
<1>2. \A u : Size(u) = SizeLoop!Fold(0, u)
  BY DEF Size, SizeLoop!Fold, FoldLeft, SizeLoop!FoldLeft, MapThenFoldSet,
         SizeLoop!MapThenFoldSet, Max, SizeLoop!Max
<1>3. ASSUME NEW n \in 0 .. Len(s)
      PROVE  SizeLoop!Prefix(s, n) = SubSeq(s, 1, n)
  <2>1. PICK S : s \in Seq(S)
    BY DEF IsSeq
  <2>2. n \in Nat /\ n <= Len(s)
    BY <1>1
  <2>3. SubSeq(s, 1, n) = [j \in 1 .. n |-> s[j]]
    BY <2>1, <2>2
  <2> QED
    BY <2>3 DEF SizeLoop!Prefix
<1>4. SizeLoop!Prefix(s, Len(s)) = s
  <2>1. DOMAIN s = 1 .. Len(s) /\ \E S : s \in Seq(S)
    BY SeqFacts DEF IsSeq
  <2> QED
    BY <2>1 DEF SizeLoop!Prefix
<1> QED
  BY <1>2, <1>3, <1>4 DEF SizeAt

-----------------------------------------------------------------------------
(* The debug map.                                                          *)

MappingsOf(c) == c.mappings
OffsetOf(c, k) == c.mappings[k].x86_offset
PcOf(c, k) == c.mappings[k].guest_pc_offset
TagAt(s, j) == s[j].of

\* One entry for each instruction, until the array is full.
Debugged(c) ==
    /\ IsSeq(MappingsOf(c)) /\ Len(MappingsOf(c)) <= CountOf(c)
    /\ "JIT_DEBUG" \in engine_flags /\ Len(MappingsOf(c)) < MAX_MAPPINGS =>
           Len(MappingsOf(c)) = CountOf(c)

\* The instructions of the block are instructions of the program.
Inside(c) ==
    CountOf(c) > 0 => start % 4 = 0 /\ (start \div 4) + CountOf(c) <= Len(program)

\* No code is tagged with an instruction to come.
Tagged(l, c) ==
    l \in {"fetch", "loop", "translate"} =>
        \A j \in 1 .. Len(Pending(c)) :
            TagAt(Pending(c), j) \in Nat /\ TagAt(Pending(c), j) <= CountOf(c)

\* An entry is behind code of earlier instructions only.
Placed(c) ==
    \A k \in 1 .. Len(MappingsOf(c)) :
        \E n \in 0 .. Len(CodeOf(c)) :
            /\ OffsetOf(c, k) = SizeAt(CodeOf(c), n)
            /\ \A j \in 1 .. n : TagAt(CodeOf(c), j) \in Nat /\ TagAt(CodeOf(c), j) < k

Ordered(c) == \A k \in 2 .. Len(MappingsOf(c)) : OffsetOf(c, k - 1) <= OffsetOf(c, k)

Located(c) ==
    \A k \in 1 .. Len(MappingsOf(c)) :
        PcOf(c, k) = 4 * (k - 1) \/ program[(start \div 4) + k].op = "b"

Maps(l, c) ==
    /\ Debugged(c) /\ Inside(c) /\ SizedCode(Pending(c)) /\ Tagged(l, c)
    /\ Placed(c) /\ Ordered(c) /\ Located(c)

MapsInv == Maps(label, t)

\* The invariant in the next state.
LEMMA MapsPrimed ==
    ASSUME UNCHANGED inputs, Maps(label', t')
    PROVE  MapsInv'
<1>1. program' = program /\ start' = start /\ max_instructions' = max_instructions
      /\ engine_flags' = engine_flags /\ cpu' = cpu
  BY DEF inputs
<1>2. Debugged(t)'
  BY <1>1 DEF Maps, Debugged, MappingsOf, CountOf, IsSeq
<1>3. Inside(t)'
  BY <1>1 DEF Maps, Inside, CountOf
<1>4. SizedCode(Pending(t))'
  BY DEF Maps, SizedCode, Pending, CodeOf, Queue, Sized
<1>5. Tagged(label, t)'
  BY DEF Maps, Tagged, TagAt, Pending, CodeOf, Queue, CountOf
<1>6. Placed(t)'
  BY DEF Maps, Placed, MappingsOf, CodeOf, OffsetOf, TagAt, SizeAt
<1>7. Ordered(t)'
  BY DEF Maps, Ordered, MappingsOf, OffsetOf
<1>8. Located(t)'
  BY <1>1 DEF Maps, Located, MappingsOf, PcOf
<1> QED
  BY <1>2, <1>3, <1>4, <1>5, <1>6, <1>7, <1>8 DEF MapsInv, Maps

\* More code leaves the map alone.
LEMMA MapsKept ==
    ASSUME NEW l, NEW c, NEW d, Coded(c), Coded(d), Maps(l, c), MappingsOf(d) = MappingsOf(c),
           CountOf(d) = CountOf(c), Longer(CodeOf(c), CodeOf(d))
    PROVE  Debugged(d) /\ Inside(d) /\ Placed(d) /\ Ordered(d) /\ Located(d)
<1>1. \A k : OffsetOf(d, k) = OffsetOf(c, k) /\ PcOf(d, k) = PcOf(c, k)
  BY DEF OffsetOf, PcOf, MappingsOf
<1>2. Debugged(d) /\ Inside(d)
  BY DEF Maps, Debugged, Inside
<1>3. Ordered(d) /\ Located(d)
  BY <1>1 DEF Maps, Ordered, Located
<1>4. Placed(d)
  <2> SUFFICES ASSUME NEW k \in 1 .. Len(MappingsOf(d))
               PROVE  \E n \in 0 .. Len(CodeOf(d)) :
                         /\ OffsetOf(d, k) = SizeAt(CodeOf(d), n)
                         /\ \A j \in 1 .. n : /\ TagAt(CodeOf(d), j) \in Nat
                                              /\ TagAt(CodeOf(d), j) < k
    BY DEF Placed
  <2>1. PICK n \in 0 .. Len(CodeOf(c)) :
                         /\ OffsetOf(c, k) = SizeAt(CodeOf(c), n)
                         /\ \A j \in 1 .. n : /\ TagAt(CodeOf(c), j) \in Nat
                                              /\ TagAt(CodeOf(c), j) < k
    BY DEF Maps, Placed
  <2>2. PICK x, y \in Nat : x = Len(CodeOf(c)) /\ y = Len(CodeOf(d)) /\ x <= y /\ n \in 0 .. x
    BY <2>1, Lengths DEF Longer
  <2>3. n \in 0 .. y /\ \A j \in 1 .. n : j \in 1 .. x
    BY <2>2
  <2>4. \A j \in 1 .. n : TagAt(CodeOf(d), j) = TagAt(CodeOf(c), j)
    BY <2>2, <2>3 DEF Longer, TagAt
  <2>5. SizeAt(CodeOf(d), n) = SizeAt(CodeOf(c), n)
    BY <2>1, SizeAtLonger DEF Coded
  <2> QED
    BY <1>1, <2>1, <2>2, <2>3, <2>4, <2>5
<1> QED
  BY <1>2, <1>3, <1>4

\* Grown code is sized.
LEMMA GrownSized ==
    ASSUME NEW c, NEW d, NEW Ops, Coded(c), Grown(c, d, Ops), Ops \subseteq AllOps,
           SizedCode(Pending(c))
    PROVE  SizedCode(Pending(d))
<1>1. PICK m, n \in Nat : m = Len(Pending(c)) /\ n = Len(Pending(d))
  BY Lengths DEF Grown
<1>2. ASSUME NEW j \in 1 .. n
      PROVE  Sized(Pending(d)[j], AllOps)
  <2>1. CASE j > m
    BY <1>1, <2>1 DEF Grown, Sized
  <2>2. CASE ~(j > m)
    <3>1. j \in 1 .. m
      BY <2>2
    <3> QED
      BY <1>1, <3>1 DEF Grown, Longer, SizedCode
  <2> QED
    BY <2>1, <2>2
<1> QED
  BY <1>1, <1>2 DEF SizedCode

\* The map is empty at first.
LEMMA MapsInit ==
    ASSUME Init
    PROVE  MapsInv
<1>1. Started(t) /\ t.mappings = <<>>
  BY StartedInit
<1>2. Pending(t) = CodeOf(t) /\ Len(CodeOf(t)) = 6 /\ CountOf(t) = 0
      /\ \A j \in 1 .. 6 : CodeOf(t)[j] = Tag(Prologue[j], 0)
  BY <1>1, PendingIs DEF Started
<1>3. Len(MappingsOf(t)) = 0 /\ IsSeq(MappingsOf(t))
  BY <1>1, ShortSeqs DEF MappingsOf
<1>4. Debugged(t) /\ Inside(t) /\ Placed(t) /\ Ordered(t) /\ Located(t)
  BY <1>2, <1>3 DEF Debugged, Inside, Placed, Ordered, Located
<1>5. SizedCode(Pending(t))
  <2>1. \A j \in 1 .. 6 : Sized(Prologue[j], AllOps)
    BY PrologueIs DEF AllSized
  <2> QED
    BY <1>2, <2>1, TagIs DEF SizedCode, Sized
<1>6. Tagged(label, t)
  <2>1. \A j \in 1 .. 6 : TagAt(CodeOf(t), j) = 0
    BY <1>2, TagIs DEF TagAt
  <2> QED
    BY <1>2, <2>1 DEF Tagged
<1> QED
  BY <1>4, <1>5, <1>6 DEF MapsInv, Maps

\* The instruction that is being translated is the next one of the program.
LEMMA NextInstruction ==
    ASSUME PathInv, label = "translate"
    PROVE  /\ start \in Nat /\ start % 4 = 0
           /\ (start \div 4) + (CountOf(t) + 1) <= Len(program)
           /\ LET g == program[(start \div 4) + (CountOf(t) + 1)]
              IN  g \in Vocabulary /\ t.metadata = MetadataOf[g] /\ t.instruction = WordOf[g]
<1>1. /\ InRun("translate", t) /\ Translating("translate", t) /\ program \in Programs
  BY DEF PathInv, Path, Inputs
<1>2. PICK a, c, n \in Nat : a = AddressOf(t) /\ c = CountOf(t) /\ n = Len(program)
  <2>1. start \in Nat /\ CountOf(t) \in Nat /\ Len(program) \in Nat /\ AddressOf(t) = start + 4 * CountOf(t)
    BY InsideRun
  <2> QED
    BY <2>1
<1>3. start \in Nat /\ start % 4 = 0 /\ a = start + 4 * c /\ a + 4 <= 4 * n
  BY <1>1, <1>2, InsideRun DEF InRun, Translating
<1>4. PICK s \in Nat : s = start \div 4 /\ start = 4 * s
  BY <1>3
<1>5. s + (c + 1) <= n /\ (a \div 4) + 1 = s + (c + 1)
  BY <1>3, <1>4
<1>6. InstructionAt(AddressOf(t)) = program[s + (c + 1)]
  BY <1>2, <1>5 DEF InstructionAt
<1>7. program[s + (c + 1)] \in Vocabulary
  <2>1. program \in Seq(Vocabulary)
    BY <1>1, ProgramsAssumption
  <2>2. s + (c + 1) \in 1 .. n
    BY <1>5
  <2> HIDE DEF Vocabulary
  <2> QED
    BY <1>2, <2>1, <2>2
<1> QED
  BY <1>1, <1>2, <1>3, <1>4, <1>5, <1>6, <1>7 DEF Translating

\* A translated instruction gets its entry, or there is no room for it.
LEMMA MappedIs ==
    ASSUME NEW c, Coded(c), MappingsOf(c) = MappingsOf(t)
    PROVE  LET d == Mapped(t, c)
               new == [x86_offset |-> Size(CodeOf(t)), guest_pc_offset |-> AddressOf(c) - start]
               room == "JIT_DEBUG" \in engine_flags /\ Len(MappingsOf(t)) < MAX_MAPPINGS
           IN  /\ room => MappingsOf(d) = Append(MappingsOf(t), new)
               /\ ~room => MappingsOf(d) = MappingsOf(t)
BY DEF Mapped, MappingsOf, CodeOf, AddressOf, Coded, CompilerFields

\* One iteration of the inner loop.
LEMMA MapsTranslate ==
    ASSUME PathInv, MapsInv, Translate
    PROVE  Maps(label', t')
<1> DEFINE c == Switch(t)
           d == After(c)
<1>1. /\ label = "translate" /\ Coded(t) /\ t.status = SUCCESS /\ t.is_block_terminated = FALSE
      /\ metadata # Undecoded /\ Maps("translate", t)
  BY DEF PathInv, Path, Translate, GoingOn, MapsInv
<1>2. Switched(t, c, metadata.ir_opcode)
  BY <1>1, SwitchIs
<1>3. c.status # SUCCESS => t' = c /\ label' = "terminate"
  BY DEF Translate, After
<1>4. c.status = SUCCESS => t' = d /\ label' = IF d.is_block_terminated THEN "terminate" ELSE "loop"
  BY DEF Translate, After
<1> HIDE DEF c, d
<1>5. /\ Coded(c) /\ Grown(t, c, AllOps) /\ MappingsOf(c) = MappingsOf(t) /\ CountOf(c) = CountOf(t)
      /\ Longer(CodeOf(t), CodeOf(c)) /\ c.is_block_terminated \in BOOLEAN
  BY <1>2 DEF Switched, Grown, Kept, MappingsOf
<1>6. SizedCode(Pending(c))
  BY <1>1, <1>5, GrownSized DEF Maps
<1>7. Debugged(c) /\ Inside(c) /\ Placed(c) /\ Ordered(c) /\ Located(c)
  BY <1>1, <1>5, MapsKept
<1>8. CASE c.status # SUCCESS
  <2>1. Tagged("terminate", c)
    BY DEF Tagged
  <2> QED
    BY <1>3, <1>6, <1>7, <1>8, <2>1 DEF Maps
<1>9. CASE c.status = SUCCESS
  <2>1. /\ Coded(d) /\ CodeOf(d) = CodeOf(c) /\ Queue(d) = Queue(c)
        /\ CountOf(d) = CountOf(c) + 1 /\ MappingsOf(d) = MappingsOf(Mapped(t, c))
    BY <1>5, AfterIs DEF d, MappingsOf
  <2>2. Pending(d) = Pending(c) /\ SizedCode(Pending(d))
    BY <1>6, <2>1 DEF Pending
  <2>3. PICK n, m, x, y \in Nat : /\ n = CountOf(t) /\ m = Len(MappingsOf(t))
                                  /\ x = Len(CodeOf(t)) /\ y = Len(CodeOf(c))
    <3>1. IsSeq(MappingsOf(t))
      BY <1>1 DEF Maps, Debugged
    <3> QED
      BY <1>1, <1>5, <3>1, Lengths, SeqFacts
  <2>4. x <= y /\ CountOf(d) = n + 1 /\ m <= n
    BY <1>1, <1>5, <2>1, <2>3 DEF Longer, Maps, Debugged
  <2>5. Inside(d)
    <3>1. start % 4 = 0 /\ (start \div 4) + (n + 1) <= Len(program)
      BY <1>1, <2>3, NextInstruction
    <3> QED
      BY <2>4, <3>1 DEF Inside
  <2>6. Tagged("loop", d)
    <3> SUFFICES ASSUME NEW j \in 1 .. Len(Pending(c))
                 PROVE  TagAt(Pending(c), j) \in Nat /\ TagAt(Pending(c), j) <= n + 1
      BY <2>2, <2>4 DEF Tagged
    <3>1. PICK p, q \in Nat : p = Len(Pending(t)) /\ q = Len(Pending(c))
      BY <1>1, <1>5, Lengths
    <3>2. CASE j > p
      <4>1. TagAt(Pending(c), j) = n + 1
        BY <1>5, <2>3, <3>1, <3>2 DEF Grown, TagAt
      <4> QED
        BY <4>1
    <3>3. CASE ~(j > p)
      <4>1. j \in 1 .. p
        BY <3>1, <3>3
      <4>2. TagAt(Pending(c), j) = TagAt(Pending(t), j)
        BY <1>5, <3>1, <4>1 DEF Grown, Longer, TagAt
      <4>3. TagAt(Pending(t), j) \in Nat /\ TagAt(Pending(t), j) <= n
        BY <1>1, <2>3, <3>1, <4>1 DEF Maps, Tagged
      <4> QED
        BY <4>2, <4>3
    <3> QED
      BY <3>2, <3>3
  <2> DEFINE new == [x86_offset |-> Size(CodeOf(t)), guest_pc_offset |-> AddressOf(c) - start]
             room == "JIT_DEBUG" \in engine_flags /\ m < MAX_MAPPINGS
  <2>7. CASE ~room
    <3>1. MappingsOf(d) = MappingsOf(t)
      BY <1>5, <2>1, <2>3, <2>7, MappedIs
    <3>2. \A k : OffsetOf(d, k) = OffsetOf(c, k) /\ PcOf(d, k) = PcOf(c, k)
      BY <1>5, <3>1 DEF OffsetOf, PcOf, MappingsOf
    <3>3. MappingsOf(d) = MappingsOf(c)
      BY <1>5, <3>1
    <3>4. Placed(d) /\ Ordered(d) /\ Located(d)
      BY <1>7, <2>1, <3>2, <3>3 DEF Placed, Ordered, Located
    <3>5. Debugged(d)
      <4>1. IsSeq(MappingsOf(d)) /\ Len(MappingsOf(d)) = m /\ m <= n + 1
        BY <1>1, <2>3, <2>4, <3>1 DEF Maps, Debugged
      <4> QED
        BY <2>4, <2>7, <4>1 DEF Debugged
    <3> QED
      BY <1>4, <1>9, <2>2, <2>5, <2>6, <3>4, <3>5 DEF Maps, Tagged
  <2>8. CASE room
    <3>1. MappingsOf(d) = Append(MappingsOf(t), new)
      BY <1>5, <2>1, <2>3, <2>8, MappedIs
    <3> HIDE DEF new
    <3>2. m = n
      BY <1>1, <2>3, <2>8 DEF Maps, Debugged
    <3>3. /\ IsSeq(MappingsOf(d)) /\ Len(MappingsOf(d)) = n + 1
          /\ \A k \in 1 .. n : MappingsOf(d)[k] = MappingsOf(t)[k]
          /\ MappingsOf(d)[n + 1] = new
      <4>1. IsSeq(MappingsOf(t)) /\ Len(MappingsOf(t)) = n
        BY <1>1, <2>3, <3>2 DEF Maps, Debugged
      <4> QED
        BY <3>1, <4>1, AppendIs
    <3>4. \A k \in 1 .. n : OffsetOf(d, k) = OffsetOf(c, k) /\ PcOf(d, k) = PcOf(c, k)
      BY <1>5, <3>3 DEF OffsetOf, PcOf, MappingsOf
    <3>5. OffsetOf(d, n + 1) = SizeAt(CodeOf(t), x) /\ PcOf(d, n + 1) = AddressOf(c) - start
      <4>1. Size(CodeOf(t)) = SizeAt(CodeOf(t), x)
        BY <1>1, <2>3, SizeIs DEF Coded
      <4>2. OffsetOf(d, n + 1) = new.x86_offset /\ PcOf(d, n + 1) = new.guest_pc_offset
        BY <3>3 DEF OffsetOf, PcOf, MappingsOf
      <4> QED
        BY <4>1, <4>2 DEF new
    <3>6. Len(MappingsOf(c)) = n
      BY <1>5, <2>3, <3>2
    <3>7. Placed(d)
      <4> SUFFICES ASSUME NEW k \in 1 .. n + 1
                   PROVE  \E i \in 0 .. y :
                             /\ OffsetOf(d, k) = SizeAt(CodeOf(d), i)
                             /\ \A j \in 1 .. i : /\ TagAt(CodeOf(d), j) \in Nat
                                                  /\ TagAt(CodeOf(d), j) < k
        BY <2>1, <2>3, <3>3 DEF Placed
      <4>1. CASE k \in 1 .. n
        <5>1. OffsetOf(d, k) = OffsetOf(c, k)
          BY <3>4, <4>1
        <5> QED
          BY <1>7, <2>1, <2>3, <3>6, <4>1, <5>1 DEF Placed
      <4>2. CASE k = n + 1
        <5>1. x \in 0 .. y /\ x \in 0 .. Len(CodeOf(t))
          BY <2>3, <2>4
        <5>2. SizeAt(CodeOf(d), x) = SizeAt(CodeOf(t), x)
          BY <1>1, <1>5, <2>1, <5>1, SizeAtLonger DEF Coded
        <5>3. ASSUME NEW j \in 1 .. x
              PROVE  TagAt(CodeOf(d), j) \in Nat /\ TagAt(CodeOf(d), j) < n + 1
          <6>1. PICK p \in Nat : p = Len(Pending(t)) /\ x <= p
            BY <1>1, <2>3, Lengths
          <6>2. j \in 1 .. p
            BY <6>1
          <6>3. CodeOf(d)[j] = CodeOf(t)[j] /\ CodeOf(t)[j] = Pending(t)[j]
            BY <1>1, <1>5, <2>1, <2>3, PendingIs DEF Longer
          <6>4. TagAt(CodeOf(d), j) = TagAt(Pending(t), j)
            BY <6>3 DEF TagAt
          <6>5. TagAt(Pending(t), j) \in Nat /\ TagAt(Pending(t), j) <= n
            BY <1>1, <2>3, <6>1, <6>2 DEF Maps, Tagged
          <6> QED
            BY <6>4, <6>5
        <5> QED
          BY <3>5, <4>2, <5>1, <5>2, <5>3
      <4> QED
        BY <4>1, <4>2
    <3>8. Ordered(d)
      <4> SUFFICES ASSUME NEW k \in 2 .. n + 1
                   PROVE  OffsetOf(d, k - 1) <= OffsetOf(d, k)
        BY <3>3 DEF Ordered
      <4>1. k - 1 \in 1 .. n
        OBVIOUS
      <4>2. CASE k \in 2 .. n
        <5>1. OffsetOf(c, k - 1) <= OffsetOf(c, k)
          BY <1>7, <3>6, <4>2 DEF Ordered
        <5>2. k \in 1 .. n
          BY <4>2
        <5> QED
          BY <3>4, <4>1, <5>1, <5>2
      <4>3. CASE k = n + 1
        <5>1. PICK i \in 0 .. x : OffsetOf(t, k - 1) = SizeAt(CodeOf(t), i)
          BY <1>1, <2>3, <3>2, <4>1 DEF Maps, Placed
        <5>2. OffsetOf(d, k - 1) = SizeAt(CodeOf(t), i)
          BY <1>5, <3>4, <4>1, <5>1 DEF OffsetOf, MappingsOf
        <5>3. SizedCode(CodeOf(t)) /\ IsSeq(CodeOf(t))
          <6>1. PICK p \in Nat : p = Len(Pending(t)) /\ x <= p
            BY <1>1, <2>3, Lengths
          <6>2. \A j \in 1 .. x : j \in 1 .. p
            BY <6>1
          <6>3. \A j \in 1 .. x : CodeOf(t)[j] = Pending(t)[j]
            BY <1>1, <2>3, PendingIs DEF Longer
          <6> QED
            BY <1>1, <2>3, <6>1, <6>2, <6>3 DEF Maps, SizedCode, Coded
        <5>4. i \in Nat /\ i <= x /\ x <= Len(CodeOf(t))
          BY <2>3, <5>1
        <5>5. SizeAt(CodeOf(t), i) <= SizeAt(CodeOf(t), x)
          BY <5>3, <5>4, SizeGrows
        <5> QED
          BY <3>5, <4>3, <5>2, <5>5
      <4> QED
        BY <4>2, <4>3
    <3>9. Located(d)
      <4> SUFFICES ASSUME NEW k \in 1 .. n + 1
                   PROVE  PcOf(d, k) = 4 * (k - 1) \/ program[(start \div 4) + k].op = "b"
        BY <3>3 DEF Located
      <4>1. CASE k \in 1 .. n
        BY <1>7, <3>4, <3>6, <4>1 DEF Located
      <4>2. CASE k = n + 1 /\ metadata.ir_opcode # "JUMP"
        <5>1. AddressOf(c) = start + 4 * n /\ start \in Nat
          <6>1. AddressOf(c) = AddressOf(t)
            BY <1>2, <1>9, <4>2 DEF Switched, AddressOf
          <6> QED
            BY <1>1, <2>3, <6>1, InsideRun
        <5>2. AddressOf(c) - start = 4 * (k - 1)
          BY <4>2, <5>1
        <5> QED
          BY <3>5, <4>2, <5>2
      <4>3. CASE k = n + 1 /\ metadata.ir_opcode = "JUMP"
        <5> DEFINE g == program[(start \div 4) + (n + 1)]
        <5>1. g \in Vocabulary /\ metadata = MetadataOf[g]
          BY <1>1, <2>3, NextInstruction DEF metadata
        <5> HIDE DEF g, Vocabulary, MetadataOf
        <5>2. g.op = "b"
          BY <1>1, <4>3, <5>1, BranchesAssumption
        <5> QED
          BY <4>3, <5>2 DEF g
      <4> QED
        BY <4>1, <4>2, <4>3
    <3>10. Debugged(d)
      BY <2>4, <3>3 DEF Debugged
    <3> QED
      BY <1>4, <1>9, <2>2, <2>5, <2>6, <3>7, <3>8, <3>9, <3>10 DEF Maps, Tagged
  <2> QED
    BY <2>7, <2>8
<1> QED
  BY <1>8, <1>9

\* The map stays in order through every step.
LEMMA MapsNext ==
    ASSUME PathInv, MapsInv, [Next]_vars
    PROVE  MapsInv'
<1>1. Coded(t) /\ Maps(label, t)
  BY DEF PathInv, Path, MapsInv
<1>2. ASSUME UNCHANGED inputs, Coded(t'), MappingsOf(t') = MappingsOf(t), CountOf(t') = CountOf(t),
             CodeOf(t') = CodeOf(t), Queue(t') = Queue(t),
             label' \in {"fetch", "loop", "translate"} => label \in {"fetch", "loop", "translate"}
      PROVE  MapsInv'
  <2>1. Pending(t') = Pending(t)
    BY <1>2 DEF Pending
  <2>2. Longer(CodeOf(t), CodeOf(t'))
    BY <1>1, <1>2, Lengths DEF Longer
  <2>3. Debugged(t') /\ Inside(t') /\ Placed(t') /\ Ordered(t') /\ Located(t')
    BY <1>1, <1>2, <2>2, MapsKept
  <2>4. SizedCode(Pending(t')) /\ Tagged(label', t')
    BY <1>1, <1>2, <2>1 DEF Maps, Tagged
  <2> QED
    BY <1>2, <2>3, <2>4, MapsPrimed DEF Maps
<1>3. CASE Fetch
  <2>1. PICK v, w : t' = [t EXCEPT !.status = v] \/ t' = [t EXCEPT !.i = 0, !.readable = w]
    BY <1>3, Zenon DEF Fetch
  <2>2. label = "fetch" /\ UNCHANGED inputs
    BY <1>3 DEF Fetch
  <2>3. /\ DOMAIN t' = CompilerFields /\ MappingsOf(t') = MappingsOf(t) /\ CountOf(t') = CountOf(t)
        /\ CodeOf(t') = CodeOf(t) /\ Queue(t') = Queue(t) /\ DirtyOf(t') = DirtyOf(t)
    BY <1>1, <2>1 DEF Coded, CompilerFields, MappingsOf, CountOf, CodeOf, Queue, DirtyOf
  <2>4. Coded(t')
    BY <1>1, <2>3 DEF Coded
  <2> QED
    BY <1>2, <2>2, <2>3, <2>4
<1>4. CASE Loop
  <2>1. PICK v, w : t' = t \/ t' = [t EXCEPT !.instruction = v, !.metadata = w]
    BY <1>4, Zenon DEF Loop
  <2>2. label = "loop" /\ UNCHANGED inputs
    BY <1>4 DEF Loop
  <2>3. /\ DOMAIN t' = CompilerFields /\ MappingsOf(t') = MappingsOf(t) /\ CountOf(t') = CountOf(t)
        /\ CodeOf(t') = CodeOf(t) /\ Queue(t') = Queue(t) /\ DirtyOf(t') = DirtyOf(t)
    BY <1>1, <2>1 DEF Coded, CompilerFields, MappingsOf, CountOf, CodeOf, Queue, DirtyOf
  <2>4. Coded(t')
    BY <1>1, <2>3 DEF Coded
  <2> QED
    BY <1>2, <2>2, <2>3, <2>4
<1>5. CASE Translate
  BY <1>5, MapsTranslate, MapsPrimed DEF Translate
<1>6. CASE Terminate
  <2>1. Grown(t, t', AllOps) /\ label' \notin {"fetch", "loop", "translate"} /\ UNCHANGED inputs
    BY <1>1, <1>6, GrowthOfTermination DEF Terminate
  <2>2. Coded(t') /\ MappingsOf(t') = MappingsOf(t) /\ CountOf(t') = CountOf(t)
        /\ Longer(CodeOf(t), CodeOf(t'))
    BY <2>1 DEF Grown, Kept, MappingsOf
  <2>3. Debugged(t') /\ Inside(t') /\ Placed(t') /\ Ordered(t') /\ Located(t')
    BY <1>1, <2>2, MapsKept
  <2>4. SizedCode(Pending(t'))
    BY <1>1, <2>1, GrownSized DEF Maps
  <2>5. Tagged(label', t')
    BY <2>1 DEF Tagged
  <2> QED
    BY <2>1, <2>3, <2>4, <2>5, MapsPrimed DEF Maps
<1>7. CASE DecodeFails \/ Yield \/ Execute \/ UNCHANGED vars
  <2>1. t' = t /\ UNCHANGED inputs
    BY <1>7 DEF DecodeFails, Yield, Execute, vars
  <2>2. label' \in {"fetch", "loop", "translate"} => label \in {"fetch", "loop", "translate"}
    BY <1>7 DEF DecodeFails, Yield, Execute, vars
  <2> QED
    BY <1>1, <1>2, <2>1, <2>2
<1> QED
  BY <1>3, <1>4, <1>5, <1>6, <1>7 DEF Next, Finished

\* The debug map stays in order.
THEOREM DebugMapStaysInOrder == Spec => []MapsInv
<1>1. Init => MapsInv
  BY MapsInit
<1>2. PathInv /\ MapsInv /\ [Next]_vars => MapsInv'
  BY MapsNext
<1> QED
  BY <1>1, <1>2, TranslationKeepsItsWay, PTL DEF Spec

\* The instructions of a block.
LEMMA ExecutedIs ==
    ASSUME PathInv, Inside(t)
    PROVE  /\ CountOf(t) \in Nat
           /\ \A k \in 1 .. CountOf(t) : Executed[k] = program[(start \div 4) + k]
           /\ CountOf(t) > 0 => Last(Executed) = program[(start \div 4) + CountOf(t)]
<1>1. CountOf(t) \in Nat /\ start \in Nat /\ program \in Seq(Vocabulary)
  BY ProgramsAssumption DEF PathInv, Path, Inputs, Coded
<1>2. PICK n, s, l \in Nat : n = CountOf(t) /\ s = start \div 4 /\ l = Len(program)
  <2>1. Len(program) \in Nat
    BY <1>1
  <2>2. start \div 4 \in Nat
    BY <1>1
  <2> QED
    BY <1>1, <2>1, <2>2
<1>3. CASE n = 0
  BY <1>2, <1>3
<1>4. CASE n > 0
  <2>1. s + n <= l
    BY <1>2, <1>4 DEF Inside
  <2>2. Executed = SubSeq(program, s + 1, s + n)
    BY <1>2 DEF Executed, CountOf
  <2> HIDE DEF Vocabulary
  <2>3. Len(Executed) = n /\ \A k \in 1 .. n : Executed[k] = program[s + k]
    <3>1. s + 1 \in 1 .. l + 1 /\ s + n \in s + 1 - 1 .. l /\ (s + n) - (s + 1) + 1 = n
      BY <1>4, <2>1
    <3>2. SubSeq(program, s + 1, s + n) = [k \in 1 .. n |-> program[s + k]]
      <4>1. \A k \in 1 .. n : (s + 1) + k - 1 = s + k
        OBVIOUS
      <4> QED
        BY <1>1, <1>2, <1>4, <2>1, <3>1, <4>1
    <3>3. Len(SubSeq(program, s + 1, s + n)) = n
      BY <1>1, <1>2, <1>4, <2>1, <3>1
    <3> QED
      BY <2>2, <3>2, <3>3
  <2> QED
    BY <1>2, <1>4, <2>3 DEF Last
<1> QED
  BY <1>2, <1>3, <1>4

\* The debug map never blames an earlier instruction, is in order, and has the guest
\* addresses of all instructions but jumps.
THEOREM DebugMapIsUsable == Spec => []MappingsUsable
<1>1. ASSUME PathInv, MapsInv
      PROVE  MappingsUsable
  <2> SUFFICES ASSUME NEW k \in DOMAIN t.mappings
               PROVE  LET mine == {j \in DOMAIN t.code : t.code[j].of = k}
                      IN  /\ mine # {} =>
                                t.mappings[k].x86_offset <= Size(SubSeq(t.code, 1, Min(mine) - 1))
                          /\ k > 1 => t.mappings[k - 1].x86_offset <= t.mappings[k].x86_offset
                          /\ Executed[k].op # "b" => t.mappings[k].guest_pc_offset = 4 * (k - 1)
    BY DEF MappingsUsable
  <2> DEFINE mine == {j \in DOMAIN CodeOf(t) : TagAt(CodeOf(t), j) = k}
  <2>1. Maps(label, t) /\ Coded(t) /\ IsSeq(CodeOf(t)) /\ IsSeq(MappingsOf(t)) /\ Inside(t)
    BY <1>1 DEF MapsInv, Maps, PathInv, Path, Coded, Debugged
  <2>2. PICK m, x \in Nat : m = Len(MappingsOf(t)) /\ x = Len(CodeOf(t)) /\ k \in 1 .. m
                            /\ DOMAIN CodeOf(t) = 1 .. x
    BY <2>1, SeqFacts DEF MappingsOf
  <2>3. m <= CountOf(t) /\ CountOf(t) \in Nat
    BY <2>1, <2>2 DEF Maps, Debugged, Coded
  <2>4. PICK n \in 0 .. x :
            /\ OffsetOf(t, k) = SizeAt(CodeOf(t), n)
            /\ \A j \in 1 .. n : TagAt(CodeOf(t), j) \in Nat /\ TagAt(CodeOf(t), j) < k
    BY <2>1, <2>2 DEF Maps, Placed
  <2>5. ASSUME mine # {}
        PROVE  OffsetOf(t, k) <= Size(SubSeq(CodeOf(t), 1, Min(mine) - 1))
    <3>1. mine \in SUBSET Nat
      BY <2>2
    <3>2. PICK z \in mine : \A w \in mine : z <= w
      BY <2>5, <3>1, SizeLoop!LeastNatural
    <3>3. Min(mine) \in mine
      <4>1. \E v \in mine : \A w \in mine : v <= w
        BY <3>2
      <4> HIDE DEF mine
      <4> QED
        BY <4>1, Zenon DEF Min
    <3>4. PICK y \in 1 .. x : y = Min(mine) /\ TagAt(CodeOf(t), y) = k
      BY <2>2, <3>3
    <3> HIDE DEF mine
    <3>5. ~(y <= n)
      <4> SUFFICES ASSUME y <= n PROVE FALSE
        OBVIOUS
      <4>1. y \in 1 .. n
        OBVIOUS
      <4> QED
        BY <2>2, <2>4, <3>4, <4>1
    <3>6. n \in Nat /\ y - 1 \in Nat /\ n <= y - 1 /\ y - 1 <= Len(CodeOf(t)) /\ y - 1 \in 0 .. Len(CodeOf(t))
      BY <2>2, <3>5
    <3>7. SizedCode(CodeOf(t))
      <4>1. PICK p \in Nat : p = Len(Pending(t)) /\ x <= p
        BY <2>1, <2>2, Lengths
      <4>2. \A j \in 1 .. x : j \in 1 .. p
        BY <4>1
      <4>3. \A j \in 1 .. x : CodeOf(t)[j] = Pending(t)[j]
        BY <2>1, <2>2, PendingIs DEF Longer
      <4> QED
        BY <2>1, <2>2, <4>1, <4>2, <4>3 DEF Maps, SizedCode
    <3>8. SizeAt(CodeOf(t), n) <= SizeAt(CodeOf(t), y - 1)
      BY <2>1, <3>6, <3>7, SizeGrows
    <3>9. Size(SubSeq(CodeOf(t), 1, y - 1)) = SizeAt(CodeOf(t), y - 1)
      BY <2>1, <3>6, SizeIs
    <3> QED
      BY <2>4, <3>4, <3>8, <3>9
  <2>6. k > 1 => OffsetOf(t, k - 1) <= OffsetOf(t, k)
    BY <2>1, <2>2 DEF Maps, Ordered
  <2>7. Executed[k].op # "b" => PcOf(t, k) = 4 * (k - 1)
    <3>1. k \in 1 .. CountOf(t)
      BY <2>2, <2>3
    <3>2. Executed[k] = program[(start \div 4) + k]
      BY <1>1, <2>1, <3>1, ExecutedIs
    <3> QED
      BY <2>1, <2>2, <3>2 DEF Maps, Located
  <2> QED
    BY <2>5, <2>6, <2>7 DEF OffsetOf, PcOf, CodeOf, TagAt
<1> QED
  BY <1>1, TranslationKeepsItsWay, DebugMapStaysInOrder, PTL

-----------------------------------------------------------------------------
(* The host that runs a block.                                             *)

MachineFields == {"cpu", "count", "register", "hostflag", "saved", "stack", "skip", "state"}

\* What the prologue pushes behind the engine's return address, and a stack that
\* holds the first k of it.
Pushed == <<"engine", "rbp", "r12", "r13", "r14", "r15">>
Frames(k) == [j \in 1 .. k |-> Pushed[j]]

FlagsOf(m) == m.cpu.flag

\* The host runs, n instructions are counted, k words are on the stack, the
\* callee-saved registers hold what the engine left there, and it is to pass over
\* the next x bytes.
Held(m, n, k, x) ==
    /\ DOMAIN m = MachineFields /\ "z" \in DOMAIN m.hostflag /\ "flag" \in DOMAIN m.cpu
    /\ m.state = "running" /\ m.skip = x /\ m.count = n
    /\ m.stack = Frames(k) /\ m.saved = [r \in CalleeSaved |-> r]

\* What one more word on the stack, and one less, makes of it.
LEMMA FramesAre ==
    /\ Frames(1) = <<"engine">>
    /\ \A k \in 1 .. 5 : Append(Frames(k), Pushed[k + 1]) = Frames(k + 1)
    /\ \A k \in 2 .. 6 : Last(Frames(k)) = Pushed[k] /\ Front(Frames(k)) = Frames(k - 1)
    /\ \A k \in 2 .. 6 : Frames(k) # <<"engine">>
<1> DEFINE Names == {Pushed[j] : j \in 1 .. 6}
<1>1. \A k \in 1 .. 6 : IsSeq(Frames(k)) /\ Len(Frames(k)) = k /\ Frames(k) \in Seq(Names)
  <2>1. \A j \in 1 .. 6 : Pushed[j] \in Names
    OBVIOUS
  <2> HIDE DEF Names
  <2> SUFFICES ASSUME NEW k \in 1 .. 6
               PROVE  IsSeq(Frames(k)) /\ Len(Frames(k)) = k /\ Frames(k) \in Seq(Names)
    OBVIOUS
  <2>2. Frames(k) \in [1 .. k -> Names]
    BY <2>1 DEF Frames
  <2>3. Frames(k) \in Seq(Names)
    BY <2>2
  <2>4. Len(Frames(k)) = k
    BY <2>2, <2>3
  <2> QED
    BY <2>3, <2>4 DEF IsSeq
<1>2. Frames(1) = <<"engine">>
  <2>1. Len(<<"engine">>) = 1 /\ <<"engine">>[1] = "engine" /\ IsSeq(<<"engine">>)
    BY ShortSeqs
  <2>2. Frames(1)[1] = "engine"
    BY DEF Frames, Pushed
  <2>3. \A j \in 1 .. 1 : j = 1
    OBVIOUS
  <2> QED
    BY <1>1, <2>1, <2>2, <2>3, SameSeq
<1>3. ASSUME NEW k \in 1 .. 5
      PROVE  Append(Frames(k), Pushed[k + 1]) = Frames(k + 1)
  <2>1. /\ IsSeq(Append(Frames(k), Pushed[k + 1])) /\ Len(Append(Frames(k), Pushed[k + 1])) = k + 1
        /\ \A j \in 1 .. k : Append(Frames(k), Pushed[k + 1])[j] = Frames(k)[j]
        /\ Append(Frames(k), Pushed[k + 1])[k + 1] = Pushed[k + 1]
    <3>1. k \in 1 .. 6
      OBVIOUS
    <3>2. IsSeq(Frames(k)) /\ Len(Frames(k)) = k
      BY <1>1, <3>1
    <3> QED
      BY <3>2, AppendIs
  <2>2. IsSeq(Frames(k + 1)) /\ Len(Frames(k + 1)) = k + 1
    <3>1. k + 1 \in 1 .. 6
      OBVIOUS
    <3> QED
      BY <1>1, <3>1
  <2>3. ASSUME NEW j \in 1 .. k + 1
        PROVE  Append(Frames(k), Pushed[k + 1])[j] = Frames(k + 1)[j]
    <3>1. Frames(k + 1)[j] = Pushed[j] /\ (j <= k => Frames(k)[j] = Pushed[j])
      BY DEF Frames
    <3> QED
      BY <2>1, <3>1
  <2> QED
    BY <2>1, <2>2, <2>3, SameSeq
<1>4. ASSUME NEW k \in 2 .. 6
      PROVE  Last(Frames(k)) = Pushed[k] /\ Front(Frames(k)) = Frames(k - 1)
  <2>1. Frames(k) \in Seq(Names) /\ Len(Frames(k)) = k /\ Frames(k)[k] = Pushed[k]
    <3>1. Frames(k)[k] = Pushed[k]
      BY DEF Frames
    <3>2. k \in 1 .. 6
      OBVIOUS
    <3> QED
      BY <1>1, <3>1, <3>2
  <2>2. Front(Frames(k)) = [j \in 1 .. k - 1 |-> Frames(k)[j]]
    BY <2>1 DEF Front
  <2>3. [j \in 1 .. k - 1 |-> Frames(k)[j]] = Frames(k - 1)
    BY DEF Frames
  <2> QED
    BY <2>1, <2>2, <2>3 DEF Last
<1>5. ASSUME NEW k \in 2 .. 6
      PROVE  Frames(k) # <<"engine">>
  <2>1. Len(Frames(k)) = k /\ k # 1
    <3>1. k \in 1 .. 6 /\ k # 1
      OBVIOUS
    <3> QED
      BY <1>1, <3>1
  <2>2. Len(<<"engine">>) = 1
    OBVIOUS
  <2> QED
    BY <2>1, <2>2
<1> QED
  BY <1>2, <1>3, <1>4, <1>5

\* What the instructions between prologue and epilogue can change.
LEMMA PerformQuiet ==
    ASSUME NEW m, NEW h, h.op \in QuietOps
    PROVE  \E v, w : \/ Perform(m, h) = m
                     \/ Perform(m, h) = [m EXCEPT !.register = v]
                     \/ /\ Perform(m, h) = [m EXCEPT !.register = v, !.hostflag = w]
                        /\ "z" \in DOMAIN w
                     \/ Perform(m, h) = [m EXCEPT !.cpu.x = v]
                     \/ Perform(m, h) = [m EXCEPT !.cpu.pc = v]
                     \/ h.op = "SETCC" /\ Perform(m, h) = [m EXCEPT !.cpu.flag = v]
<1>1. CASE h.op = "MOV_RBP"
  BY <1>1 DEF Perform
<1>2. CASE h.op = "LOAD"
  BY <1>2 DEF Perform, Set
<1>3. CASE h.op = "STORE"
  BY <1>3 DEF Perform
<1>4. CASE h.op = "STORE_PC"
  BY <1>4 DEF Perform
<1>5. CASE h.op \in {"MOV", "MOV_REGISTER", "AND", "OR", "AND_REGISTER"}
  <2>1. PICK v : Perform(m, h) = Set(m, h.a, v)
    BY <1>5 DEF Perform
  <2> QED
    BY <2>1 DEF Set
<1>6. CASE h.op \in {"ADD", "ADD_REGISTER"}
  <2>1. PICK v, a, b : Perform(m, h) = [Set(m, h.a, v) EXCEPT !.hostflag = AddFlags(a, b)]
    BY <1>6, Zenon DEF Perform
  <2>2. "z" \in DOMAIN AddFlags(a, b)
    BY Zenon DEF AddFlags
  <2> QED
    BY <2>1, <2>2 DEF Set
<1>7. CASE h.op \in {"SUB", "SUB_REGISTER"}
  <2>1. PICK v, a, b : Perform(m, h) = [Set(m, h.a, v) EXCEPT
                                          !.hostflag = [SubFlags(a, b) EXCEPT !.c = ~@]]
    BY <1>7, Zenon DEF Perform
  <2>2. "z" \in DOMAIN [SubFlags(a, b) EXCEPT !.c = ~@]
    BY Zenon DEF SubFlags
  <2> QED
    BY <2>1, <2>2 DEF Set
<1>8. CASE h.op = "SETCC"
  BY <1>8 DEF Perform
<1> QED
  BY <1>1, <1>2, <1>3, <1>4, <1>5, <1>6, <1>7, <1>8 DEF QuietOps

\* A host that runs performs the next instruction.
LEMMA StepHeld ==
    ASSUME NEW m, NEW n, NEW k, Held(m, n, k, 0), NEW h
    PROVE  Step(m, h) = Perform(m, h)
BY DEF Held, Step

\* An instruction between prologue and epilogue leaves what Held speaks of, and only
\* SETcc changes the guest's flags.
LEMMA QuietStep ==
    ASSUME NEW m, NEW n, NEW k, Held(m, n, k, 0), NEW h, h.op \in QuietOps
    PROVE  /\ Held(Step(m, h), n, k, 0)
           /\ h.op # "SETCC" => FlagsOf(Step(m, h)) = FlagsOf(m)
<1>1. Step(m, h) = Perform(m, h)
  BY StepHeld
<1>2. PICK v, w : \/ Perform(m, h) = m
                  \/ Perform(m, h) = [m EXCEPT !.register = v]
                  \/ /\ Perform(m, h) = [m EXCEPT !.register = v, !.hostflag = w]
                     /\ "z" \in DOMAIN w
                  \/ Perform(m, h) = [m EXCEPT !.cpu.x = v]
                  \/ Perform(m, h) = [m EXCEPT !.cpu.pc = v]
                  \/ h.op = "SETCC" /\ Perform(m, h) = [m EXCEPT !.cpu.flag = v]
  BY PerformQuiet
<1>3. CASE Perform(m, h) = m
  BY <1>1, <1>3
<1>4. CASE Perform(m, h) = [m EXCEPT !.register = v]
  <2>1. \A p : p = [m EXCEPT !.register = v] => Held(p, n, k, 0) /\ FlagsOf(p) = FlagsOf(m)
    BY DEF Held, FlagsOf, MachineFields
  <2> QED
    BY <1>1, <1>4, <2>1, Zenon
<1>5. CASE Perform(m, h) = [m EXCEPT !.register = v, !.hostflag = w] /\ "z" \in DOMAIN w
  <2>1. \A p : p = [m EXCEPT !.register = v, !.hostflag = w] /\ "z" \in DOMAIN w =>
               Held(p, n, k, 0) /\ FlagsOf(p) = FlagsOf(m)
    BY DEF Held, FlagsOf, MachineFields
  <2> QED
    BY <1>1, <1>5, <2>1, Zenon
<1>6. CASE Perform(m, h) = [m EXCEPT !.cpu.x = v]
  <2>1. \A p : p = [m EXCEPT !.cpu.x = v] => Held(p, n, k, 0) /\ FlagsOf(p) = FlagsOf(m)
    BY DEF Held, FlagsOf, MachineFields
  <2> QED
    BY <1>1, <1>6, <2>1, Zenon
<1>7. CASE Perform(m, h) = [m EXCEPT !.cpu.pc = v]
  <2>1. \A p : p = [m EXCEPT !.cpu.pc = v] => Held(p, n, k, 0) /\ FlagsOf(p) = FlagsOf(m)
    BY DEF Held, FlagsOf, MachineFields
  <2> QED
    BY <1>1, <1>7, <2>1, Zenon
<1>8. CASE h.op = "SETCC" /\ Perform(m, h) = [m EXCEPT !.cpu.flag = v]
  <2>1. \A p : p = [m EXCEPT !.cpu.flag = v] => Held(p, n, k, 0)
    BY DEF Held, MachineFields
  <2> QED
    BY <1>1, <1>8, <2>1, Zenon
<1> QED
  BY <1>2, <1>3, <1>4, <1>5, <1>6, <1>7, <1>8, Zenon

\* A host that has jumped passes over what is not longer than what is left.
LEMMA SkipStep ==
    ASSUME NEW m, NEW n, NEW k, NEW x \in Nat \ {0}, Held(m, n, k, x),
           NEW h, NEW y \in Nat, h.size = y, y <= x
    PROVE  Held(Step(m, h), n, k, x - y) /\ FlagsOf(Step(m, h)) = FlagsOf(m)
<1>1. Step(m, h) = [m EXCEPT !.skip = x - y]
  <2>1. m.skip = x /\ m.state = "running"
    BY DEF Held
  <2>2. Step(m, h) = [m EXCEPT !.skip = m.skip - h.size]
    <3>1. m.skip # 0 /\ m.skip >= h.size
      BY <2>1
    <3> QED
      BY <2>1, <3>1, Zenon DEF Step
  <2> QED
    BY <2>1, <2>2
<1>2. ASSUME NEW z
      PROVE  Held([m EXCEPT !.skip = z], n, k, z) /\ FlagsOf([m EXCEPT !.skip = z]) = FlagsOf(m)
  BY DEF Held, FlagsOf, MachineFields
<1> QED
  BY <1>1, <1>2

\* PUSH of the register that comes next.
LEMMA PushStep ==
    ASSUME NEW m, NEW n, NEW k \in 1 .. 5, Held(m, n, k, 0),
           NEW h, h.op = "PUSH", h.a = Pushed[k + 1]
    PROVE  Held(Step(m, h), n, k + 1, 0)
<1>1. Step(m, h) = [m EXCEPT !.stack = Append(m.stack, m.saved[h.a])]
  BY StepHeld DEF Perform
<1>2. m.stack = Frames(k) /\ m.saved = [r \in CalleeSaved |-> r]
  BY DEF Held
<1>3. h.a \in CalleeSaved
  <2>1. /\ Pushed[2] = "rbp" /\ Pushed[3] = "r12" /\ Pushed[4] = "r13"
        /\ Pushed[5] = "r14" /\ Pushed[6] = "r15"
    BY DEF Pushed
  <2>2. k + 1 = 2 \/ k + 1 = 3 \/ k + 1 = 4 \/ k + 1 = 5 \/ k + 1 = 6
    OBVIOUS
  <2>3. h.a \in {"rbp", "r12", "r13", "r14", "r15"}
    BY <2>1, <2>2, Zenon
  <2> QED
    BY <2>3 DEF CalleeSaved
<1>4. m.saved[h.a] = Pushed[k + 1]
  BY <1>2, <1>3
<1>5. Step(m, h) = [m EXCEPT !.stack = Frames(k + 1)]
  BY <1>1, <1>2, <1>4, FramesAre
<1>6. \A s : s = Frames(k + 1) => Held([m EXCEPT !.stack = s], n, k + 1, 0)
  BY DEF Held, MachineFields
<1> QED
  BY <1>5, <1>6

\* POP of the register that comes next gives it what the engine left there.
LEMMA PopStep ==
    ASSUME NEW m, NEW n, NEW k \in 2 .. 6, Held(m, n, k, 0),
           NEW h, h.op = "POP", h.a = Pushed[k]
    PROVE  Held(Step(m, h), n, k - 1, 0) /\ FlagsOf(Step(m, h)) = FlagsOf(m)
<1>1. Step(m, h) = [m EXCEPT !.saved[h.a] = Last(m.stack), !.stack = Front(m.stack)]
  <2>1. Step(m, h) = Perform(m, h)
    BY StepHeld
  <2>2. Perform(m, h) = [m EXCEPT !.saved[h.a] = Last(m.stack), !.stack = Front(m.stack)]
    BY DEF Perform
  <2> QED
    BY <2>1, <2>2
<1>2. m.stack = Frames(k) /\ m.saved = [r \in CalleeSaved |-> r]
  BY DEF Held
<1>3. Last(m.stack) = h.a /\ Front(m.stack) = Frames(k - 1)
  BY <1>2, FramesAre
<1>4. [m.saved EXCEPT ![h.a] = h.a] = [r \in CalleeSaved |-> r]
  BY <1>2
<1>5. Step(m, h) = [m EXCEPT !.saved = [r \in CalleeSaved |-> r], !.stack = Frames(k - 1)]
  BY <1>1, <1>3, <1>4
<1>6. \A p : p = [m EXCEPT !.saved = [r \in CalleeSaved |-> r], !.stack = Frames(k - 1)] =>
                Held(p, n, k - 1, 0) /\ FlagsOf(p) = FlagsOf(m)
  BY DEF Held, FlagsOf, MachineFields
<1> QED
  BY <1>5, <1>6, Zenon

\* RET goes back to the engine when its address is all that is left on the stack, and
\* astray otherwise.
LEMMA RetStep ==
    ASSUME NEW m, NEW n, NEW k \in 1 .. 6, Held(m, n, k, 0), NEW h, h.op = "RET"
    PROVE  /\ k = 1 => /\ Step(m, h).state = "returned"
                       /\ Step(m, h).saved = [r \in CalleeSaved |-> r]
           /\ k # 1 => Step(m, h).state = "astray"
           /\ Step(m, h).count = n /\ FlagsOf(Step(m, h)) = FlagsOf(m)
<1>1. /\ DOMAIN m = MachineFields /\ "flag" \in DOMAIN m.cpu /\ m.count = n
      /\ m.stack = Frames(k) /\ m.saved = [r \in CalleeSaved |-> r]
  BY DEF Held
<1>2. Step(m, h) = [m EXCEPT !.state = IF m.stack = <<"engine">> THEN "returned" ELSE "astray"]
  BY StepHeld DEF Perform
<1>3. m.stack = <<"engine">> <=> k = 1
  <2>1. k = 1 \/ k \in 2 .. 6
    OBVIOUS
  <2> QED
    BY <1>1, <2>1, FramesAre
<1>4. \A v, p : p = [m EXCEPT !.state = v] =>
          /\ p.state = v /\ p.saved = [r \in CalleeSaved |-> r] /\ p.count = n
          /\ FlagsOf(p) = FlagsOf(m)
  BY <1>1 DEF MachineFields, FlagsOf
<1> QED
  BY <1>2, <1>3, <1>4

\* POP of one register of five leaves the host to return astray.
LEMMA StrayStep ==
    ASSUME NEW m, NEW n, Held(m, n, 6, 0), NEW h, h.op = "POP", NEW g, g.op = "RET"
    PROVE  LET p == Step(Step(m, h), g)
           IN  p.state = "astray" /\ p.count = n /\ FlagsOf(p) = FlagsOf(m)
<1>1. /\ DOMAIN m = MachineFields /\ "flag" \in DOMAIN m.cpu /\ m.count = n
      /\ m.stack = Frames(6) /\ m.state = "running" /\ m.skip = 0
  BY DEF Held
<1>2. Step(m, h) = [m EXCEPT !.saved[h.a] = Last(m.stack), !.stack = Front(m.stack)]
  <2>1. Step(m, h) = Perform(m, h)
    BY StepHeld
  <2>2. Perform(m, h) = [m EXCEPT !.saved[h.a] = Last(m.stack), !.stack = Front(m.stack)]
    BY DEF Perform
  <2> QED
    BY <2>1, <2>2
<1>3. Front(m.stack) = Frames(5) /\ Frames(5) # <<"engine">>
  <2>1. 6 \in 2 .. 6 /\ 5 \in 2 .. 6 /\ 6 - 1 = 5
    OBVIOUS
  <2> QED
    BY <1>1, <2>1, FramesAre
<1>4. PICK v : Step(m, h) = [m EXCEPT !.saved = v, !.stack = Frames(5)]
  BY <1>2, <1>3
<1>5. \A q : q = [m EXCEPT !.saved = v, !.stack = Frames(5)] =>
          /\ DOMAIN q = MachineFields /\ "flag" \in DOMAIN q.cpu /\ q.count = n
          /\ q.stack = Frames(5) /\ q.state = "running" /\ q.skip = 0 /\ FlagsOf(q) = FlagsOf(m)
  BY <1>1 DEF MachineFields, FlagsOf
<1>6. PICK q : /\ q = Step(m, h) /\ DOMAIN q = MachineFields /\ q.count = n
               /\ q.stack = Frames(5) /\ q.state = "running" /\ q.skip = 0
               /\ FlagsOf(q) = FlagsOf(m)
  BY <1>4, <1>5, Zenon
<1>7. Step(q, g) = [q EXCEPT !.state = "astray"]
  <2>1. Step(q, g) = Perform(q, g)
    BY <1>6 DEF Step
  <2> QED
    BY <1>3, <1>6, <2>1 DEF Perform
<1>8. \A p : p = [q EXCEPT !.state = "astray"] =>
          p.state = "astray" /\ p.count = n /\ FlagsOf(p) = FlagsOf(m)
  BY <1>6 DEF MachineFields, FlagsOf
<1> QED
  BY <1>6, <1>7, <1>8

\* The instruction counter.
LEMMA CountStep ==
    ASSUME NEW m, NEW n \in Nat, NEW k, Held(m, n, k, 0), NEW h, h.op = "ICOUNT",
           NEW a \in Nat, h.a = a
    PROVE  Held(Step(m, h), n + a, k, 0) /\ FlagsOf(Step(m, h)) = FlagsOf(m)
<1>1. Step(m, h) = [m EXCEPT !.count = n + a]
  <2>1. Step(m, h) = [m EXCEPT !.count = m.count + h.a]
    BY StepHeld, Zenon DEF Perform
  <2>2. m.count = n
    BY DEF Held
  <2> QED
    BY <2>1, <2>2
<1>2. \A z, p : p = [m EXCEPT !.count = z] => Held(p, z, k, 0) /\ FlagsOf(p) = FlagsOf(m)
  BY DEF Held, FlagsOf, MachineFields
<1> QED
  BY <1>1, <1>2, Zenon

\* The comparison of a flag with zero sets the zero flag of the host to its negation.
LEMMA CompareStep ==
    ASSUME NEW m, NEW n, NEW k, Held(m, n, k, 0), NEW h, h.op = "CMP_FLAG"
    PROVE  /\ Held(Step(m, h), n, k, 0) /\ FlagsOf(Step(m, h)) = FlagsOf(m)
           /\ Step(m, h).hostflag.z = ~FlagsOf(m)[h.a]
<1> DEFINE z == ~FlagsOf(m)[h.a]
<1>1. Step(m, h) = [m EXCEPT !.hostflag.z = z]
  BY StepHeld, Zenon DEF Perform, FlagsOf
<1> HIDE DEF z
<1>2. \A p : p = [m EXCEPT !.hostflag.z = z] =>
          Held(p, n, k, 0) /\ FlagsOf(p) = FlagsOf(m) /\ p.hostflag.z = z
  BY DEF Held, FlagsOf, MachineFields
<1>3. Held(Step(m, h), n, k, 0) /\ FlagsOf(Step(m, h)) = FlagsOf(m) /\ Step(m, h).hostflag.z = z
  BY <1>1, <1>2, Zenon
<1> QED
  BY <1>3 DEF z

\* A conditional jump passes over its operand's bytes, or none.
LEMMA JumpStep ==
    ASSUME NEW m, NEW n, NEW k, Held(m, n, k, 0), NEW h, h.op = "JCC"
    PROVE  /\ m.hostflag.z = (h.a = "E") => Held(Step(m, h), n, k, h.b)
           /\ m.hostflag.z # (h.a = "E") => Held(Step(m, h), n, k, 0)
           /\ FlagsOf(Step(m, h)) = FlagsOf(m)
<1>1. Step(m, h) = [m EXCEPT !.skip = IF m.hostflag.z = (h.a = "E") THEN h.b ELSE 0]
  <2>1. Step(m, h) = Perform(m, h)
    BY StepHeld
  <2>2. Perform(m, h) = [m EXCEPT !.skip = IF m.hostflag.z = (h.a = "E") THEN h.b ELSE 0]
    BY Zenon DEF Perform
  <2> QED
    BY <2>1, <2>2, Zenon
<1>2. \A v, p : p = [m EXCEPT !.skip = v] => Held(p, n, k, v) /\ FlagsOf(p) = FlagsOf(m)
  BY DEF Held, FlagsOf, MachineFields
<1>3. CASE m.hostflag.z = (h.a = "E")
  <2>1. Step(m, h) = [m EXCEPT !.skip = h.b]
    BY <1>1, <1>3, Zenon
  <2> QED
    BY <1>2, <1>3, <2>1, Zenon
<1>4. CASE m.hostflag.z # (h.a = "E")
  <2>1. Step(m, h) = [m EXCEPT !.skip = 0]
    BY <1>1, <1>4, Zenon
  <2> QED
    BY <1>2, <1>4, <2>1, Zenon
<1> QED
  BY <1>3, <1>4, Zenon

-----------------------------------------------------------------------------
(* The host that runs the code of a translation.                           *)

Boot == FreshMachine([cpu EXCEPT !.pc = start])

\* The host after the first n pieces of s, and after all the code of c.
At(s, n) == StepLoop!Fold(Boot, StepLoop!Prefix(s, n))
Mach(c) == At(Pending(c), Len(Pending(c)))

\* f is the host before and after each of the pieces of hs, which are of the n-th
\* guest instruction.
Trace(f, hs, n) == \A j \in 1 .. Len(hs) : f[j] = Step(f[j - 1], Tag(hs[j], n))

\* Running the pieces of hs takes the host from the end of c to the end of d.
Ran(c, d, hs) ==
    \E f : Trace(f, hs, CountOf(c) + 1) /\ f[0] = Mach(c) /\ f[Len(hs)] = Mach(d)

\* The host after nothing, after one more piece, and after a block.
LEMMA AtNext ==
    ASSUME NEW s
    PROVE  /\ At(s, 0) = Boot
           /\ \A n \in Nat : At(s, n + 1) = Step(At(s, n), s[n + 1])
           /\ IsSeq(s) => Run(s, [cpu EXCEPT !.pc = start]) = At(s, Len(s))
<1>1. StepLoop!Prefix(s, 0) = <<>>
  BY DEF StepLoop!Prefix
<1>2. At(s, 0) = Boot
  BY <1>1, StepLoop!FoldEmpty DEF At
<1>3. \A n \in Nat : At(s, n + 1) = Step(At(s, n), s[n + 1])
  BY StepLoop!FoldPrefix DEF At
<1>4. ASSUME IsSeq(s)
      PROVE  Run(s, [cpu EXCEPT !.pc = start]) = At(s, Len(s))
  <2>1. \A c : Run(s, c) = StepLoop!Fold(FreshMachine(c), s)
    BY DEF Run, StepLoop!Fold, FoldLeft, StepLoop!FoldLeft, MapThenFoldSet,
           StepLoop!MapThenFoldSet, Max, StepLoop!Max
  <2>2. StepLoop!Prefix(s, Len(s)) = s
    <3>1. DOMAIN s = 1 .. Len(s) /\ \E S : s \in Seq(S)
      BY <1>4, SeqFacts DEF IsSeq
    <3> QED
      BY <3>1 DEF StepLoop!Prefix
  <2> QED
    BY <2>1, <2>2 DEF At, Boot
<1> QED
  BY <1>2, <1>3, <1>4

\* The host at a piece does not depend on what follows.
LEMMA AtLonger ==
    ASSUME NEW s, NEW u, IsSeq(s), Longer(s, u), NEW n \in 0 .. Len(s)
    PROVE  At(u, n) = At(s, n)
<1>1. Len(s) \in Nat
  BY SeqFacts
<1>2. \A j \in 1 .. n : u[j] = s[j]
  BY <1>1 DEF Longer
<1>3. StepLoop!Prefix(u, n) = StepLoop!Prefix(s, n)
  BY <1>2 DEF StepLoop!Prefix
<1> QED
  BY <1>3 DEF At

\* The code that is added to a translation runs on from where its code so far ends.
LEMMA MachGrown ==
    ASSUME NEW c, NEW d, Coded(c), Coded(d), Longer(Pending(c), Pending(d))
    PROVE  \E f, k : /\ k \in Nat /\ Len(Pending(d)) = Len(Pending(c)) + k
                     /\ f[0] = Mach(c) /\ f[k] = Mach(d)
                     /\ \A j \in 1 .. k : f[j] = Step(f[j - 1], Pending(d)[Len(Pending(c)) + j])
<1>1. PICK x, y \in Nat : x = Len(Pending(c)) /\ y = Len(Pending(d)) /\ x <= y
  BY Lengths DEF Longer
<1> DEFINE k == y - x
           f == [j \in 0 .. k |-> At(Pending(d), x + j)]
<1>2. k \in Nat /\ y = x + k
  BY <1>1
<1>3. f[0] = Mach(c)
  <2>1. x \in 0 .. Len(Pending(c)) /\ IsSeq(Pending(c)) /\ x + 0 = x /\ 0 \in 0 .. k
    BY <1>1, <1>2, PendingIs
  <2>2. At(Pending(d), x) = At(Pending(c), x)
    BY <2>1, AtLonger
  <2> QED
    BY <1>1, <2>1, <2>2 DEF Mach
<1>4. f[k] = Mach(d)
  <2>1. x + k = y /\ k \in 0 .. k
    BY <1>1, <1>2
  <2> QED
    BY <1>1, <2>1 DEF Mach
<1>5. ASSUME NEW j \in 1 .. k
      PROVE  f[j] = Step(f[j - 1], Pending(d)[x + j])
  <2>1. PICK i \in Nat : i = x + (j - 1)
    BY <1>2
  <2>2. i + 1 = x + j /\ j \in 0 .. k /\ j - 1 \in 0 .. k
    BY <1>2, <2>1
  <2>3. At(Pending(d), i + 1) = Step(At(Pending(d), i), Pending(d)[i + 1])
    BY AtNext
  <2>4. f[j] = At(Pending(d), x + j) /\ f[j - 1] = At(Pending(d), x + (j - 1))
    BY <2>2
  <2> QED
    BY <2>1, <2>2, <2>3, <2>4
<1> HIDE DEF k, f
<1> QED
  BY <1>1, <1>2, <1>3, <1>4, <1>5

\* The same for pieces that are known.
LEMMA MachPushes ==
    ASSUME NEW c, NEW d, NEW hs, Coded(c), Pushes(c, d, hs), IsSeq(hs)
    PROVE  Ran(c, d, hs)
<1>1. /\ Coded(d) /\ Longer(Pending(c), Pending(d)) /\ Len(Pending(d)) = Len(Pending(c)) + Len(hs)
      /\ \A j \in 1 .. Len(hs) : Pending(d)[Len(Pending(c)) + j] = Tag(hs[j], CountOf(c) + 1)
  BY DEF Pushes
<1>2. PICK f, k : /\ k \in Nat /\ Len(Pending(d)) = Len(Pending(c)) + k
                  /\ f[0] = Mach(c) /\ f[k] = Mach(d)
                  /\ \A j \in 1 .. k : f[j] = Step(f[j - 1], Pending(d)[Len(Pending(c)) + j])
  BY <1>1, MachGrown
<1>3. k = Len(hs)
  <2>1. Len(Pending(c)) \in Nat /\ Len(hs) \in Nat
    BY Lengths, SeqFacts
  <2> QED
    BY <1>1, <1>2, <2>1
<1>4. Trace(f, hs, CountOf(c) + 1)
  BY <1>1, <1>2, <1>3 DEF Trace
<1> QED
  BY <1>2, <1>3, <1>4 DEF Ran

\* Induction along a trace.
LEMMA TraceInduction ==
    ASSUME NEW K, NEW k \in Nat, 0 \in K, \A j \in 1 .. k : j - 1 \in K => j \in K
    PROVE  k \in K
<1> DEFINE S == {i \in Nat : i <= k => i \in K}
<1>1. 0 \in S
  OBVIOUS
<1>2. ASSUME NEW i \in Nat, i \in S PROVE i + 1 \in S
  <2> SUFFICES ASSUME i + 1 <= k PROVE i + 1 \in K
    OBVIOUS
  <2>1. i + 1 \in 1 .. k /\ (i + 1) - 1 = i /\ i \in K
    BY <1>2
  <2> QED
    BY <2>1
<1>3. k \in S
  <2> HIDE DEF S
  <2> QED
    BY <1>1, <1>2, StepLoop!SetInduction
<1> QED
  BY <1>3

\* A host that has stopped stays as it is.
LEMMA StoppedTrace ==
    ASSUME NEW c, NEW d, Coded(c), Coded(d), Longer(Pending(c), Pending(d)),
           Mach(c).state # "running"
    PROVE  Mach(d) = Mach(c)
<1>1. PICK f, k : /\ k \in Nat /\ Len(Pending(d)) = Len(Pending(c)) + k
                  /\ f[0] = Mach(c) /\ f[k] = Mach(d)
                  /\ \A j \in 1 .. k : f[j] = Step(f[j - 1], Pending(d)[Len(Pending(c)) + j])
  BY MachGrown
<1> DEFINE K == {j \in 0 .. k : f[j] = Mach(c)}
<1>2. 0 \in K
  BY <1>1
<1>3. ASSUME NEW j \in 1 .. k, j - 1 \in K PROVE j \in K
  <2>1. f[j - 1] = Mach(c) /\ f[j] = Step(f[j - 1], Pending(d)[Len(Pending(c)) + j])
    BY <1>1, <1>3
  <2>2. \A h : Step(Mach(c), h) = Mach(c)
    BY DEF Step
  <2> QED
    BY <2>1, <2>2
<1>4. k \in K
  <2> HIDE DEF K
  <2> QED
    BY <1>1, <1>2, <1>3, TraceInduction
<1> QED
  BY <1>1, <1>4

\* Code between prologue and epilogue leaves what Held speaks of.
LEMMA QuietTrace ==
    ASSUME NEW c, NEW d, Coded(c), Grown(c, d, QuietOps), Held(Mach(c), 0, 6, 0)
    PROVE  Held(Mach(d), 0, 6, 0)
<1>1. PICK f, k : /\ k \in Nat /\ Len(Pending(d)) = Len(Pending(c)) + k
                  /\ f[0] = Mach(c) /\ f[k] = Mach(d)
                  /\ \A j \in 1 .. k : f[j] = Step(f[j - 1], Pending(d)[Len(Pending(c)) + j])
  BY MachGrown DEF Grown
<1>2. PICK x, y \in Nat : x = Len(Pending(c)) /\ y = Len(Pending(d))
  BY Lengths DEF Grown
<1>3. ASSUME NEW j \in 1 .. k
      PROVE  Pending(d)[x + j].op \in QuietOps
  <2>1. x + j \in 1 .. y /\ x + j > x
    BY <1>1, <1>2
  <2> QED
    BY <1>2, <2>1 DEF Grown, Sized
<1> DEFINE K == {j \in 0 .. k : Held(f[j], 0, 6, 0)}
<1>4. 0 \in K
  BY <1>1
<1>5. ASSUME NEW j \in 1 .. k, j - 1 \in K PROVE j \in K
  <2>1. Held(f[j - 1], 0, 6, 0) /\ f[j] = Step(f[j - 1], Pending(d)[x + j])
    BY <1>1, <1>2, <1>5
  <2>2. Held(f[j], 0, 6, 0)
    BY <1>3, <2>1, QuietStep
  <2> QED
    BY <2>2
<1>6. k \in K
  <2> HIDE DEF K
  <2> QED
    BY <1>1, <1>4, <1>5, TraceInduction
<1> QED
  BY <1>1, <1>6

\* The stores and moves of an epilogue.
LEMMA QuietPrefix ==
    ASSUME NEW f, NEW hs, NEW n, Trace(f, hs, n), NEW k \in Nat, NEW l \in Nat, l = Len(hs), k <= l,
           \A j \in 1 .. k : hs[j].op \in {"STORE", "MOV", "STORE_PC"},
           NEW x, Held(f[0], x, 6, 0)
    PROVE  Held(f[k], x, 6, 0) /\ FlagsOf(f[k]) = FlagsOf(f[0])
<1> DEFINE K == {j \in 0 .. k : Held(f[j], x, 6, 0) /\ FlagsOf(f[j]) = FlagsOf(f[0])}
<1>1. 0 \in K
  OBVIOUS
<1>2. ASSUME NEW j \in 1 .. k, j - 1 \in K PROVE j \in K
  <2>1. Held(f[j - 1], x, 6, 0) /\ FlagsOf(f[j - 1]) = FlagsOf(f[0])
    BY <1>2
  <2>2. f[j] = Step(f[j - 1], Tag(hs[j], n))
    BY DEF Trace
  <2>3. Tag(hs[j], n).op \in QuietOps /\ Tag(hs[j], n).op # "SETCC"
    <3>1. Tag(hs[j], n).op \in {"STORE", "MOV", "STORE_PC"}
      BY TagIs
    <3> QED
      BY <3>1 DEF QuietOps
  <2>4. Held(f[j], x, 6, 0) /\ FlagsOf(f[j]) = FlagsOf(f[j - 1])
    BY <2>1, <2>2, <2>3, QuietStep
  <2> QED
    BY <2>1, <2>4
<1>3. k \in K
  <2> HIDE DEF K
  <2> QED
    BY <1>1, <1>2, TraceInduction
<1> QED
  BY <1>3

\* A jump over the stores of an epilogue, which have 7 bytes each.
LEMMA SkipPrefix ==
    ASSUME NEW f, NEW hs, NEW n, Trace(f, hs, n), NEW k \in Nat, k = Len(hs),
           \A j \in 1 .. k : hs[j].size = 7,
           NEW x \in Nat, x > 7 * k, Held(f[0], 0, 6, x)
    PROVE  Held(f[k], 0, 6, x - 7 * k) /\ FlagsOf(f[k]) = FlagsOf(f[0])
<1> DEFINE K == {j \in 0 .. k : Held(f[j], 0, 6, x - 7 * j) /\ FlagsOf(f[j]) = FlagsOf(f[0])}
<1>1. 0 \in K
  <2>1. x - 7 * 0 = x
    OBVIOUS
  <2> QED
    BY <2>1
<1>2. ASSUME NEW j \in 1 .. k, j - 1 \in K PROVE j \in K
  <2>1. PICK y \in Nat \ {0} : y = x - 7 * (j - 1) /\ 7 <= y /\ y - 7 = x - 7 * j
    OBVIOUS
  <2>2. Held(f[j - 1], 0, 6, y) /\ FlagsOf(f[j - 1]) = FlagsOf(f[0])
    BY <1>2, <2>1
  <2>3. f[j] = Step(f[j - 1], Tag(hs[j], n)) /\ Tag(hs[j], n).size = 7
    BY TagIs DEF Trace
  <2>4. Held(f[j], 0, 6, y - 7) /\ FlagsOf(f[j]) = FlagsOf(f[j - 1])
    BY <2>1, <2>2, <2>3, SkipStep
  <2> QED
    BY <2>1, <2>2, <2>4
<1>3. k \in K
  <2> HIDE DEF K
  <2> QED
    BY <1>1, <1>2, TraceInduction
<1> QED
  BY <1>3

\* The host is back in the engine, or somewhere else.
Back(m, n) == m.state = "returned" /\ m.saved = [r \in CalleeSaved |-> r] /\ m.count = n
Lost(m, n) == m.state = "astray" /\ m.count = n

\* Popping all registers in the reverse order returns to the engine.
LEMMA ReturnSuffix ==
    ASSUME NEW f, NEW hs, NEW n, Trace(f, hs, n), NEW k \in Nat, Len(hs) = k + 6,
           hs[k + 1] = Pop("r15"), hs[k + 2] = Pop("r14"), hs[k + 3] = Pop("r13"),
           hs[k + 4] = Pop("r12"), hs[k + 5] = Pop("rbp"), hs[k + 6] = Ret,
           NEW x, Held(f[k], x, 6, 0)
    PROVE  Back(f[k + 6], x) /\ FlagsOf(f[k + 6]) = FlagsOf(f[k])
<1>1. \A i \in 0 .. 5 : f[k + (i + 1)] = Step(f[k + i], Tag(hs[k + (i + 1)], n))
  <2> SUFFICES ASSUME NEW i \in 0 .. 5
               PROVE  f[k + (i + 1)] = Step(f[k + i], Tag(hs[k + (i + 1)], n))
    OBVIOUS
  <2>1. k + (i + 1) \in 1 .. Len(hs) /\ (k + (i + 1)) - 1 = k + i
    OBVIOUS
  <2> QED
    BY <2>1 DEF Trace
<1>2. /\ f[k + 1] = Step(f[k], Tag(Pop("r15"), n)) /\ f[k + 2] = Step(f[k + 1], Tag(Pop("r14"), n))
      /\ f[k + 3] = Step(f[k + 2], Tag(Pop("r13"), n)) /\ f[k + 4] = Step(f[k + 3], Tag(Pop("r12"), n))
      /\ f[k + 5] = Step(f[k + 4], Tag(Pop("rbp"), n)) /\ f[k + 6] = Step(f[k + 5], Tag(Ret, n))
  <2>1. /\ 0 \in 0 .. 5 /\ 1 \in 0 .. 5 /\ 2 \in 0 .. 5 /\ 3 \in 0 .. 5 /\ 4 \in 0 .. 5 /\ 5 \in 0 .. 5
        /\ 0 + 1 = 1 /\ 1 + 1 = 2 /\ 2 + 1 = 3 /\ 3 + 1 = 4 /\ 4 + 1 = 5 /\ 5 + 1 = 6 /\ k + 0 = k
    OBVIOUS
  <2>2. f[k + 1] = Step(f[k], Tag(Pop("r15"), n))
    BY <1>1, <2>1, Zenon
  <2>3. f[k + 2] = Step(f[k + 1], Tag(Pop("r14"), n))
    BY <1>1, <2>1, Zenon
  <2>4. f[k + 3] = Step(f[k + 2], Tag(Pop("r13"), n))
    BY <1>1, <2>1, Zenon
  <2>5. f[k + 4] = Step(f[k + 3], Tag(Pop("r12"), n))
    BY <1>1, <2>1, Zenon
  <2>6. f[k + 5] = Step(f[k + 4], Tag(Pop("rbp"), n))
    BY <1>1, <2>1, Zenon
  <2>7. f[k + 6] = Step(f[k + 5], Tag(Ret, n))
    BY <1>1, <2>1, Zenon
  <2> QED
    BY <2>2, <2>3, <2>4, <2>5, <2>6, <2>7
<1>3. \A r : Tag(Pop(r), n).op = "POP" /\ Tag(Pop(r), n).a = r
  BY TagIs, PieceSizes DEF Sized
<1>4. Tag(Ret, n).op = "RET"
  BY TagIs, PieceSizes DEF Sized
<1>5. /\ Pushed[2] = "rbp" /\ Pushed[3] = "r12" /\ Pushed[4] = "r13"
      /\ Pushed[5] = "r14" /\ Pushed[6] = "r15"
  BY DEF Pushed
<1>6. ASSUME NEW i \in 2 .. 6, NEW m, Held(m, x, i, 0), NEW r, r = Pushed[i]
      PROVE  /\ Held(Step(m, Tag(Pop(r), n)), x, i - 1, 0)
             /\ FlagsOf(Step(m, Tag(Pop(r), n))) = FlagsOf(m)
  BY <1>3, <1>6, PopStep
<1>7. Held(f[k + 1], x, 5, 0) /\ FlagsOf(f[k + 1]) = FlagsOf(f[k])
  <2>1. 6 \in 2 .. 6 /\ 6 - 1 = 5
    OBVIOUS
  <2> QED
    BY <1>2, <1>5, <1>6, <2>1
<1>8. Held(f[k + 2], x, 4, 0) /\ FlagsOf(f[k + 2]) = FlagsOf(f[k])
  <2>1. 5 \in 2 .. 6 /\ 5 - 1 = 4
    OBVIOUS
  <2> QED
    BY <1>2, <1>5, <1>6, <1>7, <2>1
<1>9. Held(f[k + 3], x, 3, 0) /\ FlagsOf(f[k + 3]) = FlagsOf(f[k])
  <2>1. 4 \in 2 .. 6 /\ 4 - 1 = 3
    OBVIOUS
  <2> QED
    BY <1>2, <1>5, <1>6, <1>8, <2>1
<1>10. Held(f[k + 4], x, 2, 0) /\ FlagsOf(f[k + 4]) = FlagsOf(f[k])
  <2>1. 3 \in 2 .. 6 /\ 3 - 1 = 2
    OBVIOUS
  <2> QED
    BY <1>2, <1>5, <1>6, <1>9, <2>1
<1>11. Held(f[k + 5], x, 1, 0) /\ FlagsOf(f[k + 5]) = FlagsOf(f[k])
  <2>1. 2 \in 2 .. 6 /\ 2 - 1 = 1
    OBVIOUS
  <2> QED
    BY <1>2, <1>5, <1>6, <1>10, <2>1
<1> QED
  <2>1. 1 \in 1 .. 6
    OBVIOUS
  <2> QED
    BY <1>2, <1>4, <1>11, <2>1, RetStep DEF Back

\* The pieces of an epilogue that sets the PC.
LEMMA EpilogueIs ==
    ASSUME NEW pc
    PROVE  LET hs == SetPc(pc) \o FullEpilogue
           IN  /\ IsSeq(hs) /\ Len(hs) = 8 /\ hs[1] = MovRax(pc) /\ hs[2] = StorePc(RAX)
               /\ hs[3] = Pop("r15") /\ hs[4] = Pop("r14") /\ hs[5] = Pop("r13")
               /\ hs[6] = Pop("r12") /\ hs[7] = Pop("rbp") /\ hs[8] = Ret
<1> DEFINE hs == SetPc(pc) \o FullEpilogue
<1>1. IsSeq(SetPc(pc)) /\ Len(SetPc(pc)) = 2
      /\ SetPc(pc)[1] = MovRax(pc) /\ SetPc(pc)[2] = StorePc(RAX)
  <2>1. IsSeq(SetPc(pc))
    BY EndPieces DEF AllSized
  <2> QED
    BY <2>1 DEF SetPc
<1>2. IsSeq(FullEpilogue) /\ Len(FullEpilogue) = 6
  BY FullEpilogueIs DEF AllSized
<1>3. /\ IsSeq(hs) /\ Len(hs) = 2 + 6 /\ \A j \in 1 .. 2 : hs[j] = SetPc(pc)[j]
      /\ \A j \in 1 .. 6 : hs[2 + j] = FullEpilogue[j]
  <2>1. PICK p, q : p = SetPc(pc) /\ q = FullEpilogue /\ IsSeq(p) /\ IsSeq(q)
    BY <1>1, <1>2
  <2>2. /\ IsSeq(p \o q) /\ Len(p \o q) = Len(p) + Len(q)
        /\ \A j \in 1 .. Len(p) : (p \o q)[j] = p[j]
        /\ \A j \in 1 .. Len(q) : (p \o q)[Len(p) + j] = q[j]
    BY <2>1, ConcatIs
  <2>3. hs = p \o q /\ Len(p) = 2 /\ Len(q) = 6
    BY <1>1, <1>2, <2>1
  <2> HIDE DEF hs
  <2> QED
    BY <2>1, <2>2, <2>3, Zenon
<1> HIDE DEF hs
<1>4. hs[1] = MovRax(pc) /\ hs[2] = StorePc(RAX)
  <2>1. 1 \in 1 .. 2 /\ 2 \in 1 .. 2
    OBVIOUS
  <2> QED
    BY <1>1, <1>3, <2>1, Zenon
<1>5. /\ hs[3] = FullEpilogue[1] /\ hs[4] = FullEpilogue[2] /\ hs[5] = FullEpilogue[3]
      /\ hs[6] = FullEpilogue[4] /\ hs[7] = FullEpilogue[5] /\ hs[8] = FullEpilogue[6]
  <2>1. /\ 1 \in 1 .. 6 /\ 2 \in 1 .. 6 /\ 3 \in 1 .. 6 /\ 4 \in 1 .. 6 /\ 5 \in 1 .. 6 /\ 6 \in 1 .. 6
        /\ 2 + 1 = 3 /\ 2 + 2 = 4 /\ 2 + 3 = 5 /\ 2 + 4 = 6 /\ 2 + 5 = 7 /\ 2 + 6 = 8
    OBVIOUS
  <2> QED
    BY <1>3, <2>1, Zenon
<1> QED
  BY <1>3, <1>4, <1>5, FullEpilogueIs DEF hs

\* A jump over such an epilogue, of 17 bytes behind the move, arrives at its end.
LEMMA SkipSuffix ==
    ASSUME NEW f, NEW pc, NEW n, Trace(f, SetPc(pc) \o FullEpilogue, n),
           NEW x \in Nat, x = MovRax(pc).size + 17, Held(f[0], 0, 6, x)
    PROVE  Held(f[8], 0, 6, 0) /\ FlagsOf(f[8]) = FlagsOf(f[0])
<1> DEFINE hs == SetPc(pc) \o FullEpilogue
<1>1. /\ Len(hs) = 8 /\ hs[1] = MovRax(pc) /\ hs[2] = StorePc(RAX)
      /\ hs[3] = Pop("r15") /\ hs[4] = Pop("r14") /\ hs[5] = Pop("r13")
      /\ hs[6] = Pop("r12") /\ hs[7] = Pop("rbp") /\ hs[8] = Ret
  BY EpilogueIs
<1>2. \A j \in 1 .. 8 : f[j] = Step(f[j - 1], Tag(hs[j], n))
  BY <1>1 DEF Trace
<1> HIDE DEF hs
<1>3. /\ hs[2].size = 7 /\ hs[3].size = 2 /\ hs[4].size = 2 /\ hs[5].size = 2
      /\ hs[6].size = 2 /\ hs[7].size = 1 /\ hs[8].size = 1
  BY <1>1, PieceSizes
<1>4. PICK y \in Nat : y = hs[1].size /\ x = y + 17
  BY <1>1, PieceSizes
<1>5. ASSUME NEW j \in 1 .. 8, NEW u \in Nat \ {0}, Held(f[j - 1], 0, 6, u),
             NEW s \in Nat, hs[j].size = s, s <= u, FlagsOf(f[j - 1]) = FlagsOf(f[0])
      PROVE  Held(f[j], 0, 6, u - s) /\ FlagsOf(f[j]) = FlagsOf(f[0])
  <2>1. f[j] = Step(f[j - 1], Tag(hs[j], n)) /\ Tag(hs[j], n).size = s
    BY <1>2, <1>5, TagIs
  <2> QED
    BY <1>5, <2>1, SkipStep
<1>6. Held(f[1], 0, 6, 17) /\ FlagsOf(f[1]) = FlagsOf(f[0])
  <2>1. 1 \in 1 .. 8 /\ 1 - 1 = 0 /\ x \in Nat \ {0} /\ y <= x /\ x - y = 17
    BY <1>4
  <2> QED
    BY <1>4, <1>5, <2>1
<1>7. Held(f[2], 0, 6, 10) /\ FlagsOf(f[2]) = FlagsOf(f[0])
  <2>1. 2 \in 1 .. 8 /\ 2 - 1 = 1 /\ 17 - 7 = 10 /\ 7 <= 17
    OBVIOUS
  <2> QED
    BY <1>3, <1>5, <1>6, <2>1
<1>8. Held(f[3], 0, 6, 8) /\ FlagsOf(f[3]) = FlagsOf(f[0])
  <2>1. 3 \in 1 .. 8 /\ 3 - 1 = 2 /\ 10 - 2 = 8 /\ 2 <= 10
    OBVIOUS
  <2> QED
    BY <1>3, <1>5, <1>7, <2>1
<1>9. Held(f[4], 0, 6, 6) /\ FlagsOf(f[4]) = FlagsOf(f[0])
  <2>1. 4 \in 1 .. 8 /\ 4 - 1 = 3 /\ 8 - 2 = 6 /\ 2 <= 8
    OBVIOUS
  <2> QED
    BY <1>3, <1>5, <1>8, <2>1
<1>10. Held(f[5], 0, 6, 4) /\ FlagsOf(f[5]) = FlagsOf(f[0])
  <2>1. 5 \in 1 .. 8 /\ 5 - 1 = 4 /\ 6 - 2 = 4 /\ 2 <= 6
    OBVIOUS
  <2> QED
    BY <1>3, <1>5, <1>9, <2>1
<1>11. Held(f[6], 0, 6, 2) /\ FlagsOf(f[6]) = FlagsOf(f[0])
  <2>1. 6 \in 1 .. 8 /\ 6 - 1 = 5 /\ 4 - 2 = 2 /\ 2 <= 4
    OBVIOUS
  <2> QED
    BY <1>3, <1>5, <1>10, <2>1
<1>12. Held(f[7], 0, 6, 1) /\ FlagsOf(f[7]) = FlagsOf(f[0])
  <2>1. 7 \in 1 .. 8 /\ 7 - 1 = 6 /\ 2 - 1 = 1 /\ 1 <= 2
    OBVIOUS
  <2> QED
    BY <1>3, <1>5, <1>11, <2>1
<1> QED
  <2>1. 8 \in 1 .. 8 /\ 8 - 1 = 7 /\ 1 - 1 = 0 /\ 1 <= 1
    OBVIOUS
  <2> QED
    BY <1>3, <1>5, <1>12, <2>1

\* The epilogue that pops one register of five.
LEMMA StraySuffix ==
    ASSUME NEW f, NEW pc, NEW n, Trace(f, PopOne(pc), n), NEW x, Held(f[0], x, 6, 0)
    PROVE  Lost(f[4], x) /\ FlagsOf(f[4]) = FlagsOf(f[0])
<1>1. /\ Len(PopOne(pc)) = 4 /\ PopOne(pc)[1] = MovRax(pc) /\ PopOne(pc)[2] = StorePc(RAX)
      /\ PopOne(pc)[3] = Pop("rbp") /\ PopOne(pc)[4] = Ret
  BY DEF PopOne
<1>2. /\ MovRax(pc).op = "MOV" /\ StorePc(RAX).op = "STORE_PC" /\ Pop("rbp").op = "POP"
      /\ Ret.op = "RET"
  BY PieceSizes DEF Sized
<1>3. Held(f[2], x, 6, 0) /\ FlagsOf(f[2]) = FlagsOf(f[0])
  <2>1. \A j \in 1 .. 2 : j = 1 \/ j = 2
    OBVIOUS
  <2>2. \A j \in 1 .. 2 : PopOne(pc)[j].op \in {"STORE", "MOV", "STORE_PC"}
    BY <1>1, <1>2, <2>1, Zenon
  <2>3. 2 \in Nat /\ 4 \in Nat /\ 2 <= 4
    OBVIOUS
  <2> QED
    BY <1>1, <2>2, <2>3, QuietPrefix
<1>4. f[3] = Step(f[2], Tag(Pop("rbp"), n)) /\ f[4] = Step(f[3], Tag(Ret, n))
  <2>1. 3 \in 1 .. 4 /\ 4 \in 1 .. 4 /\ 3 - 1 = 2 /\ 4 - 1 = 3
    OBVIOUS
  <2> QED
    BY <1>1, <2>1 DEF Trace
<1>5. Tag(Pop("rbp"), n).op = "POP" /\ Tag(Ret, n).op = "RET"
  BY <1>2, TagIs
<1> QED
  BY <1>3, <1>4, <1>5, StrayStep DEF Lost

-----------------------------------------------------------------------------
(* The ends of a block.                                                    *)

\* The stores of the dirty registers.
LEMMA StoresRun ==
    ASSUME NEW c, NEW e, Coded(c), Pushes(c, e, Stores(c)), NEW x, Held(Mach(c), x, 6, 0)
    PROVE  Held(Mach(e), x, 6, 0) /\ FlagsOf(Mach(e)) = FlagsOf(Mach(c))
<1>1. AllSized(Stores(c), {"STORE"}) /\ IsSeq(Stores(c))
  BY StoresAre DEF AllSized
<1>2. PICK f : /\ Trace(f, Stores(c), CountOf(c) + 1) /\ f[0] = Mach(c)
               /\ f[Len(Stores(c))] = Mach(e)
  <2>1. Ran(c, e, Stores(c))
    BY <1>1, MachPushes
  <2> QED
    BY <2>1 DEF Ran
<1>3. PICK l \in Nat : l = Len(Stores(c))
  BY <1>1, SeqFacts
<1>4. \A j \in 1 .. l : Stores(c)[j].op \in {"STORE", "MOV", "STORE_PC"}
  BY <1>1, <1>3 DEF AllSized, Sized
<1>5. l <= l
  OBVIOUS
<1> QED
  BY <1>2, <1>3, <1>4, <1>5, QuietPrefix

\* Code that returns: the host is back in the engine behind it.
LEMMA EndReturns ==
    ASSUME NEW c, NEW d, NEW e, Coded(c), Pushes(c, e, Stores(c)), NEW hs, IsSeq(hs),
           Pushes(e, d, hs), NEW k \in Nat, Len(hs) = k + 6,
           \A j \in 1 .. k : hs[j].op \in {"STORE", "MOV", "STORE_PC"},
           hs[k + 1] = Pop("r15"), hs[k + 2] = Pop("r14"), hs[k + 3] = Pop("r13"),
           hs[k + 4] = Pop("r12"), hs[k + 5] = Pop("rbp"), hs[k + 6] = Ret,
           NEW x, Held(Mach(c), x, 6, 0)
    PROVE  Back(Mach(d), x) /\ FlagsOf(Mach(d)) = FlagsOf(Mach(c))
<1>1. Held(Mach(e), x, 6, 0) /\ FlagsOf(Mach(e)) = FlagsOf(Mach(c))
  BY StoresRun
<1>2. Coded(e)
  BY DEF Pushes
<1>3. PICK f : /\ Trace(f, hs, CountOf(e) + 1) /\ f[0] = Mach(e) /\ f[Len(hs)] = Mach(d)
  <2>1. Ran(e, d, hs)
    BY <1>2, MachPushes
  <2> QED
    BY <2>1 DEF Ran
<1>4. Held(f[k], x, 6, 0) /\ FlagsOf(f[k]) = FlagsOf(f[0])
  <2>1. k + 6 \in Nat /\ k <= k + 6
    OBVIOUS
  <2> QED
    BY <1>1, <1>3, <2>1, QuietPrefix
<1>5. Back(f[k + 6], x) /\ FlagsOf(f[k + 6]) = FlagsOf(f[k])
  BY <1>3, <1>4, ReturnSuffix
<1> QED
  BY <1>1, <1>3, <1>4, <1>5

\* The epilogue that a branch falls through to returns.
LEMMA FallsBack ==
    ASSUME NEW c, Coded(c), NEW pc, NEW x, Held(Mach(c), x, 6, 0)
    PROVE  LET d == FallenThrough(c, pc)
           IN  Back(Mach(d), x) /\ FlagsOf(Mach(d)) = FlagsOf(Mach(c))
<1> DEFINE hs == SetPc(pc) \o FullEpilogue
           d == FallenThrough(c, pc)
<1>1. PICK e : e = flush_dirty_registers(c)
  OBVIOUS
<1>2. Pushes(c, e, Stores(c)) /\ Coded(e)
  BY <1>1, FlushDirtyIs DEF Pushes
<1>3. /\ IsSeq(hs) /\ Len(hs) = 8 /\ hs[1] = MovRax(pc) /\ hs[2] = StorePc(RAX)
      /\ hs[3] = Pop("r15") /\ hs[4] = Pop("r14") /\ hs[5] = Pop("r13")
      /\ hs[6] = Pop("r12") /\ hs[7] = Pop("rbp") /\ hs[8] = Ret
  BY EpilogueIs
<1>4. Pushes(e, d, hs)
  BY <1>1, <1>2, <1>3, EmitIs DEF FallenThrough
<1> HIDE DEF hs, d
<1>5. \A j \in 1 .. 2 : hs[j].op \in {"STORE", "MOV", "STORE_PC"}
  <2>1. MovRax(pc).op = "MOV" /\ StorePc(RAX).op = "STORE_PC"
    BY PieceSizes DEF Sized
  <2>2. \A j \in 1 .. 2 : j = 1 \/ j = 2
    OBVIOUS
  <2> QED
    BY <1>3, <2>1, <2>2, Zenon
<1>6. PICK k \in Nat : /\ k = 2 /\ k + 1 = 3 /\ k + 2 = 4 /\ k + 3 = 5 /\ k + 4 = 6
                       /\ k + 5 = 7 /\ k + 6 = 8
  OBVIOUS
<1>7. /\ Len(hs) = k + 6 /\ hs[k + 1] = Pop("r15") /\ hs[k + 2] = Pop("r14")
      /\ hs[k + 3] = Pop("r13") /\ hs[k + 4] = Pop("r12") /\ hs[k + 5] = Pop("rbp")
      /\ hs[k + 6] = Ret /\ IsSeq(hs)
  BY <1>3, <1>6, Zenon
<1>8. \A j \in 1 .. k : hs[j].op \in {"STORE", "MOV", "STORE_PC"}
  BY <1>5, <1>6, Zenon
<1>9. Back(Mach(d), x) /\ FlagsOf(Mach(d)) = FlagsOf(Mach(c))
  BY <1>2, <1>4, <1>7, <1>8, EndReturns, Zenon
<1> QED
  BY <1>9 DEF d

\* A jump of its size passes over it.
LEMMA PassesOver ==
    ASSUME NEW c, Coded(c), NEW pc, NEW x \in Nat,
           x = 7 * Cardinality(DirtyOf(c)) + (MovRax(pc).size + 17), Held(Mach(c), 0, 6, x)
    PROVE  LET d == FallenThrough(c, pc)
           IN  Held(Mach(d), 0, 6, 0) /\ FlagsOf(Mach(d)) = FlagsOf(Mach(c))
<1> DEFINE hs == SetPc(pc) \o FullEpilogue
           d == FallenThrough(c, pc)
<1>1. PICK e : e = flush_dirty_registers(c)
  OBVIOUS
<1>2. Pushes(c, e, Stores(c)) /\ Coded(e)
  BY <1>1, FlushDirtyIs DEF Pushes
<1>3. IsSeq(hs) /\ Len(hs) = 8
  BY EpilogueIs
<1>4. Pushes(e, d, hs)
  BY <1>1, <1>2, <1>3, EmitIs DEF FallenThrough
<1>5. PICK k, y \in Nat : /\ k = Cardinality(DirtyOf(c)) /\ k = Len(Stores(c))
                          /\ y = MovRax(pc).size
  BY StoresAre, PieceSizes
<1> HIDE DEF hs, d
<1>6. Held(Mach(e), 0, 6, y + 17) /\ FlagsOf(Mach(e)) = FlagsOf(Mach(c))
  <2>1. IsSeq(Stores(c)) /\ \A j \in 1 .. k : Stores(c)[j].size = 7
    BY <1>5, StoresAre DEF AllSized
  <2>2. PICK f : /\ Trace(f, Stores(c), CountOf(c) + 1) /\ f[0] = Mach(c)
                 /\ f[Len(Stores(c))] = Mach(e)
    <3>1. Ran(c, e, Stores(c))
      BY <1>2, <2>1, MachPushes
    <3> QED
      BY <3>1 DEF Ran
  <2>3. x = 7 * k + (y + 17)
    BY <1>5
  <2>4. x > 7 * k /\ x - 7 * k = y + 17
    BY <2>3
  <2>5. Held(f[k], 0, 6, x - 7 * k) /\ FlagsOf(f[k]) = FlagsOf(f[0])
    BY <1>5, <2>1, <2>2, <2>4, SkipPrefix
  <2> QED
    BY <1>5, <2>2, <2>4, <2>5
<1>7. PICK f : Trace(f, hs, CountOf(e) + 1) /\ f[0] = Mach(e) /\ f[Len(hs)] = Mach(d)
  <2>1. Ran(e, d, hs)
    BY <1>2, <1>3, <1>4, MachPushes
  <2> QED
    BY <2>1 DEF Ran
<1>8. Held(f[8], 0, 6, 0) /\ FlagsOf(f[8]) = FlagsOf(f[0])
  <2>1. y + 17 \in Nat /\ y + 17 = MovRax(pc).size + 17
    BY <1>5
  <2> QED
    BY <1>6, <1>7, <2>1, SkipSuffix DEF hs
<1> QED
  BY <1>3, <1>6, <1>7, <1>8 DEF d

\* The epilogue of a branch that is taken goes astray.
LEMMA GoesAstray ==
    ASSUME NEW c, Coded(c), NEW pc, NEW x, Held(Mach(c), x, 6, 0)
    PROVE  LET d == Branched(c, pc)
           IN  Lost(Mach(d), x) /\ FlagsOf(Mach(d)) = FlagsOf(Mach(c))
<1> DEFINE d == Branched(c, pc)
<1>1. PICK e : e = flush_dirty_registers(c)
  OBVIOUS
<1>2. Pushes(c, e, Stores(c)) /\ Coded(e)
  BY <1>1, FlushDirtyIs DEF Pushes
<1>3. IsSeq(PopOne(pc)) /\ Len(PopOne(pc)) = 4
  <2>1. IsSeq(PopOne(pc))
    BY EndPieces DEF AllSized
  <2> QED
    BY <2>1 DEF PopOne
<1>4. Pushes(e, d, PopOne(pc))
  BY <1>1, <1>2, <1>3, EmitIs DEF Branched
<1> HIDE DEF d
<1>5. Held(Mach(e), x, 6, 0) /\ FlagsOf(Mach(e)) = FlagsOf(Mach(c))
  BY <1>2, StoresRun
<1>6. PICK f : Trace(f, PopOne(pc), CountOf(e) + 1) /\ f[0] = Mach(e) /\ f[Len(PopOne(pc))] = Mach(d)
  <2>1. Ran(e, d, PopOne(pc))
    BY <1>2, <1>3, <1>4, MachPushes
  <2> QED
    BY <2>1 DEF Ran
<1>7. Lost(f[4], x) /\ FlagsOf(f[4]) = FlagsOf(f[0])
  BY <1>5, <1>6, StraySuffix
<1> QED
  BY <1>3, <1>5, <1>6, <1>7 DEF d

\* One piece is one step of the host.
LEMMA OneRan ==
    ASSUME NEW c, NEW d, NEW h, Coded(c), Pushes(c, d, <<h>>)
    PROVE  Mach(d) = Step(Mach(c), Tag(h, CountOf(c) + 1))
<1>1. IsSeq(<<h>>) /\ Len(<<h>>) = 1 /\ <<h>>[1] = h
  BY ShortSeqs
<1>2. Ran(c, d, <<h>>)
  BY <1>1, MachPushes
<1>3. PICK f : Trace(f, <<h>>, CountOf(c) + 1) /\ f[0] = Mach(c) /\ f[Len(<<h>>)] = Mach(d)
  BY <1>2 DEF Ran
<1>4. f[1] = Step(f[0], Tag(h, CountOf(c) + 1))
  <2>1. 1 \in 1 .. 1 /\ 1 - 1 = 0
    OBVIOUS
  <2> QED
    BY <1>1, <1>3, <2>1 DEF Trace
<1> QED
  BY <1>1, <1>3, <1>4

\* A condition below 8 compares one flag with its lowest bit.
LEMMA HoldsIs ==
    ASSUME NEW condition \in 0 .. 7, NEW F
    PROVE  LET flag == <<"z", "c", "n", "v">>[(condition \div 2) + 1]
           IN  Holds(condition, F) <=> F[flag] # TestForZero(condition)
<1>1. condition # 14
  OBVIOUS
<1>2. (condition \div 2) + 1 \in 1 .. 4
  OBVIOUS
<1>3. PICK i \in 1 .. 4 : i = (condition \div 2) + 1
  BY <1>2
<1>4. i = 1 \/ i = 2 \/ i = 3 \/ i = 4
  OBVIOUS
<1>5. <<F.z, F.c, F.n, F.v>>[i] = F[<<"z", "c", "n", "v">>[i]]
  <2>1. CASE i = 1
    BY <2>1
  <2>2. CASE i = 2
    BY <2>2
  <2>3. CASE i = 3
    BY <2>3
  <2>4. CASE i = 4
    BY <2>4
  <2> QED
    BY <1>4, <2>1, <2>2, <2>3, <2>4
<1> DEFINE flag == <<"z", "c", "n", "v">>[(condition \div 2) + 1]
<1>6. F[flag] = <<F.z, F.c, F.n, F.v>>[(condition \div 2) + 1]
  BY <1>3, <1>5, Zenon
<1> HIDE DEF flag
<1>7. Holds(condition, F) <=> F[flag] # TestForZero(condition)
  BY <1>1, <1>6, Zenon DEF Holds, TestForZero
<1> QED
  BY <1>7 DEF flag

\* The host has left the block: it is back, unless the condition holds.
Left(m, condition) ==
    m.state # "running" /\ m.count = 0 /\ (Holds(condition, FlagsOf(m)) \/ Back(m, 0))

\* The size of the epilogue that the jump of a conditional branch passes over.
LEMMA EpilogueSizeIs ==
    ASSUME NEW c, Coded(c), NEW pc \in Nat
    PROVE  /\ EpilogueSize(c, pc) \in Nat
           /\ EpilogueSize(c, pc) = 7 * Cardinality(DirtyOf(c)) + (MovRax(pc).size + 17)
<1>1. PICK k \in Nat : k = Cardinality(DirtyOf(c))
  BY StoresAre
<1>2. LONG_FROM \in Nat
  BY StartsAssumption
<1>3. PICK y \in Nat : y = (IF pc < LONG_FROM THEN 5 ELSE 10) /\ y = MovRax(pc).size
  <2>1. MovRax(pc).size = IF pc >= LONG_FROM THEN 10 ELSE 5
    BY PieceSizes
  <2>2. CASE pc < LONG_FROM
    <3>1. ~(pc >= LONG_FROM)
      BY <1>2, <2>2
    <3>2. MovRax(pc).size = 5
      BY <2>1, <3>1, Zenon
    <3> QED
      BY <2>2, <3>2
  <2>3. CASE ~(pc < LONG_FROM)
    <3>1. pc >= LONG_FROM
      BY <1>2, <2>3
    <3>2. MovRax(pc).size = 10
      BY <2>1, <3>1, SMT
    <3> QED
      BY <2>3, <3>2
  <2> QED
    BY <2>2, <2>3
<1>4. EpilogueSize(c, pc) = k * 7 + y + 7 + 8 + 1 + 1
  BY <1>1, <1>3 DEF EpilogueSize, DirtyOf
<1>5. k * 7 + y + 7 + 8 + 1 + 1 = 7 * k + (y + 17) /\ 7 * k + (y + 17) \in Nat
  OBVIOUS
<1> QED
  BY <1>1, <1>3, <1>4, <1>5

\* A conditional branch leaves the block, without counting: to the engine, unless its
\* condition holds.
LEMMA BranchLeaves ==
    ASSUME NEW c, Coded(c), AddressOf(c) \in Nat, NEW word,
           Number(word, 0, 4) \in 0 .. 7, Held(Mach(c), 0, 6, 0)
    PROVE  Left(Mach(translate_b_cond(c, word)), Number(word, 0, 4))
<1> DEFINE condition == Number(word, 0, 4)
           F == FlagsOf(Mach(c))
           compare == Host("CMP_FLAG", X86!Low("cmp_mem8_rbp_offset_imm"), FlagOf(word), 0)
           a == Tested(c, word)
           b == Jumped(a, JumpIf(word))
           d == FallenThrough(b, c.guest_address + 4)
           e == Branched(d, TakenPc(c, word))
<1>1. translate_b_cond(c, word) = e
  BY BCondIs
<1>2. Pushes(c, a, <<compare>>) /\ Coded(a) /\ AddressOf(a) = AddressOf(c)
  <2>1. Pushes(c, a, <<compare>>)
    BY BCondPushes
  <2> QED
    BY <2>1 DEF Pushes, Frame, AddressOf
<1>3. Pushes(a, b, <<JumpOver(a, JumpIf(word))>>) /\ Coded(b) /\ DirtyOf(b) = DirtyOf(a)
  <2>1. Pushes(a, b, <<JumpOver(a, JumpIf(word))>>)
    BY <1>2, BCondPushes
  <2> QED
    BY <2>1 DEF Pushes
<1>4. Coded(d)
  BY <1>3, BCondPushes DEF Grown
<1>5. Coded(e) /\ Longer(Pending(d), Pending(e))
  BY <1>4, BCondPushes DEF Grown
<1> HIDE DEF a, b, d, e
<1>6. /\ Held(Mach(a), 0, 6, 0) /\ FlagsOf(Mach(a)) = F /\ Mach(a).hostflag.z = ~F[FlagOf(word)]
  <2>1. Mach(a) = Step(Mach(c), Tag(compare, CountOf(c) + 1))
    BY <1>2, OneRan
  <2>2. PICK h : /\ h = Tag(compare, CountOf(c) + 1) /\ h.op = "CMP_FLAG" /\ h.a = FlagOf(word)
    BY TagIs, HostIs
  <2>3. /\ Held(Step(Mach(c), h), 0, 6, 0) /\ FlagsOf(Step(Mach(c), h)) = F
        /\ Step(Mach(c), h).hostflag.z = ~F[h.a]
    BY <2>2, CompareStep
  <2> QED
    BY <2>1, <2>2, <2>3, Zenon
<1> DEFINE size == EpilogueSize(a, a.guest_address + 4)
           taken == (~F[FlagOf(word)]) = (JumpIf(word) = "E")
<1>7. /\ taken => Held(Mach(b), 0, 6, size)
      /\ ~taken => Held(Mach(b), 0, 6, 0)
      /\ FlagsOf(Mach(b)) = F
  <2>1. Mach(b) = Step(Mach(a), Tag(JumpOver(a, JumpIf(word)), CountOf(a) + 1))
    BY <1>2, <1>3, OneRan
  <2>2. PICK h : /\ h = Tag(JumpOver(a, JumpIf(word)), CountOf(a) + 1)
                 /\ h.op = "JCC" /\ h.a = JumpIf(word) /\ h.b = size
    BY TagIs, HostIs DEF JumpOver
  <2>3. /\ Mach(a).hostflag.z = (h.a = "E") => Held(Step(Mach(a), h), 0, 6, h.b)
        /\ Mach(a).hostflag.z # (h.a = "E") => Held(Step(Mach(a), h), 0, 6, 0)
        /\ FlagsOf(Step(Mach(a), h)) = FlagsOf(Mach(a))
    BY <1>6, <2>2, JumpStep
  <2> HIDE DEF size, F
  <2> QED
    BY <1>6, <2>1, <2>2, <2>3, Zenon
<1>8. ASSUME taken
      PROVE  Left(Mach(e), condition)
  <2>1. PICK pc \in Nat : pc = AddressOf(c) + 4 /\ d = FallenThrough(b, pc)
    BY DEF AddressOf, d
  <2>2. size = EpilogueSize(a, pc)
    BY <1>2, <2>1 DEF AddressOf
  <2>3. size \in Nat /\ size = 7 * Cardinality(DirtyOf(b)) + (MovRax(pc).size + 17)
    BY <1>2, <1>3, <2>2, EpilogueSizeIs
  <2> HIDE DEF size
  <2>4. Held(Mach(b), 0, 6, size)
    BY <1>7, <1>8, Zenon
  <2>5. Held(Mach(d), 0, 6, 0) /\ FlagsOf(Mach(d)) = F
    BY <1>3, <1>7, <2>1, <2>3, <2>4, PassesOver
  <2>6. Lost(Mach(e), 0) /\ FlagsOf(Mach(e)) = F
    BY <1>4, <2>5, GoesAstray DEF e
  <2>7. Holds(condition, F)
    <3>1. Holds(condition, F) <=> F[FlagOf(word)] # TestForZero(condition)
      BY HoldsIs DEF FlagOf
    <3>2. (JumpIf(word) = "E") = TestForZero(condition)
      BY DEF JumpIf, TestForZero
    <3> HIDE DEF F
    <3> QED
      BY <1>8, <3>1, <3>2, Zenon
  <2> QED
    BY <2>6, <2>7 DEF Lost, Left
<1>9. ASSUME ~taken
      PROVE  Left(Mach(e), condition)
  <2> HIDE DEF size, taken
  <2>1. Held(Mach(b), 0, 6, 0)
    BY <1>7, <1>9, Zenon
  <2>2. Back(Mach(d), 0)
    BY <1>3, <2>1, FallsBack DEF d
  <2>3. Mach(e) = Mach(d)
    BY <1>4, <1>5, <2>2, StoppedTrace DEF Back
  <2> QED
    BY <2>2, <2>3 DEF Back, Left
<1> HIDE DEF taken
<1> QED
  BY <1>1, <1>8, <1>9

\* A branch that is always taken.
LEMMA AlwaysLeaves ==
    ASSUME NEW c, Coded(c), NEW word, Number(word, 0, 4) = 14, Held(Mach(c), 0, 6, 0)
    PROVE  Left(Mach(translate_b_cond(c, word)), Number(word, 0, 4))
<1>1. translate_b_cond(c, word) = Branched(c, TakenPc(c, word))
  BY BCondIs
<1>2. Lost(Mach(Branched(c, TakenPc(c, word))), 0)
  BY GoesAstray
<1>3. \A F : Holds(14, F)
  BY DEF Holds
<1> QED
  BY <1>1, <1>2, <1>3 DEF Lost, Left

\* The end of a block returns, and counts its instructions if they are counted.
LEMMA TerminateReturns ==
    ASSUME NEW c, Coded(c), Held(Mach(c), 0, 6, 0)
    PROVE  Back(Mach(terminate_block(c)),
                IF "INSTRUCTION_COUNTING" \in engine_flags THEN CountOf(c) ELSE 0)
<1> DEFINE n == IF "INSTRUCTION_COUNTING" \in engine_flags THEN CountOf(c) ELSE 0
           pc == IF c.is_pc_dynamic THEN <<>> ELSE SetPc(c.guest_address)
           hs == pc \o FullEpilogue
<1>1. PICK a, e : a = PushMacros(c, CountMacro(c)) /\ e = flush_dirty_registers(a)
  OBVIOUS
<1>2. Pushes(c, a, CountMacro(c)) /\ Coded(a)
  <2>1. IsSeq(CountMacro(c))
    BY EndPieces DEF AllSized
  <2> QED
    BY <1>1, <2>1, PushMacrosIs DEF Pushes
<1>3. Held(Mach(a), n, 6, 0)
  <2>1. CASE "INSTRUCTION_COUNTING" \in engine_flags
    <3> DEFINE h == Host("ICOUNT", X86!Low("add_mem64_rbp_offset_imm"), c.count, 0)
    <3>1. CountMacro(c) = <<h>>
      BY <2>1 DEF CountMacro
    <3>2. Mach(a) = Step(Mach(c), Tag(h, CountOf(c) + 1))
      BY <1>2, <3>1, OneRan
    <3>3. PICK g : g = Tag(h, CountOf(c) + 1) /\ g.op = "ICOUNT" /\ g.a = CountOf(c)
      BY TagIs, HostIs DEF CountOf
    <3>4. PICK x \in Nat : x = CountOf(c) /\ 0 + x = x /\ 0 \in Nat
      BY DEF Coded
    <3>5. Held(Step(Mach(c), g), 0 + x, 6, 0)
      BY <3>3, <3>4, CountStep
    <3> HIDE DEF h
    <3> QED
      BY <2>1, <3>2, <3>3, <3>4, <3>5
  <2>2. CASE "INSTRUCTION_COUNTING" \notin engine_flags
    <3>1. CountMacro(c) = <<>>
      BY <2>2 DEF CountMacro
    <3>2. IsSeq(<<>>) /\ Len(<<>>) = 0
      BY ShortSeqs
    <3>3. Ran(c, a, <<>>)
      BY <1>2, <3>1, <3>2, MachPushes
    <3>4. Mach(a) = Mach(c)
      BY <3>2, <3>3 DEF Ran
    <3> QED
      BY <2>2, <3>4
  <2> QED
    BY <2>1, <2>2
<1>4. Pushes(a, e, Stores(a)) /\ Coded(e)
  BY <1>1, <1>2, FlushDirtyIs DEF Pushes
<1>5. IsSeq(pc) /\ \A j \in 1 .. Len(pc) : pc[j].op \in {"STORE", "MOV", "STORE_PC"}
  <2>1. AllSized(pc, {"MOV", "STORE_PC"})
    BY EndPieces, SizedSeqs
  <2> QED
    BY <2>1 DEF AllSized, Sized
<1>6. PICK k \in Nat : k = Len(pc)
  BY <1>5, SeqFacts
<1>7. /\ IsSeq(hs) /\ Len(hs) = k + 6
      /\ \A j \in 1 .. k : hs[j].op \in {"STORE", "MOV", "STORE_PC"}
      /\ \A j \in 1 .. 6 : hs[k + j] = FullEpilogue[j]
  <2>1. PICK p, q : p = pc /\ q = FullEpilogue /\ IsSeq(p) /\ IsSeq(q) /\ Len(p) = k /\ Len(q) = 6
    BY <1>5, <1>6, FullEpilogueIs DEF AllSized
  <2>2. /\ IsSeq(p \o q) /\ Len(p \o q) = Len(p) + Len(q)
        /\ \A j \in 1 .. Len(p) : (p \o q)[j] = p[j]
        /\ \A j \in 1 .. Len(q) : (p \o q)[Len(p) + j] = q[j]
    <3>1. IsSeq(p) /\ IsSeq(q)
      BY <2>1
    <3> QED
      BY <3>1, ConcatIs
  <2>3. hs = p \o q /\ \A j \in 1 .. k : p[j].op \in {"STORE", "MOV", "STORE_PC"}
    BY <1>5, <1>6, <2>1
  <2> HIDE DEF hs, pc
  <2> QED
    BY <2>1, <2>2, <2>3, Zenon
<1>8. terminate_block(c) = Emit(flush_all(e), hs)
  BY <1>1, Zenon DEF terminate_block, SetPc
<1>9. Pushes(e, terminate_block(c), hs)
  BY <1>4, <1>7, <1>8, EmitIs
<1> HIDE DEF hs, pc, n
<1>10. /\ hs[k + 1] = Pop("r15") /\ hs[k + 2] = Pop("r14") /\ hs[k + 3] = Pop("r13")
       /\ hs[k + 4] = Pop("r12") /\ hs[k + 5] = Pop("rbp") /\ hs[k + 6] = Ret
  <2>1. 1 \in 1 .. 6 /\ 2 \in 1 .. 6 /\ 3 \in 1 .. 6 /\ 4 \in 1 .. 6 /\ 5 \in 1 .. 6 /\ 6 \in 1 .. 6
    OBVIOUS
  <2> QED
    BY <1>7, <2>1, FullEpilogueIs, Zenon
<1>11. Back(Mach(terminate_block(c)), n)
  BY <1>2, <1>3, <1>4, <1>7, <1>9, <1>10, EndReturns
<1> QED
  BY <1>11 DEF n

\* The prologue saves the registers the block may use.
LEMMA PrologueRuns ==
    ASSUME NEW c, Started(c), cpu \in Cpus
    PROVE  Held(Mach(c), 0, 6, 0)
<1>1. /\ Coded(c) /\ Len(CodeOf(c)) = 6 /\ Pending(c) = CodeOf(c)
      /\ \A j \in 1 .. 6 : CodeOf(c)[j] = Tag(Prologue[j], 0)
  BY PendingIs DEF Started
<1> DEFINE m(j) == At(CodeOf(c), j)
<1>2. Held(m(0), 0, 1, 0)
  <2>1. "flag" \in DOMAIN [cpu EXCEPT !.pc = start]
    BY CpusAssumption
  <2>2. "z" \in DOMAIN SubFlags(0, 0)
    BY Zenon DEF SubFlags
  <2>3. \A x, s : "flag" \in DOMAIN x /\ s = SubFlags(0, 0) =>
            FreshMachine(x) = [cpu |-> x, count |-> 0, register |-> [r \in HostRegisters |-> 0],
                               hostflag |-> s, saved |-> [r \in CalleeSaved |-> r],
                               stack |-> <<"engine">>, skip |-> 0, state |-> "running"]
    BY DEF FreshMachine
  <2>4. \A x, s, g : "flag" \in DOMAIN x /\ "z" \in DOMAIN s =>
            Held([cpu |-> x, count |-> 0, register |-> g,
                  hostflag |-> s, saved |-> [r \in CalleeSaved |-> r],
                  stack |-> <<"engine">>, skip |-> 0, state |-> "running"], 0, 1, 0)
    BY FramesAre DEF Held, MachineFields
  <2>5. Held(Boot, 0, 1, 0)
    BY <2>1, <2>2, <2>3, <2>4 DEF Boot
  <2> QED
    BY <2>5, AtNext
<1>3. \A j \in 0 .. 5 : m(j + 1) = Step(m(j), Tag(Prologue[j + 1], 0))
  <2> SUFFICES ASSUME NEW j \in 0 .. 5
               PROVE  m(j + 1) = Step(m(j), Tag(Prologue[j + 1], 0))
    OBVIOUS
  <2>1. j \in Nat /\ j + 1 \in 1 .. 6
    OBVIOUS
  <2>2. At(CodeOf(c), j + 1) = Step(At(CodeOf(c), j), CodeOf(c)[j + 1])
    BY <2>1, AtNext
  <2> QED
    BY <1>1, <2>1, <2>2
<1> HIDE DEF m
<1>4. \A r : Tag(Push(r), 0).op = "PUSH" /\ Tag(Push(r), 0).a = r
  BY TagIs, PieceSizes DEF Sized
<1>5. \A j \in 1 .. 5 : Prologue[j] = Push(Pushed[j + 1])
  <2>1. /\ Pushed[2] = "rbp" /\ Pushed[3] = "r12" /\ Pushed[4] = "r13"
        /\ Pushed[5] = "r14" /\ Pushed[6] = "r15"
    BY DEF Pushed
  <2>2. \A j \in 1 .. 5 : j = 1 \/ j = 2 \/ j = 3 \/ j = 4 \/ j = 5
    OBVIOUS
  <2>3. 1 + 1 = 2 /\ 2 + 1 = 3 /\ 3 + 1 = 4 /\ 4 + 1 = 5 /\ 5 + 1 = 6
    OBVIOUS
  <2> QED
    BY <2>1, <2>2, <2>3, PrologueIs, Zenon
<1> DEFINE K == {j \in 0 .. 5 : Held(m(j), 0, j + 1, 0)}
<1>6. 5 \in K
  <2>1. 0 \in K
    <3>1. 0 + 1 = 1 /\ 0 \in 0 .. 5
      OBVIOUS
    <3> QED
      BY <1>2, <3>1
  <2>2. ASSUME NEW j \in 1 .. 5, j - 1 \in K PROVE j \in K
    <3>1. PICK i \in 0 .. 5 : i = j - 1 /\ i + 1 = j /\ j \in 0 .. 5
      OBVIOUS
    <3>2. Held(m(i), 0, j, 0) /\ m(j) = Step(m(i), Tag(Push(Pushed[j + 1]), 0))
      BY <1>3, <1>5, <2>2, <3>1
    <3>3. Held(Step(m(i), Tag(Push(Pushed[j + 1]), 0)), 0, j + 1, 0)
      BY <1>4, <3>2, PushStep
    <3> QED
      BY <3>1, <3>2, <3>3
  <2>3. 5 \in Nat
    OBVIOUS
  <2> HIDE DEF K
  <2> QED
    BY <2>1, <2>2, <2>3, TraceInduction
<1>7. Held(m(6), 0, 6, 0)
  <2>1. 5 \in 0 .. 5 /\ 5 + 1 = 6
    OBVIOUS
  <2>2. Held(m(5), 0, 6, 0) /\ m(6) = Step(m(5), Tag(Prologue[6], 0))
    BY <1>3, <1>6, <2>1
  <2>3. Tag(Prologue[6], 0).op \in QuietOps
    BY TagIs, PrologueIs DEF Sized, QuietOps
  <2> QED
    BY <2>2, <2>3, QuietStep
<1> QED
  BY <1>1, <1>7 DEF Mach, m

-----------------------------------------------------------------------------
(* What the host does with the code that is there.                         *)

\* The last instruction of a block, and whether it is a conditional branch.
LastOf(c) == program[(start \div 4) + CountOf(c)]
Branches(c) == CountOf(c) > 0 /\ LastOf(c).op = "b.cond"

\* The code runs to its end, where the block may go on.
Open(c) == ~Branches(c) /\ Held(Mach(c), 0, 6, 0)

\* The code leaves the block with the branch at its end.
Closed(c) == Branches(c) /\ Left(Mach(c), LastOf(c).rd)

\* The code returns, and has counted.
Complete(c) ==
    /\ ~Branches(c)
    /\ Back(Mach(c), IF "INSTRUCTION_COUNTING" \in engine_flags THEN CountOf(c) ELSE 0)

Runs(l, c) ==
    /\ l \in {"fetch", "loop", "translate"} => Open(c)
    /\ l = "terminate" /\ c.status = SUCCESS => Open(c) \/ Closed(c)
    /\ l \in {"execute", "done"} => Complete(c) \/ Closed(c)

RunsInv == Runs(label, t) /\ (label = "done" => machine = Mach(t))

\* Runs of the next state, with the inputs of this one.
LEMMA RunsPrimed ==
    ASSUME UNCHANGED inputs, Runs(label', t'), label' = "done" => machine' = Mach(t')
    PROVE  RunsInv'
<1>1. program' = program /\ start' = start /\ engine_flags' = engine_flags /\ cpu' = cpu
  BY DEF inputs
<1>2. Boot' = Boot
  BY <1>1 DEF Boot
<1>3. (Mach(t))' = Mach(t')
  BY <1>2 DEF Mach, At, Pending, CodeOf, Queue
<1>4. (LastOf(t))' = LastOf(t') /\ (CountOf(t))' = CountOf(t')
  BY <1>1 DEF LastOf, CountOf
<1>5. Branches(t)' <=> Branches(t')
  BY <1>4 DEF Branches
<1>6. (Open(t)' <=> Open(t')) /\ (Closed(t)' <=> Closed(t')) /\ (Complete(t)' <=> Complete(t'))
  <2>1. Open(t)' <=> Open(t')
    BY <1>3, <1>5 DEF Open
  <2>2. Closed(t)' <=> Closed(t')
    BY <1>3, <1>4, <1>5 DEF Closed
  <2>3. Complete(t)' <=> Complete(t')
    BY <1>1, <1>3, <1>4, <1>5 DEF Complete
  <2> QED
    BY <2>1, <2>2, <2>3
<1> QED
  BY <1>3, <1>6 DEF Runs, RunsInv

\* The same code runs in the same way.
LEMMA MachSame ==
    ASSUME NEW c, NEW d, CodeOf(d) = CodeOf(c), Queue(d) = Queue(c)
    PROVE  Mach(d) = Mach(c)
BY DEF Mach, Pending

\* The code of one more instruction.
LEMMA RunsTranslate ==
    ASSUME PathInv, RunsInv, Translate
    PROVE  Runs(label', t')
<1> DEFINE c == Switch(t)
           d == After(c)
<1>1. /\ label = "translate" /\ Coded(t) /\ t.status = SUCCESS
      /\ t.is_block_terminated = FALSE /\ AddressOf(t) = start + 4 * CountOf(t)
      /\ t.metadata # Undecoded /\ Held(Mach(t), 0, 6, 0) /\ start \in Nat
  BY DEF PathInv, Path, Inputs, Translate, GoingOn, RunsInv, Runs, Open, metadata
<1>2. /\ Switched(t, c, t.metadata.ir_opcode)
      /\ t.metadata.ir_opcode = "BRANCH_CONDITIONAL" => c = End(translate_b_cond(t, t.instruction))
  BY <1>1, SwitchIs DEF metadata
<1>3. c.status # SUCCESS => t' = c /\ label' = "terminate"
  BY DEF Translate, After
<1>4. c.status = SUCCESS => t' = d /\ label' = IF d.is_block_terminated THEN "terminate" ELSE "loop"
  BY DEF Translate, After
<1>5. PICK g : /\ g = program[(start \div 4) + (CountOf(t) + 1)] /\ g \in Vocabulary
               /\ t.metadata = MetadataOf[g] /\ t.instruction = WordOf[g]
  BY <1>1, NextInstruction
<1>6. /\ t.metadata.ir_opcode = "BRANCH_CONDITIONAL" <=> g.op = "b.cond"
      /\ g.op = "b.cond" => Number(t.instruction, 0, 4) = g.rd
  <2>1. MetadataOf[g] # Undecoded
    BY <1>1, <1>5
  <2>2. /\ MetadataOf[g].ir_opcode = "BRANCH_CONDITIONAL" <=> g.op = "b.cond"
        /\ g.op = "b.cond" => Number(WordOf[g], 0, 4) = g.rd
    BY <1>5, <2>1, BranchesAssumption, Zenon
  <2> QED
    BY <1>5, <2>2, Zenon
<1> HIDE DEF d
<1>7. Coded(c) /\ CountOf(c) = CountOf(t) /\ c.is_block_terminated \in BOOLEAN
  BY <1>2 DEF Switched, Grown, Kept
<1> HIDE DEF c
<1>8. CASE c.status # SUCCESS
  BY <1>3, <1>8 DEF Runs
<1>9. CASE c.status = SUCCESS
  <2>1. /\ CodeOf(d) = CodeOf(c) /\ Queue(d) = Queue(c) /\ CountOf(d) = CountOf(t) + 1
        /\ Over(c) => d.is_block_terminated = TRUE
        /\ ~Over(c) => d.is_block_terminated = FALSE
    BY <1>7, AfterIs DEF d
  <2>2. Mach(d) = Mach(c) /\ CountOf(d) > 0 /\ LastOf(d) = g
    <3>1. CountOf(t) \in Nat
      BY <1>1 DEF Coded
    <3>2. CountOf(d) > 0
      BY <2>1, <3>1
    <3> QED
      BY <1>5, <2>1, <3>2, MachSame DEF LastOf
  <2>3. CASE g.op # "b.cond"
    <3>1. Grown(t, c, QuietOps)
      BY <1>2, <1>6, <1>9, <2>3 DEF Switched
    <3>2. Held(Mach(c), 0, 6, 0)
      BY <1>1, <3>1, QuietTrace
    <3>3. Open(d)
      BY <2>2, <2>3, <3>2 DEF Open, Branches
    <3>4. t' = d /\ label' \in {"terminate", "loop"}
      BY <1>4, <1>9
    <3> QED
      BY <3>3, <3>4 DEF Runs
  <2>4. CASE g.op = "b.cond"
    <3>1. PICK e : e = translate_b_cond(t, t.instruction) /\ c = End(e)
      BY <1>2, <1>6, <2>4
    <3>2. Number(t.instruction, 0, 4) = g.rd
      BY <1>6, <2>4
    <3>3. Coded(e) /\ e.status = SUCCESS /\ CodeOf(c) = CodeOf(e) /\ Queue(c) = Queue(e)
      <4>1. e = Unknown(t) \/ Grown(t, e, AllOps)
        BY <1>1, <3>1, GrowthOfBCond
      <4>2. Grown(t, Unknown(t), AllOps)
        <5>1. Grown(t, t, AllOps)
          BY <1>1, GrownByNothing DEF Coded, Kept
        <5> QED
          BY <1>1, <5>1, UnknownIs
      <4>3. Grown(t, e, AllOps)
        BY <4>1, <4>2
      <4>4. Coded(e) /\ c.status = e.status
        <5>1. Coded(e)
          BY <4>3 DEF Grown
        <5>2. End(e).status = e.status
          BY <1>1, <4>3, EndIs
        <5> QED
          BY <3>1, <5>1, <5>2
      <4>5. DOMAIN e = CompilerFields
        BY <4>4 DEF Coded
      <4>6. CodeOf(c) = CodeOf(e) /\ Queue(c) = Queue(e)
        BY <3>1, <4>5 DEF End, CodeOf, Queue, CompilerFields
      <4> QED
        BY <1>9, <4>4, <4>6
    <3>4. Number(t.instruction, 0, 4) \in 0 .. 7 \/ Number(t.instruction, 0, 4) = 14
      <4> SUFFICES ASSUME Number(t.instruction, 0, 4) \notin 0 .. 7, Number(t.instruction, 0, 4) # 14
                   PROVE  FALSE
        OBVIOUS
      <4>1. e = Unknown(t)
        BY <1>1, <3>1, BCondIs
      <4>2. Unknown(t).status = UNKNOWN_INSTRUCTION
        <5>1. Grown(t, t, AllOps)
          BY <1>1, GrownByNothing DEF Coded, Kept
        <5> QED
          BY <1>1, <5>1, UnknownIs
      <4> QED
        BY <3>3, <4>1, <4>2 DEF SUCCESS, UNKNOWN_INSTRUCTION
    <3>5. AddressOf(t) \in Nat
      <4>1. CountOf(t) \in Nat
        BY <1>1 DEF Coded
      <4> QED
        BY <1>1, <4>1
    <3>6. Left(Mach(e), Number(t.instruction, 0, 4))
      BY <1>1, <3>1, <3>4, <3>5, BranchLeaves, AlwaysLeaves
    <3>7. Closed(d)
      <4>1. Mach(d) = Mach(e)
        BY <2>2, <3>3, MachSame
      <4> QED
        BY <2>2, <2>4, <3>2, <3>6, <4>1 DEF Closed, Branches
    <3>8. t' = d /\ label' = "terminate"
      <4>1. c.is_block_terminated = TRUE
        BY <1>2, <1>6, <1>9, <2>4 DEF Switched
      <4>2. Over(c)
        BY <4>1 DEF Over
      <4> QED
        BY <1>4, <1>9, <2>1, <4>2
    <3> QED
      BY <3>7, <3>8 DEF Runs
  <2> QED
    BY <2>3, <2>4
<1> QED
  BY <1>8, <1>9

\* The end of a block.
LEMMA RunsTerminate ==
    ASSUME PathInv, RunsInv, Terminate
    PROVE  Runs(label', t')
<1>1. Coded(t) /\ label = "terminate" /\ t' = terminate_block(t)
      /\ label' = IF t.status = SUCCESS THEN "execute" ELSE "failed"
  BY DEF PathInv, Path, Terminate
<1>2. Grown(t, t', AllOps)
  BY <1>1, GrowthOfTermination
<1>3. Coded(t') /\ Longer(Pending(t), Pending(t')) /\ CountOf(t') = CountOf(t)
  BY <1>2 DEF Grown, Kept
<1>4. LastOf(t') = LastOf(t) /\ (Branches(t') <=> Branches(t))
  BY <1>3 DEF LastOf, Branches
<1>5. CASE t.status # SUCCESS
  BY <1>1, <1>5 DEF Runs
<1>6. CASE t.status = SUCCESS /\ Open(t)
  <2>1. Complete(t')
    BY <1>1, <1>3, <1>4, <1>6, TerminateReturns DEF Open, Complete
  <2> QED
    BY <1>1, <1>6, <2>1 DEF Runs
<1>7. CASE t.status = SUCCESS /\ Closed(t)
  <2>1. Mach(t') = Mach(t)
    BY <1>1, <1>3, <1>7, StoppedTrace DEF Closed, Left
  <2>2. Closed(t')
    BY <1>4, <1>7, <2>1 DEF Closed
  <2> QED
    BY <1>1, <1>7, <2>2 DEF Runs
<1> QED
  BY <1>1, <1>5, <1>6, <1>7 DEF RunsInv, Runs

\* Every step keeps what the host makes of the code.
LEMMA RunsNext ==
    ASSUME PathInv, RunsInv, [Next]_vars
    PROVE  RunsInv'
<1>1. Coded(t) /\ Runs(label, t) /\ label \in Labels
  BY DEF PathInv, Path, RunsInv
<1>2. ASSUME DOMAIN t' = CompilerFields, CountOf(t') = CountOf(t), CodeOf(t') = CodeOf(t),
             Queue(t') = Queue(t), UNCHANGED inputs, label \in {"fetch", "loop", "translate"},
             label' \in {"fetch", "loop", "translate", "terminate"}
      PROVE  RunsInv'
  <2>1. Open(t)
    BY <1>1, <1>2 DEF Runs
  <2>2. Mach(t') = Mach(t)
    BY <1>2, MachSame
  <2>3. Branches(t') <=> Branches(t)
    BY <1>2 DEF Branches, LastOf
  <2>4. Open(t')
    BY <2>1, <2>2, <2>3 DEF Open
  <2>5. Runs(label', t')
    BY <1>2, <2>4 DEF Runs
  <2> QED
    BY <1>2, <2>5, RunsPrimed
<1>3. CASE Fetch
  <2>1. PICK v, w : t' = [t EXCEPT !.status = v] \/ t' = [t EXCEPT !.i = 0, !.readable = w]
    BY <1>3, Zenon DEF Fetch
  <2>2. label = "fetch" /\ UNCHANGED inputs /\ label' \in {"loop", "terminate"}
    BY <1>3 DEF Fetch
  <2>3. /\ DOMAIN t' = CompilerFields /\ CountOf(t') = CountOf(t)
        /\ CodeOf(t') = CodeOf(t) /\ Queue(t') = Queue(t)
    BY <1>1, <2>1 DEF Coded, CompilerFields, CountOf, CodeOf, Queue
  <2> QED
    BY <1>2, <2>2, <2>3
<1>4. CASE Loop
  <2>1. PICK v, w : t' = t \/ t' = [t EXCEPT !.instruction = v, !.metadata = w]
    BY <1>4, Zenon DEF Loop
  <2>2. label = "loop" /\ UNCHANGED inputs /\ label' \in {"translate", "fetch"}
    BY <1>4 DEF Loop
  <2>3. /\ DOMAIN t' = CompilerFields /\ CountOf(t') = CountOf(t)
        /\ CodeOf(t') = CodeOf(t) /\ Queue(t') = Queue(t)
    BY <1>1, <2>1 DEF Coded, CompilerFields, CountOf, CodeOf, Queue
  <2> QED
    BY <1>2, <2>2, <2>3
<1>5. CASE DecodeFails \/ Yield
  <2>1. t' = t /\ label = "translate" /\ label' \in {"fetch", "terminate"} /\ UNCHANGED inputs
    BY <1>5 DEF DecodeFails, Yield
  <2>2. DOMAIN t' = CompilerFields
    BY <1>1, <2>1 DEF Coded
  <2> QED
    BY <1>2, <2>1, <2>2
<1>6. CASE Translate
  <2>1. label' # "done" /\ UNCHANGED inputs
    BY <1>6 DEF Translate
  <2> QED
    BY <1>6, <2>1, RunsTranslate, RunsPrimed
<1>7. CASE Terminate
  <2>1. label' # "done" /\ UNCHANGED inputs
    BY <1>7 DEF Terminate
  <2> QED
    BY <1>7, <2>1, RunsTerminate, RunsPrimed
<1>8. CASE Execute
  <2>1. /\ label = "execute" /\ label' = "done" /\ t' = t /\ UNCHANGED inputs
        /\ machine' = Run(CodeOf(t), [cpu EXCEPT !.pc = start])
    BY <1>8 DEF Execute, CodeOf
  <2>2. Pending(t) = CodeOf(t) /\ IsSeq(CodeOf(t))
    <3>1. Queue(t) = <<>>
      BY <2>1 DEF PathInv, Path
    <3> QED
      BY <1>1, <3>1, PendingIs DEF Coded
  <2>3. machine' = Mach(t)
    BY <2>1, <2>2, AtNext DEF Mach
  <2>4. Runs(label', t') /\ Mach(t') = Mach(t)
    BY <1>1, <2>1 DEF Runs
  <2> QED
    BY <2>1, <2>3, <2>4, RunsPrimed
<1>9. CASE UNCHANGED vars
  <2>1. label' = label /\ t' = t /\ UNCHANGED inputs /\ machine' = machine
    BY <1>9 DEF vars
  <2>2. Runs(label', t') /\ Mach(t') = Mach(t)
    BY <1>1, <2>1
  <2> QED
    BY <2>1, <2>2, RunsPrimed DEF RunsInv
<1> QED
  BY <1>3, <1>4, <1>5, <1>6, <1>7, <1>8, <1>9 DEF Next, Finished

\* Wherever the translation stands, the code it has emitted runs as Open, Closed and
\* Complete say.
THEOREM CodeRunsOn == Spec => []RunsInv
<1>1. ASSUME Init PROVE RunsInv
  <2>1. Started(t) /\ cpu \in Cpus /\ label = "fetch" /\ CountOf(t) = 0
    BY <1>1, StartedInit DEF Init, Started
  <2>2. Open(t)
    BY <2>1, PrologueRuns DEF Open, Branches
  <2> QED
    BY <2>1, <2>2 DEF RunsInv, Runs
<1>2. PathInv /\ RunsInv /\ [Next]_vars => RunsInv'
  BY RunsNext
<1> QED
  BY <1>1, <1>2, TranslationKeepsItsWay, PTL DEF Spec

\* The last instruction of a block, as the properties name it.
LEMMA LastOpIs ==
    ASSUME PathInv, MapsInv
    PROVE  /\ LastOp = "b.cond" <=> Branches(t)
           /\ Branches(t) => Last(Executed) = LastOf(t)
<1>1. CountOf(t) \in Nat /\ (CountOf(t) > 0 => Last(Executed) = LastOf(t))
  BY ExecutedIs DEF MapsInv, Maps, LastOf
<1>2. CASE CountOf(t) = 0
  BY <1>1, <1>2 DEF LastOp, Branches, CountOf
<1>3. CASE CountOf(t) > 0
  <2>1. LastOp = LastOf(t).op
    BY <1>1, <1>3 DEF LastOp, CountOf
  <2> QED
    BY <1>1, <1>3, <2>1 DEF Branches
<1> QED
  BY <1>1, <1>2, <1>3

\* A block that does not end in a conditional branch counts its instructions.
THEOREM BlocksCount == Spec => []Counts
<1>1. ASSUME PathInv, MapsInv, RunsInv PROVE Counts
  <2> SUFFICES ASSUME label = "done", "INSTRUCTION_COUNTING" \in engine_flags,
                      LastOp # "b.cond"
               PROVE  machine.count = t.count
    BY DEF Counts
  <2>1. machine = Mach(t) /\ (Complete(t) \/ Closed(t))
    BY <1>1 DEF RunsInv, Runs
  <2>2. LastOp = "b.cond" <=> Branches(t)
    BY <1>1, LastOpIs
  <2>3. CASE Complete(t)
    BY <2>1, <2>2, <2>3 DEF Complete, Back, CountOf
  <2>4. CASE Closed(t)
    BY <2>1, <2>2, <2>4 DEF Closed, Left
  <2> QED
    BY <2>1, <2>3, <2>4
<1> QED
  BY <1>1, TranslationKeepsItsWay, DebugMapStaysInOrder, CodeRunsOn, PTL

\* A block returns to the engine with the stack and the callee-saved registers as it
\* found them, unless it ends in a conditional branch that is taken.
THEOREM BlocksReturn == Spec => []ReturnsUnlessTaken
<1>1. ASSUME PathInv, MapsInv, RunsInv PROVE ReturnsUnlessTaken
  <2> SUFFICES ASSUME label = "done", ~TakenBranch
               PROVE  Returned
    BY DEF ReturnsUnlessTaken
  <2>1. machine = Mach(t) /\ (Complete(t) \/ Closed(t))
    BY <1>1 DEF RunsInv, Runs
  <2>2. (LastOp = "b.cond" <=> Branches(t)) /\ (Branches(t) => Last(Executed) = LastOf(t))
    BY <1>1, LastOpIs
  <2>3. CASE Complete(t)
    BY <2>1, <2>3 DEF Complete, Back, Returned
  <2>4. CASE Closed(t)
    <3>1. Branches(t) /\ (Holds(LastOf(t).rd, FlagsOf(machine)) \/ Back(machine, 0))
      BY <2>1, <2>4 DEF Closed, Left
    <3>2. ~Holds(LastOf(t).rd, FlagsOf(machine))
      BY <2>2, <3>1 DEF TakenBranch, FlagsOf
    <3> QED
      BY <3>1, <3>2 DEF Back, Returned
  <2> QED
    BY <2>1, <2>3, <2>4
<1> QED
  BY <1>1, TranslationKeepsItsWay, DebugMapStaysInOrder, CodeRunsOn, PTL
=============================================================================
