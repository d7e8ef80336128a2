-------------------------- MODULE FuzzerIpcProofs --------------------------
(***************************************************************************)
(* What the differential fuzzer promises, proved for inputs of any number  *)
(* of parts.  The coordinator never looks at the status of the Unicorn     *)
(* worker, so a match is real only because the two responses it compares   *)
(* are whole and are those that the workers computed.  The invariant says, *)
(* for each worker, where its message is: how much of the input is in the  *)
(* pipe or read, and which parts of the answer are in the pipe or received.*)
(***************************************************************************)
EXTENDS FuzzerIpc, TLAPS

\* The parts of messages, and the responses.
Datum == 0 .. UNKNOWN_INSTRUCTION \union Snapshot \union {"input"}
Response == [status : 0 .. UNKNOWN_INSTRUCTION, final_state : Snapshot]
Answers(w) == IF w = "ballistic" THEN BallisticAnswers ELSE UnicornAnswers

\* The coordinator's steps for a worker.
SpawnAt(w) == IF w = "ballistic" THEN 1 ELSE 2
SendAt(w) == IF w = "ballistic" THEN 3 ELSE 4
ReceiveAt(w) == IF w = "ballistic" THEN 5 ELSE 6
DestroyAt(w) == IF w = "ballistic" THEN 7 ELSE 8

Typed ==
    /\ pc \in 1 .. 9 /\ remaining \in Nat \ {0}
    /\ response \in [Workers -> Seq(Datum)]
    /\ status \in [Workers -> {"none", "BAL_SUCCESS", "BAL_ERROR_STRUCT_CORRUPTED",
                               "BAL_ERROR_THREAD_CLEANUP"}]
    /\ exit \in {"none", "failure", "matched", "mismatched", "SIGPIPE"}
    /\ worker \in [Workers -> {"none", "forked", "reading", "computing", "hung",
                               "writing", "ended", "reaped"}]
    /\ answer \in [Workers -> Response]
    /\ progress \in [Workers -> Nat]
    /\ pipe \in [Pipes -> Seq(Datum)]

\* What the loop of send or receive has left is part of a message.
Loop == remaining <= IF pc \in {5, 6} THEN RESPONSE_PARTS ELSE INPUT_PARTS

\* The parts that were sent to w, at most.
Sent(w) ==
    IF pc < SendAt(w) THEN 0
    ELSE IF pc = SendAt(w) THEN INPUT_PARTS - remaining ELSE INPUT_PARTS

In(w) == pipe[<<w, "in">>]
Out(w) == pipe[<<w, "out">>]
Silent(w) == response[w] = <<>> /\ Out(w) = <<>>

\* w has not read all of its input; it has read it and not answered; it has
\* written n parts of its answer, which are in the pipe or received.
Asked(w) == Silent(w) /\ Len(In(w)) + progress[w] <= Sent(w)
HasAll(w) == Silent(w) /\ In(w) = <<>> /\ progress[w] = 0 /\ pc > SendAt(w)
Said(w, n) ==
    /\ In(w) = <<>> /\ pc > SendAt(w)
    /\ answer[w] \in Answers(w)
    /\ n <= RESPONSE_PARTS /\ Len(response[w]) + Len(Out(w)) = n
    /\ \A i \in 1 .. Len(response[w]) : response[w][i] = Parts(answer[w])[i]
    /\ \A i \in 1 .. Len(Out(w)) : Out(w)[i] = Parts(answer[w])[Len(response[w]) + i]

\* The message of a worker is where the worker's state says.  It never reads a
\* second input, because there is none.
Message(w) ==
    \/ worker[w] \in {"none", "forked", "reading"} /\ Asked(w)
    \/ worker[w] = "reading" /\ Said(w, RESPONSE_PARTS) /\ progress[w] = 0
    \/ worker[w] \in {"computing", "hung"} /\ HasAll(w)
    \/ worker[w] = "writing" /\ Said(w, progress[w])
    \/ worker[w] \in {"ended", "reaped"} /\ (Asked(w) \/ \E n \in Nat : Said(w, n))

\* What the coordinator has of a worker is what its step says.
Coordinated(w) ==
    /\ pc < ReceiveAt(w) => response[w] = <<>> /\ status[w] = "none"
    /\ pc = ReceiveAt(w) => Len(response[w]) + remaining = RESPONSE_PARTS
    /\ pc > ReceiveAt(w) /\ status[w] = "BAL_SUCCESS" => Len(response[w]) = RESPONSE_PARTS
    /\ pc = ReceiveAt(w) => status[w] = "none"
    /\ exit = "none" /\ pc <= SpawnAt(w) => worker[w] = "none"
    /\ pc > DestroyAt(w) => worker[w] = "reaped"

Inv ==
    /\ Typed /\ Loop
    /\ \A w \in Workers : Message(w) /\ Coordinated(w)
    /\ NothingLeftBehind /\ MatchIsReal

-----------------------------------------------------------------------------
(* Lemmas about the coordinator's steps and the pipes.                     *)

\* A worker's two pipes are different, and so are those of two workers.
LEMMA TwoPipes ==
    /\ \A w \in Workers : <<w, "in">> \in Pipes /\ <<w, "out">> \in Pipes
    /\ \A v, w \in Workers : <<v, "in">> # <<w, "out">>
    /\ \A v, w \in Workers : v # w => <<v, "in">> # <<w, "in">> /\ <<v, "out">> # <<w, "out">>
BY DEF Pipes

\* Some consecutive parts of a message.
LEMMA Slice ==
    ASSUME NEW S, NEW s \in Seq(S), NEW m \in Nat, NEW k \in Nat, m + k <= Len(s)
    PROVE  /\ SubSeq(s, m + 1, m + k) \in Seq(S) /\ Len(SubSeq(s, m + 1, m + k)) = k
           /\ \A i \in 1 .. k : SubSeq(s, m + 1, m + k)[i] = s[m + i]
<1>1. \A i \in m + 1 .. m + k : i \in 1 .. Len(s)
  OBVIOUS
<1>2. Len(SubSeq(s, m + 1, m + k)) = k
  OBVIOUS
<1>3. \A i \in 1 .. k : SubSeq(s, m + 1, m + k)[i] = s[m + i]
  OBVIOUS
<1> QED
  BY <1>1, <1>2, <1>3

\* A message behind another one in a pipe.
LEMMA Joined ==
    ASSUME NEW S, NEW s \in Seq(S), NEW t \in Seq(S)
    PROVE  /\ s \o t \in Seq(S) /\ Len(s \o t) = Len(s) + Len(t)
           /\ \A i \in 1 .. Len(s) : (s \o t)[i] = s[i]
           /\ \A i \in Len(s) + 1 .. Len(s) + Len(t) : (s \o t)[i] = t[i - Len(s)]
OBVIOUS

\* An operation is at its step of main.
LEMMA StepOf ==
    ASSUME pc \in 1 .. 9, NEW w \in Workers
    PROVE  /\ At("spawn", w) => exit = "none" /\ pc = SpawnAt(w)
           /\ At("send", w) => exit = "none" /\ pc = SendAt(w)
           /\ At("receive", w) => exit = "none" /\ pc = ReceiveAt(w)
           /\ At("destroy", w) => exit = "none" /\ pc = DestroyAt(w)
           /\ At("compare", "unicorn") => exit = "none" /\ pc = 9
<1>1. pc \in {1, 2, 3, 4, 5, 6, 7, 8, 9}
  OBVIOUS
<1> QED
  BY <1>1 DEF At, Program, SpawnAt, SendAt, ReceiveAt, DestroyAt, Workers

\* The step after the one at pc.
LEMMA Advanced ==
    ASSUME pc \in 1 .. 8, Advance
    PROVE  /\ pc' = pc + 1 /\ remaining' \in Nat \ {0}
           /\ pc' \in {5, 6} => remaining' = RESPONSE_PARTS
           /\ pc' \notin {5, 6} => remaining' = INPUT_PARTS
<1>1. pc \in {1, 2, 3, 4, 5, 6, 7, 8}
  OBVIOUS
<1> QED
  BY <1>1, PartsAssumption DEF Advance, Program, RESPONSE_PARTS

\* What was sent is a number.
LEMMA SentTyped ==
    ASSUME Typed, Loop, NEW w \in Workers
    PROVE  Sent(w) \in 0 .. INPUT_PARTS
BY PartsAssumption DEF Typed, Loop, Sent, SendAt, Workers

\* The coordinator goes on: nothing is sent less.
LEMMA SentKept ==
    ASSUME Typed, Loop, NEW w \in Workers, pc \in 1 .. 8,
           Advance \/ UNCHANGED <<pc, remaining>>
    PROVE  Sent(w)' >= Sent(w) /\ pc' >= pc
<1>1. CASE UNCHANGED <<pc, remaining>>
  <2>1. pc' = pc /\ remaining' = remaining /\ Sent(w) \in 0 .. INPUT_PARTS
    BY <1>1, SentTyped
  <2>2. Sent(w)' = Sent(w)
    BY <2>1 DEF Sent, SendAt
  <2> QED
    BY <2>1, <2>2, PartsAssumption
<1>2. CASE Advance
  <2>1. /\ pc' = pc + 1
        /\ pc' \notin {5, 6} => remaining' = INPUT_PARTS
    BY <1>2, Advanced
  <2>2. Sent(w) \in 0 .. INPUT_PARTS
    BY SentTyped
  <2> QED
    BY <2>1, <2>2, PartsAssumption DEF Typed, Sent, SendAt, Workers
<1> QED
  BY <1>1, <1>2

\* The part of the state that is worker w's.
Kept(w) ==
    /\ answer'[w] = answer[w] /\ progress'[w] = progress[w] /\ response'[w] = response[w]
    /\ In(w)' = In(w) /\ Out(w)' = Out(w)

\* What was said stays said while the coordinator goes on.
LEMMA MessageParts ==
    ASSUME Typed, Loop, NEW w \in Workers, Kept(w), pc' \in Nat, pc' >= pc,
           Sent(w)' \in Nat, Sent(w)' >= Sent(w)
    PROVE  /\ Asked(w) => Asked(w)'
           /\ HasAll(w) => HasAll(w)' /\ Asked(w)'
           /\ \A n \in Nat : Said(w, n) => Said(w, n)'
<1>1. /\ Sent(w) \in Nat /\ pc \in Nat /\ Len(In(w)) \in Nat /\ progress[w] \in Nat
      /\ SendAt(w) \in Nat /\ INPUT_PARTS \in Nat
  BY SentTyped, TwoPipes, PartsAssumption DEF Typed, In, SendAt
<1>2. Silent(w) => Silent(w)'
  BY DEF Kept, Silent
<1>3. Asked(w) => Asked(w)'
  BY <1>1, <1>2 DEF Kept, Asked
<1>4. pc > SendAt(w) => pc' > SendAt(w)'
  BY <1>1 DEF SendAt
<1>5. HasAll(w) => HasAll(w)'
  BY <1>2, <1>4 DEF Kept, HasAll
<1>6. HasAll(w) => Asked(w)
  <2> SUFFICES ASSUME HasAll(w) PROVE Asked(w)
    OBVIOUS
  <2>1. Len(In(w)) = 0 /\ progress[w] = 0
    BY DEF HasAll
  <2> QED
    BY <1>1, <2>1 DEF HasAll, Asked
<1>7. ASSUME NEW n \in Nat, Said(w, n) PROVE Said(w, n)'
  <2>1. In(w)' = <<>> /\ pc' > SendAt(w)' /\ answer'[w] \in Answers(w)'
    BY <1>4, <1>7 DEF Kept, Said, Answers, BallisticAnswers, UnicornAnswers
  <2>2. /\ n <= RESPONSE_PARTS /\ Len(response'[w]) + Len(Out(w)') = n
        /\ \A i \in 1 .. Len(response'[w]) : response'[w][i] = Parts(answer'[w])[i]
        /\ \A i \in 1 .. Len(Out(w)') :
               Out(w)'[i] = Parts(answer'[w])[Len(response'[w]) + i]
    BY <1>7 DEF Kept, Said
  <2> QED
    BY <2>1, <2>2 DEF Said
<1> QED
  BY <1>3, <1>5, <1>6, <1>7

\* A worker that does nothing, or dies, has its message where it was.
LEMMA MessageKept ==
    ASSUME Typed, Loop, NEW w \in Workers, Message(w), Kept(w), pc' \in Nat, pc' >= pc,
           Sent(w)' \in Nat, Sent(w)' >= Sent(w),
           worker'[w] = worker[w] \/ worker'[w] \in {"ended", "reaped"}
    PROVE  Message(w)'
<1>1. /\ Asked(w) => Asked(w)'
      /\ HasAll(w) => HasAll(w)' /\ Asked(w)'
      /\ \A n \in Nat : Said(w, n) => Said(w, n)'
  BY MessageParts
<1>2. progress[w] \in Nat /\ progress'[w] = progress[w] /\ RESPONSE_PARTS \in Nat
  BY DEF Typed, Kept, RESPONSE_PARTS
<1>3. CASE worker'[w] = worker[w]
  <2>1. CASE worker[w] \in {"none", "forked", "reading"} /\ Asked(w)
    BY <1>1, <1>3, <2>1 DEF Message
  <2>2. CASE worker[w] = "reading" /\ Said(w, RESPONSE_PARTS) /\ progress[w] = 0
    <3>1. Said(w, RESPONSE_PARTS)'
      BY <1>1, <1>2, <2>2 DEF RESPONSE_PARTS
    <3> QED
      BY <1>2, <1>3, <2>2, <3>1 DEF Message
  <2>3. CASE worker[w] \in {"computing", "hung"} /\ HasAll(w)
    BY <1>1, <1>3, <2>3 DEF Message
  <2>4. CASE worker[w] = "writing" /\ Said(w, progress[w])
    BY <1>1, <1>2, <1>3, <2>4 DEF Message, Said
  <2>5. CASE worker[w] \in {"ended", "reaped"} /\ (Asked(w) \/ \E n \in Nat : Said(w, n))
    BY <1>1, <1>3, <2>5 DEF Message
  <2> QED
    BY <2>1, <2>2, <2>3, <2>4, <2>5 DEF Message
<1>4. CASE worker'[w] \in {"ended", "reaped"}
  <2>1. Asked(w)' \/ \E n \in Nat : Said(w, n)'
    BY <1>1, <1>2 DEF Message
  <2> QED
    BY <1>4, <2>1 DEF Message
<1> QED
  BY <1>3, <1>4

\* The coordinator goes on with something else than what w answers or its end.
LEMMA CoordinatedKept ==
    ASSUME Typed, NEW w \in Workers, Coordinated(w), exit' = exit,
           response'[w] = response[w], status'[w] = status[w],
           worker'[w] = worker[w],
           UNCHANGED <<pc, remaining>>
               \/ (Advance /\ pc \in 1 .. 8 /\ pc # ReceiveAt(w) /\ pc # DestroyAt(w))
    PROVE  Coordinated(w)'
<1>1. pc \in 1 .. 9 /\ ReceiveAt(w) \in {5, 6} /\ SpawnAt(w) \in {1, 2}
      /\ DestroyAt(w) \in {7, 8} /\ ReceiveAt(w)' = ReceiveAt(w)
      /\ SpawnAt(w)' = SpawnAt(w) /\ DestroyAt(w)' = DestroyAt(w)
  BY DEF Typed, ReceiveAt, SpawnAt, DestroyAt, Workers
<1>2. CASE UNCHANGED <<pc, remaining>>
  BY <1>1, <1>2 DEF Coordinated
<1>3. CASE Advance /\ pc \in 1 .. 8 /\ pc # ReceiveAt(w) /\ pc # DestroyAt(w)
  <2>1. /\ pc' = pc + 1
        /\ pc' \in {5, 6} => remaining' = RESPONSE_PARTS
    BY <1>3, Advanced
  <2>2. /\ pc' < ReceiveAt(w) => pc < ReceiveAt(w)
        /\ pc' = ReceiveAt(w) => pc < ReceiveAt(w) /\ remaining' = RESPONSE_PARTS
        /\ pc' > ReceiveAt(w) => pc > ReceiveAt(w)
        /\ pc' <= SpawnAt(w) => pc <= SpawnAt(w)
        /\ pc' > DestroyAt(w) => pc > DestroyAt(w)
    BY <1>1, <1>3, <2>1
  <2>3. pc' = ReceiveAt(w) => Len(response'[w]) + remaining' = RESPONSE_PARTS
    <3> SUFFICES ASSUME pc' = ReceiveAt(w) PROVE Len(response'[w]) + remaining' = RESPONSE_PARTS
      OBVIOUS
    <3>1. response'[w] = <<>> /\ remaining' = RESPONSE_PARTS
      BY <2>2 DEF Coordinated
    <3>2. Len(<<>>) = 0 /\ RESPONSE_PARTS \in Nat
      BY DEF RESPONSE_PARTS
    <3> QED
      BY <3>1, <3>2
  <2> QED
    BY <1>1, <2>2, <2>3 DEF Coordinated
<1> QED
  BY <1>2, <1>3

\* A worker acts only while it runs and its coordinator has not returned.
LEMMA WorkerActs ==
    ASSUME Inv, NEW w \in Workers,
           worker[w] \in {"forked", "reading", "computing", "writing"},
           UNCHANGED <<pc, remaining, exit, response, status>>,
           \A v \in Workers \ {w} : worker'[v] = worker[v],
           worker'[w] # "none" 
    PROVE  /\ \A v \in Workers : Coordinated(v)'
           /\ exit \in {"none", "SIGPIPE"} /\ NothingLeftBehind' /\ MatchIsReal'
<1>1. exit \in {"none", "SIGPIPE"} /\ exit' = exit
  BY DEF Inv, NothingLeftBehind
<1>2. NothingLeftBehind' /\ MatchIsReal'
  BY <1>1 DEF NothingLeftBehind, MatchIsReal
<1>3. Coordinated(w)'
  <2>1. ~(exit = "none" /\ pc <= SpawnAt(w)) /\ ~(pc > DestroyAt(w))
    BY DEF Inv, Coordinated
  <2>2. /\ pc' = pc /\ remaining' = remaining /\ ReceiveAt(w)' = ReceiveAt(w)
        /\ SpawnAt(w)' = SpawnAt(w) /\ DestroyAt(w)' = DestroyAt(w)
        /\ response' = response /\ status' = status
    BY DEF ReceiveAt, SpawnAt, DestroyAt
  <2>3. Coordinated(w)
    BY DEF Inv
  <2> QED
    BY <1>1, <2>1, <2>2, <2>3 DEF Coordinated
<1>4. ASSUME NEW v \in Workers \ {w} PROVE Coordinated(v)'
  BY <1>4, CoordinatedKept DEF Inv
<1> QED
  BY <1>1, <1>2, <1>3, <1>4

\* What does not concern a worker leaves its message where it is.
LEMMA MessageStays ==
    ASSUME Inv, UNCHANGED <<pc, remaining>>, NEW w \in Workers, Kept(w),
           worker'[w] = worker[w] \/ worker'[w] \in {"ended", "reaped"}
    PROVE  Message(w)'
<1>1. Typed /\ Loop /\ Message(w)
  BY DEF Inv
<1>2. pc \in Nat /\ pc' = pc /\ remaining' = remaining
  BY <1>1 DEF Typed
<1>3. Sent(w) \in Nat
  BY <1>1, SentTyped, PartsAssumption
<1>4. Sent(w)' = Sent(w)
  BY <1>2 DEF Sent, SendAt
<1> QED
  BY <1>1, <1>2, <1>3, <1>4, MessageKept

-----------------------------------------------------------------------------
(* The steps of the workers keep the invariant.                            *)

\* A worker's process ends.
LEMMA EndsInv ==
    ASSUME Inv, NEW w \in Workers, worker[w] \in {"forked", "reading", "computing", "writing"},
           Ends(w), UNCHANGED <<coordinator, answer, progress, pipe>>
    PROVE  Inv'
<1>1. /\ worker' = [worker EXCEPT ![w] = "ended"]
      /\ UNCHANGED <<pc, remaining, exit, response, status, answer, progress, pipe>>
  BY DEF Ends, coordinator
<1>2. Typed /\ Loop
  BY DEF Inv
<1>3. worker'[w] = "ended" /\ \A v \in Workers \ {w} : worker'[v] = worker[v]
  BY <1>1, <1>2 DEF Typed
<1>4. Typed' /\ Loop'
  BY <1>1, <1>2 DEF Typed, Loop
<1>5. \A v \in Workers : Kept(v)
  BY <1>1 DEF Kept, In, Out
<1>6. \A v \in Workers : Message(v)'
  BY <1>1, <1>3, <1>5, MessageStays
<1>7. (\A v \in Workers : Coordinated(v)') /\ NothingLeftBehind' /\ MatchIsReal'
  BY <1>1, <1>3, WorkerActs
<1> QED
  BY <1>4, <1>6, <1>7 DEF Inv

\* A forked worker becomes the program, or fails to.
LEMMA ExecInv ==
    ASSUME Inv, NEW w \in Workers, Exec(w)
    PROVE  Inv'
<1>1. /\ worker[w] = "forked"
      /\ worker' = [worker EXCEPT ![w] = "reading"] \/ Ends(w)
      /\ UNCHANGED <<coordinator, answer, progress, pipe>>
  BY DEF Exec
<1>2. CASE Ends(w)
  BY <1>1, <1>2, EndsInv
<1>3. CASE worker' = [worker EXCEPT ![w] = "reading"]
  <2>1. UNCHANGED <<pc, remaining, exit, response, status, answer, progress, pipe>>
    BY <1>1 DEF coordinator
  <2>2. Typed /\ Loop /\ Message(w)
    BY DEF Inv
  <2>3. worker'[w] = "reading" /\ \A v \in Workers \ {w} : worker'[v] = worker[v]
    BY <1>3, <2>2 DEF Typed
  <2>4. Typed' /\ Loop'
    BY <1>3, <2>1, <2>2 DEF Typed, Loop
  <2>5. \A v \in Workers : Kept(v)
    BY <2>1 DEF Kept, In, Out
  <2>6. \A v \in Workers \ {w} : Message(v)'
    BY <2>1, <2>3, <2>5, MessageStays
  <2>7. Message(w)'
    <3>1. Asked(w)
      BY <1>1, <2>2 DEF Message
    <3>2. Asked(w)'
      BY <2>1, <3>1 DEF Asked, Silent, In, Out, Sent, SendAt
    <3> QED
      BY <2>3, <3>2 DEF Message
  <2>8. (\A v \in Workers : Coordinated(v)') /\ NothingLeftBehind' /\ MatchIsReal'
    BY <1>1, <2>1, <2>3, WorkerActs
  <2> QED
    BY <2>4, <2>6, <2>7, <2>8 DEF Inv
<1> QED
  BY <1>1, <1>2, <1>3

\* The guest code runs, to an answer or for ever.
LEMMA ComputeInv ==
    ASSUME Inv, NEW w \in Workers, Compute(w)
    PROVE  Inv'
<1>1. /\ worker[w] = "computing"
      /\ UNCHANGED <<pc, remaining, exit, response, status, progress, pipe>>
  BY DEF Compute, coordinator
<1>2. Typed /\ Loop /\ HasAll(w)
  BY <1>1 DEF Inv, Message
<1>3. \/ \E a \in Answers(w) : /\ answer' = [answer EXCEPT ![w] = a]
                               /\ worker' = [worker EXCEPT ![w] = "writing"]
      \/ worker' = [worker EXCEPT ![w] = "hung"] /\ UNCHANGED answer
  BY DEF Compute, Answers
<1>4. worker'[w] \in {"writing", "hung"} /\ \A v \in Workers \ {w} : worker'[v] = worker[v]
  BY <1>2, <1>3 DEF Typed
<1>5. \A v \in Workers \ {w} : answer'[v] = answer[v]
  BY <1>2, <1>3 DEF Typed
<1>6. \A v \in Workers \ {w} : Message(v)'
  <2>1. \A v \in Workers \ {w} : Kept(v)
    BY <1>1, <1>5 DEF Kept, In, Out
  <2> QED
    BY <1>1, <1>4, <2>1, MessageStays
<1>7. (\A v \in Workers : Coordinated(v)') /\ NothingLeftBehind' /\ MatchIsReal'
  BY <1>1, <1>4, WorkerActs
<1>8. Answers(w) \subseteq Response
  BY DEF Answers, BallisticAnswers, UnicornAnswers, SentinelWritten, Response, Snapshot,
         ZeroSnapshot, COMPILE_FAILED, EXECUTION_FAILED, UNKNOWN_INSTRUCTION, OK
<1>9. Typed' /\ Loop'
  <2>1. answer' \in [Workers -> Response]
    BY <1>2, <1>3, <1>8 DEF Typed
  <2>2. worker' \in [Workers -> {"none", "forked", "reading", "computing", "hung",
                                 "writing", "ended", "reaped"}]
    BY <1>2, <1>3 DEF Typed
  <2> QED
    BY <1>1, <1>2, <2>1, <2>2 DEF Typed, Loop
<1>10. Message(w)'
  <2>1. CASE worker' = [worker EXCEPT ![w] = "hung"]
    <3>1. HasAll(w)'
      BY <1>1, <1>2 DEF HasAll, Silent, In, Out, SendAt
    <3>2. worker'[w] = "hung"
      BY <1>2, <2>1 DEF Typed
    <3> QED
      BY <3>1, <3>2 DEF Message
  <2>2. ASSUME NEW a \in Answers(w), answer' = [answer EXCEPT ![w] = a],
               worker' = [worker EXCEPT ![w] = "writing"]
        PROVE  Message(w)'
    <3>1. answer'[w] \in Answers(w)' /\ worker'[w] = "writing"
      <4>1. answer'[w] = a /\ worker'[w] = "writing"
        BY <1>2, <2>2 DEF Typed
      <4>2. Answers(w)' = Answers(w)
        BY DEF Answers, BallisticAnswers, UnicornAnswers, SentinelWritten
      <4> QED
        BY <2>2, <4>1, <4>2
    <3>2. response'[w] = <<>> /\ Out(w)' = <<>> /\ In(w)' = <<>> /\ pc' > SendAt(w)'
          /\ progress'[w] = 0
      BY <1>1, <1>2 DEF HasAll, Silent, In, Out, SendAt
    <3>3. Len(<<>>) = 0 /\ 1 .. 0 = {} /\ 0 <= RESPONSE_PARTS /\ 0 + 0 = 0
      BY DEF RESPONSE_PARTS
    <3>4. Said(w, progress[w])'
      BY <3>1, <3>2, <3>3 DEF Said
    <3> QED
      BY <3>1, <3>4 DEF Message
  <2> QED
    BY <1>3, <2>1, <2>2
<1> QED
  BY <1>6, <1>7, <1>9, <1>10 DEF Inv

\* A worker reads some of what is in its pipe: of an input that is on its way,
\* since after its answer there is nothing to read.
LEMMA ReadInv ==
    ASSUME Inv, NEW w \in Workers, Read(w)
    PROVE  Inv'
<1>1. /\ worker[w] = "reading"
      /\ UNCHANGED <<pc, remaining, exit, response, status, answer>>
  BY DEF Read, coordinator
<1>2. Typed /\ Loop /\ Message(w)
  BY DEF Inv
<1>3. PICK k \in 1 .. INPUT_PARTS - progress[w] :
        /\ k <= Len(In(w))
        /\ pipe' = [pipe EXCEPT ![<<w, "in">>] = SubSeq(@, k + 1, Len(@))]
        /\ IF progress[w] + k = INPUT_PARTS
           THEN worker' = [worker EXCEPT ![w] = "computing"]
                /\ progress' = [progress EXCEPT ![w] = 0]
           ELSE progress' = [progress EXCEPT ![w] = @ + k] /\ UNCHANGED worker
  BY DEF Read, In
<1>4. /\ In(w) \in Seq(Datum) /\ Len(In(w)) \in Nat /\ progress[w] \in Nat
      /\ INPUT_PARTS \in Nat /\ k \in Nat \ {0}
  <2>1. In(w) \in Seq(Datum) /\ progress[w] \in Nat
    BY <1>2, TwoPipes DEF Typed, In
  <2> QED
    BY <1>3, <2>1, PartsAssumption
<1>5. In(w)' = SubSeq(In(w), k + 1, Len(In(w))) /\ Out(w)' = Out(w)
  BY <1>2, <1>3, TwoPipes DEF Typed, In, Out
<1>6. In(w)' \in Seq(Datum) /\ Len(In(w)') = Len(In(w)) - k
  BY <1>3, <1>4, <1>5
<1>7. \A v \in Workers \ {w} : Kept(v) /\ worker'[v] = worker[v]
  <2>1. \A v \in Workers \ {w} : In(v)' = In(v) /\ Out(v)' = Out(v)
    BY <1>2, <1>3, TwoPipes DEF Typed, In, Out
  <2>2. \A v \in Workers \ {w} : progress'[v] = progress[v] /\ worker'[v] = worker[v]
    BY <1>2, <1>3 DEF Typed
  <2> QED
    BY <1>1, <2>1, <2>2 DEF Kept
<1>8. \A v \in Workers \ {w} : Message(v)'
  BY <1>1, <1>7, MessageStays
<1>9. Asked(w)
  <2> SUFFICES ASSUME Said(w, RESPONSE_PARTS) PROVE FALSE
    BY <1>1, <1>2 DEF Message
  <2>1. Len(In(w)) = 0
    BY DEF Said
  <2> QED
    BY <1>3, <1>4, <2>1
<1>10. Sent(w) \in 0 .. INPUT_PARTS
  BY <1>2, SentTyped
<1>11. Typed' /\ Loop'
  <2>1. pipe' \in [Pipes -> Seq(Datum)]
    BY <1>2, <1>3, <1>5, <1>6, TwoPipes DEF Typed, In
  <2>2. progress' \in [Workers -> Nat]
    <3>1. \E n \in Nat : progress' = [progress EXCEPT ![w] = n]
      BY <1>3, <1>4
    <3> QED
      BY <1>2, <3>1 DEF Typed
  <2>3. worker' \in [Workers -> {"none", "forked", "reading", "computing", "hung",
                                 "writing", "ended", "reaped"}]
    BY <1>2, <1>3 DEF Typed
  <2> QED
    BY <1>1, <1>2, <2>1, <2>2, <2>3 DEF Typed, Loop
<1>12. CASE progress[w] + k = INPUT_PARTS
  <2>1. worker'[w] = "computing" /\ progress'[w] = 0
    BY <1>2, <1>3, <1>12 DEF Typed
  <2>2. Sent(w) = INPUT_PARTS /\ Len(In(w)) = k
    BY <1>3, <1>4, <1>9, <1>10, <1>12 DEF Asked
  <2>3. pc > SendAt(w)
    BY <1>2, <1>4, <2>2 DEF Typed, Sent, SendAt
  <2>4. In(w)' = <<>>
    BY <1>6, <2>2, <1>4
  <2>5. HasAll(w)'
    BY <1>1, <1>5, <1>9, <2>1, <2>3, <2>4 DEF Asked, HasAll, Silent, SendAt
  <2>6. Message(w)'
    BY <2>1, <2>5 DEF Message
  <2>7. (\A v \in Workers : Coordinated(v)') /\ NothingLeftBehind' /\ MatchIsReal'
    BY <1>1, <1>7, <2>1, WorkerActs
  <2> QED
    BY <1>8, <1>11, <2>6, <2>7 DEF Inv
<1>13. CASE progress[w] + k # INPUT_PARTS
  <2>1. worker'[w] = "reading" /\ progress'[w] = progress[w] + k
    BY <1>1, <1>2, <1>3, <1>13 DEF Typed
  <2>2. Sent(w)' = Sent(w)
    BY <1>1 DEF Sent, SendAt
  <2>3. Len(In(w)') + progress'[w] = Len(In(w)) + progress[w]
    BY <1>3, <1>4, <1>6, <2>1
  <2>4. Asked(w)'
    BY <1>1, <1>5, <1>9, <2>2, <2>3 DEF Asked, Silent
  <2>5. Message(w)'
    BY <2>1, <2>4 DEF Message
  <2>6. (\A v \in Workers : Coordinated(v)') /\ NothingLeftBehind' /\ MatchIsReal'
    BY <1>1, <1>7, <2>1, WorkerActs
  <2> QED
    BY <1>8, <1>11, <2>5, <2>6 DEF Inv
<1> QED
  BY <1>12, <1>13

\* The rest of an answer is put behind what was written of it.
LEMMA WriteInv ==
    ASSUME Inv, NEW w \in Workers, Write(w)
    PROVE  Inv'
<1> DEFINE parts == Parts(answer[w])
<1>1. /\ worker[w] = "writing"
      /\ UNCHANGED <<pc, remaining, exit, response, status, answer>>
  BY DEF Write, coordinator
<1>2. Typed /\ Loop /\ Said(w, progress[w])
  BY <1>1 DEF Inv, Message
<1>3. PICK k \in 1 .. RESPONSE_PARTS - progress[w] :
        /\ pipe' = [pipe EXCEPT ![<<w, "out">>] =
                        @ \o SubSeq(parts, progress[w] + 1, progress[w] + k)]
        /\ IF progress[w] + k = RESPONSE_PARTS
           THEN worker' = [worker EXCEPT ![w] = "reading"]
                /\ progress' = [progress EXCEPT ![w] = 0]
           ELSE progress' = [progress EXCEPT ![w] = @ + k] /\ UNCHANGED worker
  BY DEF Write
<1>4. parts \in Seq(Datum) /\ Len(parts) = 2
  <2>1. answer[w].status \in Datum /\ answer[w].final_state \in Datum
    BY <1>2 DEF Typed, Response, Datum
  <2> QED
    BY <2>1 DEF Parts
<1> HIDE DEF parts
<1>5. Out(w) \in Seq(Datum) /\ response[w] \in Seq(Datum) /\ progress[w] \in Nat
  BY <1>2, TwoPipes DEF Typed, Out
<1>6. k \in Nat \ {0} /\ progress[w] + k <= 2 /\ RESPONSE_PARTS = 2
  BY <1>3, <1>5 DEF RESPONSE_PARTS
<1> DEFINE more == SubSeq(parts, progress[w] + 1, progress[w] + k)
<1>7. /\ more \in Seq(Datum) /\ Len(more) = k
      /\ \A i \in 1 .. k : more[i] = parts[progress[w] + i]
  <2>1. progress[w] + k <= Len(parts) /\ k \in Nat
    BY <1>4, <1>6
  <2>2. parts \in Seq(Datum) /\ progress[w] \in Nat
    BY <1>4, <1>5
  <2> QED
    BY <2>1, <2>2, Slice
<1>8. Out(w)' = Out(w) \o more /\ In(w)' = In(w)
  BY <1>2, <1>3, TwoPipes DEF Typed, In, Out
<1> HIDE DEF more
<1>9. /\ Out(w)' \in Seq(Datum) /\ Len(Out(w)') = Len(Out(w)) + k
      /\ \A i \in 1 .. Len(Out(w)) : Out(w)'[i] = Out(w)[i]
      /\ \A i \in Len(Out(w)) + 1 .. Len(Out(w)) + k : Out(w)'[i] = more[i - Len(Out(w))]
  BY <1>5, <1>6, <1>7, <1>8, Joined
<1>10. ASSUME NEW n \in Nat, n = progress[w] + k PROVE Said(w, n)'
  <2>1. /\ Len(response[w]) + Len(Out(w)) = progress[w]
        /\ \A i \in 1 .. Len(response[w]) : response[w][i] = parts[i]
        /\ \A i \in 1 .. Len(Out(w)) : Out(w)[i] = parts[Len(response[w]) + i]
        /\ In(w) = <<>> /\ pc > SendAt(w) /\ answer[w] \in Answers(w)
    BY <1>2 DEF Said, parts
  <2>2. Len(response[w]) + Len(Out(w)') = progress[w] + k
    <3>1. Len(response[w]) \in Nat /\ Len(Out(w)) \in Nat
      BY <1>5
    <3>2. Len(Out(w)') = Len(Out(w)) + k /\ Len(response[w]) + Len(Out(w)) = progress[w]
      BY <1>9, <2>1
    <3>3. PICK a \in Nat : a = Len(response[w])
      BY <3>1
    <3>4. PICK b \in Nat : b = Len(Out(w))
      BY <3>1
    <3>5. PICK c \in Nat : c = progress[w]
      BY <1>5
    <3>6. a + b = c
      BY <3>2, <3>3, <3>4, <3>5, Zenon
    <3>7. a + (b + k) = c + k
      BY <1>6, <3>6
    <3> QED
      BY <3>2, <3>3, <3>4, <3>5, <3>7
  <2>3. ASSUME NEW i \in 1 .. Len(Out(w)')
        PROVE  Out(w)'[i] = parts[Len(response[w]) + i]
    <3>1. CASE i \in 1 .. Len(Out(w))
      BY <1>9, <2>1, <3>1
    <3>2. CASE i > Len(Out(w))
      <4>1. i - Len(Out(w)) \in 1 .. k /\ i \in Len(Out(w)) + 1 .. Len(Out(w)) + k
        BY <1>5, <1>6, <1>9, <3>2
      <4>2. Out(w)'[i] = parts[progress[w] + (i - Len(Out(w)))]
        BY <1>7, <1>9, <4>1
      <4>3. progress[w] + (i - Len(Out(w))) = Len(response[w]) + i
        BY <1>5, <2>1
      <4> QED
        BY <4>2, <4>3
    <3> QED
      BY <1>5, <1>9, <3>1, <3>2
  <2>4. answer' = answer /\ response' = response /\ Answers(w)' = Answers(w)
        /\ pc' > SendAt(w)' /\ parts = Parts(answer'[w])
    BY <1>1, <2>1 DEF Answers, BallisticAnswers, UnicornAnswers, SentinelWritten, SendAt, parts
  <2>5. Len(response'[w]) + Len(Out(w)') = n /\ n <= RESPONSE_PARTS
    BY <1>6, <1>10, <2>2, <2>4
  <2>6. \A i \in 1 .. Len(Out(w)') :
            Out(w)'[i] = Parts(answer'[w])[Len(response'[w]) + i]
    BY <2>3, <2>4
  <2>7. \A i \in 1 .. Len(response'[w]) : response'[w][i] = Parts(answer'[w])[i]
    BY <2>1, <2>4
  <2>8. In(w)' = <<>> /\ answer'[w] \in Answers(w)'
    BY <1>8, <2>1, <2>4
  <2> QED
    BY <2>4, <2>5, <2>6, <2>7, <2>8 DEF Said
<1>11. \A v \in Workers \ {w} : Kept(v) /\ worker'[v] = worker[v]
  <2>1. \A v \in Workers \ {w} : In(v)' = In(v) /\ Out(v)' = Out(v)
    BY <1>2, <1>3, TwoPipes DEF Typed, In, Out
  <2>2. \A v \in Workers \ {w} : progress'[v] = progress[v] /\ worker'[v] = worker[v]
    BY <1>2, <1>3 DEF Typed
  <2> QED
    BY <1>1, <2>1, <2>2 DEF Kept
<1>12. \A v \in Workers \ {w} : Message(v)'
  BY <1>1, <1>11, MessageStays
<1>13. Typed' /\ Loop'
  <2>1. pipe' \in [Pipes -> Seq(Datum)]
    BY <1>2, <1>3, <1>8, <1>9, TwoPipes DEF Typed, Out, more
  <2>2. progress' \in [Workers -> Nat]
    <3>1. \E n \in Nat : progress' = [progress EXCEPT ![w] = n]
      BY <1>3, <1>5, <1>6
    <3> QED
      BY <1>2, <3>1 DEF Typed
  <2>3. worker' \in [Workers -> {"none", "forked", "reading", "computing", "hung",
                                 "writing", "ended", "reaped"}]
    BY <1>2, <1>3 DEF Typed
  <2> QED
    BY <1>1, <1>2, <2>1, <2>2, <2>3 DEF Typed, Loop
<1>14. worker'[w] \in {"reading", "writing"} /\ Message(w)'
  <2>1. CASE progress[w] + k = RESPONSE_PARTS
    <3>1. worker'[w] = "reading" /\ progress'[w] = 0
      BY <1>2, <1>3, <2>1 DEF Typed
    <3>2. Said(w, RESPONSE_PARTS)'
      BY <1>6, <1>10, <2>1 DEF RESPONSE_PARTS
    <3> QED
      BY <3>1, <3>2 DEF Message
  <2>2. CASE progress[w] + k # RESPONSE_PARTS
    <3>1. worker'[w] = "writing" /\ progress'[w] = progress[w] + k
      BY <1>1, <1>2, <1>3, <2>2 DEF Typed
    <3>2. PICK n \in Nat : n = progress[w] + k
      BY <1>5, <1>6
    <3>3. Said(w, n)' /\ n = progress'[w]
      BY <1>10, <3>1, <3>2
    <3>4. Said(w, progress[w])'
      BY <3>3 DEF Said
    <3> QED
      BY <3>1, <3>4 DEF Message
  <2> QED
    BY <2>1, <2>2
<1>15. (\A v \in Workers : Coordinated(v)') /\ NothingLeftBehind' /\ MatchIsReal'
  BY <1>1, <1>11, <1>14, WorkerActs
<1> QED
  BY <1>12, <1>13, <1>14, <1>15 DEF Inv

-----------------------------------------------------------------------------
(* The steps of the coordinator keep the invariant.                        *)

\* The next step of main has its loop's count.
LEMMA LoopAdvanced ==
    ASSUME Typed, Loop, pc \in 1 .. 8, Advance
    PROVE  pc' \in 1 .. 9 /\ remaining' \in Nat \ {0} /\ Loop'
<1>1. /\ pc' = pc + 1 /\ remaining' \in Nat \ {0}
      /\ pc' \in {5, 6} => remaining' = RESPONSE_PARTS
      /\ pc' \notin {5, 6} => remaining' = INPUT_PARTS
  BY Advanced
<1>2. RESPONSE_PARTS \in Nat /\ INPUT_PARTS \in Nat
  BY PartsAssumption DEF RESPONSE_PARTS
<1>3. Loop'
  BY <1>1, <1>2 DEF Loop, RESPONSE_PARTS
<1> QED
  BY <1>1, <1>3

\* What has been sent after a step is a number.
LEMMA SentAfter ==
    ASSUME pc' \in 1 .. 9, remaining' \in Nat \ {0}, Loop', NEW w \in Workers
    PROVE  Sent(w)' \in Nat
<1>1. pc' \notin {5, 6} => remaining' <= INPUT_PARTS
  BY DEF Loop
<1>2. SendAt(w)' \in {3, 4} /\ INPUT_PARTS \in Nat
  BY PartsAssumption DEF SendAt
<1>3. pc' = SendAt(w)' => remaining' <= INPUT_PARTS
  BY <1>1, <1>2
<1>4. pc' = SendAt(w)' => INPUT_PARTS - remaining' \in Nat
  <2>1. PICK r \in Nat : r = remaining'
    OBVIOUS
  <2>2. r <= INPUT_PARTS => INPUT_PARTS - r \in Nat
    BY <1>2
  <2> QED
    BY <1>3, <2>1, <2>2
<1>5. Sent(w)' \in {0, INPUT_PARTS} \/ (pc' = SendAt(w)' /\ Sent(w)' = INPUT_PARTS - remaining')
  BY DEF Sent
<1>6. 0 \in Nat
  OBVIOUS
<1> QED
  BY <1>2, <1>4, <1>5, <1>6, Zenon

\* The coordinator takes a step of main that does not concern worker w.
LEMMA MainGoesOn ==
    ASSUME Inv, pc \in 1 .. 8, Advance \/ UNCHANGED <<pc, remaining>>, exit' = exit,
           NEW w \in Workers, Kept(w), status'[w] = status[w],
           worker'[w] = worker[w], pc # ReceiveAt(w), pc # DestroyAt(w)
    PROVE  Message(w)' /\ Coordinated(w)'
<1>1. Typed /\ Loop /\ Message(w) /\ Coordinated(w)
  BY DEF Inv
<1>2. Coordinated(w)'
  BY <1>1, CoordinatedKept DEF Kept
<1>3. Sent(w)' >= Sent(w) /\ pc' >= pc
  BY <1>1, SentKept
<1>4. pc' \in Nat /\ pc' \in 1 .. 9 /\ remaining' \in Nat \ {0} /\ Loop'
  <2>1. CASE Advance
    BY <1>1, <2>1, LoopAdvanced
  <2>2. CASE UNCHANGED <<pc, remaining>>
    BY <1>1, <2>2 DEF Typed, Loop
  <2> QED
    BY <2>1, <2>2
<1>5. Sent(w)' \in Nat
  BY <1>4, SentAfter
<1>6. Message(w)'
  BY <1>1, <1>3, <1>4, <1>5, MessageKept
<1> QED
  BY <1>2, <1>6

\* Whatever the coordinator does before its end is no match.
LEMMA NotEnded ==
    ASSUME exit' = "none"
    PROVE  NothingLeftBehind' /\ MatchIsReal'
BY DEF NothingLeftBehind, MatchIsReal

\* A spawn forks a worker, or fails and takes the other one with it.
LEMMA SpawnInv ==
    ASSUME Inv, NEW w \in Workers, Spawn(w)
    PROVE  Inv'
<1>1. Typed /\ Loop
  BY DEF Inv
<1>2. exit = "none" /\ pc = SpawnAt(w) /\ pc \in {1, 2}
  BY <1>1, StepOf DEF Spawn, Typed, SpawnAt
<1>3. UNCHANGED <<response, status, answer, progress, pipe>>
  BY DEF Spawn
<1>4. \A v \in Workers : Kept(v) /\ status'[v] = status[v]
  BY <1>3 DEF Kept, In, Out
<1>5. \A v \in Workers : pc # ReceiveAt(v) /\ pc # DestroyAt(v) /\ pc < SendAt(v)
  BY <1>2 DEF ReceiveAt, DestroyAt, SendAt
<1>6. CASE Spawned(w) /\ Advance /\ UNCHANGED exit
  <2>1. worker' = [worker EXCEPT ![w] = "forked"] /\ exit' = "none"
    BY <1>2, <1>6 DEF Spawned
  <2>2. pc \in 1 .. 8
    BY <1>2
  <2>3. pc' \in 1 .. 9 /\ remaining' \in Nat \ {0} /\ Loop'
    BY <1>1, <1>6, <2>2, LoopAdvanced
  <2>4. Typed'
    BY <1>1, <1>3, <2>1, <2>3 DEF Typed
  <2>5. \A v \in Workers \ {w} : worker'[v] = worker[v]
    BY <1>1, <2>1 DEF Typed
  <2>6. \A v \in Workers \ {w} : Message(v)' /\ Coordinated(v)'
    BY <1>2, <1>4, <1>5, <1>6, <2>1, <2>2, <2>5, MainGoesOn
  <2>7. worker[w] = "none" /\ worker'[w] = "forked" /\ Asked(w)
    <3>1. worker'[w] = "forked"
      BY <1>1, <2>1 DEF Typed
    <3>2. pc <= SpawnAt(w)
      BY <1>2 DEF SpawnAt
    <3>3. worker[w] = "none"
      BY <1>2, <3>2 DEF Inv, Coordinated
    <3> QED
      BY <3>1, <3>3 DEF Inv, Message
  <2>8. Message(w)'
    <3>1. Sent(w)' >= Sent(w) /\ pc' >= pc /\ Sent(w) \in Nat /\ pc' \in Nat
      BY <1>1, <1>6, <2>2, <2>3, SentKept, SentTyped, PartsAssumption
    <3>2. Sent(w)' \in Nat
      BY <2>3, SentAfter
    <3>3. Asked(w)'
      BY <1>1, <1>4, <2>7, <3>1, <3>2, MessageParts
    <3> QED
      BY <2>7, <3>3 DEF Message
  <2>9. Coordinated(w)'
    <3>1. pc' = pc + 1
      BY <1>6 DEF Advance
    <3>2. pc' < ReceiveAt(w)' /\ ~(pc' <= SpawnAt(w)') /\ pc' < DestroyAt(w)'
      BY <1>2, <3>1 DEF ReceiveAt, SpawnAt, DestroyAt, Workers
    <3>3. response[w] = <<>> /\ status[w] = "none"
      BY <1>2 DEF Inv, Coordinated, ReceiveAt
    <3>4. pc' \in Nat /\ ReceiveAt(w)' \in Nat /\ DestroyAt(w)' \in Nat
      BY <2>3 DEF ReceiveAt, DestroyAt
    <3> QED
      BY <1>3, <3>2, <3>3, <3>4 DEF Coordinated
  <2> QED
    BY <2>1, <2>3, <2>4, <2>6, <2>8, <2>9, NotEnded DEF Inv
<1>7. CASE Destroyed(DestroyedBySpawn) /\ exit' = "failure" /\ UNCHANGED <<pc, remaining>>
  <2>1. worker' = [v \in Workers |-> IF v \in DestroyedBySpawn THEN "reaped" ELSE worker[v]]
    BY <1>7 DEF Destroyed
  <2>2. \A v \in Workers : worker'[v] = worker[v] \/ worker'[v] = "reaped"
    BY <2>1
  <2>3. \A v \in Workers : worker'[v] \in {"none", "reaped"}
    BY <2>1 DEF DestroyedBySpawn
  <2>4. NothingLeftBehind' /\ MatchIsReal'
    BY <1>7, <2>3 DEF NothingLeftBehind, MatchIsReal
  <2>5. Typed' /\ Loop'
    <3>1. worker' \in [Workers -> {"none", "forked", "reading", "computing", "hung",
                                   "writing", "ended", "reaped"}]
      BY <1>1, <2>1 DEF Typed
    <3> QED
      BY <1>1, <1>3, <1>7, <3>1 DEF Typed, Loop
  <2>6. \A v \in Workers : Message(v)'
    BY <1>4, <1>7, <2>2, MessageStays
  <2>7. ASSUME NEW v \in Workers PROVE Coordinated(v)'
    <3>1. pc < ReceiveAt(v) /\ pc < DestroyAt(v)
      BY <1>2 DEF ReceiveAt, DestroyAt
    <3>2. response[v] = <<>> /\ status[v] = "none"
      BY <3>1 DEF Inv, Coordinated
    <3>3. /\ pc' = pc /\ pc \in Nat /\ ReceiveAt(v)' = ReceiveAt(v) /\ ReceiveAt(v) \in Nat
          /\ DestroyAt(v)' = DestroyAt(v) /\ DestroyAt(v) \in Nat
      BY <1>2, <1>7 DEF ReceiveAt, DestroyAt
    <3> QED
      BY <1>3, <1>7, <3>1, <3>2, <3>3 DEF Coordinated
  <2> QED
    BY <2>4, <2>5, <2>6, <2>7 DEF Inv
<1> QED
  BY <1>6, <1>7 DEF Spawn

\* A worker whose input is being sent has not read all of it.
LEMMA BeingAsked ==
    ASSUME Inv, NEW w \in Workers, pc <= SendAt(w)
    PROVE  /\ Asked(w)
           /\ worker[w] \in {"none", "forked", "reading", "ended", "reaped"}
<1>1. ~HasAll(w) /\ \A n : ~Said(w, n)
  BY DEF Inv, Typed, HasAll, Said, SendAt
<1> QED
  BY <1>1 DEF Inv, Message

\* A write to the worker's pipe puts parts of the input there.
LEMMA SendInv ==
    ASSUME Inv, NEW w \in Workers, Send(w)
    PROVE  Inv'
<1>1. Typed /\ Loop
  BY DEF Inv
<1>2. exit = "none" /\ pc = SendAt(w) /\ pc \in {3, 4}
  BY <1>1, StepOf DEF Send, Typed, SendAt
<1>3. UNCHANGED <<response, status, exit, worker, answer, progress>>
  BY DEF Send, workers
<1>4. PICK k \in 1 .. remaining :
        /\ pipe' = [pipe EXCEPT ![<<w, "in">>] = @ \o [i \in 1 .. k |-> "input"]]
        /\ Remaining(k)
  BY DEF Send
<1> DEFINE more == [i \in 1 .. k |-> "input"]
<1>5. remaining \in Nat /\ k \in Nat \ {0} /\ k <= remaining /\ remaining <= INPUT_PARTS
      /\ INPUT_PARTS \in Nat
  BY <1>1, <1>2, PartsAssumption DEF Typed, Loop
<1>6. more \in Seq(Datum) /\ Len(more) = k
  BY <1>5 DEF Datum
<1>7. In(w) \in Seq(Datum) /\ progress[w] \in Nat
  BY <1>1, TwoPipes DEF Typed, In
<1>8. In(w)' = In(w) \o more /\ Out(w)' = Out(w)
  BY <1>1, <1>4, TwoPipes DEF Typed, In, Out
<1> HIDE DEF more
<1>9. In(w)' \in Seq(Datum) /\ Len(In(w)') = Len(In(w)) + k
  BY <1>6, <1>7, <1>8, Joined
<1>10. \A v \in Workers \ {w} :
          /\ Kept(v) /\ status'[v] = status[v] /\ worker'[v] = worker[v]
          /\ pc # SendAt(v) /\ pc # ReceiveAt(v) /\ pc # DestroyAt(v)
  <2>1. \A v \in Workers \ {w} : In(v)' = In(v) /\ Out(v)' = Out(v)
    BY <1>1, <1>4, TwoPipes DEF Typed, In, Out
  <2> QED
    BY <1>2, <1>3, <2>1 DEF Kept, SendAt, ReceiveAt, DestroyAt, Workers
<1>11. pipe' \in [Pipes -> Seq(Datum)]
  BY <1>1, <1>4, <1>8, <1>9, TwoPipes DEF Typed, In, more
<1>12. Asked(w) /\ worker[w] \in {"none", "forked", "reading", "ended", "reaped"}
  BY <1>2, BeingAsked DEF SendAt
<1>13. Sent(w) = INPUT_PARTS - remaining
  BY <1>2, <1>5 DEF Sent, SendAt
<1>14. pc \in 1 .. 8 /\ pc # ReceiveAt(w) /\ pc # DestroyAt(w) /\ pc # SpawnAt(w)
  BY <1>2 DEF ReceiveAt, DestroyAt, SpawnAt
<1>15. ASSUME NEW n \in Nat, n >= INPUT_PARTS - (remaining - k), Sent(w)' = n
       PROVE  Message(w)'
  <2>1. Len(In(w)) + progress[w] <= INPUT_PARTS - remaining
    BY <1>12, <1>13 DEF Asked
  <2>2. Len(In(w)) + k + progress[w] <= n
    <3>1. PICK a \in Nat : a = Len(In(w))
      BY <1>7
    <3>2. a + progress[w] <= INPUT_PARTS - remaining
      BY <2>1, <3>1
    <3>3. a + k + progress[w] <= n
      BY <1>5, <1>7, <1>15, <3>2
    <3> QED
      BY <3>1, <3>3
  <2>3. Asked(w)'
    BY <1>3, <1>8, <1>9, <1>12, <1>15, <2>2 DEF Asked, Silent
  <2> QED
    BY <1>3, <1>12, <2>3 DEF Message
<1>16. CASE k = remaining
  <2>1. Advance
    BY <1>4, <1>16 DEF Remaining
  <2>2. pc' \in 1 .. 9 /\ remaining' \in Nat \ {0} /\ Loop' /\ pc' = pc + 1
    BY <1>1, <1>14, <2>1, LoopAdvanced DEF Advance
  <2>3. Typed'
    BY <1>1, <1>3, <1>11, <2>2 DEF Typed
  <2>4. \A v \in Workers \ {w} : Message(v)' /\ Coordinated(v)'
    BY <1>2, <1>3, <1>10, <1>14, <2>1, MainGoesOn
  <2>5. Coordinated(w)
    BY DEF Inv
  <2>6. Coordinated(w)'
    BY <1>1, <1>3, <1>14, <2>1, <2>5, CoordinatedKept
  <2>7. Sent(w)' = INPUT_PARTS
    BY <1>2, <2>2 DEF Sent, SendAt
  <2>8. INPUT_PARTS >= INPUT_PARTS - (remaining - k)
    BY <1>5, <1>16
  <2>9. Message(w)'
    BY <1>5, <1>15, <2>7, <2>8
  <2> QED
    BY <1>2, <1>3, <2>2, <2>3, <2>4, <2>6, <2>9, NotEnded DEF Inv
<1>17. CASE k # remaining
  <2>1. remaining' = remaining - k /\ pc' = pc
    BY <1>4, <1>17 DEF Remaining
  <2>2. remaining' \in Nat \ {0} /\ remaining' <= INPUT_PARTS
    BY <1>5, <1>17, <2>1
  <2>3. Typed' /\ Loop'
    BY <1>1, <1>2, <1>3, <1>11, <2>1, <2>2 DEF Typed, Loop
  <2>4. ASSUME NEW v \in Workers \ {w} PROVE Message(v)' /\ Coordinated(v)'
    <3>1. Message(v) /\ Coordinated(v)
      BY DEF Inv
    <3>2. Sent(v)' = Sent(v)
      BY <1>10, <2>1 DEF Sent, SendAt
    <3>3. Sent(v) \in Nat /\ pc \in Nat
      BY <1>1, <1>14, SentTyped, PartsAssumption
    <3>4. Message(v)'
      BY <1>1, <1>10, <2>1, <3>1, <3>2, <3>3, MessageKept
    <3>5. Coordinated(v)'
      BY <1>3, <1>10, <2>1, <3>1 DEF Coordinated, ReceiveAt, SpawnAt, DestroyAt
    <3> QED
      BY <3>4, <3>5
  <2>5. Coordinated(w)'
    <3>1. Coordinated(w)
      BY DEF Inv
    <3> QED
      BY <1>3, <1>14, <2>1, <3>1 DEF Coordinated, ReceiveAt, SpawnAt, DestroyAt
  <2>6. Sent(w)' = INPUT_PARTS - (remaining - k)
    BY <1>2, <1>5, <2>1 DEF Sent, SendAt
  <2>7. INPUT_PARTS - (remaining - k) \in Nat
    BY <1>5
  <2>8. Message(w)'
    BY <1>15, <2>6, <2>7
  <2> QED
    BY <1>2, <1>3, <2>3, <2>4, <2>5, <2>8, NotEnded DEF Inv
<1> QED
  BY <1>16, <1>17

\* A write that nobody reads ends the coordinator, or is skipped.
LEMMA SendFailsInv ==
    ASSUME Inv, NEW w \in Workers, SendFails(w)
    PROVE  Inv'
<1>1. Typed /\ Loop
  BY DEF Inv
<1>2. exit = "none" /\ pc = SendAt(w) /\ pc \in {3, 4}
  BY <1>1, StepOf DEF SendFails, Typed, SendAt
<1>3. UNCHANGED <<response, status, worker, answer, progress, pipe>>
  BY DEF SendFails, workers
<1>4. \A v \in Workers : /\ Kept(v) /\ status'[v] = status[v] /\ worker'[v] = worker[v]
                          /\ pc # ReceiveAt(v) /\ pc # DestroyAt(v)
  BY <1>2, <1>3 DEF Kept, In, Out, ReceiveAt, DestroyAt
<1>5. CASE exit' = "SIGPIPE" /\ UNCHANGED <<pc, remaining>>
  <2>1. Typed' /\ Loop'
    BY <1>1, <1>3, <1>5 DEF Typed, Loop
  <2>2. \A v \in Workers : Message(v)'
    BY <1>4, <1>5, MessageStays
  <2>3. ASSUME NEW v \in Workers PROVE Coordinated(v)'
    <3>1. Coordinated(v)
      BY DEF Inv
    <3> QED
      BY <1>3, <1>5, <3>1 DEF Coordinated, ReceiveAt, DestroyAt
  <2>4. NothingLeftBehind' /\ MatchIsReal'
    BY <1>5 DEF NothingLeftBehind, MatchIsReal
  <2> QED
    BY <2>1, <2>2, <2>3, <2>4 DEF Inv
<1>6. CASE Advance /\ UNCHANGED exit
  <2>1. pc \in 1 .. 8
    BY <1>2
  <2>2. pc' \in 1 .. 9 /\ remaining' \in Nat \ {0} /\ Loop'
    BY <1>1, <1>6, <2>1, LoopAdvanced
  <2>3. Typed'
    BY <1>1, <1>3, <1>6, <2>2 DEF Typed
  <2>4. \A v \in Workers : Message(v)' /\ Coordinated(v)'
    BY <1>4, <1>6, <2>1, MainGoesOn
  <2> QED
    BY <1>2, <1>6, <2>2, <2>3, <2>4, NotEnded DEF Inv
<1> QED
  BY <1>5, <1>6 DEF SendFails

\* A part that the coordinator takes from the pipe is one that the worker said.
LEMMA TakenIsSaid ==
    ASSUME Typed, NEW w \in Workers, NEW n \in Nat, Said(w, n),
           NEW k \in Nat, k <= Len(Out(w)), pc' \in Nat, pc' >= pc,
           UNCHANGED answer, In(w)' = In(w),
           response'[w] = response[w] \o SubSeq(Out(w), 1, k),
           Out(w)' = SubSeq(Out(w), k + 1, Len(Out(w)))
    PROVE  Said(w, n)' /\ Len(response'[w]) = Len(response[w]) + k
<1> DEFINE said == Parts(answer[w])
           old == response[w]
           out == Out(w)
           taken == SubSeq(out, 1, k)
           left == SubSeq(out, k + 1, Len(out))
<1>1. old \in Seq(Datum) /\ out \in Seq(Datum)
  BY TwoPipes DEF Typed, Out
<1>2. /\ In(w) = <<>> /\ pc > SendAt(w) /\ answer[w] \in Answers(w)
      /\ n <= RESPONSE_PARTS /\ Len(old) + Len(out) = n
      /\ \A i \in 1 .. Len(old) : old[i] = said[i]
      /\ \A i \in 1 .. Len(out) : out[i] = said[Len(old) + i]
  BY DEF Said
<1> HIDE DEF said, old, out
<1>3. PICK a \in Nat : a = Len(old)
  BY <1>1
<1>4. PICK b \in Nat : b = Len(out)
  BY <1>1
<1>5. a + b = n /\ k <= b
  BY <1>2, <1>3, <1>4 DEF out
<1>6. /\ taken \in Seq(Datum) /\ Len(taken) = k
      /\ \A i \in 1 .. k : taken[i] = out[i]
  <2>1. /\ SubSeq(out, 0 + 1, 0 + k) \in Seq(Datum) /\ Len(SubSeq(out, 0 + 1, 0 + k)) = k
        /\ \A i \in 1 .. k : SubSeq(out, 0 + 1, 0 + k)[i] = out[0 + i]
    <3>1. 0 + k <= Len(out)
      BY <1>4, <1>5
    <3> QED
      BY <1>1, <3>1, Slice
  <2>2. 0 + 1 = 1 /\ 0 + k = k /\ \A i \in 1 .. k : 0 + i = i
    OBVIOUS
  <2> QED
    BY <2>1, <2>2
<1>7. /\ left \in Seq(Datum) /\ Len(left) = b - k
      /\ \A i \in 1 .. b - k : left[i] = out[k + i]
  <2>1. b - k \in Nat /\ k + (b - k) = b
    BY <1>5
  <2>2. k + (b - k) <= Len(out)
    BY <1>4, <2>1
  <2>3. left = SubSeq(out, k + 1, k + (b - k))
    BY <1>4, <2>1
  <2> HIDE DEF left
  <2> QED
    BY <1>1, <2>1, <2>2, <2>3, Slice
<1> HIDE DEF taken, left
<1>8. response'[w] = old \o taken /\ Out(w)' = left
  BY DEF old, taken, out, left
<1>9. /\ Len(response'[w]) = a + k
      /\ \A i \in 1 .. a : response'[w][i] = old[i]
      /\ \A i \in a + 1 .. a + k : response'[w][i] = taken[i - a]
  <2>1. old \in Seq(Datum) /\ taken \in Seq(Datum) /\ Len(old) = a /\ Len(taken) = k
    BY <1>1, <1>3, <1>6
  <2>2. /\ Len(old \o taken) = Len(old) + Len(taken)
        /\ \A i \in 1 .. Len(old) : (old \o taken)[i] = old[i]
        /\ \A i \in Len(old) + 1 .. Len(old) + Len(taken) :
               (old \o taken)[i] = taken[i - Len(old)]
    BY <2>1, Joined
  <2> QED
    BY <1>8, <2>1, <2>2, Zenon
<1>10. ASSUME NEW i \in 1 .. a + k PROVE response'[w][i] = said[i]
  <2>1. CASE i \in 1 .. a
    BY <1>2, <1>3, <1>9, <2>1
  <2>2. CASE i \in a + 1 .. a + k
    <3>1. i - a \in 1 .. k /\ i - a \in 1 .. b /\ a + (i - a) = i
      BY <1>5, <2>2
    <3>2. response'[w][i] = out[i - a]
      BY <1>6, <1>9, <2>2, <3>1
    <3>3. out[i - a] = said[a + (i - a)]
      BY <1>2, <1>3, <1>4, <3>1
    <3> QED
      BY <3>1, <3>2, <3>3
  <2>3. i \in 1 .. a \/ i \in a + 1 .. a + k
    BY <1>3
  <2> QED
    BY <2>1, <2>2, <2>3
<1>11. ASSUME NEW i \in 1 .. b - k PROVE left[i] = said[a + k + i]
  <2>1. k + i \in 1 .. b /\ a + (k + i) = a + k + i
    BY <1>5
  <2>2. left[i] = out[k + i] /\ out[k + i] = said[a + (k + i)]
    BY <1>2, <1>3, <1>4, <1>7, <2>1
  <2> QED
    BY <2>1, <2>2
<1>12. (a + k) + (b - k) = n
  BY <1>5
<1>13. answer' = answer /\ Answers(w)' = Answers(w) /\ pc' > SendAt(w)'
       /\ said = Parts(answer'[w])
  <2>1. pc' > SendAt(w)'
    BY <1>2 DEF SendAt, Typed
  <2> QED
    BY <2>1 DEF Answers, BallisticAnswers, UnicornAnswers, SentinelWritten, said
<1>14. Said(w, n)'
  <2>1. In(w)' = <<>> /\ answer'[w] \in Answers(w)' /\ n <= RESPONSE_PARTS
    BY <1>2, <1>13
  <2>2. Len(response'[w]) + Len(Out(w)') = n
    BY <1>7, <1>8, <1>9, <1>12, Zenon
  <2>3. \A i \in 1 .. Len(response'[w]) : response'[w][i] = Parts(answer'[w])[i]
    BY <1>9, <1>10, <1>13
  <2>4. \A i \in 1 .. Len(Out(w)') : Out(w)'[i] = Parts(answer'[w])[Len(response'[w]) + i]
    BY <1>7, <1>8, <1>9, <1>11, <1>13
  <2> QED
    BY <1>13, <2>1, <2>2, <2>3, <2>4 DEF Said
<1> QED
  BY <1>3, <1>9, <1>14 DEF old

\* A read from the worker's pipe.
LEMMA ReceiveInv ==
    ASSUME Inv, NEW w \in Workers, Receive(w)
    PROVE  Inv'
<1>1. Typed /\ Loop
  BY DEF Inv
<1>2. exit = "none" /\ pc = ReceiveAt(w) /\ pc \in {5, 6}
  BY <1>1, StepOf DEF Receive, Typed, ReceiveAt
<1>3. UNCHANGED <<exit, worker, answer, progress>>
  BY DEF Receive, workers
<1>4. PICK k \in 1 .. remaining :
        /\ k <= Len(Out(w))
        /\ response' = [response EXCEPT ![w] = @ \o SubSeq(Out(w), 1, k)]
        /\ pipe' = [pipe EXCEPT ![<<w, "out">>] = SubSeq(@, k + 1, Len(@))]
        /\ status' = [status EXCEPT ![w] = IF k = remaining THEN StatusOf(response'[w]) ELSE @]
        /\ Remaining(k)
  BY DEF Receive, Out
<1>5. /\ remaining \in Nat \ {0} /\ k \in Nat \ {0} /\ k <= remaining
      /\ remaining <= RESPONSE_PARTS
  BY <1>1, <1>2 DEF Typed, Loop
<1>6. Out(w) \in Seq(Datum) /\ response[w] \in Seq(Datum) /\ progress[w] \in Nat
  BY <1>1, TwoPipes DEF Typed, Out
<1>7. /\ response'[w] = response[w] \o SubSeq(Out(w), 1, k)
      /\ Out(w)' = SubSeq(Out(w), k + 1, Len(Out(w))) /\ In(w)' = In(w)
  BY <1>1, <1>4, TwoPipes DEF Typed, In, Out
<1>8. response'[w] \in Seq(Datum) /\ Out(w)' \in Seq(Datum)
  <2>1. SubSeq(Out(w), 1, k) \in Seq(Datum) /\ SubSeq(Out(w), k + 1, Len(Out(w))) \in Seq(Datum)
    BY <1>4, <1>5, <1>6
  <2> QED
    BY <1>6, <1>7, <2>1, Joined
<1>9. response' \in [Workers -> Seq(Datum)] /\ pipe' \in [Pipes -> Seq(Datum)]
  <2>1. response' = [response EXCEPT ![w] = response'[w]]
    BY <1>1, <1>4, <1>7 DEF Typed
  <2>2. pipe' = [pipe EXCEPT ![<<w, "out">>] = Out(w)']
    BY <1>4, <1>7 DEF Out
  <2> QED
    BY <1>1, <1>8, <2>1, <2>2 DEF Typed
<1>10. \A v \in Workers \ {w} :
          /\ Kept(v) /\ status'[v] = status[v] /\ worker'[v] = worker[v]
          /\ pc # SendAt(v) /\ pc # ReceiveAt(v) /\ pc # DestroyAt(v)
  <2>1. \A v \in Workers \ {w} : In(v)' = In(v) /\ Out(v)' = Out(v)
    BY <1>1, <1>4, TwoPipes DEF Typed, In, Out
  <2>2. \A v \in Workers \ {w} : response'[v] = response[v] /\ status'[v] = status[v]
    BY <1>1, <1>4 DEF Typed
  <2> QED
    BY <1>2, <1>3, <2>1, <2>2 DEF Kept, SendAt, ReceiveAt, DestroyAt, Workers
<1>11. /\ status' \in [Workers -> {"none", "BAL_SUCCESS", "BAL_ERROR_STRUCT_CORRUPTED",
                                    "BAL_ERROR_THREAD_CLEANUP"}]
       /\ k # remaining => status'[w] = status[w]
  BY <1>1, <1>4 DEF Typed, StatusOf
<1>12. pc \in 1 .. 8 /\ pc # DestroyAt(w) /\ pc # SpawnAt(w) /\ pc > SendAt(w)
  BY <1>2 DEF DestroyAt, SpawnAt, SendAt
<1>13. ~Asked(w) /\ ~HasAll(w)
  <2>1. Out(w) # <<>>
    BY <1>4, <1>5
  <2> QED
    BY <2>1 DEF Asked, HasAll, Silent
<1>14. Len(response[w]) + remaining = RESPONSE_PARTS /\ status[w] = "none"
  BY <1>2 DEF Inv, Coordinated
<1>15. PICK n \in Nat : /\ Said(w, n)
                        /\ \/ worker[w] = "reading" /\ n = RESPONSE_PARTS /\ progress[w] = 0
                           \/ worker[w] = "writing" /\ n = progress[w]
                           \/ worker[w] \in {"ended", "reaped"}
  <2>1. RESPONSE_PARTS \in Nat
    BY DEF RESPONSE_PARTS
  <2> QED
    BY <1>6, <1>13, <2>1 DEF Inv, Message
<1>16. ASSUME pc' \in Nat, pc' >= pc
       PROVE  Message(w)' /\ Len(response'[w]) = Len(response[w]) + k
  <2>1. Said(w, n)' /\ Len(response'[w]) = Len(response[w]) + k
    <3>1. k \in Nat /\ answer' = answer
      BY <1>3, <1>5
    <3> QED
      BY <1>1, <1>4, <1>7, <1>15, <1>16, <3>1, TakenIsSaid
  <2>2. worker'[w] = worker[w] /\ progress'[w] = progress[w]
    BY <1>3
  <2>3. Message(w)'
    <3>1. CASE worker[w] = "reading" /\ n = RESPONSE_PARTS /\ progress[w] = 0
      <4>1. Said(w, RESPONSE_PARTS)'
        BY <2>1, <3>1 DEF RESPONSE_PARTS
      <4> QED
        BY <2>2, <3>1, <4>1 DEF Message
    <3>2. CASE worker[w] = "writing" /\ n = progress[w]
      <4>1. Said(w, progress[w])'
        BY <2>1, <2>2, <3>2 DEF Said
      <4> QED
        BY <2>2, <3>2, <4>1 DEF Message
    <3>3. CASE worker[w] \in {"ended", "reaped"}
      BY <2>1, <2>2, <3>3 DEF Message
    <3> QED
      BY <1>15, <3>1, <3>2, <3>3
  <2> QED
    BY <2>1, <2>3
<1>17. Coordinated(w)
  BY DEF Inv
<1>18. CASE k = remaining
  <2>1. Advance
    BY <1>4, <1>18 DEF Remaining
  <2>2. pc' \in 1 .. 9 /\ remaining' \in Nat \ {0} /\ Loop' /\ pc' = pc + 1
    BY <1>1, <1>12, <2>1, LoopAdvanced DEF Advance
  <2>3. Typed'
    BY <1>1, <1>3, <1>9, <1>11, <2>2 DEF Typed
  <2>4. \A v \in Workers \ {w} : Message(v)' /\ Coordinated(v)'
    BY <1>2, <1>3, <1>10, <1>12, <2>1, MainGoesOn
  <2>5. Message(w)' /\ Len(response'[w]) = RESPONSE_PARTS
    BY <1>12, <1>14, <1>16, <1>18, <2>2
  <2>6. Coordinated(w)'
    <3>1. /\ pc' > ReceiveAt(w)' /\ ~(pc' < ReceiveAt(w)') /\ pc' # ReceiveAt(w)'
          /\ ~(pc' <= SpawnAt(w)') /\ ~(pc' > DestroyAt(w)')
      BY <1>2, <2>2 DEF ReceiveAt, SpawnAt, DestroyAt, Workers
    <3> QED
      BY <2>5, <3>1 DEF Coordinated, RESPONSE_PARTS
  <2> QED
    BY <1>2, <1>3, <2>2, <2>3, <2>4, <2>5, <2>6, NotEnded DEF Inv
<1>19. CASE k # remaining
  <2>1. remaining' = remaining - k /\ pc' = pc
    BY <1>4, <1>19 DEF Remaining
  <2>2. remaining' \in Nat \ {0} /\ remaining' <= RESPONSE_PARTS
    BY <1>5, <1>19, <2>1 DEF RESPONSE_PARTS
  <2>3. Typed' /\ Loop'
    BY <1>1, <1>2, <1>3, <1>9, <1>11, <2>1, <2>2 DEF Typed, Loop, RESPONSE_PARTS
  <2>4. ASSUME NEW v \in Workers \ {w} PROVE Message(v)' /\ Coordinated(v)'
    <3>1. Message(v) /\ Coordinated(v)
      BY DEF Inv
    <3>2. Sent(v)' = Sent(v)
      BY <1>10, <2>1 DEF Sent, SendAt
    <3>3. Sent(v) \in Nat /\ pc \in Nat
      BY <1>1, <1>12, SentTyped, PartsAssumption
    <3>4. Message(v)'
      BY <1>1, <1>10, <2>1, <3>1, <3>2, <3>3, MessageKept
    <3>5. response'[v] = response[v]
      BY <1>10 DEF Kept
    <3>6. Coordinated(v)'
      BY <1>3, <1>10, <2>1, <3>1, <3>5 DEF Coordinated, ReceiveAt, SpawnAt, DestroyAt
    <3> QED
      BY <3>4, <3>6
  <2>5. Message(w)' /\ Len(response'[w]) = Len(response[w]) + k
    BY <1>12, <1>16, <2>1
  <2>6. Len(response'[w]) + remaining' = RESPONSE_PARTS
    <3>1. PICK a \in Nat : a = Len(response[w])
      BY <1>6
    <3>2. (a + k) + (remaining - k) = a + remaining
      BY <1>5
    <3> QED
      BY <1>14, <2>1, <2>5, <3>1, <3>2
  <2>7. Coordinated(w)'
    <3>1. /\ pc' = ReceiveAt(w)' /\ ~(pc' < ReceiveAt(w)') /\ ~(pc' > ReceiveAt(w)')
          /\ ~(pc' <= SpawnAt(w)') /\ ~(pc' > DestroyAt(w)')
      BY <1>2, <2>1 DEF ReceiveAt, SpawnAt, DestroyAt
    <3>2. status'[w] = "none"
      BY <1>11, <1>14, <1>19
    <3> QED
      BY <2>6, <3>1, <3>2 DEF Coordinated, RESPONSE_PARTS
  <2> QED
    BY <1>2, <1>3, <2>3, <2>4, <2>5, <2>7, NotEnded DEF Inv
<1> QED
  BY <1>18, <1>19

\* The end of the file instead of the rest of a response.
LEMMA ReceiveFailsInv ==
    ASSUME Inv, NEW w \in Workers, ReceiveFails(w)
    PROVE  Inv'
<1>1. Typed /\ Loop
  BY DEF Inv
<1>2. exit = "none" /\ pc = ReceiveAt(w) /\ pc \in {5, 6}
  BY <1>1, StepOf DEF ReceiveFails, Typed, ReceiveAt
<1>3. /\ UNCHANGED <<response, exit, worker, answer, progress, pipe>> /\ Advance
      /\ status' = [status EXCEPT ![w] = "BAL_ERROR_THREAD_CLEANUP"]
  BY DEF ReceiveFails, workers
<1>4. pc \in 1 .. 8
  BY <1>2
<1>5. pc' \in 1 .. 9 /\ remaining' \in Nat \ {0} /\ Loop' /\ pc' = pc + 1
  BY <1>1, <1>3, <1>4, LoopAdvanced DEF Advance
<1>6. /\ status'[w] = "BAL_ERROR_THREAD_CLEANUP"
      /\ \A v \in Workers \ {w} : status'[v] = status[v]
  BY <1>1, <1>3 DEF Typed
<1>7. Typed'
  BY <1>1, <1>3, <1>5 DEF Typed
<1>8. \A v \in Workers : Kept(v) /\ worker'[v] = worker[v] /\ pc # DestroyAt(v)
  BY <1>2, <1>3 DEF Kept, In, Out, DestroyAt
<1>9. \A v \in Workers \ {w} : pc # ReceiveAt(v)
  BY <1>2 DEF ReceiveAt, Workers
<1>10. \A v \in Workers \ {w} : Message(v)' /\ Coordinated(v)'
  BY <1>3, <1>4, <1>6, <1>8, <1>9, MainGoesOn
<1>11. Message(w)'
  <2>1. Message(w)
    BY DEF Inv
  <2>2. Sent(w)' >= Sent(w) /\ pc' >= pc /\ pc' \in Nat
    BY <1>1, <1>3, <1>4, <1>5, SentKept
  <2>3. Sent(w)' \in Nat
    BY <1>5, SentAfter
  <2> QED
    BY <1>1, <1>8, <2>1, <2>2, <2>3, MessageKept
<1>12. Coordinated(w)'
  <2>1. /\ ~(pc' < ReceiveAt(w)') /\ pc' # ReceiveAt(w)'
        /\ ~(pc' <= SpawnAt(w)') /\ ~(pc' > DestroyAt(w)')
    BY <1>2, <1>5 DEF ReceiveAt, SpawnAt, DestroyAt, Workers
  <2> QED
    BY <1>6, <2>1 DEF Coordinated
<1> QED
  BY <1>2, <1>3, <1>5, <1>7, <1>10, <1>11, <1>12, NotEnded DEF Inv

\* A worker is killed and waited for, whatever it was doing.
LEMMA DestroyInv ==
    ASSUME Inv, NEW w \in Workers, Destroy(w)
    PROVE  Inv'
<1>1. Typed /\ Loop
  BY DEF Inv
<1>2. exit = "none" /\ pc = DestroyAt(w) /\ pc \in {7, 8}
  BY <1>1, StepOf DEF Destroy, Typed, DestroyAt
<1>3. /\ UNCHANGED <<response, status, exit, answer, progress, pipe>> /\ Advance
      /\ worker' = [v \in Workers |-> IF v \in {w} THEN "reaped" ELSE worker[v]]
  BY DEF Destroy, Destroyed
<1>4. pc \in 1 .. 8
  BY <1>2
<1>5. pc' \in 1 .. 9 /\ remaining' \in Nat \ {0} /\ Loop' /\ pc' = pc + 1
  BY <1>1, <1>3, <1>4, LoopAdvanced DEF Advance
<1>6. worker'[w] = "reaped" /\ \A v \in Workers \ {w} : worker'[v] = worker[v]
  BY <1>3
<1>7. Typed'
  <2>1. worker' \in [Workers -> {"none", "forked", "reading", "computing", "hung",
                                 "writing", "ended", "reaped"}]
    BY <1>1, <1>3 DEF Typed
  <2> QED
    BY <1>1, <1>3, <1>5, <2>1 DEF Typed
<1>8. \A v \in Workers : Kept(v) /\ status'[v] = status[v] /\ pc # ReceiveAt(v)
  BY <1>2, <1>3 DEF Kept, In, Out, ReceiveAt
<1>9. \A v \in Workers \ {w} : pc # DestroyAt(v)
  BY <1>2 DEF DestroyAt, Workers
<1>10. \A v \in Workers \ {w} : Message(v)' /\ Coordinated(v)'
  BY <1>3, <1>4, <1>6, <1>8, <1>9, MainGoesOn
<1>11. Message(w)'
  <2>1. Message(w)
    BY DEF Inv
  <2>2. Sent(w)' >= Sent(w) /\ pc' >= pc /\ pc' \in Nat
    BY <1>1, <1>3, <1>4, <1>5, SentKept
  <2>3. Sent(w)' \in Nat
    BY <1>5, SentAfter
  <2> QED
    BY <1>1, <1>6, <1>8, <2>1, <2>2, <2>3, MessageKept
<1>12. Coordinated(w)'
  <2>1. /\ pc' > ReceiveAt(w)' /\ pc > ReceiveAt(w)
        /\ ~(pc' < ReceiveAt(w)') /\ pc' # ReceiveAt(w)' /\ ~(pc' <= SpawnAt(w)')
    BY <1>2, <1>5 DEF ReceiveAt, SpawnAt, Workers
  <2>2. status[w] = "BAL_SUCCESS" => Len(response[w]) = RESPONSE_PARTS
    BY <2>1 DEF Inv, Coordinated
  <2> QED
    BY <1>3, <1>6, <2>1, <2>2 DEF Coordinated, RESPONSE_PARTS
<1> QED
  BY <1>2, <1>3, <1>5, <1>7, <1>10, <1>11, <1>12, NotEnded DEF Inv

\* A whole response is the answer that the worker computed.
LEMMA WholeResponse ==
    ASSUME Inv, NEW w \in Workers, pc = 9, status[w] = "BAL_SUCCESS"
    PROVE  /\ answer[w] \in Answers(w)
           /\ Received(w)[1] = answer[w].status
           /\ Received(w)[2] = answer[w].final_state
<1>1. Len(response[w]) = 2 /\ RESPONSE_PARTS = 2
  BY DEF Inv, Coordinated, ReceiveAt, RESPONSE_PARTS
<1>2. worker[w] = "reaped"
  BY DEF Inv, Coordinated, DestroyAt
<1>3. response[w] # <<>>
  BY <1>1
<1>4. PICK n \in Nat : Said(w, n)
  BY <1>2, <1>3 DEF Inv, Message, Asked, Silent
<1>5. response[w][1] = Parts(answer[w])[1] /\ response[w][2] = Parts(answer[w])[2]
  BY <1>1, <1>4 DEF Said
<1>6. Received(w)[1] = response[w][1] /\ Received(w)[2] = response[w][2]
  BY <1>1 DEF Received
<1> QED
  BY <1>4, <1>5, <1>6 DEF Said, Parts

\* Only a successful run puts the sentinel where the guest code ended, and the
\* values of the reference are right then.
LEMMA SentinelMeansSuccess ==
    /\ \A a \in Answers("ballistic") : a.status = OK => a.final_state.pc = "sentinel"
    /\ \A a \in Answers("unicorn") : a.final_state.pc = "sentinel" =>
            a.status = OK /\ a.final_state.x = "right" /\ a.final_state.flags = "right"
<1>1. \A a \in BallisticAnswers : a.status = OK => a.final_state.pc = "sentinel"
  BY DEF BallisticAnswers, OK, COMPILE_FAILED, EXECUTION_FAILED, UNKNOWN_INSTRUCTION
<1>2. \A a \in UnicornAnswers : a.final_state.pc = "sentinel" =>
            a.status = OK /\ a.final_state.x = "right" /\ a.final_state.flags = "right"
  BY DEF UnicornAnswers, SentinelWritten, ZeroSnapshot
<1> QED
  BY <1>1, <1>2 DEF Answers

\* The end of main.
LEMMA CompareInv ==
    ASSUME Inv, Compare
    PROVE  Inv'
<1>1. Typed /\ Loop
  BY DEF Inv
<1>2. exit = "none" /\ pc = 9
  BY <1>1, StepOf DEF Compare, Typed, Workers
<1>3. UNCHANGED <<pc, remaining, response, status, worker, answer, progress, pipe>>
  BY DEF Compare, workers
<1>4. exit' \in {"failure", "matched", "mismatched"}
  BY DEF Compare
<1>5. Typed' /\ Loop'
  BY <1>1, <1>3, <1>4 DEF Typed, Loop
<1>6. \A v \in Workers : Message(v)'
  <2>1. \A v \in Workers : Kept(v) /\ worker'[v] = worker[v]
    BY <1>3 DEF Kept, In, Out
  <2> QED
    BY <1>3, <2>1, MessageStays
<1>7. ASSUME NEW v \in Workers PROVE Coordinated(v)' /\ worker[v] = "reaped"
  <2>1. Coordinated(v) /\ pc > DestroyAt(v) /\ ~(pc <= SpawnAt(v))
    BY <1>2 DEF Inv, DestroyAt, SpawnAt
  <2> QED
    BY <1>3, <2>1 DEF Coordinated, ReceiveAt, SpawnAt, DestroyAt, RESPONSE_PARTS
<1>8. NothingLeftBehind'
  BY <1>3, <1>7 DEF NothingLeftBehind
<1>9. MatchIsReal'
  <2> SUFFICES ASSUME exit' = "matched"
               PROVE  /\ \A w \in Workers : answer[w].status = OK
                      /\ answer["ballistic"].final_state.x = "right"
                      /\ answer["ballistic"].final_state.flags = "right"
    BY <1>3 DEF MatchIsReal, OK
  <2>1. /\ \A w \in Workers : status[w] = "BAL_SUCCESS"
        /\ Received("ballistic")[1] = OK
        /\ bal_fuzzer_state_compare(Received("unicorn")[2], Received("ballistic")[2])
    BY DEF Compare
  <2> DEFINE b == answer["ballistic"]
             u == answer["unicorn"]
  <2>2. /\ b \in Answers("ballistic") /\ Received("ballistic")[1] = b.status
        /\ Received("ballistic")[2] = b.final_state
        /\ u \in Answers("unicorn") /\ Received("unicorn")[2] = u.final_state
    BY <1>2, <2>1, WholeResponse DEF Workers
  <2> HIDE DEF b, u
  <2>3. b.status = OK /\ b.final_state.pc = "sentinel"
    BY <2>1, <2>2, SentinelMeansSuccess
  <2>4. /\ u.final_state["x"] = b.final_state["x"] /\ u.final_state["pc"] = b.final_state["pc"]
        /\ u.final_state["flags"] = b.final_state["flags"]
    BY <2>1, <2>2 DEF bal_fuzzer_state_compare
  <2>5. u.status = OK /\ u.final_state.x = "right" /\ u.final_state.flags = "right"
    BY <2>2, <2>3, <2>4, SentinelMeansSuccess
  <2> QED
    BY <2>3, <2>4, <2>5 DEF b, u, Workers
<1> QED
  BY <1>5, <1>6, <1>7, <1>8, <1>9 DEF Inv

-----------------------------------------------------------------------------
\* In every state that the fuzzer reaches each message is where the processes'
\* states say.
LEMMA Invariant == Spec => []Inv
<1>1. Init => Inv
  <2> SUFFICES ASSUME Init PROVE Inv
    OBVIOUS
  <2>1. Typed /\ Loop
    <3>1. <<>> \in Seq(Datum) /\ INPUT_PARTS \in Nat \ {0}
      BY PartsAssumption
    <3>2. [status |-> OK, final_state |-> ZeroSnapshot] \in Response
      BY DEF Response, OK, ZeroSnapshot, Snapshot, UNKNOWN_INSTRUCTION
    <3> QED
      BY <3>1, <3>2 DEF Init, Typed, Loop
  <2>2. ASSUME NEW w \in Workers PROVE Message(w) /\ Coordinated(w)
    <3>1. /\ pc = 1 /\ response[w] = <<>> /\ status[w] = "none" /\ worker[w] = "none"
          /\ progress[w] = 0 /\ In(w) = <<>> /\ Out(w) = <<>>
      BY TwoPipes DEF Init, In, Out
    <3>2. Sent(w) = 0 /\ Len(<<>>) = 0 /\ 0 + 0 <= 0
      BY <3>1 DEF Sent, SendAt
    <3>3. Message(w)
      BY <3>1, <3>2 DEF Message, Asked, Silent
    <3>4. Coordinated(w)
      BY <3>1 DEF Coordinated, ReceiveAt, DestroyAt
    <3> QED
      BY <3>3, <3>4
  <2>3. NothingLeftBehind /\ MatchIsReal
    BY DEF Init, NothingLeftBehind, MatchIsReal
  <2> QED
    BY <2>1, <2>2, <2>3 DEF Inv
<1>2. Inv /\ [Next]_vars => Inv'
  <2> SUFFICES ASSUME Inv, [Next]_vars PROVE Inv'
    OBVIOUS
  <2>1. ASSUME NEW w \in Workers, CoordinatorStep(w) PROVE Inv'
    BY <2>1, SpawnInv, SendInv, SendFailsInv, ReceiveInv, ReceiveFailsInv, DestroyInv
       DEF CoordinatorStep
  <2>2. ASSUME NEW w \in Workers, WorkerStep(w) PROVE Inv'
    <3>1. CASE ReadFails(w) \/ WriteFails(w)
      BY <3>1, EndsInv DEF ReadFails, WriteFails
    <3> QED
      BY <2>2, <3>1, ExecInv, ReadInv, ComputeInv, WriteInv DEF WorkerStep
  <2>3. ASSUME NEW w \in Workers, Crash(w) PROVE Inv'
    BY <2>3, EndsInv DEF Crash
  <2>4. CASE Compare
    BY <2>4, CompareInv
  <2>5. CASE UNCHANGED vars
    <3>1. UNCHANGED <<pc, remaining, response, status, exit, worker, answer, progress, pipe>>
      BY <2>5 DEF vars, coordinator, workers
    <3>2. Typed' /\ Loop' /\ NothingLeftBehind' /\ MatchIsReal'
      BY <3>1 DEF Inv, Typed, Loop, NothingLeftBehind, MatchIsReal
    <3>3. \A w \in Workers : Kept(w) /\ worker'[w] = worker[w]
      BY <3>1 DEF Kept, In, Out
    <3>4. \A w \in Workers : Message(w)'
      BY <3>1, <3>3, MessageStays
    <3>5. \A w \in Workers : Coordinated(w)'
      BY <3>1, CoordinatedKept DEF Inv
    <3> QED
      BY <3>2, <3>4, <3>5 DEF Inv
  <2> QED
    BY <2>1, <2>2, <2>3, <2>4, <2>5 DEF Next
<1> QED
  BY <1>1, <1>2, PTL DEF Spec

\* The fuzzer reports a match only if both workers ran the guest code to its end
\* and Ballistic's registers and flags are right, although main never looks at
\* the status of the Unicorn worker's response.
THEOREM MatchesAreReal == Spec => []MatchIsReal
<1>1. Inv => MatchIsReal
  BY DEF Inv
<1> QED
  BY <1>1, Invariant, PTL

\* A coordinator that returns from main, also when a spawn failed, has killed and
\* waited for every worker that it forked.
THEOREM NoWorkerIsLeft == Spec => []NothingLeftBehind
<1>1. Inv => NothingLeftBehind
  BY DEF Inv
<1> QED
  BY <1>1, Invariant, PTL

-----------------------------------------------------------------------------
(* Who holds the ends of the pipes.                                        *)

\* The processes that hold an end are some of the three, and a worker that is
\* gone is none of them.
Holders ==
    /\ worker \in [Workers -> {"none", "forked", "reading", "computing", "hung",
                               "writing", "ended", "reaped"}]
    /\ readers \in [Pipes -> SUBSET Processes] /\ writers \in [Pipes -> SUBSET Processes]
    /\ \A w \in Workers : Gone(w) => \A x \in Pipes : w \notin readers[x] /\ w \notin writers[x]

\* A step after which every pipe has the holders it had or fewer, and in which no
\* worker goes without letting go of its ends.
LEMMA HoldersShrink ==
    ASSUME Holders,
           worker' \in [Workers -> {"none", "forked", "reading", "computing", "hung",
                                    "writing", "ended", "reaped"}],
           readers' \in [Pipes -> SUBSET Processes], writers' \in [Pipes -> SUBSET Processes],
           \A x \in Pipes : readers'[x] \subseteq readers[x] /\ writers'[x] \subseteq writers[x],
           \A w \in Workers : Gone(w)' =>
               Gone(w) \/ \A x \in Pipes : w \notin readers'[x] /\ w \notin writers'[x]
    PROVE  Holders'
BY DEF Holders

\* The end of a worker.
LEMMA HoldersEnds ==
    ASSUME Holders, NEW w \in Workers, Ends(w)
    PROVE  Holders'
<1>1. /\ worker' = [worker EXCEPT ![w] = "ended"]
      /\ readers' = [x \in Pipes |-> readers[x] \ {w}]
      /\ writers' = [x \in Pipes |-> writers[x] \ {w}]
  BY DEF Ends, Without
<1>2. \A v \in Workers \ {w} : worker'[v] = worker[v]
  BY <1>1 DEF Holders
<1>3. \A v \in Workers \ {w} : Gone(v)' => Gone(v)
  BY <1>2 DEF Gone
<1>4. \A x \in Pipes : w \notin readers'[x] /\ w \notin writers'[x]
  BY <1>1
<1>5. /\ worker' \in [Workers -> {"none", "forked", "reading", "computing", "hung",
                                   "writing", "ended", "reaped"}]
      /\ readers' \in [Pipes -> SUBSET Processes] /\ writers' \in [Pipes -> SUBSET Processes]
  BY <1>1 DEF Holders
<1>6. \A x \in Pipes : readers'[x] \subseteq readers[x] /\ writers'[x] \subseteq writers[x]
  BY <1>1
<1> QED
  BY <1>3, <1>4, <1>5, <1>6, HoldersShrink

\* The coordinator lets go of all its ends, or nobody of any, and no worker goes.
LEMMA HoldersStay ==
    ASSUME Holders,
           worker' \in [Workers -> {"none", "forked", "reading", "computing", "hung",
                                    "writing", "ended", "reaped"}],
           \A w \in Workers : Gone(w)' => Gone(w),
           \/ UNCHANGED <<readers, writers>>
           \/ /\ readers' = Without(readers, {"coordinator"})
              /\ writers' = Without(writers, {"coordinator"})
    PROVE  Holders'
<1>1. CASE UNCHANGED <<readers, writers>>
  BY <1>1 DEF Holders
<1>2. CASE /\ readers' = Without(readers, {"coordinator"})
           /\ writers' = Without(writers, {"coordinator"})
  <2>1. /\ readers' \in [Pipes -> SUBSET Processes] /\ writers' \in [Pipes -> SUBSET Processes]
        /\ \A x \in Pipes : readers'[x] \subseteq readers[x] /\ writers'[x] \subseteq writers[x]
    BY <1>2 DEF Without, Holders
  <2> QED
    BY <2>1, HoldersShrink
<1> QED
  BY <1>1, <1>2

\* The workers that are killed let go of everything.
LEMMA HoldersDestroyed ==
    ASSUME Holders, NEW killed \in SUBSET Workers, Destroyed(killed)
    PROVE  Holders'
<1> DEFINE closed(x) == IF x[1] \in killed THEN killed \union {"coordinator"} ELSE killed
<1>1. /\ worker' = [w \in Workers |-> IF w \in killed THEN "reaped" ELSE worker[w]]
      /\ readers' = [x \in Pipes |-> readers[x] \ closed(x)]
      /\ writers' = [x \in Pipes |-> writers[x] \ closed(x)]
  BY DEF Destroyed
<1>2. \A x \in Pipes : killed \subseteq closed(x)
  OBVIOUS
<1> HIDE DEF closed
<1>3. \A w \in Workers : Gone(w)' =>
        Gone(w) \/ \A x \in Pipes : w \notin readers'[x] /\ w \notin writers'[x]
  BY <1>1, <1>2 DEF Gone
<1>4. /\ worker' \in [Workers -> {"none", "forked", "reading", "computing", "hung",
                                   "writing", "ended", "reaped"}]
      /\ readers' \in [Pipes -> SUBSET Processes] /\ writers' \in [Pipes -> SUBSET Processes]
  BY <1>1 DEF Holders
<1>5. \A x \in Pipes : readers'[x] \subseteq readers[x] /\ writers'[x] \subseteq writers[x]
  BY <1>1
<1> QED
  BY <1>3, <1>4, <1>5, HoldersShrink

\* A fork gives the new worker ends, and no worker that is gone.
LEMMA HoldersSpawned ==
    ASSUME Holders, NEW w \in Workers, Spawned(w)
    PROVE  Holders'
<1>1. /\ worker' = [worker EXCEPT ![w] = "forked"]
      /\ readers' = Inherited(readers, ParentKeeps(w).readers, w)
      /\ writers' = Inherited(writers, ParentKeeps(w).writers, w)
  BY DEF Spawned
<1>2. worker'[w] = "forked" /\ \A v \in Workers \ {w} : worker'[v] = worker[v]
  BY <1>1 DEF Holders
<1>3. \A v \in Workers : Gone(v)' => Gone(v) /\ v # w
  BY <1>2 DEF Gone
<1>4. ASSUME NEW h \in [Pipes -> SUBSET Processes], NEW kept
      PROVE  /\ Inherited(h, kept, w) \in [Pipes -> SUBSET Processes]
             /\ \A x \in Pipes : Inherited(h, kept, w)[x] \subseteq h[x] \union {"coordinator", w}
  BY DEF Inherited, Processes
<1>5. \A v \in Workers : v # "coordinator"
  BY DEF Workers
<1> QED
  BY <1>1, <1>3, <1>4, <1>5 DEF Holders

\* No pipe ever holds more than one message, so that a write never waits for room
\* as the model has it; and a worker that is gone holds no end of a pipe, so that
\* the end of a file and the lack of a reader are noticed.
THEOREM PipesFit == Spec => []TypeOK
<1>1. Init => Holders
  BY DEF Init, Holders
<1>2. Holders /\ [Next]_vars => Holders'
  <2> SUFFICES ASSUME Holders, [Next]_vars PROVE Holders'
    OBVIOUS
  <2>1. ASSUME NEW w \in Workers, CoordinatorStep(w) PROVE Holders'
    <3>1. CASE Spawn(w)
      BY <3>1, HoldersSpawned, HoldersDestroyed DEF Spawn, DestroyedBySpawn
    <3>2. CASE Send(w) \/ Receive(w) \/ ReceiveFails(w) \/ SendFails(w)
      <4>1. worker' = worker
        BY <3>2 DEF Send, Receive, ReceiveFails, SendFails, workers
      <4>2. \A v \in Workers : Gone(v)' => Gone(v)
        BY <4>1 DEF Gone
      <4> QED
        BY <3>2, <4>1, <4>2, HoldersStay DEF Holders, Send, Receive, ReceiveFails, SendFails
    <3>3. CASE Destroy(w)
      BY <3>3, HoldersDestroyed DEF Destroy
    <3> QED
      BY <2>1, <3>1, <3>2, <3>3 DEF CoordinatorStep
  <2>2. ASSUME NEW w \in Workers, WorkerStep(w) \/ Crash(w) PROVE Holders'
    <3>1. CASE Ends(w)
      BY <3>1, HoldersEnds
    <3>2. CASE Read(w) \/ Compute(w) \/ Write(w)
      <4>1. /\ UNCHANGED <<readers, writers>>
            /\ \/ worker' = worker
               \/ \E s \in {"computing", "writing", "hung", "reading"} :
                      worker' = [worker EXCEPT ![w] = s]
        BY <3>2 DEF Read, Compute, Write
      <4>2. worker' \in [Workers -> {"none", "forked", "reading", "computing", "hung",
                                     "writing", "ended", "reaped"}]
        BY <4>1 DEF Holders
      <4>3. \A v \in Workers : Gone(v)' => Gone(v)
        BY <4>1 DEF Gone, Holders
      <4> QED
        BY <4>1, <4>2, <4>3, HoldersStay
    <3>3. CASE Exec(w) /\ ~Ends(w)
      <4>1. worker' = [worker EXCEPT ![w] = "reading"]
        BY <3>3 DEF Exec
      <4>2. /\ readers' = [x \in Pipes |-> IF x \in ChildCloses(w).readers
                                           THEN readers[x] \ {w} ELSE readers[x]]
            /\ writers' = [x \in Pipes |-> IF x \in ChildCloses(w).writers
                                           THEN writers[x] \ {w} ELSE writers[x]]
        BY <3>3 DEF Exec
      <4>3. /\ readers' \in [Pipes -> SUBSET Processes] /\ writers' \in [Pipes -> SUBSET Processes]
            /\ \A x \in Pipes : readers'[x] \subseteq readers[x] /\ writers'[x] \subseteq writers[x]
        BY <4>2 DEF Holders
      <4>4. worker' \in [Workers -> {"none", "forked", "reading", "computing", "hung",
                                     "writing", "ended", "reaped"}]
        BY <4>1 DEF Holders
      <4>5. \A v \in Workers : Gone(v)' => Gone(v)
        BY <4>1 DEF Gone, Holders
      <4> QED
        BY <4>3, <4>4, <4>5, HoldersShrink
    <3> QED
      BY <2>2, <3>1, <3>2, <3>3 DEF WorkerStep, Crash, ReadFails, WriteFails
  <2>3. CASE Compare
    <3>1. worker' = worker
      BY <2>3 DEF Compare, workers
    <3>2. \A v \in Workers : Gone(v)' => Gone(v)
      BY <3>1 DEF Gone
    <3> QED
      BY <2>3, <3>1, <3>2, HoldersStay DEF Holders, Compare
  <2>4. CASE UNCHANGED vars
    BY <2>4 DEF vars, workers, Holders, Gone
  <2> QED
    BY <2>1, <2>2, <2>3, <2>4 DEF Next
<1>3. Inv /\ Holders => TypeOK
  <2> SUFFICES ASSUME Inv, Holders PROVE TypeOK
    OBVIOUS
  <2>1. Typed /\ Loop
    BY DEF Inv
  <2>2. DOMAIN Program = 1 .. 9
    BY DEF Program
  <2>3. remaining \in 1 .. INPUT_PARTS \union 1 .. RESPONSE_PARTS
    <3>1. remaining \in Nat \ {0} /\ (remaining <= INPUT_PARTS \/ remaining <= RESPONSE_PARTS)
      BY <2>1 DEF Typed, Loop
    <3> QED
      BY <3>1, PartsAssumption DEF RESPONSE_PARTS
  <2>4. ASSUME NEW w \in Workers
        PROVE  /\ Len(In(w)) <= INPUT_PARTS
               /\ Len(Out(w)) <= RESPONSE_PARTS /\ Len(response[w]) <= RESPONSE_PARTS
    <3>1. Sent(w) \in 0 .. INPUT_PARTS /\ INPUT_PARTS \in Nat
      BY <2>1, SentTyped, PartsAssumption
    <3>2. PICK i \in Nat : i = Len(In(w))
      <4>1. In(w) \in Seq(Datum)
        BY <2>1, TwoPipes DEF Typed, In
      <4> QED
        BY <4>1
    <3>3. PICK o \in Nat : o = Len(Out(w))
      <4>1. Out(w) \in Seq(Datum)
        BY <2>1, TwoPipes DEF Typed, Out
      <4> QED
        BY <4>1
    <3>4. PICK r \in Nat : r = Len(response[w])
      BY <2>1 DEF Typed
    <3>5. progress[w] \in Nat /\ RESPONSE_PARTS = 2 /\ Len(<<>>) = 0
      BY <2>1 DEF Typed, RESPONSE_PARTS
    <3>6. CASE Asked(w)
      <4>1. o = 0 /\ r = 0 /\ i + progress[w] <= Sent(w)
        BY <3>2, <3>3, <3>4, <3>5, <3>6 DEF Asked, Silent
      <4>2. i <= INPUT_PARTS /\ o <= 2 /\ r <= 2
        BY <3>1, <3>5, <4>1
      <4> QED
        BY <3>2, <3>3, <3>4, <3>5, <4>2
    <3>7. CASE HasAll(w)
      <4>1. o = 0 /\ r = 0 /\ i = 0
        BY <3>2, <3>3, <3>4, <3>5, <3>7 DEF HasAll, Silent
      <4> QED
        BY <3>1, <3>2, <3>3, <3>4, <3>5, <4>1
    <3>8. ASSUME NEW n \in Nat, Said(w, n)
          PROVE  /\ Len(In(w)) <= INPUT_PARTS
                 /\ Len(Out(w)) <= RESPONSE_PARTS /\ Len(response[w]) <= RESPONSE_PARTS
      <4>1. i = 0 /\ r + o = n /\ n <= 2
        BY <3>2, <3>3, <3>4, <3>5, <3>8 DEF Said
      <4>2. i <= INPUT_PARTS /\ o <= 2 /\ r <= 2
        BY <3>1, <4>1
      <4> QED
        BY <3>2, <3>3, <3>4, <3>5, <4>2
    <3>9. Asked(w) \/ HasAll(w) \/ \E n \in Nat : Said(w, n)
      BY <3>5 DEF Inv, Message
    <3> QED
      BY <3>6, <3>7, <3>8, <3>9
  <2> QED
    BY <2>1, <2>2, <2>3, <2>4 DEF TypeOK, Typed, In, Out, Holders
<1> QED
  BY <1>1, <1>2, <1>3, Invariant, PTL DEF Spec
=============================================================================
