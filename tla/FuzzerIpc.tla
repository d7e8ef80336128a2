----------------------------- MODULE FuzzerIpc -----------------------------
(***************************************************************************)
(* The differential fuzzer: a coordinator forks a Ballistic worker and a   *)
(* Unicorn worker, sends both the same input over pipes, waits for both    *)
(* responses, kills the workers and compares the two CPU states.  Workers  *)
(* die at any moment, fail to start or never answer.                       *)
(*                                                                         *)
(* A message is a sequence of parts; every read and write moves any number *)
(* of them, as the loops around read and write allow.  A pipe has room for *)
(* a message, as Linux gives it.  poll times out and starts over, which    *)
(* changes nothing.                                                        *)
(***************************************************************************)
EXTENDS Naturals, Sequences, SequencesExt, FiniteSets

CONSTANT INPUT_PARTS    \* the parts of a bal_fuzzer_input_t

ASSUME PartsAssumption == INPUT_PARTS \in Nat \ {0}

Workers == {"ballistic", "unicorn"}
Processes == Workers \union {"coordinator"}
Pipes == Workers \X {"in", "out"}

VARIABLES
    pc,         \* the coordinator's step of main
    remaining,  \* of bal_fuzzer_ipc_send and bal_fuzzer_ipc_receive
    response,   \* the parts received from a worker
    status,     \* what bal_fuzzer_ipc_receive returned for a worker
    exit,       \* how the coordinator ended, "none" while it runs
    worker,     \* what a worker does
    answer,     \* the response a worker has computed
    progress,   \* parts of the message that a worker has read or written
    pipe,       \* the parts in a pipe
    readers,    \* processes that hold the read end of a pipe
    writers,    \* processes that hold its write end
    sigpipe     \* action for SIGPIPE, inherited from whoever starts the coordinator

coordinator == <<pc, remaining, response, status, exit>>
workers == <<worker, answer, progress>>
vars == <<coordinator, workers, pipe, readers, writers, sigpipe>>

\* bal_fuzzer_cpu_snapshot_t.  The instructions are the fixed ones of main: a
\* value is the one the architecture gives or another one.
Snapshot == [x: {"right", "wrong", "zero"}, pc: {"sentinel", "elsewhere", "zero"},
             flags: {"right", "wrong", "zero"}]
ZeroSnapshot == [x |-> "zero", pc |-> "zero", flags |-> "zero"]

\* bal_fuzzer_worker_status_t
OK == 0
COMPILE_FAILED == 1
EXECUTION_FAILED == 2
CRASHED == 4
UNKNOWN_INSTRUCTION == 5

\* bal_fuzzer_response_t in two parts.
Parts(a) == <<a.status, a.final_state>>
RESPONSE_PARTS == 2
Zeroed == Parts([status |-> OK, final_state |-> ZeroSnapshot])

Init ==
    /\ pc = 1
    /\ remaining = INPUT_PARTS
    /\ response = [w \in Workers |-> <<>>]
    /\ status = [w \in Workers |-> "none"]
    /\ exit = "none"
    /\ worker = [w \in Workers |-> "none"]
    /\ answer = [w \in Workers |-> [status |-> OK, final_state |-> ZeroSnapshot]]
    /\ progress = [w \in Workers |-> 0]
    /\ pipe = [x \in Pipes |-> <<>>]
    /\ readers = [x \in Pipes |-> {}]
    /\ writers = [x \in Pipes |-> {}]
    /\ sigpipe \in {"SIG_DFL", "SIG_IGN"}

\* The steps of the coordinator's main.
Program == <<<<"spawn", "ballistic">>, <<"spawn", "unicorn">>,
             <<"send", "ballistic">>, <<"send", "unicorn">>,
             <<"receive", "ballistic">>, <<"receive", "unicorn">>,
             <<"destroy", "ballistic">>, <<"destroy", "unicorn">>, <<"compare", "unicorn">>>>

At(operation, w) == exit = "none" /\ Program[pc] = <<operation, w>>

\* The next step; the loops of send and receive start with all of a message.
Advance ==
    /\ pc' = pc + 1
    /\ remaining' = IF Program[pc + 1][1] = "receive" THEN RESPONSE_PARTS ELSE INPUT_PARTS

Without(holders, gone) == [x \in Pipes |-> holders[x] \ gone]

-----------------------------------------------------------------------------
(* bal_fuzzer_ipc_spawn and bal_fuzzer_ipc_destroy.                        *)

\* Mutant: the parent keeps the write end of the worker's output.
ParentKeeps_both(w) ==
    [writers |-> {<<w, "in">>, <<w, "out">>}, readers |-> {<<w, "out">>}]

\* The ends of w's pipes that the parent leaves open after the fork.
ParentKeeps(w) == [writers |-> {<<w, "in">>}, readers |-> {<<w, "out">>}]

\* Who holds an end of each pipe when w was forked: fork gives the child every end
\* that the parent has, of the other worker's pipes too.  The parent then closes
\* the ends of w's pipes that it does not keep.
Inherited(holders, kept, w) ==
    [x \in Pipes |->
        IF x[1] = w THEN (IF x \in kept THEN {"coordinator", w} ELSE {w})
        ELSE IF "coordinator" \in holders[x] THEN holders[x] \union {w} ELSE holders[x]]

Spawned(w) ==
    /\ worker' = [worker EXCEPT ![w] = "forked"]
    /\ readers' = Inherited(readers, ParentKeeps(w).readers, w)
    /\ writers' = Inherited(writers, ParentKeeps(w).writers, w)

\* close, SIGKILL and waitpid, for each of the workers in killed.  The
\* coordinator's own ends go with them.
Destroyed(killed) ==
    LET closed(x) == IF x[1] \in killed THEN killed \union {"coordinator"} ELSE killed
    IN  /\ worker' = [w \in Workers |-> IF w \in killed THEN "reaped" ELSE worker[w]]
        /\ readers' = [x \in Pipes |-> readers[x] \ closed(x)]
        /\ writers' = [x \in Pipes |-> writers[x] \ closed(x)]

\* Mutant: nobody is destroyed when a spawn fails.
DestroyedBySpawn_none == {}

\* The worker that exists when a spawn fails, if any, is destroyed.
DestroyedBySpawn == {w \in Workers : worker[w] # "none"}

\* pipe or fork may fail.
Spawn(w) ==
    /\ At("spawn", w)
    /\ \/ Spawned(w) /\ Advance /\ UNCHANGED exit
       \/ Destroyed(DestroyedBySpawn) /\ exit' = "failure" /\ UNCHANGED <<pc, remaining>>
    /\ UNCHANGED <<response, status, answer, progress, pipe, sigpipe>>

Destroy(w) ==
    /\ At("destroy", w)
    /\ Destroyed({w})
    /\ Advance
    /\ UNCHANGED <<response, status, exit, answer, progress, pipe, sigpipe>>

-----------------------------------------------------------------------------
(* bal_fuzzer_ipc_send.  A failure is logged and main goes on.             *)

\* What is left after k parts were moved; main goes on when it is nothing.
Remaining(k) ==
    IF k = remaining THEN Advance ELSE remaining' = remaining - k /\ UNCHANGED pc

Send(w) ==
    /\ At("send", w)
    /\ readers[<<w, "in">>] # {}
    /\ \E k \in 1 .. remaining :
        /\ pipe' = [pipe EXCEPT ![<<w, "in">>] = @ \o [i \in 1 .. k |-> "input"]]
        /\ Remaining(k)
    /\ UNCHANGED <<response, status, exit, workers, readers, writers, sigpipe>>

\* Nobody reads: the signal kills the coordinator, unless it is ignored.
SendFails(w) ==
    /\ At("send", w)
    /\ readers[<<w, "in">>] = {}
    /\ IF sigpipe = "SIG_DFL"
       THEN /\ exit' = "SIGPIPE"
            /\ readers' = Without(readers, {"coordinator"})
            /\ writers' = Without(writers, {"coordinator"})
            /\ UNCHANGED <<pc, remaining>>
       ELSE Advance /\ UNCHANGED <<exit, readers, writers>>
    /\ UNCHANGED <<response, status, workers, pipe, sigpipe>>

-----------------------------------------------------------------------------
(* bal_fuzzer_ipc_receive.                                                 *)

\* The response as it stands in memory: zeroes where nothing was received.
Received(w) == [i \in 1 .. RESPONSE_PARTS |->
                    IF i <= Len(response[w]) THEN response[w][i] ELSE Zeroed[i]]

\* A status behind CRASHED, as UNKNOWN_INSTRUCTION is, is out of range.
StatusOf(parts) == IF parts[1] > CRASHED THEN "BAL_ERROR_STRUCT_CORRUPTED" ELSE "BAL_SUCCESS"

Receive(w) ==
    /\ At("receive", w)
    /\ \E k \in 1 .. remaining :
        /\ k <= Len(pipe[<<w, "out">>])
        /\ response' = [response EXCEPT ![w] = @ \o SubSeq(pipe[<<w, "out">>], 1, k)]
        /\ pipe' = [pipe EXCEPT ![<<w, "out">>] = SubSeq(@, k + 1, Len(@))]
        /\ status' = [status EXCEPT ![w] = IF k = remaining THEN StatusOf(response'[w]) ELSE @]
        /\ Remaining(k)
    /\ UNCHANGED <<exit, workers, readers, writers, sigpipe>>

\* The end of the file comes when nobody can write any more.
ReceiveFails(w) ==
    /\ At("receive", w)
    /\ pipe[<<w, "out">>] = <<>> /\ writers[<<w, "out">>] = {}
    /\ status' = [status EXCEPT ![w] = "BAL_ERROR_THREAD_CLEANUP"]
    /\ Advance
    /\ UNCHANGED <<response, exit, workers, pipe, readers, writers, sigpipe>>

-----------------------------------------------------------------------------
\* bal_fuzzer_state_compare: the instruction count of a state is not compared.
bal_fuzzer_state_compare(expected, actual) ==
    \A field \in {"x", "pc", "flags"} : expected[field] = actual[field]

\* The end of main.  The status of the Unicorn worker's response is not looked
\* at, nor is a message_id.  After a mismatch main ends without a return, with
\* the exit code of a success.
Compare ==
    /\ At("compare", "unicorn")
    /\ exit' = IF \E w \in Workers : status[w] # "BAL_SUCCESS" THEN "failure"
               ELSE IF Received("ballistic")[1] # OK THEN "failure"
               ELSE IF bal_fuzzer_state_compare(Received("unicorn")[2], Received("ballistic")[2])
               THEN "matched" ELSE "mismatched"
    /\ readers' = Without(readers, {"coordinator"})
    /\ writers' = Without(writers, {"coordinator"})
    /\ UNCHANGED <<pc, remaining, response, status, workers, pipe, sigpipe>>

-----------------------------------------------------------------------------
(* The workers.                                                            *)

\* A worker's process ends; it holds no pipe any more.
Ends(w) ==
    /\ worker' = [worker EXCEPT ![w] = "ended"]
    /\ readers' = Without(readers, {w})
    /\ writers' = Without(writers, {w})

\* Mutant: the child does not close the ends that are its parent's.
ChildCloses_nothing(w) == [writers |-> {}, readers |-> {}]

\* The ends that the child closes before it becomes the worker.
ChildCloses(w) == [writers |-> {<<w, "in">>}, readers |-> {<<w, "out">>}]

\* dup2 or execl may fail.
Exec(w) ==
    LET open(holders, closed) ==
            [x \in Pipes |-> IF x \in closed THEN holders[x] \ {w} ELSE holders[x]]
    IN  /\ worker[w] = "forked"
        /\ \/ /\ worker' = [worker EXCEPT ![w] = "reading"]
              /\ readers' = open(readers, ChildCloses(w).readers)
              /\ writers' = open(writers, ChildCloses(w).writers)
           \/ Ends(w)
        /\ UNCHANGED <<coordinator, answer, progress, pipe, sigpipe>>

\* read_exact on stdin.
Read(w) ==
    /\ worker[w] = "reading"
    /\ \E k \in 1 .. INPUT_PARTS - progress[w] :
        /\ k <= Len(pipe[<<w, "in">>])
        /\ pipe' = [pipe EXCEPT ![<<w, "in">>] = SubSeq(@, k + 1, Len(@))]
        /\ IF progress[w] + k = INPUT_PARTS
           THEN worker' = [worker EXCEPT ![w] = "computing"]
                /\ progress' = [progress EXCEPT ![w] = 0]
           ELSE progress' = [progress EXCEPT ![w] = @ + k] /\ UNCHANGED worker
    /\ UNCHANGED <<coordinator, answer, readers, writers, sigpipe>>

\* The end of the file ends the worker.
ReadFails(w) ==
    /\ worker[w] = "reading"
    /\ pipe[<<w, "in">>] = <<>> /\ writers[<<w, "in">>] = {}
    /\ Ends(w)
    /\ UNCHANGED <<coordinator, answer, progress, pipe, sigpipe>>

\* What the Ballistic worker can answer.  The engine returns BAL_SUCCESS only at
\* the sentinel; before that it may have failed anywhere.
BallisticAnswers ==
    {[status |-> COMPILE_FAILED, final_state |-> ZeroSnapshot]}
    \union {[status |-> OK, final_state |-> s] : s \in {s \in Snapshot : s.pc = "sentinel"}}
    \union {[status |-> e, final_state |-> s] :
                e \in {EXECUTION_FAILED, UNKNOWN_INSTRUCTION},
                s \in {s \in Snapshot : s.pc = "elsewhere"}}

\* Mutant: the sentinel is written whether the emulation succeeded or not.
SentinelWritten_always(succeeded) == "sentinel"

\* The pc of the Unicorn worker's response: the worker puts the sentinel where
\* the emulation ended, if it succeeded.
SentinelWritten(succeeded) == IF succeeded THEN "sentinel" ELSE "elsewhere"

\* What the Unicorn worker can answer.  Unicorn is the reference: if it succeeds
\* its values are right.  Where an instruction fails they may be so as well.  A
\* failure to write the sentinel is only logged: the status stays OK, and x is not
\* right if the write of X30 failed too.
UnicornAnswers ==
    {[status |-> e, final_state |-> ZeroSnapshot] : e \in {COMPILE_FAILED, EXECUTION_FAILED}}
    \union {[status |-> COMPILE_FAILED,
             final_state |-> [x |-> v, pc |-> SentinelWritten(FALSE), flags |-> f]] :
                v \in {"right", "wrong"}, f \in {"right", "wrong"}}
    \union {[status |-> OK,
             final_state |-> [x |-> "right", pc |-> SentinelWritten(TRUE), flags |-> "right"]]}
    \union {[status |-> OK,
             final_state |-> [x |-> v, pc |-> SentinelWritten(FALSE), flags |-> "right"]] :
                v \in {"right", "wrong"}}

\* The guest code runs.  It may never end: then the worker hangs.
Compute(w) ==
    /\ worker[w] = "computing"
    /\ \/ \E a \in IF w = "ballistic" THEN BallisticAnswers ELSE UnicornAnswers :
            /\ answer' = [answer EXCEPT ![w] = a]
            /\ worker' = [worker EXCEPT ![w] = "writing"]
       \/ worker' = [worker EXCEPT ![w] = "hung"] /\ UNCHANGED answer
    /\ UNCHANGED <<coordinator, progress, pipe, readers, writers, sigpipe>>

\* write_exact on stdout; then the worker waits for another input.
Write(w) ==
    /\ worker[w] = "writing"
    /\ readers[<<w, "out">>] # {}
    /\ \E k \in 1 .. RESPONSE_PARTS - progress[w] :
        /\ pipe' = [pipe EXCEPT ![<<w, "out">>] =
                        @ \o SubSeq(Parts(answer[w]), progress[w] + 1, progress[w] + k)]
        /\ IF progress[w] + k = RESPONSE_PARTS
           THEN worker' = [worker EXCEPT ![w] = "reading"]
                /\ progress' = [progress EXCEPT ![w] = 0]
           ELSE progress' = [progress EXCEPT ![w] = @ + k] /\ UNCHANGED worker
    /\ UNCHANGED <<coordinator, answer, readers, writers, sigpipe>>

\* Nobody reads: the coordinator was killed by SIGPIPE, and so is the worker.
WriteFails(w) ==
    /\ worker[w] = "writing"
    /\ readers[<<w, "out">>] = {}
    /\ Ends(w)
    /\ UNCHANGED <<coordinator, answer, progress, pipe, sigpipe>>

\* A worker dies: the Ballistic worker does so whenever bal_engine_init fails,
\* because it runs the engine all the same, without a state.
Crash(w) ==
    /\ worker[w] \in {"reading", "computing", "writing"}
    /\ Ends(w)
    /\ UNCHANGED <<coordinator, answer, progress, pipe, sigpipe>>

CoordinatorStep(w) ==
    Spawn(w) \/ Send(w) \/ SendFails(w) \/ Receive(w) \/ ReceiveFails(w) \/ Destroy(w)

WorkerStep(w) == Exec(w) \/ Read(w) \/ ReadFails(w) \/ Compute(w) \/ Write(w) \/ WriteFails(w)

Next ==
    \/ \E w \in Workers : CoordinatorStep(w) \/ WorkerStep(w) \/ Crash(w)
    \/ Compare

\* Each of the three processes goes on when it can; nothing forces a crash.
Fairness ==
    /\ WF_vars(Compare \/ \E w \in Workers : CoordinatorStep(w))
    /\ \A w \in Workers : WF_vars(WorkerStep(w))

Spec == Init /\ [][Next]_vars /\ Fairness

-----------------------------------------------------------------------------
Gone(w) == worker[w] \in {"none", "ended", "reaped"}

\* Every variable has its type: no pipe ever holds more than one message, and a
\* worker that is gone holds no end of a pipe.
TypeOK ==
    /\ pc \in DOMAIN Program
    /\ remaining \in 1 .. INPUT_PARTS \union 1 .. RESPONSE_PARTS
    /\ exit \in {"none", "failure", "matched", "mismatched", "SIGPIPE"}
    /\ \A w \in Workers :
        /\ Len(pipe[<<w, "in">>]) <= INPUT_PARTS
        /\ Len(pipe[<<w, "out">>]) <= RESPONSE_PARTS
        /\ Len(response[w]) <= RESPONSE_PARTS
        /\ Gone(w) => \A x \in Pipes : w \notin readers[x] \union writers[x]

\* The fuzzer reports a match only if the JIT and the reference both ran the guest
\* code to its end and Ballistic's registers and flags are right.  The coordinator
\* never looks at Unicorn's status: the sentinel in the pc tells the two apart.
MatchIsReal ==
    exit = "matched" =>
        /\ \A w \in Workers : answer[w].status = OK
        /\ answer["ballistic"].final_state.x = "right"
        /\ answer["ballistic"].final_state.flags = "right"

\* A coordinator that returns from main leaves no worker behind, running or not
\* waited for.
NothingLeftBehind ==
    exit \notin {"none", "SIGPIPE"} => \A w \in Workers : worker[w] \in {"none", "reaped"}

\* The coordinator ends, whichever worker dies when, unless a worker hangs: there
\* is no timeout for that.
CoordinatorEnds == <>(exit # "none" \/ \E w \in Workers : worker[w] = "hung")

\* When the coordinator is gone, even by a signal and without destroying its
\* workers, they end as well, although each holds ends of the other's pipes.
WorkersFollow ==
    exit # "none" ~> (\A w \in Workers : Gone(w)) \/ \E w \in Workers : worker[w] = "hung"
=============================================================================
