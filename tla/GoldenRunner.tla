---------------------------- MODULE GoldenRunner ----------------------------
(***************************************************************************)
(* One call of golden.run: compile or replay, make inputs, compute the     *)
(* golden outputs, launch the kernel, compare, and benchmark.  Tensors a   *)
(* caller marks resident live on the device for all launches of a prepared *)
(* worker; they are allocated once, read back once, and freed whatever     *)
(* fails.  Any call into the compiler or the runtime may raise.            *)
(*                                                                         *)
(* A tensor's content is the number of kernel launches applied to the      *)
(* inputs it comes from: 0 is the pristine input, 1 what the golden        *)
(* function must agree with, Garbage anything else.                        *)
(*                                                                         *)
(* The tensors are contiguous: a strided one is copied on its way to a     *)
(* worker and shares nothing from there on.                                *)
(***************************************************************************)
EXTENDS Integers, Sequences, FiniteSets

CONSTANTS
    SpecLists,    \* tensors of a program: sequences of [resident, dir, given]
    Ranks,        \* shards of a stacked tensor
    Warmup,       \* PYPTO_BENCH_WARMUP
    Rounds,       \* PYPTO_BENCH_ROUNDS
    MaxFaults     \* bound: calls that raise

Resident == {"no", "whole", "stacked"}
Directions == {"in", "out", "inout"}

ASSUME BoundsAssumption ==
    /\ Ranks \in Nat \ {0} /\ Warmup \in Nat /\ Rounds \in Nat \ {0} /\ MaxFaults \in Nat
    /\ \A specs \in SpecLists :
           specs \in Seq([resident : Resident, dir : Directions, given : BOOLEAN])

Garbage == -1
Kinds == {"ValueError", "RuntimeError"}

\* What the caller asks for, and what a call finds: a build directory whose
\* stepped scalar was baked in as a literal, a kernel that is wrong about some
\* of its outputs.  A tensor is given if its init_value is a tensor of its dtype.
Runs == [specs : SpecLists, compileOnly : BOOLEAN, replay : BOOLEAN, l3 : BOOLEAN,
         bench : BOOLEAN, data : {"none", "full", "inputs"}, goldenFn : BOOLEAN,
         stepped : {"no", "runtime", "literal"}, baked : BOOLEAN, log_level : BOOLEAN,
         wrong : SUBSET UNION {DOMAIN specs : specs \in SpecLists}]

VARIABLES
    run,         \* the arguments of the call
    at,          \* the stage of the pipeline
    host,        \* host[i]: content of the host buffer of tensor i
    device,      \* device[i]: content of its resident buffer
    buffers,     \* device buffers that are allocated
    lost,        \* buffers whose own free raised
    handles,     \* tensors with a resident buffer still to be freed, in order
    open,        \* the prepared worker lives
    launches,    \* launches in this worker, also what its retained windows hold
    index,       \* dispatch_index of the benchmark loop
    seen,        \* steps in the epoch that the last launch was given
    expected,    \* content the golden outputs stand for; Garbage if there are none
    level,       \* log level of the process
    captured,    \* level that the benchmark's capture is to put back
    faults,      \* calls that have raised
    raised,      \* exception on its way; "none" if there is none
    first,       \* history: the first failure outside a cleanup
    result       \* <<outcome, reported failure>>

vars == <<run, at, host, device, buffers, lost, handles, open, launches, index, seen,
          expected, level, captured, faults, raised, first, result>>

device_state == <<device, buffers, lost, handles, open>>
launch_state == <<launches, index, seen>>
logging == <<level, captured>>
outcome == <<faults, raised, first, result>>

Tensors == DOMAIN run.specs
Is(i, dirs) == run.specs[i].dir \in dirs
Outputs == {i \in Tensors : Is(i, {"out", "inout"})}
Residents == {i \in Tensors : run.specs[i].resident # "no"}

\* Buffers of a resident tensor: one per rank, or one.
Shards(i) == {<<i, s>> : s \in IF run.specs[i].resident = "stacked" THEN 0 .. Ranks - 1 ELSE {0}}

\* golden_data without out/ replays the inputs alone.
InputsOnly == run.data = "inputs" /\ ~run.goldenFn
Validates == ~InputsOnly /\ (run.goldenFn \/ run.data # "none")

\* A tensor made of a given one is that very tensor, each time it is made: the
\* run's buffer of a pure output and the golden function's are one.  Inputs are
\* cloned, and with golden data the buffer is a new one.
Shared == {i \in Tensors : Is(i, {"out"}) /\ run.specs[i].given /\ run.data = "none"}

\* A replay cannot prove that a stepped scalar reaches the kernel.
Benchmarks == run.bench /\ ~(run.replay /\ run.stepped # "no")

\* Mutant: warmup may be 0 on the resident path too.
ResidentWarmup_AsGiven == Warmup

\* The resident path spends its first warmup launch on validation.
ResidentWarmup == IF Warmup < 1 THEN 1 ELSE Warmup

\* Mutant: the validated launch is not one of the warmup.
LaunchesDue_Extra == 1 + ResidentWarmup + Rounds

LaunchesDue == 1 + (IF ResidentWarmup > 1 THEN ResidentWarmup - 1 ELSE 0) + Rounds

-----------------------------------------------------------------------------
Init ==
    /\ run \in Runs /\ run.wrong \subseteq Outputs
    /\ at = "begin"
    /\ host = [i \in Tensors |-> Garbage] /\ device = [i \in Tensors |-> Garbage]
    /\ buffers = {} /\ lost = {} /\ handles = <<>> /\ open = FALSE
    /\ launches = 0 /\ index = 0 /\ seen = 0
    /\ expected = Garbage
    /\ level = "prior" /\ captured = "prior"
    /\ faults = 0 /\ raised = "none" /\ first = "none"
    /\ result = <<"running", "none">>

Note(e) == first' = IF first = "none" THEN e ELSE first

\* The pipeline returns a failed result, or the exception leaves it.
End(kind, e) ==
    /\ result' = <<kind, e>> /\ at' = "leave"
    /\ Note(e)

\* A call of the runtime that raises, in a stage that catches these kinds.
Raises(caught) ==
    /\ faults < MaxFaults /\ faults' = faults + 1
    /\ \E e \in Kinds : End(IF e \in caught THEN "fail" ELSE "raised", e)
    /\ UNCHANGED raised

Quiet == UNCHANGED outcome

\* Arguments are checked; the configuration sets the log level.
Begin ==
    /\ at = "begin"
    /\ IF run.compileOnly /\ run.replay
       THEN /\ End("fail", "ValueError") /\ UNCHANGED <<level, faults, raised>>
       ELSE /\ level' = IF run.log_level THEN "config" ELSE level
            /\ \/ Raises({"ValueError"})
               \/ /\ run.stepped = "literal"
                  /\ End("fail", "ValueError") /\ UNCHANGED <<faults, raised>>
               \/ run.stepped # "literal" /\ at' = "build" /\ Quiet
    /\ UNCHANGED <<run, host, device_state, launch_state, expected, captured>>

\* Compile, or reload the build directory, and check the parameters.
Build ==
    /\ at = "build"
    /\ \/ Raises({})
       \/ Raises({"ValueError"})
       \/ /\ run.compileOnly
          /\ result' = <<"pass", "none">> /\ at' = "leave" /\ UNCHANGED <<faults, raised, first>>
       \/ ~run.compileOnly /\ at' = "inputs" /\ Quiet
    /\ UNCHANGED <<run, host, device_state, launch_state, expected, logging>>

\* A pure output's host buffer is only where its content is read back to.
PrepareInputs ==
    /\ at = "inputs"
    /\ \/ Raises({"ValueError"}) /\ UNCHANGED host
       \/ /\ run.data = "inputs" /\ Validates
          /\ End("fail", "ValueError") /\ UNCHANGED <<host, faults, raised>>
       \/ /\ ~(run.data = "inputs" /\ Validates)
          /\ host' = [i \in Tensors |-> IF Is(i, {"out"}) THEN Garbage ELSE 0]
          /\ at' = "golden" /\ Quiet
    /\ UNCHANGED <<run, device_state, launch_state, expected, logging>>

\* Mutant: the golden function is given the tensors, not clones of them.
Scratch_Shared == [i \in Tensors |-> IF i \in Outputs THEN 1 ELSE host[i]]

\* What the golden function leaves in the tensors of the run.
Scratch == [i \in Tensors |-> IF i \in Shared THEN 1 ELSE host[i]]

ComputeGolden ==
    /\ at = "golden"
    /\ \/ Validates /\ Raises({}) /\ UNCHANGED <<host, expected>>
       \/ /\ expected' = IF Validates THEN 1 ELSE Garbage
          /\ host' = IF Validates /\ run.data = "none" THEN Scratch ELSE host
          /\ at' = IF Residents # {} THEN "prepare" ELSE "launch"
          /\ Quiet
    /\ UNCHANGED <<run, device_state, launch_state, logging>>

-----------------------------------------------------------------------------
\* Launches.

Largest(content) ==
    IF \E i \in DOMAIN content : content[i] = Garbage THEN Garbage
    ELSE IF DOMAIN content = {} THEN 0
    ELSE LET i == CHOOSE i \in DOMAIN content : \A j \in DOMAIN content : content[j] <= content[i]
         IN  content[i]

\* What a launch writes to output j, from what its inputs hold.
Written(arg, j) ==
    LET from == Largest([i \in {i \in Tensors : Is(i, {"in", "inout"})} |-> arg[i]])
    IN  IF j \in run.wrong \/ from = Garbage THEN Garbage
        ELSE IF \E i \in Tensors : Is(i, {"inout"}) THEN from + 1 ELSE 1

\* Resident tensors are used where they are; the others are copied both ways.
Launched ==
    LET arg == [i \in Tensors |-> IF i \in Residents THEN device[i] ELSE host[i]]
    IN  /\ device' = [i \in Tensors |-> IF i \in Outputs \cap Residents THEN Written(arg, i) ELSE device[i]]
        /\ host' = [i \in Tensors |-> IF i \in Outputs \ Residents THEN Written(arg, i) ELSE host[i]]

\* Mutant: the benchmark loop builds its arguments once.
StepGiven_Once == 0

\* Steps a stepped scalar is advanced by for this launch.
StepGiven == IF Benchmarks THEN index ELSE 0

Baked == run.replay /\ run.baked

\* The golden output that output i is compared with.
Reference(i) == IF i \in Shared THEN host[i] ELSE expected

Matches == \A i \in Outputs : host[i] = Reference(i)

\* --- one launch without resident tensors, and a benchmark on its own worker

Launch ==
    /\ at = "launch"
    /\ \/ Raises({}) /\ UNCHANGED host
       \/ /\ host' = [i \in Tensors |-> IF i \in Outputs THEN Written(host, i) ELSE host[i]]
          /\ at' = "check" /\ Quiet
    /\ UNCHANGED <<run, device_state, launch_state, expected, logging>>

Check ==
    /\ at = "check"
    /\ IF expected = Garbage \/ Matches
       THEN at' = (IF Benchmarks THEN "bench" ELSE "passed") /\ Quiet
       ELSE End("fail", "AssertionError") /\ UNCHANGED <<faults, raised>>
    /\ UNCHANGED <<run, host, device_state, launch_state, expected, logging>>

\* These paths build their arguments once, so a stepped scalar cannot step.
RejectsStepped == run.stepped # "no"

\* runtime.benchmark opens and closes a worker of its own.
Bench ==
    /\ at = "bench"
    /\ IF RejectsStepped /\ launches = 0
       THEN End("raised", "ValueError") /\ UNCHANGED <<host, launches, seen, faults, raised>>
       ELSE \/ Raises({}) /\ UNCHANGED <<host, launches, seen>>
            \/ /\ launches < Rounds + Warmup
               /\ host' = [i \in Tensors |-> IF i \in Outputs THEN Written(host, i) ELSE host[i]]
               /\ seen' = 0 /\ launches' = launches + 1
               /\ UNCHANGED at /\ Quiet
            \/ launches = Rounds + Warmup /\ at' = "passed" /\ UNCHANGED <<host, launches, seen>> /\ Quiet
    /\ UNCHANGED <<run, device_state, index, expected, logging>>

-----------------------------------------------------------------------------
\* The prepared worker and its resident tensors.

\* An exception inside the worker: its cleanup follows.
Unwind(e, next) == raised' = e /\ Note(e) /\ at' = next /\ UNCHANGED result

Fault(next) ==
    /\ faults < MaxFaults /\ faults' = faults + 1
    /\ \E e \in Kinds : Unwind(e, next)

\* A program of one card has no worker; the capture raises the log level.
Prepare ==
    /\ at = "prepare"
    /\ IF ~run.l3
       THEN /\ End("fail", "ValueError") /\ UNCHANGED <<open, logging, faults, raised>>
       ELSE /\ captured' = level
            /\ level' = IF Benchmarks THEN "strace" ELSE level
            /\ \/ Fault("restore") /\ UNCHANGED open
               \/ open' = TRUE /\ at' = "alloc" /\ Quiet
    /\ UNCHANGED <<run, host, device, buffers, lost, handles, launch_state, expected>>

Unallocated == Residents \ {handles[k] : k \in DOMAIN handles}

\* Resident tensors are allocated in the order of the specs.
NextResident == {i \in Unallocated : \A j \in Unallocated : i <= j}

Allocate ==
    /\ at = "alloc"
    /\ \E i \in NextResident :
           \/ /\ buffers' = buffers \cup Shards(i)
              /\ handles' = Append(handles, i)
              /\ device' = [device EXCEPT ![i] = IF Is(i, {"out"}) THEN Garbage ELSE host[i]]
              /\ UNCHANGED <<at, lost>> /\ Quiet
           \* The shards of a stacked output are allocated one by one; when one of
           \* them, or the handle over all, fails, those there are are freed here,
           \* each of which may fail in silence.
           \/ /\ \E n \in 0 .. Cardinality(Shards(i)) : \E bad \in SUBSET {<<i, s>> : s \in 0 .. n - 1} :
                   /\ n > 0 => Is(i, {"out"}) /\ run.specs[i].resident = "stacked"
                   /\ faults + 1 + Cardinality(bad) <= MaxFaults
                   /\ faults' = faults + 1 + Cardinality(bad)
                   /\ buffers' = buffers \cup bad /\ lost' = lost \cup bad
              /\ \E e \in Kinds : Unwind(e, "free")
              /\ UNCHANGED <<device, handles>>
    /\ UNCHANGED <<run, host, open, launch_state, expected, logging>>

Allocated ==
    /\ at = "alloc" /\ Unallocated = {}
    /\ at' = "dispatch"
    /\ UNCHANGED <<run, host, device_state, launch_state, expected, logging, outcome>>

\* Mutant: the outputs are compared after the last launch.
ValidatesAt_End == launches = IF Benchmarks THEN LaunchesDue - 1 ELSE 0

\* The first launch is the one that is validated.
ValidatesAt == launches = 0

Dispatch ==
    /\ at = "dispatch"
    /\ \/ Fault("free") /\ UNCHANGED <<host, device, launch_state>>
       \/ /\ Launched
          /\ seen' = IF Baked THEN 0 ELSE StepGiven
          /\ launches' = launches + 1 /\ index' = index + 1
          /\ at' = IF ValidatesAt /\ expected # Garbage THEN "readback" ELSE "loop"
          /\ Quiet
    /\ UNCHANGED <<run, buffers, lost, handles, open, expected, logging>>

Readback ==
    /\ at = "readback"
    /\ \/ Fault("free") /\ UNCHANGED host
       \/ /\ host' = [i \in Tensors |-> IF i \in Outputs \cap Residents THEN device[i] ELSE host[i]]
          /\ at' = "validate" /\ Quiet
    /\ UNCHANGED <<run, device_state, launch_state, expected, logging>>

Validate ==
    /\ at = "validate"
    /\ IF Matches THEN at' = "loop" /\ Quiet ELSE Unwind("AssertionError", "free") /\ UNCHANGED faults
    /\ UNCHANGED <<run, host, device_state, launch_state, expected, logging>>

\* Warmup and timed launches, after the validated one.
Loop ==
    /\ at = "loop"
    /\ at' = IF Benchmarks /\ launches < LaunchesDue THEN "dispatch" ELSE "free"
    /\ UNCHANGED <<run, host, device_state, launch_state, expected, logging, outcome>>

\* Mutant: a failing free ends the cleanup.
Remaining_StopAtFailure(ok) == IF ok THEN Tail(handles) ELSE <<>>

\* A failure on one must not leak the rest.
Remaining(ok) == Tail(handles)

\* Mutant: the exception of a failing free takes the place of the first one.
Swallowed_Not == "RuntimeError"

\* What is on its way after a free has failed.
Swallowed == raised

Free ==
    /\ at = "free" /\ handles # <<>>
    /\ LET mine == Shards(Head(handles))
       IN  \/ /\ buffers' = buffers \ mine /\ handles' = Remaining(TRUE)
              /\ UNCHANGED <<lost, faults, raised>>
           \/ /\ faults < MaxFaults /\ faults' = faults + 1
              /\ lost' = lost \cup mine /\ handles' = Remaining(FALSE)
              /\ raised' = Swallowed
              /\ UNCHANGED buffers
    /\ UNCHANGED <<run, at, host, device, open, launch_state, expected, logging, first, result>>

\* The worker closes after its buffers are gone.
Close ==
    /\ at = "free" /\ handles = <<>>
    /\ open' = FALSE /\ at' = "restore"
    /\ UNCHANGED <<run, host, device, buffers, lost, handles, launch_state, expected, logging, outcome>>

\* Mutant: the level is put back after the capture only if nothing was raised.
Restored_OnSuccess == IF Benchmarks /\ raised = "none" THEN captured ELSE level

Restored == IF Benchmarks THEN captured ELSE level

\* Other exceptions leave the pipeline.
Caught == {"AssertionError", "ValueError"}

Restore ==
    /\ at = "restore"
    /\ level' = Restored
    /\ IF raised = "none" THEN at' = (IF Benchmarks THEN "report" ELSE "passed") /\ Quiet
       ELSE End(IF raised \in Caught THEN "fail" ELSE "raised", raised) /\ UNCHANGED <<faults, raised>>
    /\ UNCHANGED <<run, host, device_state, launch_state, expected, captured>>

\* The captured log is parsed; a log without markers is no failure.
Report ==
    /\ at = "report"
    /\ Raises({"ValueError"}) \/ (at' = "passed" /\ Quiet)
    /\ UNCHANGED <<run, host, device_state, launch_state, expected, logging>>

-----------------------------------------------------------------------------
Passed ==
    /\ at = "passed"
    /\ result' = <<"pass", "none">> /\ at' = "leave"
    /\ UNCHANGED <<run, host, device_state, launch_state, expected, logging, faults, raised, first>>

\* The level that the configuration replaced is put back.
Leave ==
    /\ at = "leave"
    /\ level' = IF run.log_level THEN "prior" ELSE level
    /\ at' = "done"
    /\ UNCHANGED <<run, host, device_state, launch_state, expected, captured, outcome>>

Step == \/ Begin \/ Build \/ PrepareInputs \/ ComputeGolden
        \/ Launch \/ Check \/ Bench
        \/ Prepare \/ Allocate \/ Allocated \/ Dispatch \/ Readback \/ Validate \/ Loop
        \/ Free \/ Close \/ Restore \/ Report \/ Passed \/ Leave

Done == at = "done" /\ UNCHANGED vars

Next == Step \/ Done

Spec == Init /\ [][Next]_vars

-----------------------------------------------------------------------------
Stages == {"begin", "build", "inputs", "golden", "launch", "check", "bench", "prepare",
           "alloc", "dispatch", "readback", "validate", "loop", "free", "restore",
           "report", "passed", "leave", "done"}

Contents == {Garbage} \cup 0 .. 2 + Warmup + Rounds

TypeOK ==
    /\ run \in Runs /\ at \in Stages
    /\ host \in [Tensors -> Contents] /\ device \in [Tensors -> Contents]
    /\ lost \subseteq buffers /\ buffers \subseteq UNION {Shards(i) : i \in Tensors}
    /\ handles \in Seq(Residents) /\ open \in BOOLEAN
    /\ launches \in 0 .. (IF Warmup < 1 THEN 1 ELSE Warmup) + Rounds /\ index \in 0 .. launches
    /\ seen \in 0 .. launches /\ expected \in {Garbage, 1}
    /\ level \in {"prior", "config", "strace"} /\ captured \in {"prior", "config"}
    /\ faults \in 0 .. MaxFaults
    /\ {raised, first, result[2]} \subseteq Kinds \cup {"none", "AssertionError"}
    /\ result[1] \in {"running", "pass", "fail", "raised"}

\* Outputs the kernel gets wrong and a comparison can tell.
Mistakes == (Outputs \cap run.wrong) \ Shared

\* A run that was to be compared passes only if the kernel, on the pristine
\* inputs, gets every output right but those whose buffer is the golden
\* function's too, and a kernel that does is never reported as a mismatch,
\* whatever the launches, rounds and reads back did to the tensors in between.
VerdictExact ==
    at = "done" /\ Validates /\ ~run.compileOnly =>
        /\ result[1] = "pass" => Mistakes = {}
        /\ result[2] = "AssertionError" => Mistakes # {}

\* What the tensors hold, and the verdict on them.
OutcomeExact == TypeOK /\ VerdictExact

\* When the worker has closed, every buffer it held is free except those whose
\* own free raised: neither a failing launch nor a failing free leaks another.
BuffersReleased == ~open => buffers = lost

\* Whatever ended the run, the process has the log level it had before.
LevelRestored == at = "done" => level = "prior"

\* However a run ends, it leaves the process and the devices as it found them.
CleanedUp == BuffersReleased /\ LevelRestored

\* The failure a caller is told, or the exception that reaches it, is the first
\* one outside a cleanup, and a run passes just when there is none: a free that
\* fails neither takes the place of a failure nor makes a run fail.  A launch
\* that raises in the benchmark's rounds is a failure like any other.
FirstFailureTold == at = "done" => result[2] = first /\ (result[1] = "pass" <=> first = "none")

\* A kernel that counts launches in retained windows is given an epoch that
\* agrees with them, so that it waits for this launch's signals.
EpochsFollowWindows ==
    launches > 0 /\ run.stepped # "no" => seen = launches - 1

\* The launches of a resident benchmark split evenly into the rounds and warmup
\* that its report declares.
RoundsSegment ==
    at = "report" => launches = Rounds + ResidentWarmup

\* The launches that windows, epochs and the report count are the same ones.
LaunchesAgree == EpochsFollowWindows /\ RoundsSegment

\* "a failure in the benchmark rounds that follow is logged, not raised": past
\* the validated launch and one round, no exception is on its way in the worker.
RoundsLogged == launches > 1 => raised = "none"
=============================================================================
