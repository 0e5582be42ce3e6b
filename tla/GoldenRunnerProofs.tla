-------------------------- MODULE GoldenRunnerProofs --------------------------
(***************************************************************************)
(* However many calls raise, and in whatever order, a run of GoldenRunner  *)
(* leaves nothing behind, tells the first failure, and counts launches as  *)
(* the windows do.                                                         *)
(***************************************************************************)
EXTENDS GoldenRunner, FiniteSetTheorems, WellFoundedInduction, TLAPS

\* Stages before the worker, inside it, and after it.
Before == {"begin", "build", "inputs", "golden", "launch", "check", "bench", "prepare"}
Working == {"alloc", "dispatch", "readback", "validate", "loop", "free"}
Ended == {"leave", "done"}

\* An exception is on its way only while the worker cleans up; it is the first
\* failure, and so is what a run that has ended tells.
FailureOK ==
    /\ at \in Before \cup Working \cup {"restore", "report", "passed"} \cup Ended
    /\ at \notin {"free", "restore"} \cup Ended => raised = "none"
    /\ at \notin Ended => first = raised
    /\ at \in Ended => result[2] = first /\ (result[1] = "pass" <=> first = "none")

Held == {handles[k] : k \in DOMAIN handles}

\* The worker's buffers are those of its handles, and those that could not be
\* freed; no handle is held twice.
BuffersOK ==
    /\ open <=> at \in Working
    /\ at \in Before \cup {"alloc"} => lost = {}
    /\ at \in Before => handles = <<>>
    /\ ~open => handles = <<>>
    /\ handles \in Seq(Tensors)
    /\ \A k, j \in DOMAIN handles : handles[k] = handles[j] => k = j
    /\ buffers = lost \cup UNION {Shards(i) : i \in Held}
    /\ \A i \in Held : Shards(i) \cap lost = {}

\* The level a run works at, outside the capture.
BaseLevel == IF run.log_level THEN "config" ELSE "prior"

LevelOK ==
    /\ at \in {"begin", "done"} => level = "prior"
    /\ at \in Before \cup {"report", "passed"} /\ at # "begin" => level = BaseLevel
    /\ at \in Working \cup {"restore"} =>
         captured = BaseLevel /\ level = IF Benchmarks THEN "strace" ELSE BaseLevel
    /\ at = "leave" => level \in {"prior", BaseLevel}

\* The launches counted are those of the report, and the epoch given to the last
\* of them is one behind.
LaunchOK ==
    /\ launches \in Nat /\ index \in Nat
    /\ at \in (Before \ {"bench"}) \cup {"alloc"} => launches = 0 /\ index = 0
    /\ at = "bench" /\ launches > 0 => run.stepped = "no"
    /\ at \in Working => index = launches /\ launches <= LaunchesDue
    /\ at = "dispatch" => launches < LaunchesDue /\ (launches > 0 => Benchmarks)
    /\ at \in {"free", "restore"} /\ raised = "none" /\ Benchmarks => launches = LaunchesDue
    /\ at = "report" => launches = LaunchesDue
    /\ EpochsFollowWindows

IInv == FailureOK /\ BuffersOK /\ LevelOK /\ LaunchOK

-----------------------------------------------------------------------------
\* What the tensors hold.

\* What a launch reads, and what the first one makes of output i.
Inputs == {i \in Tensors : Is(i, {"in", "inout"})}
Answer(i) == IF i \in run.wrong THEN Garbage ELSE 1

ContentsNow == {Garbage} \cup 0 .. 1 + launches

\* A launch adds one at most to what there is.
TypeInv ==
    /\ run \in Runs /\ at \in Stages
    /\ host \in [Tensors -> ContentsNow] /\ device \in [Tensors -> ContentsNow]
    /\ lost \subseteq UNION {Shards(i) : i \in Tensors}
    /\ handles \in Seq(Residents) /\ open \in BOOLEAN
    /\ launches \in 0 .. LaunchesDue /\ index \in 0 .. launches /\ seen \in 0 .. launches
    /\ expected \in {Garbage, 1}
    /\ level \in {"prior", "config", "strace"} /\ captured \in {"prior", "config"}
    /\ faults \in 0 .. MaxFaults
    /\ {raised, first, result[2]} \subseteq Kinds \cup {"none", "AssertionError"}
    /\ result[1] \in {"running", "pass", "fail", "raised"}

\* Until the first launch, what it will read is pristine, though the golden
\* function may have written its buffers; until the comparison, what it wrote is
\* the kernel's answer.
DataOK ==
    /\ at \in {"golden", "launch", "prepare", "alloc"} \/ (at = "dispatch" /\ launches = 0) =>
         \A i \in Inputs : host[i] = 0
    /\ at = "alloc" => \A i \in Inputs \cap Held : device[i] = 0
    /\ at = "dispatch" /\ launches = 0 => \A i \in Inputs \cap Residents : device[i] = 0
    /\ at \in {"check", "validate"} => \A i \in Outputs : host[i] = Answer(i)
    /\ at = "readback" =>
         /\ \A i \in Outputs \cap Residents : device[i] = Answer(i)
         /\ \A i \in Outputs \ Residents : host[i] = Answer(i)
    /\ at \in {"readback", "validate", "loop"} => launches > 0
    /\ at \in {"readback", "validate"} => expected = 1

\* A comparison that passes shows this.
Shown == Validates => Mistakes = {}

Compared ==
    \/ at \in {"bench", "loop", "report", "passed"}
    \/ at = "dispatch" /\ launches > 0
    \/ at \in {"free", "restore"} /\ raised = "none"

VerdictOK ==
    /\ run.compileOnly => at \in {"begin", "build"} \cup Ended
    /\ at \notin {"begin", "build", "inputs", "golden"} \cup Ended =>
         expected = IF Validates THEN 1 ELSE Garbage
    /\ Compared => Shown
    /\ "AssertionError" \in {raised, first, result[2]} => Mistakes # {}
    /\ at \in Ended /\ result[1] = "pass" => run.compileOnly \/ Shown

FullInv == IInv /\ TypeInv /\ DataOK /\ VerdictOK

-----------------------------------------------------------------------------
LEMMA DueInt == LaunchesDue = ResidentWarmup + Rounds /\ LaunchesDue \in Nat /\ LaunchesDue > 0
  BY BoundsAssumption DEF LaunchesDue, ResidentWarmup

\* A shard says whose it is.
LEMMA ShardOwner ==
    ASSUME NEW i, NEW j, i # j
    PROVE  Shards(i) \cap Shards(j) = {}
  BY DEF Shards

LEMMA InitInv == Init => IInv
  <1> SUFFICES ASSUME Init PROVE IInv
    OBVIOUS
  <1>1. FailureOK
    BY DEF Init, FailureOK, Before, Ended
  <1>2. BuffersOK
    BY DEF Init, BuffersOK, Before, Working, Held
  <1>3. LevelOK
    BY DEF Init, LevelOK, Before, Working
  <1>4. LaunchOK
    BY DEF Init, LaunchOK, Before, Working, EpochsFollowWindows
  <1> QED
    BY <1>1, <1>2, <1>3, <1>4 DEF IInv

-----------------------------------------------------------------------------
LEMMA FailureStep ==
    ASSUME FailureOK, Step
    PROVE  FailureOK'
  <1>0. "none" \notin Kinds
    BY DEF Kinds
  <1>1. CASE Begin \/ Build \/ PrepareInputs \/ ComputeGolden
    BY <1>0, <1>1 DEF Begin, Build, PrepareInputs, ComputeGolden, FailureOK, Before, Working, Ended,
                      Raises, End, Note, Quiet, outcome
  <1>2. CASE Launch \/ Check \/ Bench
    BY <1>0, <1>2 DEF Launch, Check, Bench, FailureOK, Before, Working, Ended,
                      Raises, End, Note, Quiet, outcome
  <1>3. CASE Prepare
    BY <1>0, <1>3 DEF Prepare, FailureOK, Before, Working, Ended, Fault, Unwind, End, Note, Quiet, outcome
  <1>4. CASE Allocate
    BY <1>0, <1>4 DEF Allocate, FailureOK, Before, Working, Ended, Unwind, Note, Quiet, outcome
  <1>5. CASE Allocated \/ Dispatch \/ Readback \/ Validate \/ Loop
    BY <1>0, <1>5 DEF Allocated, Dispatch, Readback, Validate, Loop, FailureOK, Before, Working, Ended,
                      Fault, Unwind, Note, Quiet, outcome
  <1>6. CASE Free \/ Close
    BY <1>6 DEF Free, Close, FailureOK, Before, Working, Ended, Swallowed, outcome
  <1>7. CASE Restore
    BY <1>7 DEF Restore, FailureOK, Before, Working, Ended, End, Note, Quiet, outcome
  <1>8. CASE Report \/ Passed \/ Leave
    BY <1>0, <1>8 DEF Report, Passed, Leave, FailureOK, Before, Working, Ended, Raises, End, Note, Quiet, outcome
  <1> QED
    BY <1>1, <1>2, <1>3, <1>4, <1>5, <1>6, <1>7, <1>8 DEF Step

-----------------------------------------------------------------------------
LEMMA LevelStep ==
    ASSUME FailureOK, LevelOK, Step
    PROVE  LevelOK'
  <1>0. UNCHANGED run
    BY DEF Step, Begin, Build, PrepareInputs, ComputeGolden, Launch, Check, Bench, Prepare, Allocate,
           Allocated, Dispatch, Readback, Validate, Loop, Free, Close, Restore, Report, Passed, Leave
  <1>a. Benchmarks' = Benchmarks /\ BaseLevel' = BaseLevel
    BY <1>0 DEF Benchmarks, BaseLevel
  <1>1. CASE Begin
    BY <1>a, <1>1 DEF Begin, LevelOK, Before, Working, Raises, End, BaseLevel
  <1>2. CASE Build \/ PrepareInputs \/ ComputeGolden \/ Launch \/ Check \/ Bench
    BY <1>a, <1>2 DEF Build, PrepareInputs, ComputeGolden, Launch, Check, Bench, LevelOK, Before, Working,
                      Raises, End, logging
  <1>3. CASE Prepare
    BY <1>a, <1>3 DEF Prepare, LevelOK, Before, Working, Fault, Unwind, End, logging
  <1>4. CASE Allocate \/ Allocated \/ Dispatch \/ Readback \/ Validate \/ Loop
    BY <1>a, <1>4 DEF Allocate, Allocated, Dispatch, Readback, Validate, Loop, LevelOK, Before, Working,
                      Fault, Unwind, logging
  <1>5. CASE Free \/ Close
    BY <1>a, <1>5 DEF Free, Close, LevelOK, Before, Working, logging
  <1>6. CASE Restore
    BY <1>a, <1>6 DEF Restore, Restored, LevelOK, Before, Working, End, logging
  <1>7. CASE Report \/ Passed
    BY <1>a, <1>7 DEF Report, Passed, LevelOK, Before, Working, Raises, End, logging
  <1>8. CASE Leave
    BY <1>a, <1>8 DEF Leave, LevelOK, Before, Working, BaseLevel
  <1> QED
    BY <1>1, <1>2, <1>3, <1>4, <1>5, <1>6, <1>7, <1>8 DEF Step

-----------------------------------------------------------------------------
LEMMA LaunchStep ==
    ASSUME FailureOK, LaunchOK, Step
    PROVE  LaunchOK'
  <1>0. UNCHANGED run
    BY DEF Step, Begin, Build, PrepareInputs, ComputeGolden, Launch, Check, Bench, Prepare, Allocate,
           Allocated, Dispatch, Readback, Validate, Loop, Free, Close, Restore, Report, Passed, Leave
  <1>a. Benchmarks' = Benchmarks /\ LaunchesDue' = LaunchesDue /\ LaunchesDue \in Nat /\ LaunchesDue > 0
    BY <1>0, DueInt DEF Benchmarks, LaunchesDue, ResidentWarmup
  <1>1. CASE Begin \/ Build \/ PrepareInputs \/ ComputeGolden \/ Launch \/ Check
    BY <1>0, <1>a, <1>1 DEF Begin, Build, PrepareInputs, ComputeGolden, Launch, Check, LaunchOK, Before,
         Working, Raises, End, EpochsFollowWindows, launch_state
  <1>2. CASE Bench
    BY <1>0, <1>a, <1>2 DEF Bench, RejectsStepped, LaunchOK, Before, Working, Raises, End,
         EpochsFollowWindows, launch_state
  <1>3. CASE Prepare
    <2>1. /\ at = "prepare" /\ UNCHANGED launch_state
          /\ at' = "leave" \/ at' = "alloc" \/ (at' = "restore" /\ raised' # "none")
      BY <1>3 DEF Prepare, Fault, Unwind, End, Kinds
    <2> QED
      BY <1>0, <1>a, <2>1 DEF LaunchOK, Before, Working, EpochsFollowWindows, launch_state
  <1>10. CASE Allocated
    <2>1. launches = 0 /\ index = 0 /\ at' = "dispatch" /\ UNCHANGED launch_state
      BY <1>10 DEF Allocated, LaunchOK
    <2> QED
      BY <1>0, <1>a, <2>1 DEF LaunchOK, Before, Working, EpochsFollowWindows, launch_state
  <1>9. CASE Allocate
    <2>1. /\ at = "alloc" /\ UNCHANGED <<run, launch_state>>
          /\ (at' = "alloc" /\ raised' = raised) \/ (at' = "free" /\ raised' # "none")
      BY <1>9 DEF Allocate, Unwind, Kinds, Quiet, outcome
    <2> QED
      BY <1>0, <1>a, <2>1 DEF LaunchOK, Before, Working, EpochsFollowWindows, launch_state
  <1>4. CASE Dispatch
    <2>1. CASE Fault("free") /\ UNCHANGED launch_state
      BY <1>0, <1>a, <1>4, <2>1 DEF Dispatch, LaunchOK, Before, Working, Fault, Unwind, EpochsFollowWindows,
           launch_state, Kinds
    <2>2. CASE /\ seen' = IF Baked THEN 0 ELSE StepGiven
               /\ launches' = launches + 1 /\ index' = index + 1
               /\ at' \in {"readback", "loop"}
      <3>1. run.stepped # "no" => seen' = launches
        BY <1>4, <2>2 DEF Dispatch, LaunchOK, Baked, StepGiven, Benchmarks, Working
      <3> QED
        BY <1>0, <1>a, <1>4, <2>2, <3>1 DEF Dispatch, LaunchOK, Before, Working, EpochsFollowWindows
    <2> QED
      BY <1>4, <2>1, <2>2 DEF Dispatch, launch_state
  <1>5. CASE Readback \/ Validate
    BY <1>0, <1>a, <1>5 DEF Readback, Validate, LaunchOK, Before, Working, Fault, Unwind,
         EpochsFollowWindows, launch_state, Kinds
  <1>6. CASE Loop
    BY <1>0, <1>a, <1>6 DEF Loop, LaunchOK, FailureOK, Before, Working, EpochsFollowWindows, launch_state, outcome
  <1>7. CASE Free \/ Close
    BY <1>0, <1>a, <1>7 DEF Free, Close, LaunchOK, Before, Working, EpochsFollowWindows, launch_state,
         outcome, Swallowed
  <1>8. CASE Restore \/ Report \/ Passed \/ Leave
    BY <1>0, <1>a, <1>8 DEF Restore, Report, Passed, Leave, LaunchOK, Before, Working, Raises, End,
         EpochsFollowWindows, launch_state
  <1> QED
    BY <1>1, <1>2, <1>3, <1>4, <1>5, <1>6, <1>7, <1>8, <1>9, <1>10 DEF Step

-----------------------------------------------------------------------------
\* What an allocation adds, and what a free takes, one handle at a time.
LEMMA HeldAppend ==
    ASSUME NEW S, handles \in Seq(S), NEW i \in S, handles' = Append(handles, i)
    PROVE  /\ handles' \in Seq(S) /\ Held' = Held \cup {i}
           /\ i \notin Held /\ (\A k, j \in DOMAIN handles : handles[k] = handles[j] => k = j)
                => \A k, j \in DOMAIN handles' : handles'[k] = handles'[j] => k = j
  <1>1. handles' \in Seq(S) /\ Len(handles') = Len(handles) + 1 /\ Len(handles) \in Nat
        /\ DOMAIN handles = 1 .. Len(handles) /\ DOMAIN handles' = 1 .. Len(handles) + 1
        /\ handles'[Len(handles) + 1] = i
        /\ \A k \in 1 .. Len(handles) : handles'[k] = handles[k]
    OBVIOUS
  <1>2. Held' = Held \cup {i}
    BY <1>1 DEF Held
  <1>3. ASSUME i \notin Held, \A k, j \in DOMAIN handles : handles[k] = handles[j] => k = j,
               NEW k \in DOMAIN handles', NEW j \in DOMAIN handles', handles'[k] = handles'[j]
        PROVE  k = j
    BY <1>1, <1>3 DEF Held
  <1> QED
    BY <1>1, <1>2, <1>3

LEMMA HeldTail ==
    ASSUME NEW S, handles \in Seq(S), handles # <<>>, handles' = Tail(handles),
           \A k, j \in DOMAIN handles : handles[k] = handles[j] => k = j
    PROVE  /\ handles' \in Seq(S) /\ Head(handles) \in Held /\ Held' = Held \ {Head(handles)}
           /\ \A k, j \in DOMAIN handles' : handles'[k] = handles'[j] => k = j
  <1>1. /\ handles' \in Seq(S) /\ Len(handles) \in Nat \ {0} /\ Len(handles') = Len(handles) - 1
        /\ DOMAIN handles = 1 .. Len(handles) /\ DOMAIN handles' = 1 .. Len(handles) - 1
        /\ Head(handles) = handles[1]
        /\ \A k \in 1 .. Len(handles) - 1 : handles'[k] = handles[k + 1]
    OBVIOUS
  <1>2. Head(handles) \in Held
    BY <1>1 DEF Held
  <1>3. ASSUME NEW x \in Held'
        PROVE  x \in Held /\ x # Head(handles)
    <2>1. PICK k \in 1 .. Len(handles) - 1 : x = handles[k + 1]
      BY <1>1, <1>3 DEF Held
    <2>2. k + 1 \in 1 .. Len(handles) /\ 1 \in 1 .. Len(handles) /\ k + 1 # 1
      BY <1>1, <2>1
    <2> QED
      BY <1>1, <2>1, <2>2 DEF Held
  <1>4. ASSUME NEW x \in Held, x # Head(handles)
        PROVE  x \in Held'
    <2>1. PICK k \in 1 .. Len(handles) : x = handles[k]
      BY <1>1, <1>4 DEF Held
    <2>2. k - 1 \in 1 .. Len(handles) - 1 /\ k - 1 + 1 = k
      BY <1>1, <1>4, <2>1
    <2>3. handles'[k - 1] = x
      BY <1>1, <2>1, <2>2
    <2> QED
      BY <1>1, <2>2, <2>3 DEF Held
  <1>5. ASSUME NEW k \in DOMAIN handles', NEW j \in DOMAIN handles', handles'[k] = handles'[j]
        PROVE  k = j
    <2>1. k + 1 \in DOMAIN handles /\ j + 1 \in DOMAIN handles /\ handles[k + 1] = handles[j + 1]
      BY <1>1, <1>5
    <2>2. k + 1 = j + 1
      BY <2>1
    <2> QED
      BY <1>1, <1>5, <2>2
  <1> QED
    BY <1>1, <1>2, <1>3, <1>4, <1>5

LEMMA AllocateBuffers ==
    ASSUME BuffersOK, Allocate
    PROVE  BuffersOK'
  <1>1. PICK i \in NextResident :
          \/ /\ buffers' = buffers \cup Shards(i) /\ handles' = Append(handles, i)
             /\ UNCHANGED <<at, lost>>
          \/ \E bad : /\ \A x \in bad : x[1] = i
                      /\ buffers' = buffers \cup bad /\ lost' = lost \cup bad
                      /\ at' = "free" /\ UNCHANGED handles
    <2>1. PICK i \in NextResident :
            \/ /\ buffers' = buffers \cup Shards(i) /\ handles' = Append(handles, i)
               /\ UNCHANGED <<at, lost>>
            \/ /\ \E n \in 0 .. Cardinality(Shards(i)) : \E bad \in SUBSET {<<i, s>> : s \in 0 .. n - 1} :
                    buffers' = buffers \cup bad /\ lost' = lost \cup bad
               /\ at' = "free" /\ UNCHANGED handles
      BY DEF Allocate, Unwind
    <2>2. ASSUME NEW n, NEW bad \in SUBSET {<<i, s>> : s \in 0 .. n - 1}, NEW x \in bad
          PROVE  x[1] = i
      BY <2>2
    <2> QED
      BY <2>1, <2>2
  <1>2. at = "alloc" /\ UNCHANGED <<run, open>>
    BY DEF Allocate
  <1>3. i \in Tensors /\ i \notin Held
    BY DEF NextResident, Unallocated, Residents, Held
  <1>4. /\ open /\ lost = {} /\ handles \in Seq(Tensors)
        /\ \A k, j \in DOMAIN handles : handles[k] = handles[j] => k = j
        /\ buffers = lost \cup UNION {Shards(x) : x \in Held}
        /\ \A x \in Held : Shards(x) \cap lost = {}
    BY <1>2 DEF BuffersOK, Working, Before
  <1>5. Tensors' = Tensors /\ \A x : Shards(x)' = Shards(x)
    BY <1>2 DEF Tensors, Shards
  <1>6. CASE /\ buffers' = buffers \cup Shards(i) /\ handles' = Append(handles, i)
             /\ UNCHANGED <<at, lost>>
    <2>1. /\ handles' \in Seq(Tensors) /\ Held' = Held \cup {i}
          /\ \A k, j \in DOMAIN handles' : handles'[k] = handles'[j] => k = j
      BY <1>3, <1>4, <1>6, HeldAppend
    <2>2. buffers' = lost' \cup UNION {Shards(x) : x \in Held'}
      BY <1>4, <1>6, <2>1
    <2> QED
      BY <1>2, <1>4, <1>5, <1>6, <2>1, <2>2 DEF BuffersOK, Before, Working
  <1>7. CASE \E bad : /\ \A x \in bad : x[1] = i
                      /\ buffers' = buffers \cup bad /\ lost' = lost \cup bad
                      /\ at' = "free" /\ UNCHANGED handles
    <2>1. PICK bad : /\ \A x \in bad : x[1] = i
                     /\ buffers' = buffers \cup bad /\ lost' = lost \cup bad
      BY <1>7
    <2>2. Held' = Held /\ at' = "free" /\ UNCHANGED handles
      BY <1>7 DEF Held
    <2>3. ASSUME NEW x \in Held
          PROVE  Shards(x) \cap lost' = {}
      <3>1. x # i
        BY <1>3, <2>3
      <3>2. \A y \in Shards(x) : y[1] = x
        BY DEF Shards
      <3> QED
        BY <1>4, <2>1, <3>1, <3>2
    <2> QED
      BY <1>2, <1>4, <1>5, <2>1, <2>2, <2>3 DEF BuffersOK, Before, Working
  <1> QED
    BY <1>1, <1>6, <1>7

LEMMA FreeBuffers ==
    ASSUME BuffersOK, Free
    PROVE  BuffersOK'
  <1> DEFINE h == Head(handles)
             mine == Shards(h)
  <1>1. /\ at = "free" /\ handles # <<>> /\ handles' = Tail(handles) /\ UNCHANGED <<run, at, open>>
        /\ \/ buffers' = buffers \ mine /\ lost' = lost
           \/ buffers' = buffers /\ lost' = lost \cup mine
    BY DEF Free, Remaining
  <1>2. /\ open /\ handles \in Seq(Tensors)
        /\ \A k, j \in DOMAIN handles : handles[k] = handles[j] => k = j
        /\ buffers = lost \cup UNION {Shards(x) : x \in Held}
        /\ \A x \in Held : Shards(x) \cap lost = {}
    BY <1>1 DEF BuffersOK, Working
  <1>3. /\ handles' \in Seq(Tensors) /\ h \in Held /\ Held' = Held \ {h}
        /\ \A k, j \in DOMAIN handles' : handles'[k] = handles'[j] => k = j
    BY <1>1, <1>2, HeldTail
  <1>4. Tensors' = Tensors /\ \A x : Shards(x)' = Shards(x)
    BY <1>1 DEF Tensors, Shards
  <1>5. mine \cap lost = {} /\ \A x \in Held' : mine \cap Shards(x) = {}
    BY <1>2, <1>3, ShardOwner
  <1>6. /\ buffers' = lost' \cup UNION {Shards(x) : x \in Held'}
        /\ \A x \in Held' : Shards(x) \cap lost' = {}
    <2> HIDE DEF h, mine
    <2>1. UNION {Shards(x) : x \in Held} = mine \cup UNION {Shards(x) : x \in Held'}
      BY <1>3 DEF mine
    <2>2. mine \cap UNION {Shards(x) : x \in Held'} = {}
      BY <1>5
    <2> QED
      BY <1>1, <1>2, <1>3, <1>5, <2>1, <2>2
  <1> QED
    BY <1>1, <1>2, <1>3, <1>4, <1>6 DEF BuffersOK, Before, Working

LEMMA BuffersStep ==
    ASSUME FailureOK, BuffersOK, Step
    PROVE  BuffersOK'
  <1>1. CASE Allocate
    BY <1>1, AllocateBuffers
  <1>2. CASE Free
    BY <1>2, FreeBuffers
  <1>3. CASE ~Allocate /\ ~Free
    <2>1. UNCHANGED <<run, buffers, lost, handles>>
      BY <1>3 DEF Step, Begin, Build, PrepareInputs, ComputeGolden, Launch, Check, Bench, Prepare,
             Allocated, Dispatch, Readback, Validate, Loop, Close, Restore, Report, Passed, Leave, device_state
    <2>2. /\ open' <=> at' \in Working
          /\ at' \in Before \cup {"alloc"} => at \in Before \cup {"alloc"}
          /\ at' \in Before => at \in Before
          /\ ~open' => ~open \/ handles = <<>>
      <3>1. CASE Begin \/ Build \/ PrepareInputs \/ ComputeGolden \/ Launch \/ Check \/ Bench
        BY <3>1 DEF Begin, Build, PrepareInputs, ComputeGolden, Launch, Check, Bench, Raises, End, Quiet,
               device_state, outcome, BuffersOK, Before, Working
      <3>2. CASE Prepare
        BY <3>2 DEF Prepare, Fault, Unwind, End, BuffersOK, Before, Working
      <3>3. CASE Allocated \/ Dispatch \/ Readback \/ Validate \/ Loop
        BY <3>3 DEF Allocated, Dispatch, Readback, Validate, Loop, Fault, Unwind, device_state,
               BuffersOK, Before, Working
      <3>4. CASE Close
        BY <3>4 DEF Close, BuffersOK, Before, Working
      <3>5. CASE Restore \/ Report \/ Passed \/ Leave
        BY <3>5 DEF Restore, Report, Passed, Leave, Raises, End, device_state, BuffersOK, Before, Working
      <3> QED
        BY <1>3, <3>1, <3>2, <3>3, <3>4, <3>5 DEF Step
    <2>3. Held' = Held /\ Tensors' = Tensors /\ \A x : Shards(x)' = Shards(x)
      BY <2>1 DEF Held, Tensors, Shards
    <2> QED
      BY <2>1, <2>2, <2>3 DEF BuffersOK
  <1> QED
    BY <1>1, <1>2, <1>3

LEMMA NextInv == IInv /\ [Next]_vars => IInv'
  <1>1. CASE UNCHANGED vars
    BY <1>1 DEF vars, IInv, FailureOK, BuffersOK, LevelOK, LaunchOK, Held, Shards, Tensors, BaseLevel,
           Benchmarks, LaunchesDue, ResidentWarmup, EpochsFollowWindows
  <1>2. CASE Step
    BY <1>2, FailureStep, BuffersStep, LevelStep, LaunchStep DEF IInv
  <1> QED
    BY <1>1, <1>2 DEF Next, Done

-----------------------------------------------------------------------------
\* Largest finds the largest content, which there is since contents are bounded.
LEMMA LargestType ==
    ASSUME NEW b \in Nat, NEW S, NEW content \in [S -> {Garbage} \cup 0 .. b]
    PROVE  Largest(content) \in {Garbage} \cup 0 .. b
  <1>0. DOMAIN content = S
    OBVIOUS
  <1>1. CASE \E i \in S : content[i] = Garbage
    BY <1>0, <1>1 DEF Largest
  <1>3. CASE S = {}
    <2>1. Largest(content) = 0
      BY <1>0, <1>3 DEF Largest
    <2> QED
      BY <2>1
  <1>2. CASE S # {} /\ \A i \in S : content[i] # Garbage
    <2>1. \A i \in S : content[i] \in 0 .. b
      BY <1>2
    <2> DEFINE T == {b - content[i] : i \in S}
    <2>2. T \subseteq Nat /\ T # {}
      BY <1>2, <2>1
    <2>3. PICK m \in T : \A y \in T : ~ (<<y, m>> \in OpToRel(<, Nat))
      <3> HIDE DEF T
      <3> QED
        BY <2>2, NatLessThanWellFounded, WFMin
    <2>4. \A y \in T : m <= y
      <3>1. \A y \in T : y \in Nat /\ m \in Nat /\ ~(y < m)
        <4> HIDE DEF T
        <4> QED
          BY <2>2, <2>3 DEF OpToRel
      <3> QED
        BY <3>1
    <2>5. PICK k \in S : m = b - content[k]
      BY <2>3
    <2>6. \A j \in S : content[j] <= content[k]
      <3> SUFFICES ASSUME NEW j \in S PROVE content[j] <= content[k]
        OBVIOUS
      <3>1. m <= b - content[j]
        BY <2>4
      <3> QED
        BY <2>1, <2>5, <3>1
    <2> DEFINE c == CHOOSE i \in S : \A j \in S : content[j] <= content[i]
    <2>7. c \in S
      BY <2>6
    <2>8. Largest(content) = content[c]
      BY <1>2 DEF Largest
    <2> QED
      BY <2>1, <2>7, <2>8
  <1> QED
    BY <1>1, <1>2, <1>3

LEMMA WrittenType ==
    ASSUME NEW b \in Nat, NEW arg \in [Tensors -> {Garbage} \cup 0 .. b], NEW j
    PROVE  Written(arg, j) \in {Garbage} \cup 0 .. b + 1
  <1> DEFINE S == {i \in Tensors : Is(i, {"in", "inout"})}
             from == Largest([i \in S |-> arg[i]])
  <1>1. [i \in S |-> arg[i]] \in [S -> {Garbage} \cup 0 .. b]
    OBVIOUS
  <1>2. from \in {Garbage} \cup 0 .. b
    BY <1>1, LargestType
  <1>3. Written(arg, j) \in {Garbage, 1, from + 1} /\ (from = Garbage => Written(arg, j) = Garbage)
    BY DEF Written
  <1> QED
    BY <1>2, <1>3

\* The first launch makes the kernel's answer.
LEMMA WrittenFirst ==
    ASSUME NEW arg, \A i \in Inputs : arg[i] = 0, NEW j
    PROVE  Written(arg, j) = Answer(j)
  <1> DEFINE S == {i \in Tensors : Is(i, {"in", "inout"})}
             content == [i \in S |-> arg[i]]
  <1>1. \A i \in S : content[i] = 0
    BY DEF Inputs
  <1>2. Largest(content) = 0
    <2>1. \A i \in S : content[i] # Garbage /\ \A k \in S : content[k] <= content[i]
      BY <1>1 DEF Garbage
    <2>2. CASE S = {}
      BY <2>1, <2>2 DEF Largest
    <2>3. CASE S # {}
      <3> DEFINE c == CHOOSE i \in S : \A k \in S : content[k] <= content[i]
      <3>1. c \in S
        BY <2>1, <2>3
      <3>2. Largest(content) = content[c]
        BY <2>1, <2>3 DEF Largest
      <3> QED
        BY <1>1, <3>1, <3>2
    <2> QED
      BY <2>2, <2>3
  <1>3. Written(arg, j) = IF j \in run.wrong \/ Largest(content) = Garbage THEN Garbage
                          ELSE IF \E i \in Tensors : Is(i, {"inout"}) THEN Largest(content) + 1 ELSE 1
    BY DEF Written
  <1> QED
    BY <1>2, <1>3 DEF Answer, Garbage

\* No step changes what the caller asked for.
LEMMA RunKept ==
    ASSUME Step
    PROVE  /\ UNCHANGED run
           /\ Tensors' = Tensors /\ Outputs' = Outputs /\ Residents' = Residents
           /\ Validates' = Validates /\ Benchmarks' = Benchmarks /\ LaunchesDue' = LaunchesDue
           /\ Inputs' = Inputs /\ Shared' = Shared /\ Mistakes' = Mistakes /\ Shown' = Shown
           /\ \A i : Shards(i)' = Shards(i) /\ Answer(i)' = Answer(i)
  <1>1. UNCHANGED run
    BY DEF Step, Begin, Build, PrepareInputs, ComputeGolden, Launch, Check, Bench, Prepare, Allocate,
           Allocated, Dispatch, Readback, Validate, Loop, Free, Close, Restore, Report, Passed, Leave
  <1> QED
    BY <1>1 DEF Tensors, Outputs, Residents, Validates, InputsOnly, Benchmarks, LaunchesDue,
           ResidentWarmup, Inputs, Shared, Mistakes, Answer, Shown, Shards, Is

\* A tensor has a buffer for every rank it is stacked over; the first ones of
\* them, or all, have been allocated when one, or the handle over all, fails.
LEMMA ShardsCount ==
    ASSUME NEW i \in Tensors
    PROVE  /\ IsFiniteSet(Shards(i)) /\ Cardinality(Shards(i)) \in Nat
           /\ \A n \in 0 .. Cardinality(Shards(i)) : {<<i, s>> : s \in 0 .. n - 1} \subseteq Shards(i)
  <1> DEFINE T == IF run.specs[i].resident = "stacked" THEN 0 .. Ranks - 1 ELSE {0}
             top == IF run.specs[i].resident = "stacked" THEN Ranks ELSE 1
  <1>1. T = 0 .. top - 1 /\ top \in Nat \ {0}
    <2>1. CASE run.specs[i].resident = "stacked"
      BY <2>1, BoundsAssumption
    <2>2. CASE run.specs[i].resident # "stacked"
      <3>1. T = {0} /\ top = 1
        BY <2>2
      <3> HIDE DEF T, top
      <3> QED
        BY <3>1
    <2> QED
      BY <2>1, <2>2
  <1>2. Shards(i) = {<<i, s>> : s \in T}
    BY DEF Shards
  <1> HIDE DEF T, top
  <1>3. IsFiniteSet(T) /\ Cardinality(T) = top
    BY <1>1, FS_Interval
  <1>4. IsFiniteSet(Shards(i)) /\ Cardinality(Shards(i)) <= top
    <2> DEFINE f == [x \in Shards(i) |-> x[2]]
    <2>1. f \in Injection(Shards(i), T)
      BY <1>2 DEF Injection, IsInjective
    <2> QED
      BY <1>3, <2>1, FS_Injection
  <1>5. Cardinality(Shards(i)) \in Nat
    BY <1>4, FS_CardinalityType
  <1>6. ASSUME NEW n \in 0 .. Cardinality(Shards(i))
        PROVE  {<<i, s>> : s \in 0 .. n - 1} \subseteq Shards(i)
    <2>1. n \in Nat /\ n <= top
      BY <1>1, <1>4, <1>5
    <2> QED
      BY <1>1, <1>2, <2>1
  <1> QED
    BY <1>4, <1>5, <1>6

\* The buffers of a tensor, typed: those that could not be freed.
LEMMA LostStep ==
    ASSUME FailureOK, BuffersOK, TypeInv, Step
    PROVE  /\ lost' \subseteq (UNION {Shards(i) : i \in Tensors})'
           /\ handles' \in Seq(Residents')
  <1>0. /\ Tensors' = Tensors /\ Residents' = Residents /\ \A i : Shards(i)' = Shards(i)
        /\ Residents \subseteq Tensors
    BY RunKept DEF Residents
  <1>1. lost \subseteq UNION {Shards(i) : i \in Tensors} /\ handles \in Seq(Residents)
    BY DEF TypeInv
  <1>2. CASE Allocate
    <2>1. PICK i \in NextResident :
            \/ handles' = Append(handles, i) /\ UNCHANGED lost
            \/ /\ \E n \in 0 .. Cardinality(Shards(i)) : \E bad \in SUBSET {<<i, s>> : s \in 0 .. n - 1} :
                    lost' = lost \cup bad
               /\ UNCHANGED handles
      BY <1>2 DEF Allocate
    <2>2. i \in Residents
      BY DEF NextResident, Unallocated
    <2>3. CASE handles' = Append(handles, i) /\ UNCHANGED lost
      BY <1>0, <1>1, <2>2, <2>3
    <2>4. CASE /\ \E n \in 0 .. Cardinality(Shards(i)) : \E bad \in SUBSET {<<i, s>> : s \in 0 .. n - 1} :
                    lost' = lost \cup bad
               /\ UNCHANGED handles
      <3>1. PICK n \in 0 .. Cardinality(Shards(i)) :
              \E bad \in SUBSET {<<i, s>> : s \in 0 .. n - 1} : lost' = lost \cup bad
        BY <2>4
      <3>2. PICK bad \in SUBSET {<<i, s>> : s \in 0 .. n - 1} : lost' = lost \cup bad
        BY <3>1
      <3>3. bad \subseteq Shards(i)
        BY <1>0, <2>2, <3>2, ShardsCount
      <3> QED
        BY <1>0, <1>1, <2>2, <2>4, <3>2, <3>3
    <2> QED
      BY <2>1, <2>3, <2>4
  <1>3. CASE Free
    <2>1. /\ handles # <<>> /\ handles' = Tail(handles)
          /\ lost' = lost \/ lost' = lost \cup Shards(Head(handles))
      BY <1>3 DEF Free, Remaining
    <2>2. Head(handles) \in Residents /\ Tail(handles) \in Seq(Residents)
      BY <1>1, <2>1
    <2> QED
      BY <1>0, <1>1, <2>1, <2>2
  <1>4. CASE ~Allocate /\ ~Free
    <2>1. UNCHANGED <<lost, handles>>
      BY <1>4 DEF Step, Begin, Build, PrepareInputs, ComputeGolden, Launch, Check, Bench, Prepare,
             Allocated, Dispatch, Readback, Validate, Loop, Close, Restore, Report, Passed, Leave, device_state
    <2> QED
      BY <1>0, <1>1, <2>1
  <1> QED
    BY <1>2, <1>3, <1>4

\* Launches are counted up to what is due, indices and epochs behind them.
LEMMA CountStep ==
    ASSUME LaunchOK, TypeInv, Step
    PROVE  /\ launches' \in 0 .. LaunchesDue' /\ index' \in 0 .. launches' /\ seen' \in 0 .. launches'
           /\ launches <= launches'
  <1>0. LaunchesDue' = LaunchesDue /\ LaunchesDue \in Nat /\ Rounds + Warmup <= LaunchesDue
        /\ Rounds + Warmup \in Nat
    BY RunKept, DueInt, BoundsAssumption DEF ResidentWarmup
  <1>1. launches \in 0 .. LaunchesDue /\ index \in 0 .. launches /\ seen \in 0 .. launches
    BY DEF TypeInv
  <1>2. CASE Bench
    <2>1. UNCHANGED index /\ \/ UNCHANGED <<launches, seen>>
                             \/ launches < Rounds + Warmup /\ seen' = 0 /\ launches' = launches + 1
      BY <1>2 DEF Bench
    <2> QED
      BY <1>0, <1>1, <2>1
  <1>3. CASE Dispatch
    <2>1. \/ UNCHANGED launch_state
          \/ seen' \in {0, index} /\ launches' = launches + 1 /\ index' = index + 1
      BY <1>3 DEF Dispatch, StepGiven
    <2>2. at = "dispatch" /\ launches < LaunchesDue /\ index = launches
      BY <1>3 DEF Dispatch, LaunchOK, Working
    <2> QED
      BY <1>0, <1>1, <2>1, <2>2 DEF launch_state
  <1>4. CASE ~Bench /\ ~Dispatch
    <2>1. UNCHANGED launch_state
      BY <1>4 DEF Step, Begin, Build, PrepareInputs, ComputeGolden, Launch, Check, Prepare, Allocate,
             Allocated, Readback, Validate, Loop, Free, Close, Restore, Report, Passed, Leave
    <2> QED
      BY <1>0, <1>1, <2>1 DEF launch_state
  <1> QED
    BY <1>2, <1>3, <1>4

\* Contents grow by one a launch.
LEMMA ContentStep ==
    ASSUME LaunchOK, TypeInv, DataOK, Step
    PROVE  host' \in [Tensors' -> ContentsNow'] /\ device' \in [Tensors' -> ContentsNow']
  <1>0. Tensors' = Tensors /\ Outputs' = Outputs /\ Residents' = Residents
        /\ Outputs \subseteq Tensors /\ Residents \subseteq Tensors
    BY RunKept DEF Outputs, Residents
  <1>1. /\ launches \in Nat /\ launches' \in Nat /\ launches <= launches'
        /\ ContentsNow \subseteq ContentsNow'
    <2>1. launches' \in 0 .. LaunchesDue' /\ launches <= launches' /\ launches \in 0 .. LaunchesDue
          /\ LaunchesDue' = LaunchesDue /\ LaunchesDue \in Nat
      BY CountStep, DueInt, RunKept DEF TypeInv
    <2> QED
      BY <2>1 DEF ContentsNow
  <1>2. /\ host \in [Tensors -> ContentsNow] /\ device \in [Tensors -> ContentsNow]
    BY DEF TypeInv
  <1>a. /\ host \in [Tensors -> ContentsNow'] /\ device \in [Tensors -> ContentsNow']
    BY <1>1, <1>2
  <1>b. 0 \in ContentsNow' /\ Garbage \in ContentsNow'
    <2>1. \A b \in Nat : 0 \in 0 .. 1 + b
      OBVIOUS
    <2> QED
      BY <1>1, <2>1 DEF ContentsNow
  <1>c. ASSUME NEW arg \in [Tensors -> ContentsNow], launches' = launches + 1, NEW j
        PROVE  Written(arg, j) \in ContentsNow'
    <2>1. Written(arg, j) \in {Garbage} \cup 0 .. (1 + launches) + 1
      BY <1>1, <1>c, WrittenType DEF ContentsNow
    <2> QED
      BY <1>1, <1>c, <2>1 DEF ContentsNow
  <1>3. CASE PrepareInputs
    <2>1. /\ host' = host \/ host' = [i \in Tensors |-> IF Is(i, {"out"}) THEN Garbage ELSE 0]
          /\ device' = device
      BY <1>3 DEF PrepareInputs, device_state
    <2> QED
      BY <1>0, <1>a, <1>b, <2>1
  <1>4. CASE Launch
    <2>1. /\ host' = host \/ host' = [i \in Tensors |-> IF i \in Outputs THEN Written(host, i) ELSE host[i]]
          /\ device' = device
          /\ \A i \in Inputs : host[i] = 0
      BY <1>4 DEF Launch, device_state, DataOK
    <2>2. \A j : Written(host, j) \in ContentsNow'
      <3>1. \A j : Written(host, j) \in {1, Garbage}
        BY <2>1, WrittenFirst DEF Answer
      <3> QED
        BY <1>1, <3>1 DEF ContentsNow
    <2> QED
      BY <1>0, <1>a, <2>1, <2>2
  <1>5. CASE Bench
    <2>1. /\ \/ host' = host
             \/ /\ host' = [i \in Tensors |-> IF i \in Outputs THEN Written(host, i) ELSE host[i]]
                /\ launches' = launches + 1
          /\ device' = device
      BY <1>5 DEF Bench, device_state
    <2>2. launches' = launches + 1 => \A j : Written(host, j) \in ContentsNow'
      BY <1>2, <1>c
    <2> QED
      BY <1>0, <1>a, <2>1, <2>2
  <1>6. CASE Allocate
    <2>1. host' = host /\ \/ device' = device
                          \/ \E i \in NextResident :
                               device' = [device EXCEPT ![i] = IF Is(i, {"out"}) THEN Garbage ELSE host[i]]
      BY <1>6 DEF Allocate
    <2>2. NextResident \subseteq Tensors
      BY <1>0 DEF NextResident, Unallocated
    <2> QED
      BY <1>0, <1>a, <1>b, <2>1, <2>2
  <1>7. CASE Dispatch
    <2> DEFINE arg == [i \in Tensors |-> IF i \in Residents THEN device[i] ELSE host[i]]
    <2>1. \/ UNCHANGED <<host, device>>
          \/ /\ launches' = launches + 1
             /\ device' = [i \in Tensors |-> IF i \in Outputs \cap Residents THEN Written(arg, i) ELSE device[i]]
             /\ host' = [i \in Tensors |-> IF i \in Outputs \ Residents THEN Written(arg, i) ELSE host[i]]
      BY <1>7 DEF Dispatch, Launched
    <2>2. arg \in [Tensors -> ContentsNow]
      BY <1>0, <1>2
    <2>3. launches' = launches + 1 => \A j : Written(arg, j) \in ContentsNow'
      BY <2>2, <1>c
    <2> HIDE DEF arg
    <2> QED
      BY <1>0, <1>a, <2>1, <2>3
  <1>8. CASE Readback
    <2>1. /\ host' = host \/ host' = [i \in Tensors |-> IF i \in Outputs \cap Residents THEN device[i] ELSE host[i]]
          /\ device' = device
      BY <1>8 DEF Readback, device_state
    <2> QED
      BY <1>0, <1>a, <2>1
  <1>10. CASE ComputeGolden
    <2>1. host' \in {host, Scratch} /\ device' = device
      BY <1>10 DEF ComputeGolden, device_state
    <2>2. 1 \in ContentsNow'
      <3>1. \A b \in Nat : 1 \in 0 .. 1 + b
        OBVIOUS
      <3> QED
        BY <1>1, <3>1 DEF ContentsNow
    <2> QED
      BY <1>0, <1>a, <2>1, <2>2 DEF Scratch
  <1>9. CASE ~PrepareInputs /\ ~ComputeGolden /\ ~Launch /\ ~Bench /\ ~Allocate /\ ~Dispatch /\ ~Readback
    <2>1. UNCHANGED <<host, device>>
      BY <1>9 DEF Step, Begin, Build, Check, Prepare,
             Allocated, Validate, Loop, Free, Close, Restore, Report, Passed, Leave, device_state
    <2> QED
      BY <1>0, <1>a, <2>1
  <1> QED
    BY <1>3, <1>4, <1>5, <1>6, <1>7, <1>8, <1>9, <1>10

\* The plain variables keep their types.
LEMMA PlainStep ==
    ASSUME FailureOK, LevelOK, TypeInv, Step
    PROVE  /\ run' \in Runs /\ at' \in Stages /\ open' \in BOOLEAN /\ expected' \in {Garbage, 1}
           /\ level' \in {"prior", "config", "strace"} /\ captured' \in {"prior", "config"}
           /\ faults' \in 0 .. MaxFaults
           /\ {raised', first', result'[2]} \subseteq Kinds \cup {"none", "AssertionError"}
           /\ result'[1] \in {"running", "pass", "fail", "raised"}
  <1>1. run' \in Runs
    BY RunKept DEF TypeInv
  <1>2. at' \in Stages
    <2>1. FailureOK'
      BY FailureStep
    <2> QED
      BY <2>1 DEF FailureOK, Before, Working, Ended, Stages
  <1>3. open' \in BOOLEAN /\ expected' \in {Garbage, 1}
    BY DEF TypeInv, Step, Begin, Build, PrepareInputs, ComputeGolden, Launch, Check, Bench, Prepare, Allocate,
           Allocated, Dispatch, Readback, Validate, Loop, Free, Close, Restore, Report, Passed, Leave, device_state
  <1>4. level' \in {"prior", "config", "strace"} /\ captured' \in {"prior", "config"}
    <2>1. BaseLevel \in {"prior", "config"}
      BY DEF BaseLevel
    <2>2. CASE Prepare
      <3>1. level = BaseLevel
        BY <2>2 DEF Prepare, LevelOK, Before
      <3> QED
        BY <2>1, <2>2, <3>1 DEF TypeInv, Prepare, logging
    <2>3. CASE ~Prepare
      BY <2>3 DEF TypeInv, Step, Begin, Build, PrepareInputs, ComputeGolden, Launch, Check, Bench, Allocate,
             Allocated, Dispatch, Readback, Validate, Loop, Free, Close, Restore, Restored, Report, Passed, Leave, logging
    <2> QED
      BY <2>2, <2>3
  <1>5. faults' \in 0 .. MaxFaults
    <2>1. faults \in Nat /\ faults <= MaxFaults /\ MaxFaults \in Nat
      BY BoundsAssumption DEF TypeInv
    <2>2. CASE Allocate
      <3>1. \/ faults' = faults
            \/ \E i \in NextResident : \E n \in 0 .. Cardinality(Shards(i)) : \E bad \in SUBSET {<<i, s>> : s \in 0 .. n - 1} :
                 faults + 1 + Cardinality(bad) <= MaxFaults /\ faults' = faults + 1 + Cardinality(bad)
        BY <2>2 DEF Allocate, Quiet, outcome
      <3>2. ASSUME NEW i \in NextResident, NEW n \in 0 .. Cardinality(Shards(i)),
                   NEW bad \in SUBSET {<<i, s>> : s \in 0 .. n - 1}
            PROVE  Cardinality(bad) \in Nat
        <4>1. i \in Tensors
          BY <3>2 DEF NextResident, Unallocated, Residents
        <4>2. IsFiniteSet(Shards(i)) /\ bad \subseteq Shards(i)
          BY <3>2, <4>1, ShardsCount
        <4> QED
          BY <4>2, FS_Subset, FS_CardinalityType
      <3> QED
        BY <2>1, <3>1, <3>2
    <2>3. CASE ~Allocate
      <3>1. faults' = faults \/ (faults < MaxFaults /\ faults' = faults + 1)
        BY <2>3 DEF Step, Begin, Build, PrepareInputs, ComputeGolden, Launch, Check, Bench, Prepare,
               Allocated, Dispatch, Readback, Validate, Loop, Free, Close, Restore, Report, Passed, Leave,
               Raises, Fault, Quiet, outcome
      <3> QED
        BY <2>1, <3>1
    <2> QED
      BY <2>2, <2>3
  <1>6. /\ {raised', first', result'[2]} \subseteq Kinds \cup {"none", "AssertionError"}
        /\ result'[1] \in {"running", "pass", "fail", "raised"}
    <2>1. /\ {raised, first, result[2]} \subseteq Kinds \cup {"none", "AssertionError"}
          /\ result[1] \in {"running", "pass", "fail", "raised"}
      BY DEF TypeInv
    <2>2. CASE Begin \/ Build \/ PrepareInputs \/ ComputeGolden \/ Launch \/ Check \/ Bench \/ Report
      BY <2>1, <2>2 DEF Begin, Build, PrepareInputs, ComputeGolden, Launch, Check, Bench, Report,
             Raises, End, Note, Quiet, outcome, Kinds
    <2>3. CASE Prepare \/ Allocate \/ Allocated \/ Dispatch \/ Readback \/ Validate \/ Loop
      BY <2>1, <2>3 DEF Prepare, Allocate, Allocated, Dispatch, Readback, Validate, Loop,
             Fault, Unwind, End, Note, Quiet, outcome, Kinds
    <2>4. CASE Free \/ Close \/ Restore \/ Passed \/ Leave
      <3>1. CASE Free \/ Close \/ Leave
        <4>1. UNCHANGED <<raised, first, result>>
          BY <3>1 DEF Free, Swallowed, Close, Leave, outcome
        <4> QED
          BY <2>1, <4>1
      <3>3. CASE Passed
        BY <2>1, <3>3 DEF Passed
      <3>2. CASE Restore
        <4>1. \/ UNCHANGED <<raised, first, result>>
              \/ /\ raised' = raised /\ first' \in {first, raised}
                 /\ \E kind \in {"fail", "raised"} : result' = <<kind, raised>>
          BY <3>2 DEF Restore, End, Note, Quiet, outcome
        <4> QED
          BY <2>1, <4>1
      <3> QED
        BY <2>4, <3>1, <3>2, <3>3
    <2> QED
      BY <2>2, <2>3, <2>4 DEF Step
  <1> QED
    BY <1>1, <1>2, <1>3, <1>4, <1>5, <1>6

LEMMA TypeStep ==
    ASSUME FailureOK, BuffersOK, LevelOK, LaunchOK, TypeInv, DataOK, Step
    PROVE  TypeInv'
  BY PlainStep, LostStep, CountStep, ContentStep DEF TypeInv

-----------------------------------------------------------------------------
LEMMA DataStep ==
    ASSUME FailureOK, BuffersOK, LaunchOK, TypeInv, DataOK, VerdictOK, Step
    PROVE  DataOK'
  <1>0. /\ Tensors' = Tensors /\ Outputs' = Outputs /\ Residents' = Residents
        /\ Inputs' = Inputs /\ Inputs \subseteq Tensors /\ \A i : Answer(i)' = Answer(i)
        /\ Outputs \subseteq Tensors /\ Residents \subseteq Tensors
    BY RunKept DEF Outputs, Residents, Inputs
  <1>1. CASE Begin \/ Build
    BY <1>1 DEF Begin, Build, Raises, End, Quiet, DataOK
  <1>2. CASE PrepareInputs
    BY <1>0, <1>2 DEF PrepareInputs, Raises, End, DataOK, Inputs, Is
  <1>3. CASE ComputeGolden
    <2>1. /\ at = "golden" /\ at' \in {"prepare", "launch", "leave"}
          /\ host' = host \/ host' = Scratch
      BY <1>3 DEF ComputeGolden, Raises, End
    <2>2. \A i \in Inputs : host'[i] = host[i]
      BY <2>1 DEF Scratch, Shared, Inputs, Is
    <2> QED
      BY <1>0, <2>1, <2>2 DEF DataOK
  <1>4. CASE Launch
    <2>1. /\ at = "launch"
          /\ \/ at' = "leave"
             \/ /\ at' = "check"
                /\ host' = [i \in Tensors |-> IF i \in Outputs THEN Written(host, i) ELSE host[i]]
      BY <1>4 DEF Launch, Raises, End
    <2>2. \A i : Written(host, i) = Answer(i)
      BY <2>1, WrittenFirst DEF DataOK
    <2> QED
      BY <1>0, <2>1, <2>2 DEF DataOK
  <1>5. CASE Check \/ Bench
    BY <1>5 DEF Check, Bench, Raises, End, DataOK
  <1>6. CASE Prepare
    <2>1. at = "prepare" /\ at' \in {"leave", "restore", "alloc"} /\ UNCHANGED <<host, handles>>
      BY <1>6 DEF Prepare, Fault, Unwind, End
    <2>2. Held' = {}
      BY <2>1 DEF BuffersOK, Before, Held
    <2> QED
      BY <1>0, <2>1, <2>2 DEF DataOK
  <1>7. CASE Allocate
    <2>1. PICK i \in NextResident :
            \/ /\ handles' = Append(handles, i) /\ at' = at
               /\ device' = [device EXCEPT ![i] = IF Is(i, {"out"}) THEN Garbage ELSE host[i]]
            \/ at' = "free"
      BY <1>7 DEF Allocate, Unwind
    <2>2. at = "alloc" /\ UNCHANGED host /\ i \in Tensors /\ handles \in Seq(Residents)
          /\ i \in Residents /\ device \in [Tensors -> ContentsNow]
      BY <1>0, <1>7 DEF Allocate, NextResident, Unallocated, TypeInv
    <2>3. CASE at' = "free"
      BY <2>3 DEF DataOK
    <2>4. CASE /\ handles' = Append(handles, i) /\ at' = at
               /\ device' = [device EXCEPT ![i] = IF Is(i, {"out"}) THEN Garbage ELSE host[i]]
      <3>1. Held' = Held \cup {i} /\ Held \subseteq Residents
        <4>1. Held' = Held \cup {i}
          BY <2>2, <2>4, HeldAppend
        <4>2. \A k \in DOMAIN handles : handles[k] \in Residents
          BY <2>2
        <4> QED
          BY <4>1, <4>2 DEF Held
      <3>2. i \in Inputs => device'[i] = 0
        BY <2>2, <2>4 DEF DataOK, Inputs, Is
      <3>3. \A j \in Inputs \cap Held : device'[j] = 0
        BY <1>0, <2>2, <2>4, <3>1, <3>2 DEF DataOK
      <3> QED
        BY <1>0, <2>2, <2>4, <3>1, <3>2, <3>3 DEF DataOK
    <2> QED
      BY <2>1, <2>3, <2>4
  <1>8. CASE Allocated
    <2>1. at = "alloc" /\ at' = "dispatch" /\ UNCHANGED <<host, device>> /\ Residents \subseteq Held
      BY <1>8 DEF Allocated, Unallocated, Held, device_state
    <2> QED
      BY <1>0, <2>1 DEF DataOK
  <1>9. CASE Dispatch
    <2> DEFINE arg == [i \in Tensors |-> IF i \in Residents THEN device[i] ELSE host[i]]
    <2>1. /\ at = "dispatch"
          /\ \/ at' = "free"
             \/ at' = "loop" /\ launches' = launches + 1
             \/ /\ at' = "readback" /\ launches = 0 /\ launches' = launches + 1 /\ expected' = 1
                /\ device' = [i \in Tensors |-> IF i \in Outputs \cap Residents THEN Written(arg, i) ELSE device[i]]
                /\ host' = [i \in Tensors |-> IF i \in Outputs \ Residents THEN Written(arg, i) ELSE host[i]]
      BY <1>9 DEF Dispatch, Launched, Fault, Unwind, ValidatesAt, TypeInv
    <2>2. launches = 0 => \A i : Written(arg, i) = Answer(i)
      <3>1. launches = 0 => \A i \in Inputs : arg[i] = 0
        BY <1>0, <2>1 DEF DataOK
      <3> HIDE DEF arg
      <3> QED
        BY <3>1, WrittenFirst
    <2>3. launches \in Nat
      BY DEF LaunchOK
    <2> HIDE DEF arg
    <2>4. CASE at' = "free"
      BY <2>4 DEF DataOK
    <2>5. CASE at' = "loop" /\ launches' = launches + 1
      BY <2>3, <2>5 DEF DataOK
    <2>6. CASE /\ at' = "readback" /\ launches = 0 /\ launches' = launches + 1 /\ expected' = 1
               /\ device' = [i \in Tensors |-> IF i \in Outputs \cap Residents THEN Written(arg, i) ELSE device[i]]
               /\ host' = [i \in Tensors |-> IF i \in Outputs \ Residents THEN Written(arg, i) ELSE host[i]]
      <3>1. launches' > 0
        BY <2>6
      <3> QED
        BY <1>0, <2>2, <2>6, <3>1 DEF DataOK
    <2> QED
      BY <2>1, <2>4, <2>5, <2>6
  <1>10. CASE Readback
    <2>1. /\ at = "readback" /\ launches' = launches /\ expected' = expected
          /\ \/ at' = "free"
             \/ /\ at' = "validate"
                /\ host' = [i \in Tensors |-> IF i \in Outputs \cap Residents THEN device[i] ELSE host[i]]
      BY <1>10 DEF Readback, Fault, Unwind, launch_state
    <2>2. \A i \in Outputs : at' = "validate" => host'[i] = Answer(i)
      BY <1>0, <2>1 DEF DataOK
    <2> QED
      BY <1>0, <2>1, <2>2 DEF DataOK
  <1>11. CASE Validate \/ Free \/ Close \/ Restore \/ Report \/ Passed \/ Leave
    BY <1>11 DEF Validate, Free, Close, Restore, Report, Passed, Leave, Unwind, Raises, End, launch_state, DataOK
  <1>12. CASE Loop
    <2>1. at = "loop" /\ at' \in {"dispatch", "free"} /\ launches' = launches /\ launches # 0
      BY <1>12 DEF Loop, launch_state, DataOK
    <2> QED
      BY <2>1 DEF DataOK
  <1> QED
    BY <1>1, <1>2, <1>3, <1>4, <1>5, <1>6, <1>7, <1>8, <1>9, <1>10, <1>11, <1>12 DEF Step

-----------------------------------------------------------------------------
\* What a failing call leaves behind: it is the first failure, and no mismatch.
LEMMA FailsAs ==
    ASSUME NEW caught, Raises(caught), first = "none"
    PROVE  /\ at' = "leave" /\ raised' = raised /\ result'[1] # "pass"
           /\ result'[2] \in Kinds /\ first' \in Kinds
  BY DEF Raises, End, Note

LEMMA FaultsAs ==
    ASSUME NEW next, Fault(next), first = "none"
    PROVE  at' = next /\ raised' \in Kinds /\ first' \in Kinds /\ result' = result
  BY DEF Fault, Unwind, Note

\* A comparison passes just when the kernel is right about every output it can
\* tell: of a shared buffer it sees the kernel's answer twice.
LEMMA MatchShows ==
    ASSUME DataOK, VerdictOK, at \in {"check", "validate"}
    PROVE  /\ expected = 1 => (Matches <=> Mistakes = {})
           /\ expected = IF Validates THEN 1 ELSE Garbage
  <1>1. \A i \in Outputs : host[i] = Answer(i)
    BY DEF DataOK
  <1>2. expected = IF Validates THEN 1 ELSE Garbage
    BY DEF VerdictOK, Ended
  <1>3. \A i : Answer(i) = 1 <=> i \notin run.wrong
    BY DEF Answer, Garbage
  <1>4. expected = 1 => \A i \in Outputs : host[i] = Reference(i) <=> i \in Shared \/ i \notin run.wrong
    BY <1>1, <1>3 DEF Reference
  <1> QED
    BY <1>2, <1>4 DEF Matches, Mistakes

LEMMA VerdictStep ==
    ASSUME FailureOK, LaunchOK, TypeInv, DataOK, VerdictOK, Step
    PROVE  VerdictOK'
  <1>0. /\ run' = run /\ Validates' = Validates /\ Mistakes' = Mistakes /\ Shown' = Shown /\ Garbage # 1
    BY RunKept DEF Garbage
  <1>k. "AssertionError" \notin Kinds /\ "none" \notin Kinds
    BY DEF Kinds
  <1>n. /\ at \notin Ended => first = raised
        /\ at \notin {"free", "restore"} \cup Ended => raised = "none" /\ first = "none"
    BY DEF FailureOK
  <1>1. CASE Begin \/ Build \/ PrepareInputs
    BY <1>0, <1>1, <1>k, <1>n, FailsAs
       DEF Begin, Build, PrepareInputs, End, Note, Quiet, outcome, VerdictOK, Compared, Ended
  <1>2. CASE ComputeGolden
    BY <1>0, <1>2, <1>k, <1>n, FailsAs DEF ComputeGolden, Quiet, outcome, VerdictOK, Compared, Ended
  <1>3. CASE Launch
    BY <1>0, <1>3, <1>k, <1>n, FailsAs DEF Launch, Quiet, outcome, VerdictOK, Compared, Ended
  <1>4. CASE Check
    <2>1. CASE expected = Garbage \/ Matches
      BY <1>0, <1>4, <1>n, <2>1, MatchShows DEF Check, Quiet, outcome, VerdictOK, Compared, Ended, Shown
    <2>2. CASE ~(expected = Garbage \/ Matches)
      <3>1. Mistakes # {}
        BY <1>0, <1>4, <2>2, MatchShows DEF Check, TypeInv
      <3> QED
        BY <1>0, <1>4, <1>n, <2>2, <3>1 DEF Check, End, Note, VerdictOK, Compared, Ended
    <2> QED
      BY <2>1, <2>2
  <1>5. CASE Bench
    BY <1>0, <1>5, <1>k, <1>n, FailsAs DEF Bench, End, Note, Quiet, outcome, VerdictOK, Compared, Ended
  <1>6. CASE Prepare
    BY <1>0, <1>6, <1>k, <1>n, FaultsAs DEF Prepare, End, Note, Quiet, outcome, VerdictOK, Compared, Ended
  <1>7. CASE Allocate
    <2>1. /\ at = "alloc" /\ UNCHANGED <<run, expected, result>>
          /\ \/ UNCHANGED <<at, raised, first>>
             \/ at' = "free" /\ raised' \in Kinds /\ first' \in Kinds
      BY <1>7, <1>n DEF Allocate, Unwind, Note, Quiet, outcome, Ended
    <2> QED
      BY <1>0, <1>k, <1>n, <2>1 DEF VerdictOK, Compared, Ended
  <1>8. CASE Allocated
    <2>1. launches' = 0
      BY <1>8 DEF Allocated, LaunchOK, launch_state
    <2> QED
      BY <1>0, <1>8, <1>n, <2>1 DEF Allocated, outcome, VerdictOK, Compared, Ended
  <1>9. CASE Dispatch
    <2>1. launches \in Nat /\ (launches = 0 \/ launches > 0)
      BY DEF LaunchOK
    <2> QED
      BY <1>0, <1>9, <1>k, <1>n, <2>1, FaultsAs
         DEF Dispatch, ValidatesAt, Quiet, outcome, VerdictOK, Compared, Ended, Shown
  <1>10. CASE Readback
    BY <1>0, <1>10, <1>k, <1>n, FaultsAs DEF Readback, Quiet, outcome, VerdictOK, Compared, Ended
  <1>11. CASE Validate
    <2>0. expected = 1
      BY <1>11 DEF Validate, VerdictOK, DataOK, TypeInv
    <2>1. CASE Matches
      BY <1>0, <1>11, <1>n, <2>0, <2>1, MatchShows DEF Validate, Quiet, outcome, VerdictOK, Compared, Ended, Shown
    <2>2. CASE ~Matches
      <3>1. Mistakes # {}
        BY <1>11, <2>0, <2>2, MatchShows DEF Validate
      <3> QED
        BY <1>0, <1>11, <1>n, <2>2, <3>1 DEF Validate, Unwind, Note, VerdictOK, Compared, Ended
    <2> QED
      BY <2>1, <2>2
  <1>12. CASE Loop
    BY <1>0, <1>12, <1>n DEF Loop, outcome, VerdictOK, Compared, Ended
  <1>13. CASE Free \/ Close
    BY <1>0, <1>13, <1>n DEF Free, Swallowed, Close, outcome, VerdictOK, Compared, Ended
  <1>14. CASE Restore
    BY <1>0, <1>14, <1>n DEF Restore, End, Note, Quiet, outcome, VerdictOK, Compared, Ended
  <1>15. CASE Report
    BY <1>0, <1>15, <1>k, <1>n, FailsAs DEF Report, Quiet, outcome, VerdictOK, Compared, Ended
  <1>16. CASE Passed \/ Leave
    BY <1>0, <1>16, <1>n DEF Passed, Leave, outcome, VerdictOK, Compared, Ended
  <1> QED
    BY <1>1, <1>2, <1>3, <1>4, <1>5, <1>6, <1>7, <1>8, <1>9, <1>10, <1>11, <1>12, <1>13, <1>14, <1>15, <1>16
       DEF Step

LEMMA InitFull == Init => FullInv
  <1> SUFFICES ASSUME Init PROVE FullInv
    OBVIOUS
  <1>1. IInv
    BY InitInv
  <1>2. /\ launches \in 0 .. LaunchesDue /\ index \in 0 .. launches /\ seen \in 0 .. launches
        /\ faults \in 0 .. MaxFaults
    BY DueInt, BoundsAssumption DEF Init
  <1>3. handles \in Seq(Residents) /\ lost = {}
    BY DEF Init
  <1>4. host \in [Tensors -> ContentsNow] /\ device \in [Tensors -> ContentsNow]
    BY DEF Init, ContentsNow
  <1>5. TypeInv
    BY <1>2, <1>3, <1>4 DEF Init, TypeInv, Stages, Kinds
  <1>6. DataOK
    BY DEF Init, DataOK
  <1>7. VerdictOK
    BY DEF Init, VerdictOK, Compared, Ended
  <1> QED
    BY <1>1, <1>5, <1>6, <1>7 DEF FullInv

LEMMA NextFull == FullInv /\ [Next]_vars => FullInv'
  <1> SUFFICES ASSUME FullInv, [Next]_vars PROVE FullInv'
    OBVIOUS
  <1>1. IInv'
    BY NextInv DEF FullInv
  <1>2. CASE Step
    BY <1>1, <1>2, TypeStep, DataStep, VerdictStep DEF FullInv, IInv
  <1>3. CASE UNCHANGED vars
    <2>1. TypeInv'
      BY <1>3 DEF vars, FullInv, TypeInv, Tensors, Residents, ContentsNow, Shards, LaunchesDue, ResidentWarmup
    <2>2. DataOK'
      BY <1>3 DEF vars, FullInv, DataOK, Tensors, Residents, Outputs, Inputs, Is, Answer, Held
    <2>3. VerdictOK'
      BY <1>3 DEF vars, FullInv, VerdictOK, Compared, Shown, Mistakes, Shared, Validates, InputsOnly,
                        Outputs, Tensors, Is
    <2> QED
      BY <1>1, <2>1, <2>2, <2>3 DEF FullInv
  <1> QED
    BY <1>2, <1>3 DEF Next, Done

-----------------------------------------------------------------------------
\* Who frees what, which level the process has, and what has gone wrong, holds
\* in every state of a run, however many calls raise.
THEOREM InvariantCorrect == Spec => []IInv
  BY InitInv, NextInv, PTL DEF Spec

\* What the tensors hold at every stage, those the golden function shares with
\* the run included, and what a comparison that passed has shown, holds in every
\* state of a run.
THEOREM ContentsCorrect == Spec => []FullInv
  BY InitFull, NextFull, PTL DEF Spec

\* The tensors hold what the launches and copies make of them, and the verdict
\* is right: a pass means a kernel that is right about every output it can be
\* told by, all but those whose buffer is the golden function's too; a mismatch
\* means one that is wrong about such an output.
THEOREM OutcomeCorrect == Spec => []OutcomeExact
  <1> SUFFICES FullInv => OutcomeExact
    BY ContentsCorrect, PTL
  <1> SUFFICES ASSUME FullInv PROVE OutcomeExact
    OBVIOUS
  <1>1. ContentsNow \subseteq Contents /\ launches \in 0 .. (IF Warmup < 1 THEN 1 ELSE Warmup) + Rounds
    <2>1. launches \in 0 .. LaunchesDue /\ LaunchesDue = (IF Warmup < 1 THEN 1 ELSE Warmup) + Rounds
      BY DueInt DEF FullInv, TypeInv, ResidentWarmup
    <2> QED
      BY <2>1, BoundsAssumption DEF ContentsNow, Contents
  <1>2. lost \subseteq buffers /\ buffers \subseteq UNION {Shards(i) : i \in Tensors}
    <2>1. buffers = lost \cup UNION {Shards(i) : i \in Held} /\ lost \subseteq UNION {Shards(i) : i \in Tensors}
      BY DEF FullInv, IInv, BuffersOK, TypeInv
    <2>2. Held \subseteq Tensors
      BY DEF FullInv, IInv, BuffersOK, Held
    <2> QED
      BY <2>1, <2>2
  <1>3. host \in [Tensors -> Contents] /\ device \in [Tensors -> Contents]
    BY <1>1 DEF FullInv, TypeInv
  <1>4. TypeOK
    BY <1>1, <1>2, <1>3 DEF FullInv, TypeInv, TypeOK
  <1>5. VerdictExact
    BY DEF FullInv, VerdictOK, VerdictExact, Shown, Ended
  <1> QED
    BY <1>4, <1>5 DEF OutcomeExact

\* However a run ends, the buffers of its worker are free but those whose own
\* free raised, and the process has its log level back.
THEOREM CleanedUpCorrect == Spec => []CleanedUp
  <1>1. IInv => CleanedUp
    BY DEF IInv, BuffersOK, LevelOK, CleanedUp, BuffersReleased, LevelRestored, Held
  <1> QED
    BY <1>1, InvariantCorrect, PTL

\* The caller is told the first failure outside a cleanup, and a run passes just
\* when there is none.
THEOREM FirstFailureCorrect == Spec => []FirstFailureTold
  <1>1. IInv => FirstFailureTold
    BY DEF IInv, FailureOK, FirstFailureTold, Ended
  <1> QED
    BY <1>1, InvariantCorrect, PTL

\* Windows, epochs and the report count the same launches.
THEOREM LaunchesCorrect == Spec => []LaunchesAgree
  <1>1. LaunchesDue = Rounds + ResidentWarmup
    BY DueInt, BoundsAssumption DEF ResidentWarmup
  <1>2. IInv => LaunchesAgree
    BY <1>1 DEF IInv, LaunchOK, LaunchesAgree, RoundsSegment
  <1> QED
    BY <1>2, InvariantCorrect, PTL
=============================================================================
