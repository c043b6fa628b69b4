-------------------------- MODULE TestWorkerProofs --------------------------
(***************************************************************************)
(* Theorems about TestWorker, for any tests, hooks and fixtures.           *)
(***************************************************************************)
EXTENDS TestWorker, TLAPS

(***************************************************************************)
(* Types.                                                                  *)
(***************************************************************************)
Place == /\ suites \in Seq(Suite) /\ hooks \in Seq(Hook)
         /\ phase \in {"idle", "resolve", "call", "clean"}
         /\ fn \in Hook \cup Test \cup {None} /\ cur \in Fixture \cup {None}
         /\ need \subseteq Fixture /\ left \subseteq Fixture
         /\ error \in {"none", "error", "skip", "errorLater", "skipLater"} /\ threw \in BOOLEAN
         /\ at \in Stage

LEMMA InnermostType ==
  ASSUME NEW t \in Test PROVE Innermost(t) \in Seq(Suite)
<1>1. SuitesOf[t] \in Seq(Suite) BY GroupAssumption
<1> QED BY <1>1 DEF Innermost

(* Moving to a stage of a test, or past the tests, keeps the place in its    *)
(* type.                                                                     *)
LEMMA GoType ==
  ASSUME TypeOK, NEW stage \in Stage, Go(stage),
         test \in Test \/ stage \notin {"beforeAll", "afterAll", "cleanAll", "beforeEach", "afterEach", "params"}
  PROVE  Place'
<1>1. suites' \in Seq(Suite)
  BY InnermostType, GroupAssumption DEF Go, TypeOK
<1>2. hooks' \in Seq(Hook)
  BY GroupAssumption DEF Go, TypeOK
<1>3. left' \subseteq Fixture /\ need' \subseteq Fixture
  BY DEF Go, Registered, Needed
<1>4. fn' \in Hook \cup Test \cup {None}
  BY DEF Go
<1> QED BY <1>1, <1>2, <1>3, <1>4 DEF Go, Place

LEMMA FunctionOverType ==
  ASSUME TypeOK, NEW how \in {"none", "error", "skip"}, FunctionOver(how)
  PROVE  Place'
<1>1. CASE fn \in Test /\ Go("after")
  BY <1>1, GoType DEF Stage
<1>2. CASE /\ phase' = "clean" /\ left' = Registered("test") /\ error' = how
           /\ need' = {} /\ cur' = None
           /\ UNCHANGED <<at, suites, hooks, fn, threw>>
  BY <1>2 DEF TypeOK, Place, Registered
<1>3. CASE /\ phase' = "idle" /\ fn' = None /\ need' = {} /\ cur' = None
           /\ threw' = (threw \/ how # "none")
           /\ hooks' = IF how = "skip" THEN <<>> ELSE hooks
           /\ UNCHANGED <<at, suites, left, error>>
  <2>1. threw' \in BOOLEAN
    BY <1>3
  <2>2. hooks' \in Seq(Hook)
    BY <1>3 DEF TypeOK
  <2> QED BY <1>3, <2>1, <2>2 DEF TypeOK, Place
<1> QED BY <1>1, <1>2, <1>3 DEF FunctionOver

Info == /\ status \in {"passed", "failed", "timedOut", "skipped", "interrupted"}
        /\ expected \in {"passed", "failed", "skipped"}
        /\ interrupted \in BOOLEAN
        /\ exhausted \subseteq Fixture \cup {"test", "after", "hook", "cleanup", "close"}

LEMMA CallbackEndsType ==
  ASSUME TypeOK, NEW how, NEW slot \in Fixture \cup {"test", "after", "hook", "cleanup", "close"},
         CallbackEnds(how, slot)
  PROVE  Info'
BY DEF CallbackEnds, TypeOK, Info, Failing, info

LEMMA SlotType ==
  /\ StageSlot \in {"test", "after", "hook", "cleanup", "close"}
  /\ \A f \in Fixture : SlotOf(f) \in Fixture \cup {"test", "after", "hook", "cleanup", "close"}
BY DEF StageSlot, SlotOf

(* Whatever runs in the stages of a test, there is a test; what is resolved  *)
(* is resolved for a function.                                               *)
TestKnown == /\ \/ test \in Test
                \/ /\ at \in {"between", "done", "closeTest", "closeWorker", "closed"}
                   /\ fn = None /\ hooks = <<>>
             /\ phase = "resolve" => fn # None

Rest == /\ test \in 0 .. LastTest /\ due \in BOOLEAN
        /\ stopped \in BOOLEAN /\ cleaned \in BOOLEAN
        /\ active \subseteq Suite /\ inherited \subseteq active
        /\ inst \in [Fixture -> {"none", "setup", "provided", "failed"}]
        /\ usages \in [Fixture -> SUBSET Fixture]
        /\ called \subseteq Hook \cup Test /\ made \subseteq Fixture /\ lost \subseteq Hook

LEMMA TypeParts ==
  ASSUME Place', Info', Rest' PROVE TypeOK'
BY DEF TypeOK, Place, Info, Rest

LEMMA AllHookIsHook == AllHook \subseteq Hook
BY DEF AllHook

LEMMA DropType ==
  ASSUME TypeOK, NEW f, Drop(f)
  PROVE  /\ left' \subseteq Fixture
         /\ inst' \in [Fixture -> {"none", "setup", "provided", "failed"}]
         /\ usages' \in [Fixture -> SUBSET Fixture]
BY DEF Drop, TypeOK

LEMMA CurIsFixture == TypeOK /\ cur # None => cur \in Fixture
BY DEF TypeOK

(* Only in the stages of a test is there a function that can be over.        *)
LEMMA FunctionOverTest ==
  ASSUME TypeOK, TestKnown, NEW how, FunctionOver(how), UNCHANGED test
  PROVE  TestKnown'
<1>1. fn # None
  BY GroupAssumption, AllHookIsHook DEF FunctionOver
<1>2. test \in Test
  BY <1>1 DEF TestKnown
<1>3. phase' # "resolve"
  BY DEF FunctionOver, Go
<1> QED BY <1>2, <1>3 DEF TestKnown

(* One step per action; Next is split into its actions once and for all.     *)
LEMMA NextCases ==
  ASSUME Next
  PROVE  \/ \E f \in Fixture : SetUp(f) \/ TearDown(f) \/ LateSetUp(f)
         \/ \E how \in Ending : SetUpEnds(how) \/ CallEnds(how) \/ TestFunctionFinished(how)
         \/ \E how \in Ending : TearDownEnds(how)
         \/ Cleaned \/ RunHook \/ Call \/ EnterSuite \/ LeaveSuite
         \/ BeginTest \/ TracingStarted \/ FoldersRemoved \/ BeforeAllDone \/ BeforeEachDone
         \/ AfterEachDone \/ AfterAllDone \/ CleanAllDone \/ EndTest \/ GroupDone \/ Close
         \/ Stop \/ UnhandledError
BY DEF Next, Step, FixtureStep, HookStep, StageStep

LEMMA TypeFixtures ==
  ASSUME TypeOK, TestKnown
  PROVE  /\ \A f \in Fixture : (SetUp(f) \/ TearDown(f) \/ LateSetUp(f)) => (TypeOK' /\ TestKnown')
         /\ \A how \in Ending : SetUpEnds(how) => (TypeOK' /\ TestKnown')
         /\ \A how \in Ending : TearDownEnds(how) => (TypeOK' /\ TestKnown')
         /\ Cleaned => (TypeOK' /\ TestKnown')
<1>1. ASSUME NEW f \in Fixture, SetUp(f) PROVE TypeOK' /\ TestKnown'
  <2>1. usages' \in [Fixture -> SUBSET Fixture]
    BY <1>1 DEF SetUp, TypeOK, registry
  <2>2. inst' \in [Fixture -> {"none", "setup", "provided", "failed"}]
    BY <1>1 DEF SetUp, TypeOK, registry
  <2>3. /\ need' \subseteq Fixture /\ cur' \in Fixture \cup {None} /\ made' \subseteq Fixture
        /\ UNCHANGED <<test, at, due, info, worker, called, lost, suites, hooks, phase, fn, left, error, threw>>
    BY <1>1 DEF SetUp, TypeOK
  <2> QED BY <2>1, <2>2, <2>3 DEF TypeOK, TestKnown, info, worker
<1>2. ASSUME NEW f \in Fixture, TearDown(f) PROVE TypeOK' /\ TestKnown'
  <2>1. CASE cur' = f /\ UNCHANGED <<left, registry, exhausted>>
    BY <1>2, <2>1 DEF TearDown, TypeOK, TestKnown, worker, history, registry
  <2>2. CASE Drop(f) /\ exhausted' = exhausted \ {f} /\ UNCHANGED cur
    BY <1>2, <2>2, DropType DEF TearDown, TypeOK, TestKnown, worker, history
  <2> QED BY <1>2, <2>1, <2>2 DEF TearDown
<1>3. ASSUME NEW f \in Fixture, LateSetUp(f) PROVE TypeOK' /\ TestKnown'
  BY <1>3 DEF LateSetUp, TypeOK, TestKnown, place, info, worker, history
<1>4. ASSUME NEW how \in Ending, SetUpEnds(how) PROVE TypeOK' /\ TestKnown'
  <2>1. Info'
    BY <1>4, CurIsFixture, SlotType, CallbackEndsType DEF SetUpEnds
  <2>2. Place' /\ TestKnown'
    <3>1. CASE cur' = None /\ UNCHANGED <<at, suites, hooks, phase, fn, need, left, error, threw>>
      BY <1>4, <3>1 DEF TypeOK, Place, TestKnown, SetUpEnds
    <3>2. CASE FunctionOver(ErrorOf(how))
      <4>1. ErrorOf(how) \in {"none", "error", "skip"}
        BY DEF ErrorOf
      <4>2. Place'
        BY <3>2, <4>1, FunctionOverType
      <4>3. TestKnown'
        BY <1>4, <3>2, FunctionOverTest DEF SetUpEnds
      <4> QED BY <4>2, <4>3
    <3> QED BY <1>4, <3>1, <3>2 DEF SetUpEnds
  <2>3. Rest'
    BY <1>4 DEF SetUpEnds, TypeOK, Rest, Inherit, history, Ending
  <2> QED BY <2>1, <2>2, <2>3, TypeParts
<1>5. ASSUME NEW how \in Ending, TearDownEnds(how) PROVE TypeOK' /\ TestKnown'
  <2>1. cur \in Fixture /\ Drop(cur)
    BY <1>5, CurIsFixture DEF TearDownEnds
  <2>2. Info'
    BY <1>5, <2>1, SlotType DEF TearDownEnds, TypeOK, Info, Failing
  <2>3. Place' /\ Rest' /\ UNCHANGED <<at, test, fn, hooks, phase>>
    BY <1>5, <2>1, DropType DEF TearDownEnds, TearDownFails, TypeOK, Place, Rest, worker, history
  <2> QED BY <2>2, <2>3, TypeParts DEF TestKnown
<1>6. ASSUME Cleaned PROVE TypeOK' /\ TestKnown'
  <2>1. Place' /\ TestKnown'
    <3>1. CASE fn # None
      <4>1. threw' \in BOOLEAN
        BY <1>6, <3>1 DEF Cleaned
      <4>2. hooks' = <<>> \/ hooks' = hooks
        BY <1>6, <3>1 DEF Cleaned
      <4>3. hooks' \in Seq(Hook)
        <5>1. CASE hooks' = <<>>
          BY <5>1
        <5>2. CASE hooks' = hooks
          BY <5>2 DEF TypeOK
        <5> QED BY <4>2, <5>1, <5>2
      <4> QED BY <1>6, <3>1, <4>1, <4>3 DEF Cleaned, TypeOK, TestKnown, Place
    <3>2. CASE fn = None
      <4>1. Go(AfterCleaning) /\ UNCHANGED test
        BY <1>6, <3>2 DEF Cleaned
      <4>2. /\ AfterCleaning \in {"afterAll", "cleanAll", "end", "closeWorker", "closed"}
            /\ AfterCleaning \in {"afterAll", "cleanAll", "end"} => test \in Test
        BY DEF AfterCleaning, TestKnown
      <4>3. Place'
        BY <4>1, <4>2, GoType DEF Stage
      <4> QED BY <4>1, <4>2, <4>3 DEF Go, TestKnown
    <3> QED BY <3>1, <3>2
  <2>2. Info' /\ Rest'
    BY <1>6 DEF Cleaned, TypeOK, Info, Rest, info, worker, registry, history
  <2> QED BY <2>1, <2>2, TypeParts
<1> QED BY <1>1, <1>2, <1>3, <1>4, <1>5, <1>6

LEMMA TypeHooks ==
  ASSUME TypeOK, TestKnown
  PROVE  /\ \A how \in Ending : CallEnds(how) => (TypeOK' /\ TestKnown')
         /\ Call \/ RunHook \/ EnterSuite \/ LeaveSuite => (TypeOK' /\ TestKnown')
<1>1. ASSUME NEW how \in Ending, CallEnds(how) PROVE TypeOK' /\ TestKnown'
  <2>1. ErrorOf(how) \in {"none", "error", "skip"}
    BY DEF ErrorOf
  <2>2. Info'
    BY <1>1, SlotType, CallbackEndsType DEF CallEnds
  <2>3. Place' /\ TestKnown'
    BY <1>1, <2>1, FunctionOverType, FunctionOverTest DEF CallEnds
  <2>4. Rest'
    BY <1>1 DEF CallEnds, TypeOK, Rest, Inherit, registry, history
  <2> QED BY <2>2, <2>3, <2>4, TypeParts
<1>2. ASSUME Call PROVE TypeOK' /\ TestKnown'
  <2>1. Place' /\ TestKnown' /\ called' \in {called, called \cup {fn}}
    <3>1. CASE FunctionOver("none") /\ UNCHANGED called
      BY <1>2, <3>1, FunctionOverType, FunctionOverTest DEF Call
    <3>2. CASE /\ phase' = "call" /\ called' = called \cup {fn}
               /\ UNCHANGED <<at, suites, hooks, fn, need, left, cur, error, threw>>
      BY <1>2, <3>2 DEF Call, TypeOK, Place, TestKnown
    <3> QED BY <1>2, <3>1, <3>2 DEF Call
  <2>2. called' \subseteq Hook \cup Test
    <3>1. CASE called' = called
      BY <3>1 DEF TypeOK
    <3>2. CASE called' = called \cup {fn} /\ called' # called
      <4>1. phase' = "call" /\ fn # None
        BY <1>2, <3>2 DEF Call, TestKnown
      <4> QED BY <3>2, <4>1 DEF TypeOK
    <3> QED BY <2>1, <3>1, <3>2
  <2> QED BY <1>2, <2>1, <2>2, TypeParts DEF Call, TypeOK, Info, Rest, info, worker, registry
<1>3. ASSUME RunHook PROVE TypeOK' /\ TestKnown'
  <2>1. Head(hooks) \in Hook /\ Tail(hooks) \in Seq(Hook) /\ hooks # <<>>
    BY <1>3 DEF RunHook, TypeOK
  <2>2. test \in Test
    BY <2>1 DEF TestKnown
  <2>3. Place'
    BY <1>3, <2>1 DEF RunHook, TypeOK, Place, Needed
  <2>4. Info' /\ Rest'
    BY <1>3 DEF RunHook, TypeOK, Info, Rest, worker, registry, history
  <2>5. TestKnown'
    BY <1>3, <2>1, <2>2, GroupAssumption DEF RunHook, TestKnown
  <2> QED BY <2>3, <2>4, <2>5, TypeParts
<1>4. ASSUME EnterSuite PROVE TypeOK' /\ TestKnown'
  <2>1. Head(suites) \in Suite /\ Tail(suites) \in Seq(Suite)
    BY <1>4 DEF EnterSuite, TypeOK
  <2>2. hooks' \in Seq(Hook)
    BY <1>4, <2>1, GroupAssumption DEF EnterSuite
  <2>3. Place' /\ Info' /\ Rest'
    BY <1>4, <2>1, <2>2 DEF EnterSuite, TypeOK, Place, Info, Rest, info, registry, history
  <2>4. TestKnown'
    BY <1>4 DEF EnterSuite, TestKnown
  <2> QED BY <2>3, <2>4, TypeParts
<1>5. ASSUME LeaveSuite PROVE TypeOK' /\ TestKnown'
  <2>1. Head(suites) \in Suite /\ Tail(suites) \in Seq(Suite)
    BY <1>5 DEF LeaveSuite, TypeOK
  <2>2. hooks' \in Seq(Hook)
    <3>1. hooks' = AfterAll[Head(suites)] \/ hooks' = hooks
      BY <1>5 DEF LeaveSuite
    <3>2. AfterAll[Head(suites)] \in Seq(Hook)
      BY <2>1, GroupAssumption
    <3> QED BY <3>1, <3>2 DEF TypeOK
  <2>3. Place' /\ Info' /\ Rest'
    BY <1>5, <2>1, <2>2 DEF LeaveSuite, TypeOK, Place, Info, Rest, info, registry, history
  <2>4. TestKnown'
    BY <1>5 DEF LeaveSuite, TestKnown
  <2> QED BY <2>3, <2>4, TypeParts
<1> QED BY <1>1, <1>2, <1>3, <1>4, <1>5

LEMMA AbortType ==
  ASSUME TypeOK, TestKnown, AbortRunning, UNCHANGED test, ~Closing
  PROVE  /\ Place' /\ TestKnown'
         /\ exhausted' \subseteq exhausted
         /\ inst' \in [Fixture -> {"none", "setup", "provided", "failed"}]
         /\ usages' \in [Fixture -> SUBSET Fixture]
<1>0. test \in Test
  BY DEF TestKnown, Closing
<1>1. CASE phase \in {"resolve", "call"} /\ FunctionOver("error") /\ UNCHANGED <<registry, exhausted>>
  BY <1>1, FunctionOverType, FunctionOverTest DEF TypeOK, registry
<1>2. CASE /\ phase = "clean"
           /\ Drop(cur) /\ exhausted' = exhausted \ {cur} /\ cur' = None /\ TearDownFails("timesOut")
           /\ UNCHANGED <<at, suites, hooks, phase, fn, need, threw>>
  BY <1>2, CurIsFixture, DropType DEF TearDownFails, TypeOK, Place, TestKnown
<1>3. CASE /\ at \in {"begin", "after"} /\ Go(IF at = "begin" THEN "after" ELSE "afterEach")
           /\ UNCHANGED <<registry, exhausted>>
  <2>1. PICK stage \in {"after", "afterEach"} : Go(stage)
    BY <1>3
  <2>2. Place'
    BY <1>0, <2>1, GoType DEF Stage
  <2>3. phase' # "resolve"
    BY <2>1 DEF Go
  <2> QED BY <1>0, <1>3, <2>2, <2>3 DEF TypeOK, TestKnown, registry
<1>4. CASE at \in {"folders", "end"} /\ UNCHANGED <<at, place, registry, exhausted>>
  BY <1>4 DEF TypeOK, Place, TestKnown, place, registry
<1> QED BY <1>1, <1>2, <1>3, <1>4 DEF AbortRunning

(* A stage of the same test, or one that needs no test.                      *)
LEMMA GoStage ==
  ASSUME TypeOK, NEW stage \in Stage, Go(stage), UNCHANGED test,
         \/ test \in Test
         \/ stage \in {"between", "done", "closeTest", "closeWorker", "closed"}
  PROVE  Place' /\ TestKnown'
<1>1. Place'
  BY GoType
<1>2. /\ at' = stage
      /\ stage # "params" => phase' # "resolve" /\ fn' = None
      /\ stage = "params" => fn' = test
      /\ stage \notin {"beforeEach", "afterEach"} => hooks' = <<>>
  BY DEF Go
<1>3. test \in Test => test # None
  BY GroupAssumption
<1> QED BY <1>1, <1>2, <1>3 DEF TestKnown

LEMMA TypeStages ==
  ASSUME TypeOK, TestKnown
  PROVE  /\ \A how \in Ending : TestFunctionFinished(how) => (TypeOK' /\ TestKnown')
         /\ BeginTest \/ TracingStarted \/ FoldersRemoved \/ BeforeAllDone \/ BeforeEachDone
              => (TypeOK' /\ TestKnown')
         /\ AfterEachDone \/ AfterAllDone \/ CleanAllDone \/ EndTest \/ GroupDone \/ Close
              => (TypeOK' /\ TestKnown')
         /\ Stop \/ UnhandledError => (TypeOK' /\ TestKnown')
<1> USE DEF Stage
<1>1. ASSUME NEW how \in Ending, TestFunctionFinished(how) PROVE TypeOK' /\ TestKnown'
  <2>1. test \in Test /\ Go("afterEach") /\ UNCHANGED test
    BY <1>1 DEF TestFunctionFinished, TestKnown
  <2>2. Place' /\ TestKnown'
    BY <2>1, GoStage
  <2>3. Info' /\ Rest'
    BY <1>1, CallbackEndsType DEF TestFunctionFinished, TypeOK, Rest, worker, registry, history
  <2> QED BY <2>2, <2>3, TypeParts
<1>2. ASSUME BeginTest PROVE TypeOK' /\ TestKnown'
  <2>1. test' \in Test /\ test' \in 0 .. LastTest
    BY <1>2, GroupAssumption DEF BeginTest, TypeOK, Test
  <2>2. Place' /\ Rest'
    BY <1>2, <2>1 DEF BeginTest, TypeOK, Place, Rest, place, worker, registry
  <2>3. expected' \in {"passed", "failed", "skipped"}
    BY <1>2, <2>1, GroupAssumption DEF BeginTest
  <2>4. Info'
    BY <1>2, <2>3 DEF BeginTest, TypeOK, Info
  <2>5. TestKnown'
    BY <1>2, <2>1 DEF BeginTest, TestKnown, place
  <2> QED BY <2>2, <2>4, <2>5, TypeParts
<1>3. ASSUME TracingStarted PROVE TypeOK' /\ TestKnown'
  <2>1. PICK stage \in {"after", "folders"} : Go(stage)
    BY <1>3 DEF TracingStarted
  <2>2. test \in Test /\ UNCHANGED test
    BY <1>3 DEF TracingStarted, TestKnown
  <2>3. Place' /\ TestKnown'
    BY <2>1, <2>2, GoStage
  <2>4. Info' /\ Rest'
    BY <1>3 DEF TracingStarted, TypeOK, Info, Rest, worker, registry, history
  <2> QED BY <2>3, <2>4, TypeParts
<1>4. ASSUME FoldersRemoved \/ BeforeAllDone \/ BeforeEachDone \/ AfterEachDone \/ CleanAllDone
             \/ EndTest \/ GroupDone
      PROVE  TypeOK' /\ TestKnown'
  <2>1. PICK stage \in Stage :
          /\ Go(stage)
          /\ stage \in {"between", "done"} \/ test \in Test
    <3>1. CASE FoldersRemoved BY <3>1 DEF FoldersRemoved, TestKnown
    <3>2. CASE BeforeAllDone BY <3>2 DEF BeforeAllDone, TestKnown
    <3>3. CASE BeforeEachDone BY <3>3 DEF BeforeEachDone, TestKnown
    <3>4. CASE AfterEachDone BY <3>4 DEF AfterEachDone, TestKnown
    <3>5. CASE CleanAllDone BY <3>5 DEF CleanAllDone, TestKnown
    <3>6. CASE EndTest BY <3>6 DEF EndTest
    <3>7. CASE GroupDone BY <3>7 DEF GroupDone
    <3> QED BY <1>4, <3>1, <3>2, <3>3, <3>4, <3>5, <3>6, <3>7
  <2>2. due' \in BOOLEAN /\ UNCHANGED <<test, info, worker, registry, history>>
    BY <1>4 DEF FoldersRemoved, BeforeAllDone, BeforeEachDone, AfterEachDone, CleanAllDone, EndTest,
                GroupDone, TypeOK
  <2>3. Place' /\ TestKnown'
    BY <2>1, <2>2, GoStage
  <2>4. Info' /\ Rest'
    BY <2>2 DEF TypeOK, Info, Rest, info, worker, registry, history
  <2> QED BY <2>3, <2>4, TypeParts
<1>5. ASSUME AfterAllDone PROVE TypeOK' /\ TestKnown'
  <2>1. PICK stage \in {"cleanTest", "end"} : Go(stage)
    BY <1>5 DEF AfterAllDone
  <2>2. test \in Test /\ UNCHANGED test
    BY <1>5 DEF AfterAllDone, TestKnown
  <2>3. Place' /\ TestKnown'
    BY <2>1, <2>2, GoStage
  <2>4. stopped' \in BOOLEAN /\ cleaned' \in BOOLEAN
    BY <1>5 DEF AfterAllDone
  <2>5. Info' /\ Rest'
    BY <1>5, <2>4 DEF AfterAllDone, TypeOK, Info, Rest, info, registry, history
  <2> QED BY <2>3, <2>5, TypeParts
<1>6. ASSUME Close PROVE TypeOK' /\ TestKnown'
  <2>1. Place' /\ TestKnown'
    BY <1>6, GoStage DEF Close
  <2>2. Info' /\ Rest'
    BY <1>6 DEF Close, TypeOK, Info, Rest, registry, history
  <2> QED BY <2>1, <2>2, TypeParts
<1>7. ASSUME Stop PROVE TypeOK' /\ TestKnown'
  <2>1. CASE at = "between" /\ UNCHANGED <<at, place, info, registry>>
    BY <1>7, <2>1 DEF Stop, TypeOK, TestKnown, place, info, registry, history
  <2>2. CASE Awaits /\ ~Closing /\ AbortRunning
    <3>1. Place' /\ TestKnown'
      BY <1>7, <2>2, AbortType DEF Stop
    <3>2. Info' /\ Rest'
      BY <1>7, <2>2, AbortType DEF Stop, TypeOK, Info, Rest, history, Closing
    <3> QED BY <3>1, <3>2, TypeParts
  <2> QED BY <1>7, <2>1, <2>2 DEF Stop
<1>8. ASSUME UnhandledError PROVE TypeOK' /\ TestKnown'
  <2>1. status' \in {"passed", "failed", "timedOut", "skipped", "interrupted"}
    BY <1>8 DEF UnhandledError, Failing, TypeOK
  <2>2. CASE UNCHANGED <<at, place, interrupted, exhausted, stopped, registry>>
    BY <1>8, <2>1, <2>2 DEF UnhandledError, TypeOK, TestKnown, place, registry, history
  <2>3. CASE stopped' = TRUE /\ interrupted' = TRUE /\ AbortRunning
    <3>1. Place' /\ TestKnown'
      BY <1>8, <2>3, AbortType DEF UnhandledError
    <3>2. Info' /\ Rest'
      BY <1>8, <2>1, <2>3, AbortType DEF UnhandledError, TypeOK, Info, Rest, history
    <3> QED BY <3>1, <3>2, TypeParts
  <2> QED BY <1>8, <2>2, <2>3 DEF UnhandledError
<1> QED BY <1>1, <1>2, <1>3, <1>4, <1>5, <1>6, <1>7, <1>8

LEMMA InitType ==
  ASSUME Init PROVE TypeOK /\ TestKnown
<1>1. test \in 0 .. LastTest
  BY GroupAssumption DEF Init
<1>2. suites \in Seq(Suite) /\ hooks \in Seq(Hook)
  BY DEF Init
<1>3. inst \in [Fixture -> {"none", "setup", "provided", "failed"}]
  BY DEF Init
<1>4. usages \in [Fixture -> SUBSET Fixture]
  BY DEF Init
<1> QED BY <1>1, <1>2, <1>3, <1>4 DEF Init, TypeOK, TestKnown, Stage

(* Every variable keeps its type, whatever happens.                          *)
THEOREM TypeCorrect == Spec => []TypeOK
<1>1. Init => TypeOK /\ TestKnown
  BY InitType
<1>2. TypeOK /\ TestKnown /\ [Next]_vars => TypeOK' /\ TestKnown'
  <2>1. ASSUME TypeOK, TestKnown, Next PROVE TypeOK' /\ TestKnown'
    BY <2>1, NextCases, TypeFixtures, TypeHooks, TypeStages
  <2>2. ASSUME TypeOK, TestKnown, UNCHANGED vars PROVE TypeOK' /\ TestKnown'
    BY <2>2 DEF vars, TypeOK, TestKnown, place, info, worker, registry, history
  <2> QED BY <2>1, <2>2
<1> QED BY <1>1, <1>2, PTL DEF Spec

(***************************************************************************)
(* Where the worker is, and what may be registered there.                  *)
(***************************************************************************)
AllStage == {"beforeAll", "afterAll", "cleanAll"}
EachStage == {"beforeEach", "afterEach"}
CleanStage == {"tearDown", "cleanTest", "closeTest", "cleanWorker", "closeWorker"}

(* A stage runs hooks of its kind only, and what is going on fits it.        *)
PlaceOK ==
  /\ phase = "idle" => fn = None /\ cur = None /\ at \notin CleanStage \cup {"params"}
  /\ phase = "resolve" => fn # None
  /\ phase = "call" => fn # None /\ cur = None
  /\ phase = "clean" => (fn = None /\ at \in CleanStage) \/ fn \in AllHook
  /\ fn # None => \/ fn \in AllHook /\ at \in AllStage
                  \/ fn \in Hook \ AllHook /\ at \in EachStage
                  \/ fn \in Test /\ at = "params"
  /\ at \in AllStage => \A i \in DOMAIN hooks : hooks[i] \in AllHook
  /\ at \in EachStage => \A i \in DOMAIN hooks : hooks[i] \notin AllHook
  /\ at \notin AllStage \cup EachStage => hooks = <<>>

(* What is torn down: all that is registered in the scope, but for what has  *)
(* already gone.  What is being set up is registered.                        *)
CleanScope == IF at \in {"cleanWorker", "closeWorker"} THEN "worker" ELSE "test"
LeftOK == /\ phase = "clean" => left = Registered(CleanScope) /\ (cur # None => cur \in left)
          /\ phase = "resolve" /\ cur # None => inst[cur] # "none"

(* What uses a fixture is registered and depends on it; both fall under the  *)
(* order of the teardown.                                                    *)
UsageOK ==
  /\ \A f, u \in Fixture : u \in usages[f] => inst[u] # "none" /\ f \in DependsOn(u)
  /\ FixtureIntegrity

(* Where no test fixture is registered.                                      *)
TestScopeOK ==
  \/ at \in {"between", "next", "begin", "folders", "end", "done", "cleanWorker", "closeWorker", "closed"}
  \/ at \in AllStage /\ phase = "idle"
  => Registered("test") = {}

(* Where no worker fixture is, and when the worker has cleaned up.           *)
WorkerScopeOK ==
  /\ cleaned => /\ stopped
                /\ at \in {"cleanTest", "cleanAll", "cleanWorker", "end", "between",
                          "done", "closeTest", "closeWorker", "closed"}
  /\ at \in {"cleanTest", "cleanAll", "cleanWorker"} => cleaned
  /\ \/ at = "closed"
     \/ cleaned /\ at \in {"end", "between", "done", "closeTest", "closeWorker"}
     => Registered("worker") = {}

(* A worker fixture goes only when nothing will be set up any more.          *)
MadeOK ==
  \A f \in Fixture : Scope[f] = "worker" /\ f \in made /\ inst[f] = "none" =>
    \/ at \in {"cleanWorker", "closeWorker", "closed"}
    \/ cleaned /\ at \in {"end", "between", "done", "closeTest"}

IInv == PlaceOK /\ LeftOK /\ UsageOK /\ TestScopeOK /\ WorkerScopeOK /\ MadeOK

(* A stage begins with nothing, its hooks, the test function, or a teardown. *)
LEMMA GoPlace ==
  ASSUME TypeOK, NEW stage \in Stage, Go(stage), UNCHANGED <<test, inst>>,
         stage \in {"beforeEach", "afterEach", "params"} => test \in Test
  PROVE  PlaceOK' /\ LeftOK' /\ cur' = None /\ at' = stage
                  /\ (phase' = "clean" <=> stage \in CleanStage)
<1>1. /\ stage = "params" => phase' = "resolve" /\ fn' = test
      /\ stage \in CleanStage => phase' = "clean" /\ fn' = None
      /\ stage \notin CleanStage \cup {"params"} => phase' = "idle" /\ fn' = None
      /\ cur' = None /\ at' = stage
  BY DEF Go, CleanStage
<1>2. /\ stage \notin EachStage => hooks' = <<>>
      /\ stage \in EachStage => hooks' \in {<<>>, BeforeEach[test], AfterEach[test]}
  BY DEF Go, EachStage
<1>3. stage \in EachStage => \A i \in DOMAIN hooks' : hooks'[i] \notin AllHook
  <2> SUFFICES ASSUME stage \in EachStage, NEW i \in DOMAIN hooks'
               PROVE  hooks'[i] \notin AllHook
    OBVIOUS
  <2>1. test \in Test
    BY DEF EachStage
  <2>2. CASE hooks' = <<>>
    BY <2>2
  <2>3. CASE hooks' = BeforeEach[test]
    BY <2>1, <2>3, GroupAssumption
  <2>4. CASE hooks' = AfterEach[test]
    BY <2>1, <2>4, GroupAssumption
  <2> QED BY <1>2, <2>2, <2>3, <2>4
<1>4. stage = "params" => fn' \in Test /\ fn' # None
  BY <1>1, GroupAssumption
<1>5. PlaceOK'
  BY <1>1, <1>2, <1>3, <1>4 DEF PlaceOK, CleanStage, AllStage, EachStage
<1>6. stage \in CleanStage => left' = Registered(IF stage \in {"cleanWorker", "closeWorker"} THEN "worker" ELSE "test")
  BY DEF Go, CleanStage
<1>7. LeftOK'
  BY <1>1, <1>6 DEF LeftOK, CleanScope, Registered
<1> QED BY <1>1, <1>5, <1>7

(* The end of a function.                                                    *)
LEMMA FunctionOverPlace ==
  ASSUME TypeOK, PlaceOK, NEW how, FunctionOver(how), UNCHANGED test,
         \A f \in Fixture : inst'[f] = "none" <=> inst[f] = "none"
  PROVE  /\ PlaceOK' /\ LeftOK' /\ cur' = None
         /\ \/ at = "params" /\ at' = "after" /\ phase' = "idle"
            \/ at \in AllStage /\ at' = at /\ phase' = "clean"
            \/ at \in EachStage /\ at' = at /\ phase' = "idle"
<1>0. \A s : Registered(s)' = Registered(s)
  BY DEF Registered
<1>1. CASE fn \in Test /\ Go("after")
  <2>1. at = "params"
    BY <1>1, GroupAssumption, AllHookIsHook DEF PlaceOK
  <2>2. /\ at' = "after" /\ phase' = "idle" /\ fn' = None /\ cur' = None /\ hooks' = <<>>
    BY <1>1 DEF Go
  <2> QED BY <2>1, <2>2 DEF PlaceOK, LeftOK, AllStage, EachStage, CleanStage
<1>2. CASE /\ fn \in AllHook
           /\ phase' = "clean" /\ left' = Registered("test") /\ error' = how
           /\ need' = {} /\ cur' = None
           /\ UNCHANGED <<at, suites, hooks, fn, threw>>
  <2>1. at \in AllStage
    BY <1>2, GroupAssumption, AllHookIsHook DEF PlaceOK
  <2>2. PlaceOK'
    BY <1>2, <2>1 DEF PlaceOK, AllStage, EachStage, CleanStage
  <2>3. LeftOK'
    BY <1>0, <1>2, <2>1 DEF LeftOK, CleanScope, AllStage
  <2> QED BY <1>2, <2>1, <2>2, <2>3
<1>3. CASE /\ fn \in Hook \ AllHook
           /\ phase' = "idle" /\ fn' = None /\ need' = {} /\ cur' = None
           /\ threw' = (threw \/ how # "none")
           /\ hooks' = IF how = "skip" THEN <<>> ELSE hooks
           /\ UNCHANGED <<at, suites, left, error>>
  <2>1. at \in EachStage
    BY <1>3, GroupAssumption DEF PlaceOK
  <2>2. \A i \in DOMAIN hooks' : hooks'[i] \notin AllHook
    BY <1>3, <2>1 DEF PlaceOK
  <2>3. PlaceOK'
    BY <1>3, <2>1, <2>2 DEF PlaceOK, AllStage, EachStage, CleanStage
  <2> QED BY <1>3, <2>1, <2>3 DEF LeftOK
<1> QED BY <1>1, <1>2, <1>3 DEF FunctionOver

(* Within a stage the registry only changes by what is set up and torn down. *)
LEMMA InnerStep ==
  ASSUME TypeOK, IInv, UNCHANGED <<at, cleaned, made>>, stopped => stopped',
         \A f \in Fixture : inst'[f] = "none" <=> inst[f] = "none",
         at \in AllStage /\ phase' = "idle" => Registered("test") = {}
  PROVE  TestScopeOK' /\ WorkerScopeOK' /\ MadeOK'
<1>1. \A s : Registered(s)' = Registered(s)
  BY DEF Registered
<1> QED BY <1>1 DEF IInv, TestScopeOK, WorkerScopeOK, MadeOK, AllStage

LEMMA UsageSame ==
  ASSUME UsageOK, UNCHANGED usages, phase' = "clean" => cur' = None,
         \A f \in Fixture : inst'[f] = "none" <=> inst[f] = "none"
  PROVE  UsageOK'
BY DEF UsageOK, FixtureIntegrity

LEMMA FunctionOverInv ==
  ASSUME TypeOK, IInv, NEW how, FunctionOver(how), phase \in {"resolve", "call"},
         UNCHANGED <<test, cleaned, usages, made>>, stopped => stopped',
         \A f \in Fixture : inst'[f] = "none" <=> inst[f] = "none"
  PROVE  IInv'
<1>1. PlaceOK' /\ LeftOK' /\ cur' = None
  BY FunctionOverPlace DEF IInv
<1>2. UsageOK'
  BY <1>1, UsageSame DEF IInv
<1>3. ASSUME at = "params" /\ at' = "after" /\ phase' = "idle"
      PROVE  TestScopeOK' /\ WorkerScopeOK' /\ MadeOK'
  BY <1>3 DEF IInv, TestScopeOK, WorkerScopeOK, MadeOK, AllStage
<1>4. ASSUME at' = at /\ (at \in AllStage => phase' # "idle")
      PROVE  TestScopeOK' /\ WorkerScopeOK' /\ MadeOK'
  BY <1>4, InnerStep DEF IInv
<1>5. \/ at = "params" /\ at' = "after" /\ phase' = "idle"
      \/ at' = at /\ (at \in AllStage => phase' # "idle")
  BY FunctionOverPlace DEF IInv, AllStage, EachStage
<1>6. TestScopeOK' /\ WorkerScopeOK' /\ MadeOK'
  BY <1>3, <1>4, <1>5, InnerStep DEF IInv
<1> QED BY <1>1, <1>2, <1>6 DEF IInv

LEMMA SameInv ==
  ASSUME TypeOK, IInv, stopped => stopped',
         UNCHANGED <<at, cleaned, made, inst, usages, hooks, phase, fn, left, cur>>
  PROVE  IInv'
<1>1. PlaceOK' BY DEF IInv, PlaceOK
<1>2. LeftOK' BY DEF IInv, LeftOK, CleanScope, Registered
<1>3. UsageOK' BY DEF IInv, UsageOK, FixtureIntegrity
<1>4. TestScopeOK' /\ WorkerScopeOK' /\ MadeOK'
  BY InnerStep DEF IInv, TestScopeOK
<1> QED BY <1>1, <1>2, <1>3, <1>4 DEF IInv

LEMMA InvSetUp ==
  ASSUME TypeOK, IInv, NEW f \in Fixture, SetUp(f) PROVE IInv'
<1>1. /\ phase = "resolve" /\ cur = None
      /\ UNCHANGED <<test, at, due, status, stopped, cleaned, suites, hooks, phase, fn, left>>
  BY DEF SetUp, info, worker
<1>2. fn # None /\ at \in AllStage \cup EachStage \cup {"params"}
  BY <1>1 DEF IInv, PlaceOK
<1>3. PlaceOK' /\ LeftOK'
  <2>1. PlaceOK'
    BY <1>1, <1>2 DEF IInv, PlaceOK
  <2>2. cur' = None \/ (cur' = f /\ inst'[f] = "setup")
    BY <1>1, GroupAssumption DEF SetUp, TypeOK
  <2> QED BY <1>1, <2>1, <2>2 DEF LeftOK
<1>4. \A g \in Fixture : inst[g] # "none" => inst'[g] # "none"
  BY DEF SetUp, registry, TypeOK
<1>5. UsageOK'
  <2>1. CASE inst[f] # "none"
    BY <1>1, <2>1 DEF IInv, UsageOK, FixtureIntegrity, SetUp, registry
  <2>2. CASE inst[f] = "none"
    <3>1. /\ usages' = [d \in Fixture |-> IF d = f THEN {}
                                          ELSE IF d \in UsedBy(f) THEN usages[d] \cup {f}
                                          ELSE usages[d]]
          /\ \A g \in Fixture : inst'[g] = "none" => inst[g] = "none" /\ g # f
      BY <2>2 DEF SetUp, TypeOK
    <3>2. UsedBy(f) \subseteq DependsOn(f) /\ \A g \in UsedBy(f) : inst[g] # "none"
      BY DEF UsedBy, DependsOn
    <3>3. ASSUME NEW g \in Fixture, NEW u \in Fixture, u \in usages'[g]
          PROVE  inst'[u] # "none" /\ g \in DependsOn(u)
      BY <1>4, <3>1, <3>2, <3>3 DEF IInv, UsageOK
    <3>4. ASSUME NEW g \in Fixture, inst'[g] = "none" PROVE usages'[g] = {}
      BY <3>1, <3>2, <3>4 DEF IInv, UsageOK, FixtureIntegrity
    <3> QED BY <1>1, <3>3, <3>4 DEF UsageOK, FixtureIntegrity
  <2> QED BY <2>1, <2>2
<1>6. TestScopeOK'
  BY <1>1, <1>2 DEF TestScopeOK, AllStage, EachStage
<1>7. WorkerScopeOK'
  BY <1>1, <1>2 DEF IInv, WorkerScopeOK, AllStage, EachStage
<1>8. MadeOK'
  <2>1. \A g \in Fixture : g \in made' /\ inst'[g] = "none" => g \in made /\ inst[g] = "none"
    BY <1>4 DEF SetUp, TypeOK
  <2> QED BY <1>1, <2>1 DEF IInv, MadeOK
<1> QED BY <1>3, <1>5, <1>6, <1>7, <1>8 DEF IInv

LEMMA InvLate ==
  ASSUME TypeOK, IInv, NEW f \in Fixture, LateSetUp(f) PROVE IInv'
<1>1. /\ UNCHANGED <<test, at, due, usages, made, stopped, cleaned, suites, hooks, phase, fn, left, cur>>
      /\ \A g \in Fixture : inst'[g] = "none" <=> inst[g] = "none"
  BY DEF LateSetUp, TypeOK, place, worker, history
<1>2. PlaceOK' BY <1>1 DEF IInv, PlaceOK
<1>3. LeftOK'
  <2>1. CleanScope' = CleanScope /\ Registered(CleanScope)' = Registered(CleanScope)
    BY <1>1 DEF CleanScope, Registered
  <2> QED BY <1>1, <2>1 DEF IInv, LeftOK, TypeOK
<1>4. UsageOK' BY <1>1 DEF IInv, UsageOK, FixtureIntegrity
<1>5. TestScopeOK' /\ WorkerScopeOK' /\ MadeOK'
  BY <1>1, InnerStep DEF IInv, TestScopeOK
<1> QED BY <1>2, <1>3, <1>4, <1>5 DEF IInv

LEMMA InvSetUpEnds ==
  ASSUME TypeOK, IInv, NEW how \in Ending, SetUpEnds(how) PROVE IInv'
<1>1. /\ UNCHANGED <<test, due, stopped, cleaned, usages, made>>
      /\ phase = "resolve" /\ cur \in Fixture /\ inst[cur] \in {"none", "setup", "provided", "failed"}
  BY DEF SetUpEnds, TypeOK, history
<1>2. \A g \in Fixture : inst'[g] = "none" <=> inst[g] = "none"
  <2>1. inst[cur] # "none"
    BY <1>1, GroupAssumption DEF IInv, LeftOK
  <2>2. \/ inst' = [inst EXCEPT ![cur] = "provided"] \/ inst' = [inst EXCEPT ![cur] = "failed"]
        \/ inst' = inst
    BY DEF SetUpEnds, Ending
  <2> QED BY <1>1, <2>1, <2>2 DEF TypeOK
<1>3. CASE cur' = None /\ UNCHANGED <<at, suites, hooks, phase, fn, need, left, error, threw>>
  <2>1. PlaceOK' /\ LeftOK'
    BY <1>1, <1>3 DEF IInv, PlaceOK, LeftOK
  <2>2. UsageOK'
    BY <1>1, <1>2, <1>3, UsageSame DEF IInv
  <2>3. TestScopeOK' /\ WorkerScopeOK' /\ MadeOK'
    BY <1>1, <1>2, <1>3, InnerStep
  <2> QED BY <2>1, <2>2, <2>3 DEF IInv
<1>4. CASE FunctionOver(ErrorOf(how))
  BY <1>1, <1>2, <1>4, FunctionOverInv
<1> QED BY <1>3, <1>4 DEF SetUpEnds

LEMMA InvCallEnds ==
  ASSUME TypeOK, IInv, NEW how \in Ending, CallEnds(how) PROVE IInv'
<1>1. FunctionOver(ErrorOf(how)) /\ UNCHANGED <<test, stopped, cleaned, inst, usages, made>>
  BY DEF CallEnds, registry, history
<1>2. phase \in {"resolve", "call"}
  BY DEF CallEnds
<1> QED BY <1>1, <1>2, FunctionOverInv

LEMMA InvCall ==
  ASSUME TypeOK, IInv, Call PROVE IInv'
<1>1. UNCHANGED <<test, stopped, cleaned, inst, usages, made>> /\ phase = "resolve" /\ cur = None
  BY DEF Call, worker, registry
<1>2. CASE FunctionOver("none")
  BY <1>1, <1>2, FunctionOverInv
<1>3. CASE /\ phase' = "call"
           /\ UNCHANGED <<at, suites, hooks, fn, need, left, cur, error, threw>>
  <2>1. PlaceOK' /\ LeftOK'
    BY <1>1, <1>3 DEF IInv, PlaceOK, LeftOK
  <2>2. UsageOK'
    BY <1>1, <1>3, UsageSame DEF IInv
  <2>3. TestScopeOK' /\ WorkerScopeOK' /\ MadeOK'
    BY <1>1, <1>3, InnerStep
  <2> QED BY <2>1, <2>2, <2>3 DEF IInv
<1> QED BY <1>2, <1>3 DEF Call

(* A fixture goes, after all that uses it.                                   *)
LEMMA DropInv ==
  ASSUME TypeOK, IInv, phase = "clean", NEW f \in left, Drop(f), usages[f] = {}, cur' = None,
         UNCHANGED <<test, at, cleaned, made, hooks, phase, fn>>, stopped => stopped'
  PROVE  IInv'
<1>1. /\ left' = left \ {f} /\ f \in Fixture
      /\ \A g \in Fixture : inst'[g] = "none" <=> inst[g] = "none" \/ g = f
      /\ \A g \in Fixture : usages'[g] = usages[g] \ {f}
  BY DEF Drop, TypeOK
<1>2. PlaceOK'
  BY <1>1 DEF IInv, PlaceOK
<1>3. Registered(CleanScope)' = Registered(CleanScope) \ {f}
  BY <1>1 DEF CleanScope, Registered
<1>4. LeftOK'
  BY <1>1, <1>3 DEF IInv, LeftOK
<1>5. UsageOK'
  BY <1>1 DEF IInv, UsageOK, FixtureIntegrity
<1>6. Scope[f] = CleanScope
  BY <1>1 DEF IInv, LeftOK, Registered
<1>7. TestScopeOK'
  BY <1>1 DEF IInv, TestScopeOK, Registered
<1>8. WorkerScopeOK'
  BY <1>1 DEF IInv, WorkerScopeOK, Registered
<1>9. MadeOK'
  <2>1. Scope[f] = "worker" => at \in {"cleanWorker", "closeWorker"}
    BY <1>6 DEF CleanScope
  <2> QED BY <1>1, <2>1 DEF IInv, MadeOK
<1> QED BY <1>2, <1>4, <1>5, <1>7, <1>8, <1>9 DEF IInv

LEMMA InvTearDown ==
  ASSUME TypeOK, IInv, NEW f \in Fixture, TearDown(f) PROVE IInv'
<1>1. /\ phase = "clean" /\ cur = None /\ f \in left /\ usages[f] \cap left = {}
      /\ UNCHANGED <<test, at, stopped, cleaned, made, hooks, phase, fn>>
  BY DEF TearDown, Removable, worker, history
<1>2. usages[f] = {}
  <2>1. left = Registered(CleanScope) /\ Scope[f] = CleanScope
    BY <1>1 DEF IInv, LeftOK, Registered
  <2>2. ASSUME NEW u \in usages[f] PROVE FALSE
    <3>1. u \in Fixture /\ inst[u] # "none" /\ f \in DependsOn(u)
      BY <2>2 DEF IInv, UsageOK, TypeOK
    <3>2. Scope[u] = "worker" => Scope[f] = "worker"
      BY <3>1, FixtureAssumption DEF DependsOn
    <3>3. CleanScope = "worker" => Registered("test") = {}
      BY DEF CleanScope, IInv, TestScopeOK
    <3>4. Scope[u] \in {"test", "worker"} /\ CleanScope \in {"test", "worker"}
      BY <3>1, FixtureAssumption DEF CleanScope
    <3>5. u \in left
      BY <2>1, <3>1, <3>2, <3>3, <3>4 DEF Registered
    <3> QED BY <1>1, <2>2, <3>5
  <2> QED BY <2>2
<1>3. CASE cur' = f /\ UNCHANGED <<left, registry, exhausted>>
  <2>1. PlaceOK' /\ LeftOK'
    BY <1>1, <1>3 DEF IInv, PlaceOK, LeftOK, CleanScope, Registered, registry
  <2>2. UsageOK'
    BY <1>1, <1>2, <1>3 DEF IInv, UsageOK, FixtureIntegrity, registry
  <2>3. TestScopeOK' /\ WorkerScopeOK' /\ MadeOK'
    BY <1>1, <1>3, InnerStep DEF registry
  <2> QED BY <2>1, <2>2, <2>3 DEF IInv
<1>4. CASE Drop(f) /\ UNCHANGED cur
  BY <1>1, <1>2, <1>4, DropInv
<1> QED BY <1>3, <1>4 DEF TearDown

LEMMA InvTearDownEnds ==
  ASSUME TypeOK, IInv, NEW how \in Ending, TearDownEnds(how) PROVE IInv'
<1>1. /\ phase = "clean" /\ cur # None /\ Drop(cur) /\ cur' = None
      /\ UNCHANGED <<test, at, stopped, cleaned, made, hooks, phase, fn>>
  BY DEF TearDownEnds, worker, history
<1>2. cur \in left /\ usages[cur] = {}
  BY <1>1 DEF IInv, LeftOK, UsageOK, FixtureIntegrity
<1> QED BY <1>1, <1>2, DropInv

LEMMA InvRunHook ==
  ASSUME TypeOK, IInv, RunHook PROVE IInv'
<1>1. /\ phase = "idle" /\ hooks # <<>> /\ hooks' = Tail(hooks) /\ hooks \in Seq(Hook)
      /\ UNCHANGED <<test, at, stopped, cleaned, made, inst, usages, left, cur>>
  BY DEF RunHook, worker, registry, history, TypeOK
<1>2. /\ Head(hooks) \in Hook /\ Head(hooks) = hooks[1] /\ 1 \in DOMAIN hooks
      /\ \A i \in DOMAIN Tail(hooks) : i + 1 \in DOMAIN hooks /\ Tail(hooks)[i] = hooks[i + 1]
  BY <1>1
<1>3. /\ cur = None /\ at \in AllStage \cup EachStage
      /\ at \in AllStage => Head(hooks) \in AllHook
      /\ at \in EachStage => Head(hooks) \notin AllHook
  BY <1>1, <1>2 DEF IInv, PlaceOK
<1>4. \/ phase' = "resolve" /\ fn' = Head(hooks)
      \/ UNCHANGED <<phase, fn>>
  BY DEF RunHook
<1>5. /\ at \in AllStage => \A i \in DOMAIN hooks' : hooks'[i] \in AllHook
      /\ at \in EachStage => \A i \in DOMAIN hooks' : hooks'[i] \notin AllHook
  BY <1>1, <1>2 DEF IInv, PlaceOK
<1>6. PlaceOK'
  BY <1>1, <1>2, <1>3, <1>4, <1>5, GroupAssumption DEF IInv, PlaceOK
<1>7. LeftOK'
  BY <1>1, <1>3, <1>4 DEF LeftOK
<1>8. UsageOK'
  BY <1>1, <1>3, UsageSame DEF IInv
<1>9. TestScopeOK' /\ WorkerScopeOK' /\ MadeOK'
  BY <1>1, InnerStep DEF IInv, TestScopeOK
<1> QED BY <1>6, <1>7, <1>8, <1>9 DEF IInv

LEMMA InvSuites ==
  ASSUME TypeOK, IInv, EnterSuite \/ LeaveSuite PROVE IInv'
<1>1. /\ phase = "idle" /\ hooks = <<>> /\ suites # <<>> /\ at \in AllStage
      /\ UNCHANGED <<test, at, stopped, cleaned, made, inst, usages, left, cur, phase, fn>>
  BY DEF EnterSuite, LeaveSuite, registry, history, AllStage
<1>2. Head(suites) \in Suite
  BY <1>1 DEF TypeOK
<1>3. \A i \in DOMAIN hooks' : hooks'[i] \in AllHook
  <2>1. hooks' \in {<<>>, BeforeAll[Head(suites)], AfterAll[Head(suites)]}
    BY <1>1 DEF EnterSuite, LeaveSuite
  <2>2. /\ BeforeAll[Head(suites)] \in Seq(Hook) /\ AfterAll[Head(suites)] \in Seq(Hook)
    BY <1>2, GroupAssumption
  <2>3. \A i \in DOMAIN BeforeAll[Head(suites)] : BeforeAll[Head(suites)][i] \in AllHook
    BY <1>2, <2>2 DEF AllHook
  <2>4. \A i \in DOMAIN AfterAll[Head(suites)] : AfterAll[Head(suites)][i] \in AllHook
    BY <1>2, <2>2 DEF AllHook
  <2> QED BY <2>1, <2>3, <2>4
<1>4. PlaceOK'
  BY <1>1, <1>3 DEF IInv, PlaceOK, AllStage, EachStage
<1>5. LeftOK'
  BY <1>1 DEF LeftOK
<1>6. UsageOK'
  BY <1>1, UsageSame DEF IInv
<1>7. TestScopeOK' /\ WorkerScopeOK' /\ MadeOK'
  BY <1>1, InnerStep DEF IInv, TestScopeOK
<1> QED BY <1>4, <1>5, <1>6, <1>7 DEF IInv

(* A stage is left for the next.                                             *)
LEMMA GoInv ==
  ASSUME TypeOK, IInv, NEW stage \in Stage, Go(stage), UNCHANGED <<test, inst, usages, made>>,
         stage \in {"beforeEach", "afterEach", "params"} => test \in Test,
         (TestScopeOK /\ WorkerScopeOK /\ MadeOK)'
  PROVE  IInv'
<1>1. PlaceOK' /\ LeftOK' /\ cur' = None
  BY GoPlace
<1>2. UsageOK'
  BY <1>1, UsageSame DEF IInv
<1> QED BY <1>1, <1>2 DEF IInv

LEMMA RegisteredSame ==
  ASSUME UNCHANGED inst PROVE \A s : Registered(s)' = Registered(s)
BY DEF Registered

LEMMA InvCleaned ==
  ASSUME TypeOK, TestKnown, IInv, Cleaned PROVE IInv'
<1>1. /\ phase = "clean" /\ cur = None /\ Registered(CleanScope) = {}
      /\ UNCHANGED <<test, stopped, cleaned, made, inst, usages>>
  BY DEF Cleaned, worker, registry, history, IInv, LeftOK
<1>2. CASE fn # None
  <2>1. /\ phase' = "idle" /\ fn' = None /\ UNCHANGED <<at, left, cur>>
        /\ hooks' = <<>> \/ hooks' = hooks
    BY <1>2 DEF Cleaned
  <2>2. fn \in AllHook /\ at \in AllStage
    BY <1>1, <1>2, GroupAssumption, AllHookIsHook DEF IInv, PlaceOK
  <2>3. \A i \in DOMAIN hooks' : hooks'[i] \in AllHook
    BY <2>1, <2>2 DEF IInv, PlaceOK
  <2>4. PlaceOK' /\ LeftOK'
    BY <1>1, <2>1, <2>2, <2>3 DEF PlaceOK, LeftOK, AllStage, EachStage, CleanStage
  <2>5. UsageOK'
    BY <1>1, <2>1, UsageSame DEF IInv
  <2>6. Registered("test") = {}
    BY <1>1, <2>2 DEF CleanScope, AllStage
  <2>7. TestScopeOK' /\ WorkerScopeOK' /\ MadeOK'
    BY <1>1, <2>1, <2>6, InnerStep
  <2> QED BY <2>4, <2>5, <2>7 DEF IInv
<1>3. CASE fn = None
  <2>1. Go(AfterCleaning) /\ at' = AfterCleaning /\ at \in CleanStage
    BY <1>1, <1>3, GroupAssumption, AllHookIsHook DEF Cleaned, Go, IInv, PlaceOK
  <2>2. \/ at = "tearDown" /\ AfterCleaning = "afterAll" /\ Registered("test") = {}
        \/ at = "cleanTest" /\ AfterCleaning = "cleanAll" /\ Registered("test") = {}
        \/ at = "cleanWorker" /\ AfterCleaning = "end" /\ Registered("worker") = {}
        \/ at = "closeTest" /\ AfterCleaning = "closeWorker" /\ Registered("test") = {}
        \/ at = "closeWorker" /\ AfterCleaning = "closed" /\ Registered("worker") = {}
    BY <1>1, <2>1 DEF AfterCleaning, CleanScope, CleanStage
  <2>3. TestScopeOK'
    BY <1>1, <2>1, <2>2, RegisteredSame DEF IInv, TestScopeOK
  <2>4. WorkerScopeOK'
    BY <1>1, <2>1, <2>2, RegisteredSame DEF IInv, WorkerScopeOK
  <2>5. MadeOK'
    BY <1>1, <2>1, <2>2 DEF IInv, MadeOK, WorkerScopeOK
  <2>6. AfterCleaning \in Stage \ {"beforeEach", "afterEach", "params"}
    BY <2>2 DEF Stage
  <2> QED BY <1>1, <2>1, <2>3, <2>4, <2>5, <2>6, GoInv
<1> QED BY <1>2, <1>3

LEMMA InvStages ==
  ASSUME TypeOK, TestKnown, IInv
  PROVE  /\ BeginTest => IInv'
         /\ \A how \in Ending : TestFunctionFinished(how) => IInv'
         /\ TracingStarted \/ FoldersRemoved \/ BeforeAllDone \/ BeforeEachDone => IInv'
         /\ AfterEachDone \/ AfterAllDone \/ CleanAllDone \/ EndTest \/ GroupDone \/ Close => IInv'
<1> USE DEF Stage
<1>1. ASSUME BeginTest PROVE IInv'
  <2>1. /\ UNCHANGED <<stopped, cleaned, made, inst, usages, hooks, phase, fn, left, cur>>
        /\ at \in {"between", "next"} /\ at' \in {"next", "begin"} /\ ~(stopped /\ cleaned)
    BY <1>1 DEF BeginTest, place, worker, registry
  <2>2. ~cleaned
    BY <2>1 DEF IInv, WorkerScopeOK
  <2>3. phase = "idle"
    BY <2>1, GroupAssumption, AllHookIsHook
       DEF IInv, PlaceOK, AllStage, EachStage, CleanStage, TypeOK
  <2>4. PlaceOK' /\ LeftOK'
    BY <2>1, <2>3 DEF IInv, PlaceOK, LeftOK, AllStage, EachStage, CleanStage
  <2>5. UsageOK'
    BY <2>1, <2>3, UsageSame DEF IInv
  <2>6. TestScopeOK' /\ WorkerScopeOK' /\ MadeOK'
    BY <2>1, <2>2, RegisteredSame DEF IInv, TestScopeOK, WorkerScopeOK, MadeOK, AllStage
  <2> QED BY <2>4, <2>5, <2>6 DEF IInv
<1>2. ASSUME NEW how \in Ending, TestFunctionFinished(how) PROVE IInv'
  <2>1. /\ Go("afterEach") /\ at = "after" /\ at' = "afterEach" /\ test \in Test
        /\ UNCHANGED <<test, stopped, cleaned, made, inst, usages>>
    BY <1>2 DEF TestFunctionFinished, Go, worker, registry, history, TestKnown
  <2>2. (TestScopeOK /\ WorkerScopeOK /\ MadeOK)'
    BY <2>1 DEF IInv, TestScopeOK, WorkerScopeOK, MadeOK, AllStage
  <2> QED BY <2>1, <2>2, GoInv
<1>3. ASSUME TracingStarted \/ FoldersRemoved \/ BeforeAllDone \/ BeforeEachDone \/ AfterEachDone
      PROVE  IInv'
  <2>1. UNCHANGED <<test, stopped, cleaned, made, inst, usages>>
    BY <1>3 DEF TracingStarted, FoldersRemoved, BeforeAllDone, BeforeEachDone, AfterEachDone,
                worker, registry, history
  <2>2. PICK stage \in {"after", "folders", "beforeAll", "beforeEach", "params", "tearDown"} :
          /\ Go(stage)
          /\ at \in {"begin", "folders", "beforeAll", "beforeEach", "afterEach"}
          /\ stage \in {"folders", "beforeAll"} => at \in {"begin", "folders"}
    BY <1>3 DEF TracingStarted, FoldersRemoved, BeforeAllDone, BeforeEachDone, AfterEachDone
  <2>3. at' = stage /\ test \in Test
    BY <2>2 DEF Go, TestKnown
  <2>4. TestScopeOK'
    BY <2>1, <2>2, <2>3, RegisteredSame DEF IInv, TestScopeOK, AllStage
  <2>5. WorkerScopeOK' /\ MadeOK'
    BY <2>1, <2>2, <2>3 DEF IInv, WorkerScopeOK, MadeOK
  <2> QED BY <2>1, <2>2, <2>3, <2>4, <2>5, GoInv
<1>4. ASSUME AfterAllDone PROVE IInv'
  <2>1. /\ UNCHANGED <<test, made, inst, usages>>
        /\ at = "afterAll" /\ phase = "idle" /\ ~cleaned
    BY <1>4 DEF AfterAllDone, registry, history, IInv, WorkerScopeOK
  <2>2. /\ stopped' => Go("cleanTest") /\ cleaned'
        /\ ~stopped' => Go("end") /\ ~cleaned'
    BY <1>4, <2>1 DEF AfterAllDone
  <2>3. PICK stage \in {"cleanTest", "end"} :
          Go(stage) /\ at' = stage /\ (stopped' <=> stage = "cleanTest") /\ (cleaned' <=> stopped')
    <3>1. CASE stopped' BY <2>2, <3>1 DEF Go
    <3>2. CASE ~stopped' BY <2>2, <3>2 DEF Go
    <3> QED BY <3>1, <3>2
  <2>4. TestScopeOK'
    BY <2>1, <2>3, RegisteredSame DEF IInv, TestScopeOK, AllStage
  <2>5. WorkerScopeOK' /\ MadeOK'
    BY <2>1, <2>3 DEF IInv, WorkerScopeOK, MadeOK
  <2> QED BY <2>1, <2>3, <2>4, <2>5, GoInv
<1>5. ASSUME CleanAllDone \/ EndTest \/ GroupDone \/ Close PROVE IInv'
  <2>1. UNCHANGED <<test, cleaned, made, inst, usages>> /\ (stopped => stopped')
    BY <1>5 DEF CleanAllDone, EndTest, GroupDone, Close, worker, registry, history, TypeOK
  <2>2. PICK stage \in {"cleanWorker", "between", "done", "closeTest"} :
          /\ Go(stage) /\ at' = stage
          /\ stage = "cleanWorker" => at = "cleanAll" /\ phase = "idle"
          /\ stage = "between" => at = "end"
          /\ stage = "done" => at \in {"between", "next"}
          /\ stage = "closeTest" => at = "done"
    BY <1>5 DEF CleanAllDone, EndTest, GroupDone, Close, Go
  <2>3. TestScopeOK'
    BY <2>1, <2>2, RegisteredSame DEF IInv, TestScopeOK, AllStage
  <2>4. WorkerScopeOK' /\ MadeOK'
    BY <2>1, <2>2, RegisteredSame DEF IInv, WorkerScopeOK, MadeOK
  <2> QED BY <2>1, <2>2, <2>3, <2>4, GoInv
<1> QED BY <1>1, <1>2, <1>3, <1>4, <1>5

LEMMA InvAbort ==
  ASSUME TypeOK, TestKnown, IInv, AbortRunning, Awaits, ~Closing,
         UNCHANGED <<test, cleaned, made>>, stopped => stopped'
  PROVE  IInv'
<1>0. test \in Test
  BY DEF TestKnown, Closing
<1>1. CASE phase \in {"resolve", "call"} /\ FunctionOver("error") /\ UNCHANGED <<registry, exhausted>>
  BY <1>1, FunctionOverInv DEF registry
<1>2. CASE /\ phase = "clean"
           /\ Drop(cur) /\ exhausted' = exhausted \ {cur} /\ cur' = None /\ TearDownFails("timesOut")
           /\ UNCHANGED <<at, suites, hooks, phase, fn, need, threw>>
  <2>1. cur # None
    BY <1>2, GroupAssumption, AllHookIsHook DEF Awaits, IInv, PlaceOK, AllStage, CleanStage
  <2>2. cur \in left /\ usages[cur] = {}
    BY <1>2, <2>1 DEF IInv, LeftOK, UsageOK, FixtureIntegrity
  <2> QED BY <1>2, <2>2, DropInv
<1>3. CASE /\ at \in {"begin", "after"} /\ Go(IF at = "begin" THEN "after" ELSE "afterEach")
           /\ UNCHANGED <<registry, exhausted>>
  <2>1. PICK stage \in {"after", "afterEach"} : Go(stage) /\ at' = stage
    BY <1>3 DEF Go
  <2>2. (TestScopeOK /\ WorkerScopeOK /\ MadeOK)'
    BY <1>3, <2>1 DEF IInv, TestScopeOK, WorkerScopeOK, MadeOK, AllStage, registry
  <2> QED BY <1>0, <1>3, <2>1, <2>2, GoInv DEF Stage, registry
<1>4. CASE at \in {"folders", "end"} /\ UNCHANGED <<at, place, registry, exhausted>>
  BY <1>4, SameInv DEF place, registry
<1> QED BY <1>1, <1>2, <1>3, <1>4 DEF AbortRunning

LEMMA InvStops ==
  ASSUME TypeOK, TestKnown, IInv, Stop \/ UnhandledError PROVE IInv'
<1>1. UNCHANGED <<test, cleaned, made>> /\ (stopped => stopped')
  BY DEF Stop, UnhandledError, history
<1>2. \/ UNCHANGED <<at, place, registry>>
      \/ Awaits /\ ~Closing /\ AbortRunning
  BY DEF Stop, UnhandledError
<1>3. CASE UNCHANGED <<at, place, registry>>
  BY <1>1, <1>3, SameInv DEF place, registry
<1> QED BY <1>1, <1>2, <1>3, InvAbort

LEMMA InvNext ==
  ASSUME TypeOK, TestKnown, IInv, Next PROVE IInv'
BY NextCases, InvSetUp, InvTearDown, InvLate, InvSetUpEnds, InvCallEnds, InvStages, InvTearDownEnds,
   InvCleaned, InvRunHook, InvCall, InvSuites, InvStops

LEMMA InvInit ==
  ASSUME Init PROVE IInv
BY DEF Init, IInv, PlaceOK, LeftOK, UsageOK, FixtureIntegrity, TestScopeOK, WorkerScopeOK, MadeOK,
       Registered, AllStage, EachStage, CleanStage

(* Nothing else creates a running instance.                                  *)
LEMMA OnlySetUp ==
  ASSUME TypeOK, IInv, Next, NEW f \in Fixture, inst[f] = "none", inst'[f] = "setup"
  PROVE  \E g \in Fixture : SetUp(g)
<1>1. ASSUME NEW g \in Fixture, Drop(g) PROVE FALSE
  BY <1>1 DEF Drop, TypeOK
<1>2. ASSUME NEW g \in Fixture, TearDown(g) PROVE FALSE
  BY <1>1, <1>2 DEF TearDown, registry
<1>3. ASSUME NEW g \in Fixture, LateSetUp(g) PROVE FALSE
  BY <1>3 DEF LateSetUp, TypeOK
<1>4. ASSUME NEW how \in Ending, SetUpEnds(how) PROVE FALSE
  BY <1>4 DEF SetUpEnds, Ending, TypeOK
<1>5. ASSUME NEW how \in Ending, TearDownEnds(how) PROVE FALSE
  BY <1>1, <1>5 DEF TearDownEnds, TypeOK
<1>6. ASSUME Stop \/ UnhandledError PROVE FALSE
  <2>1. UNCHANGED registry \/ Drop(cur)
    BY <1>6 DEF Stop, UnhandledError, AbortRunning
  <2>2. ASSUME Drop(cur) PROVE FALSE
    BY <2>2 DEF Drop, TypeOK
  <2> QED BY <2>1, <2>2 DEF registry
<1>7. \/ \E g \in Fixture : SetUp(g) \/ TearDown(g) \/ LateSetUp(g)
      \/ \E how \in Ending : SetUpEnds(how)
      \/ \E how \in Ending : TearDownEnds(how)
      \/ Stop \/ UnhandledError
  <2>1. UNCHANGED registry => FALSE
    BY DEF registry
  <2> QED
    BY <2>1, NextCases DEF CallEnds, TestFunctionFinished, Cleaned, RunHook, Call, EnterSuite, LeaveSuite,
       BeginTest, TracingStarted, FoldersRemoved, BeforeAllDone, BeforeEachDone, AfterEachDone, AfterAllDone,
       CleanAllDone, EndTest, GroupDone, Close
<1> QED BY <1>2, <1>3, <1>4, <1>5, <1>6, <1>7

(* Types and the inductive invariant hold in every behaviour.                *)
THEOREM Invariant == Spec => [](TypeOK /\ TestKnown /\ IInv)
<1>1. Init => TypeOK /\ TestKnown /\ IInv
  BY InitType, InvInit
<1>2. TypeOK /\ TestKnown /\ IInv /\ [Next]_vars => TypeOK' /\ TestKnown' /\ IInv'
  <2>1. ASSUME TypeOK, TestKnown, IInv, Next PROVE TypeOK' /\ TestKnown' /\ IInv'
    BY <2>1, NextCases, TypeFixtures, TypeHooks, TypeStages, InvNext
  <2>2. ASSUME TypeOK, TestKnown, IInv, UNCHANGED vars PROVE TypeOK' /\ TestKnown'
    BY <2>2 DEF vars, TypeOK, TestKnown, place, info, worker, registry, history
  <2>3. ASSUME TypeOK, IInv, UNCHANGED vars PROVE IInv'
    BY <2>3, SameInv DEF vars, place, worker, registry, history
  <2> QED BY <2>1, <2>2, <2>3
<1> QED BY <1>1, <1>2, PTL DEF Spec

(* What uses a fixture is torn down before it, whatever tests, hooks and     *)
(* fixtures there are and however they end.                                  *)
THEOREM FixturesIntegral == Spec => []FixtureIntegrity
<1>1. TypeOK /\ IInv => FixtureIntegrity
  BY DEF IInv, UsageOK
<1> QED BY <1>1, Invariant, PTL

(* No fixture of a test outlives it, and none at all the worker.             *)
THEOREM NothingLeft == Spec => []NothingIsLeftBehind
<1>1. TypeOK /\ IInv => NothingIsLeftBehind
  <2> SUFFICES ASSUME TypeOK, IInv PROVE NothingIsLeftBehind
    OBVIOUS
  <2>1. at \in {"between", "next", "begin", "folders", "done", "end", "closed"} => Registered("test") = {}
    BY DEF IInv, TestScopeOK
  <2>2. at = "closed" \/ (cleaned /\ at \in {"end", "between", "done"}) => Registered("worker") = {}
    BY DEF IInv, WorkerScopeOK
  <2> QED BY <2>1, <2>2 DEF NothingIsLeftBehind
<1> QED BY <1>1, Invariant, PTL

(* Fixtures are torn down in order and completely, whatever happens.         *)
THEOREM FixturesCleaned == Spec => []FixturesAreCleaned
<1>1. FixtureIntegrity /\ NothingIsLeftBehind => FixturesAreCleaned
  BY DEF FixturesAreCleaned
<1> QED BY <1>1, FixturesIntegral, NothingLeft, PTL

(* A worker fixture is set up at most once: it is not torn down before the   *)
(* last function that could need it again.                                   *)
THEOREM FixtureOnce == Spec => WorkerFixtureOnce
<1>1. ASSUME TypeOK, IInv, Next, NEW f \in Fixture,
             Scope[f] = "worker", inst[f] = "none", inst'[f] = "setup"
      PROVE  f \notin made
  <2>1. PICK g \in Fixture : SetUp(g)
    BY <1>1, OnlySetUp
  <2>2. fn # None
    <3>1. phase = "resolve"
      BY <2>1 DEF SetUp
    <3> QED BY <1>1, <3>1 DEF IInv, PlaceOK
  <2>3. at \in AllStage \cup EachStage \cup {"params"}
    BY <1>1, <2>2 DEF IInv, PlaceOK
  <2> QED BY <1>1, <2>3 DEF IInv, MadeOK, AllStage, EachStage
<1>2. TypeOK /\ IInv /\ [Next]_vars =>
        [\A f \in Fixture : Scope[f] = "worker" /\ inst[f] = "none" /\ inst'[f] = "setup"
           => f \notin made]_vars
  BY <1>1
<1> QED BY <1>2, Invariant, PTL DEF Spec, WorkerFixtureOnce

(***************************************************************************)
(* A stopped worker calls no test function.                                *)
(***************************************************************************)
(* Who is stopped on the way to a test function is interrupted as well, and  *)
(* who has failed is stopped before the test ends.                           *)
Ahead == {"folders", "beforeAll", "beforeEach", "params"}
Over == {"end", "between", "next", "done"}
StopOK == /\ at \in Ahead /\ stopped => interrupted
          /\ at \in Over /\ IsFailure => stopped

LEMMA StopFixtures ==
  ASSUME TypeOK, IInv, StopOK, FixtureStep \/ HookStep \/ (\E f \in Fixture : LateSetUp(f))
  PROVE  StopOK'
<1>1. UNCHANGED <<interrupted, stopped>>
  BY DEF FixtureStep, HookStep, SetUp, TearDown, SetUpEnds, TearDownEnds, Cleaned, RunHook, Call, EnterSuite,
         LeaveSuite, CallEnds, LateSetUp, CallbackEnds, info, worker, registry, history
<1>2. CASE \E how \in Ending : SetUpEnds(how) \/ CallEnds(how)
  <2>1. at' = at \/ at' = "after"
    BY <1>2 DEF SetUpEnds, CallEnds, FunctionOver, Go
  <2>2. fn # None
    BY <1>2 DEF SetUpEnds, CallEnds, IInv, PlaceOK
  <2>3. at \notin Over
    BY <2>2 DEF IInv, PlaceOK, Over, AllStage, EachStage
  <2> QED BY <1>1, <2>1, <2>3 DEF StopOK, Ahead, Over
<1>3. CASE Call
  <2>1. at' = at \/ at' = "after"
    BY <1>3 DEF Call, FunctionOver, Go
  <2>2. UNCHANGED info
    BY <1>3 DEF Call
  <2> QED BY <1>1, <2>1, <2>2 DEF StopOK, Ahead, Over, IsFailure, info
<1>4. CASE Cleaned
  <2>1. UNCHANGED info /\ (at' = at \/ at' = AfterCleaning)
    BY <1>4 DEF Cleaned, Go
  <2>2. AfterCleaning = "end" => at = "cleanWorker"
    BY DEF AfterCleaning
  <2>3. at = "cleanWorker" => stopped
    BY DEF IInv, WorkerScopeOK
  <2>4. AfterCleaning \in {"afterAll", "cleanAll", "end", "closeWorker", "closed"}
    BY DEF AfterCleaning
  <2> QED BY <1>1, <2>1, <2>2, <2>3, <2>4 DEF StopOK, Ahead, Over, IsFailure, info
<1>5. CASE \E how \in Ending : TearDownEnds(how)
  <2>1. at' = at /\ phase = "clean"
    BY <1>5 DEF TearDownEnds
  <2>2. at \notin Over
    BY <2>1, GroupAssumption, AllHookIsHook DEF IInv, PlaceOK, Over, AllStage, EachStage, CleanStage
  <2> QED BY <1>1, <2>1, <2>2 DEF StopOK
<1>6. CASE \/ \E f \in Fixture : SetUp(f) \/ TearDown(f) \/ LateSetUp(f)
           \/ RunHook \/ EnterSuite \/ LeaveSuite
  <2>1. UNCHANGED <<at, status, expected>>
    BY <1>6 DEF SetUp, TearDown, LateSetUp, RunHook, EnterSuite, LeaveSuite, info
  <2> QED BY <1>1, <2>1 DEF StopOK, IsFailure
<1> QED BY <1>2, <1>3, <1>4, <1>5, <1>6 DEF FixtureStep, HookStep

LEMMA StopStages ==
  ASSUME TypeOK, TestKnown, IInv, StopOK, StageStep
  PROVE  StopOK'
<1>1. CASE BeginTest
  <2>1. at' \in {"next", "begin"} /\ (at' = "next" => status' = "skipped")
    BY <1>1 DEF BeginTest
  <2> QED BY <2>1 DEF StopOK, Ahead, Over, IsFailure
<1>2. CASE TracingStarted
  <2>1. at' = "after" \/ (at' = "folders" /\ ~stopped)
    BY <1>2 DEF TracingStarted, Go, worker
  <2> QED BY <1>2, <2>1 DEF TracingStarted, Go, worker, StopOK, Ahead, Over
<1>3. CASE FoldersRemoved \/ BeforeAllDone \/ BeforeEachDone
  <2>1. at \in Ahead /\ at' \in Stage \ Over /\ UNCHANGED <<stopped, interrupted>>
    BY <1>3 DEF FoldersRemoved, BeforeAllDone, BeforeEachDone, Go, info, worker, Ahead, Over, Stage
  <2> QED BY <2>1 DEF StopOK
<1>4. CASE AfterEachDone \/ CleanAllDone \/ Close \/ (\E how \in Ending : TestFunctionFinished(how))
  <2>1. at' \in {"tearDown", "cleanWorker", "closeTest", "afterEach"}
    BY <1>4 DEF AfterEachDone, CleanAllDone, Close, TestFunctionFinished, Go
  <2> QED BY <2>1 DEF StopOK, Ahead, Over
<1>5. CASE AfterAllDone
  <2>1. /\ at' \in {"cleanTest", "end"} /\ stopped' = (stopped \/ IsFailure) /\ UNCHANGED info
    BY <1>5 DEF AfterAllDone, Go
  <2> QED BY <2>1 DEF StopOK, Ahead, Over, IsFailure, info
<1>6. CASE EndTest \/ GroupDone
  <2>1. at \in Over /\ at' \in {"between", "done"} /\ UNCHANGED <<info, stopped>>
    BY <1>6 DEF EndTest, GroupDone, Go, Over, worker
  <2> QED BY <2>1 DEF StopOK, Ahead, Over, IsFailure, info
<1> QED BY <1>1, <1>2, <1>3, <1>4, <1>5, <1>6 DEF StageStep

LEMMA StopStops ==
  ASSUME TypeOK, IInv, StopOK, Stop \/ UnhandledError
  PROVE  StopOK'
<1>1. CASE Stop
  <2>1. stopped' = TRUE /\ (interrupted' = TRUE \/ at' = "between")
    BY <1>1 DEF Stop
  <2> QED BY <2>1 DEF StopOK, Ahead
<1>2. CASE UnhandledError /\ stopped' = TRUE /\ interrupted' = TRUE
  BY <1>2 DEF StopOK
<1>3. CASE UnhandledError /\ (stopped \/ expected = "failed") /\ UNCHANGED <<at, interrupted, stopped>>
  <2>1. status' = Failing("failed") /\ UNCHANGED expected
    BY <1>3 DEF UnhandledError
  <2>2. expected = "failed" /\ ~IsFailure => status' = "failed"
    BY <2>1 DEF IsFailure, Failing
  <2> QED BY <1>3, <2>1, <2>2 DEF StopOK, IsFailure
<1> QED BY <1>1, <1>2, <1>3 DEF UnhandledError

(* A test that ends otherwise than expected is the last that this worker     *)
(* runs, whatever stops it and whenever.                                     *)
THEOREM FailingIsLast == Spec => []FailingTestIsLast
<1>1. Init => StopOK
  BY DEF Init, StopOK, Ahead, Over, IsFailure
<1>2. TypeOK /\ TestKnown /\ IInv /\ StopOK /\ [Next]_vars => StopOK'
  <2>1. ASSUME TypeOK, TestKnown, IInv, StopOK, Next PROVE StopOK'
    BY <2>1, StopFixtures, StopStages, StopStops DEF Next, Step
  <2>2. ASSUME StopOK, UNCHANGED vars PROVE StopOK'
    BY <2>2 DEF vars, StopOK, IsFailure, info, worker
  <2> QED BY <2>1, <2>2
<1>3. TypeOK /\ IInv /\ StopOK => FailingTestIsLast
  <2> SUFFICES ASSUME IInv, StopOK PROVE FailingTestIsLast
    OBVIOUS
  <2>1. fn \in Test => at = "params"
    BY GroupAssumption, AllHookIsHook DEF IInv, PlaceOK
  <2> QED BY <2>1 DEF FailingTestIsLast, StopOK, Ahead, Over
<1> QED BY <1>1, <1>2, <1>3, Invariant, PTL DEF Spec

(***************************************************************************)
(* The hooks around a test.                                                *)
(***************************************************************************)
Members(q) == {q[i] : i \in DOMAIN q}

(* On the way to the test function, with nothing in the way so far.          *)
Coming == \/ at \in {"begin", "folders", "params"}
          \/ at \in {"beforeAll", "beforeEach"} /\ ~threw /\ error = "none"

(* No test function will be called any more.                                 *)
NoMoreTests == \/ at \in {"done", "closeTest", "closeWorker", "closed"}
               \/ stopped /\ (at = "begin" \/ ~Coming)

(* A function is resolved for the test that runs, in the order of what its   *)
(* fixtures depend on; a hook has an outcome only while it is cleaned after. *)
FunctionOK ==
  /\ fn \in Test => fn = test
  /\ error # "none" => phase = "clean"
  /\ phase = "resolve" => /\ need \subseteq Needed(fn)
                          /\ cur # None => cur \in Needed(fn) /\ inst[cur] = "setup"
                          /\ \A f \in Needed(fn) \ need : inst[f] # "none"

LEMMA NeededClosed ==
  ASSUME NEW x
  PROVE  /\ Needed(x) \subseteq Fixture
         /\ x \in Hook \cup Test => Params[x] \subseteq Needed(x)
         /\ \A f \in Needed(x) : DependsOn(f) \subseteq Needed(x)
<1>1. Needed(x) \subseteq Fixture
  BY DEF Needed
<1>2. ASSUME x \in Hook \cup Test, NEW f \in Params[x] PROVE f \in Needed(x)
  <2>1. f \in Fixture
    BY <1>2, FixtureAssumption
  <2> QED BY <1>2, <2>1 DEF Needed
<1>3. ASSUME NEW f \in Needed(x), NEW g \in DependsOn(f) PROVE g \in Needed(x)
  <2>1. f \in Fixture
    BY DEF Needed
  <2>2. g \in Fixture
    BY <2>1, FixtureAssumption DEF DependsOn
  <2>3. ASSUME NEW closed \in SUBSET Fixture, Params[x] \cup AutoFor(x) \subseteq closed,
               \A h \in closed : DependsOn(h) \subseteq closed
        PROVE  g \in closed
    <3>1. f \in closed
      BY <2>3 DEF Needed
    <3> QED BY <2>3, <3>1
  <2> QED BY <2>2, <2>3 DEF Needed
<1> QED BY <1>1, <1>2, <1>3

(* Where nothing is going on.                                                *)
LEMMA Quiet ==
  ASSUME TypeOK, IInv
  PROVE  /\ at \notin AllStage \cup EachStage \cup {"params"} => fn = None /\ hooks = <<>>
         /\ at \notin AllStage \cup EachStage \cup CleanStage \cup {"params"} => phase = "idle"
         /\ phase = "idle" => fn = None /\ cur = None
         /\ phase = "clean" /\ at \in AllStage => fn \in AllHook
         /\ phase \in {"resolve", "call"} => fn # None /\ at \in AllStage \cup EachStage \cup {"params"}
<1>1. at \notin AllStage \cup EachStage \cup {"params"} => fn = None /\ hooks = <<>>
  BY DEF IInv, PlaceOK
<1>2. at \notin AllStage \cup EachStage \cup CleanStage \cup {"params"} => phase = "idle"
  BY GroupAssumption, AllHookIsHook, <1>1 DEF IInv, PlaceOK, TypeOK
<1>3. phase = "idle" => fn = None /\ cur = None
  BY DEF IInv, PlaceOK
<1>4. phase = "clean" /\ at \in AllStage => fn \in AllHook
  BY DEF IInv, PlaceOK, AllStage, CleanStage
<1>5. phase \in {"resolve", "call"} => fn # None /\ at \in AllStage \cup EachStage \cup {"params"}
  BY DEF IInv, PlaceOK
<1> QED BY <1>1, <1>2, <1>3, <1>4, <1>5

(* How a function is over, by what it is.                                    *)
OverTest == /\ at = "params" /\ fn \in Test /\ at' = "after" /\ phase' = "idle" /\ fn' = None
            /\ hooks' = <<>> /\ suites' = <<>> /\ threw' = FALSE /\ error' = "none" /\ cur' = None
OverAll(how) == /\ at \in AllStage /\ fn \in AllHook /\ phase' = "clean" /\ error' = how
                /\ left' = Registered("test") /\ cur' = None
                /\ UNCHANGED <<at, suites, hooks, fn, threw>>
OverEach(how) == /\ at \in EachStage /\ fn \in Hook \ AllHook /\ phase' = "idle" /\ fn' = None
                 /\ cur' = None /\ threw' = (threw \/ how # "none")
                 /\ hooks' = (IF how = "skip" THEN <<>> ELSE hooks)
                 /\ UNCHANGED <<at, suites, error>>

LEMMA OverFacts ==
  ASSUME TypeOK, IInv, NEW how, FunctionOver(how)
  PROVE  OverTest \/ OverAll(how) \/ OverEach(how)
<1>1. CASE fn \in Test /\ Go("after")
  <2>1. at = "params"
    BY <1>1, GroupAssumption, AllHookIsHook DEF IInv, PlaceOK
  <2> QED BY <1>1, <2>1 DEF OverTest, Go
<1>2. CASE /\ fn \in AllHook
           /\ phase' = "clean" /\ left' = Registered("test") /\ error' = how
           /\ need' = {} /\ cur' = None
           /\ UNCHANGED <<at, suites, hooks, fn, threw>>
  <2>1. at \in AllStage
    BY <1>2, GroupAssumption, AllHookIsHook DEF IInv, PlaceOK
  <2> QED BY <1>2, <2>1 DEF OverAll
<1>3. CASE /\ fn \in Hook \ AllHook
           /\ phase' = "idle" /\ fn' = None /\ need' = {} /\ cur' = None
           /\ threw' = (threw \/ how # "none")
           /\ hooks' = IF how = "skip" THEN <<>> ELSE hooks
           /\ UNCHANGED <<at, suites, left, error>>
  <2>1. at \in EachStage
    BY <1>3, GroupAssumption, AllHookIsHook DEF IInv, PlaceOK
  <2> QED BY <1>3, <2>1 DEF OverEach
<1> QED BY <1>1, <1>2, <1>3 DEF FunctionOver

(* What a step does to the function that is resolved, called or cleaned      *)
(* after, by the kind of the step.                                           *)
EndsFunction(how) ==
  /\ phase \in {"resolve", "call"} /\ FunctionOver(how)
  /\ UNCHANGED <<test, due, cleaned, active, usages, made>>
  /\ how \in {"none", "error", "skip"}
  /\ \A f \in Fixture : inst'[f] = "none" <=> inst[f] = "none"

LEMMA EndsKinds ==
  ASSUME TypeOK, IInv
  PROVE  /\ \A how \in Ending : SetUpEnds(how) /\ how # "returns" => EndsFunction(ErrorOf(how))
         /\ \A how \in Ending : CallEnds(how) => EndsFunction(ErrorOf(how))
         /\ Call /\ (\E f \in Params[fn] : Failed(f)) => EndsFunction("none")
<1>0. \A how \in Ending : ErrorOf(how) \in {"none", "error", "skip"}
  BY DEF ErrorOf
<1>1. ASSUME NEW how \in Ending, SetUpEnds(how), how # "returns" PROVE EndsFunction(ErrorOf(how))
  <2>1. phase = "resolve" /\ cur # None /\ cur \in Fixture
    BY <1>1 DEF SetUpEnds, TypeOK
  <2>2. FunctionOver(ErrorOf(how)) /\ UNCHANGED <<test, due, cleaned, active, usages, made>>
    BY <1>1 DEF SetUpEnds, history
  <2>3. inst[cur] # "none" /\ inst' \in {inst, [inst EXCEPT ![cur] = "failed"]}
    BY <1>1, <2>1 DEF SetUpEnds, Ending, IInv, LeftOK
  <2>4. \A f \in Fixture : inst'[f] = "none" <=> inst[f] = "none"
    BY <2>1, <2>2, <2>3 DEF TypeOK
  <2>5. ErrorOf(how) \in {"none", "error", "skip"}
    BY <1>0
  <2> QED BY <2>1, <2>2, <2>4, <2>5 DEF EndsFunction
<1>2. ASSUME NEW how \in Ending, CallEnds(how) PROVE EndsFunction(ErrorOf(how))
  <2>1. /\ phase = "call" /\ FunctionOver(ErrorOf(how))
        /\ UNCHANGED <<test, due, cleaned, active, usages, made, inst>>
    BY <1>2 DEF CallEnds, registry, history
  <2> QED BY <1>0, <2>1 DEF EndsFunction
<1>3. ASSUME Call, \E f \in Params[fn] : Failed(f) PROVE EndsFunction("none")
  BY <1>3 DEF Call, EndsFunction, worker, registry
<1> QED BY <1>1, <1>2, <1>3

(* Stop and UnhandledError, by what the worker waits for.                    *)
Interrupts == stopped' = TRUE /\ interrupted' = TRUE
Unheeded == UNCHANGED <<test, at, due, exhausted, inst, suites, hooks, phase, fn, need, left, cur, error, threw>>
DropsRunning ==
  /\ phase = "clean" /\ cur # None /\ cur' = None /\ TearDownFails("timesOut")
  /\ inst' = [inst EXCEPT ![cur] = "none"] /\ exhausted' = exhausted \ {cur}
  /\ UNCHANGED <<test, at, due, suites, hooks, phase, fn, need, threw>>
SkipsStage ==
  /\ \/ at = "begin" /\ Go("after")
     \/ at = "after" /\ Go("afterEach")
  /\ UNCHANGED <<test, due, exhausted, inst>>

LEMMA StopKinds ==
  ASSUME TypeOK, IInv, Stop \/ UnhandledError
  PROVE  /\ \/ Interrupts /\ \/ EndsFunction("error") /\ UNCHANGED <<inst, exhausted>>
                             \/ DropsRunning \/ SkipsStage
            \/ Unheeded /\ (at = "between" \/ Interrupts \/ UNCHANGED interrupted)
         /\ UNCHANGED <<test, due, expected, cleaned, active, inherited, called, made>>
         /\ stopped => stopped'
         /\ interrupted' => interrupted \/ stopped'
         /\ status \notin {"passed", "skipped"} => UNCHANGED status
         /\ at \in {"next", "done", "closed"} => UNCHANGED status
<1>1. UNCHANGED <<test, due, expected, cleaned, active, inherited, called, made>>
  BY DEF Stop, UnhandledError, history, info
<1>2. ASSUME AbortRunning, Awaits, ~Closing, UNCHANGED <<test, due, cleaned, active, made>>
      PROVE  \/ EndsFunction("error") /\ UNCHANGED <<inst, exhausted>>
             \/ DropsRunning \/ SkipsStage \/ Unheeded
  <2>1. CASE phase \in {"resolve", "call"} /\ FunctionOver("error") /\ UNCHANGED <<registry, exhausted>>
    <3>1. UNCHANGED <<inst, usages, exhausted>>
      BY <2>1 DEF registry
    <3>2. EndsFunction("error")
      BY <1>2, <2>1, <3>1 DEF EndsFunction
    <3> QED BY <3>1, <3>2
  <2>2. CASE /\ phase = "clean"
             /\ Drop(cur) /\ exhausted' = exhausted \ {cur} /\ cur' = None /\ TearDownFails("timesOut")
             /\ UNCHANGED <<at, suites, hooks, phase, fn, need, threw>>
    <3>1. at \notin {"begin", "folders", "after", "end"}
      BY <2>2, Quiet DEF AllStage, EachStage, CleanStage
    <3>2. cur # None
      BY <1>2, <2>2, <3>1 DEF Awaits
    <3> QED BY <1>2, <2>2, <3>2 DEF DropsRunning, Drop
  <2>3. CASE /\ at \in {"begin", "after"} /\ Go(IF at = "begin" THEN "after" ELSE "afterEach")
             /\ UNCHANGED <<registry, exhausted>>
    BY <1>2, <2>3 DEF SkipsStage, registry
  <2>4. CASE at \in {"folders", "end"} /\ UNCHANGED <<at, place, registry, exhausted>>
    BY <1>2, <2>4 DEF Unheeded, place, registry
  <2> QED BY <1>2, <2>1, <2>2, <2>3, <2>4 DEF AbortRunning
<1>3. ASSUME Stop
      PROVE  /\ \/ Interrupts /\ \/ EndsFunction("error") /\ UNCHANGED <<inst, exhausted>>
                                 \/ DropsRunning \/ SkipsStage
                \/ Unheeded /\ (at = "between" \/ Interrupts \/ UNCHANGED interrupted)
             /\ stopped' = TRUE
  <2>1. CASE at = "between" /\ UNCHANGED <<at, place, info, registry>>
    BY <1>3, <2>1 DEF Stop, Unheeded, place, info, registry
  <2>2. CASE Awaits /\ ~Closing /\ interrupted' = TRUE /\ AbortRunning
    <3>1. UNCHANGED <<test, due, cleaned, active, made>> /\ stopped' = TRUE
      BY <1>3 DEF Stop, history
    <3> QED BY <1>2, <2>2, <3>1 DEF Interrupts
  <2> QED BY <1>3, <2>1, <2>2 DEF Stop
<1>4. ASSUME UnhandledError
      PROVE  /\ \/ Interrupts /\ \/ EndsFunction("error") /\ UNCHANGED <<inst, exhausted>>
                                 \/ DropsRunning \/ SkipsStage
                \/ Unheeded /\ (at = "between" \/ Interrupts \/ UNCHANGED interrupted)
             /\ \/ stopped' = TRUE
                \/ UNCHANGED <<stopped, interrupted>>
  <2>1. UNCHANGED <<test, due, cleaned, active, made>> /\ Awaits /\ ~Closing
    BY <1>4 DEF UnhandledError, history
  <2>2. CASE (stopped \/ expected = "failed") /\ UNCHANGED <<at, place, interrupted, exhausted, stopped, registry>>
    BY <2>1, <2>2 DEF Unheeded, place, registry
  <2>3. CASE ~stopped /\ stopped' = TRUE /\ interrupted' = TRUE /\ AbortRunning
    BY <1>2, <2>1, <2>3 DEF Interrupts
  <2> QED BY <1>4, <2>2, <2>3 DEF UnhandledError
<1>5. status \notin {"passed", "skipped"} => UNCHANGED status
  BY DEF Stop, UnhandledError, Failing, info
<1>6. at \in {"next", "done", "closed"} => UNCHANGED status
  BY DEF Stop, UnhandledError, Closing, info
<1>7. (stopped => stopped') /\ (interrupted' => interrupted \/ stopped')
  BY <1>3, <1>4 DEF Stop, UnhandledError, info, TypeOK
<1> QED BY <1>1, <1>3, <1>4, <1>5, <1>6, <1>7

(* From stage to stage, with what the worker makes sure of before.           *)
Moves(stage) ==
  /\ Go(stage) /\ at' = stage /\ phase \in {"idle", "clean"} /\ fn = None /\ cur = None
  /\ \/ at = "begin" /\ stage = "after"
     \/ at = "begin" /\ stage = "folders" /\ ~stopped /\ expected # "skipped"
     \/ at = "folders" /\ stage = "beforeAll"
     \/ at = "beforeAll" /\ stage = "after" /\ threw
     \/ at = "beforeAll" /\ stage = "beforeEach" /\ ~threw /\ suites = <<>> /\ due'
     \/ at = "beforeEach" /\ stage = "after"
     \/ at = "beforeEach" /\ stage = "params" /\ ~threw
     \/ at = "after" /\ stage = "afterEach"
     \/ at = "afterEach" /\ stage = "tearDown"
     \/ at = "tearDown" /\ stage = "afterAll"
     \/ at = "afterAll" /\ stage \in {"cleanTest", "end"} /\ suites = <<>>
     \/ at = "cleanTest" /\ stage = "cleanAll"
     \/ at = "cleanAll" /\ stage = "cleanWorker"
     \/ at = "cleanWorker" /\ stage = "end"
     \/ at = "end" /\ stage = "between"
     \/ at \in {"between", "next"} /\ stage = "done"
     \/ at = "done" /\ stage = "closeTest"
     \/ at = "closeTest" /\ stage = "closeWorker"
     \/ at = "closeWorker" /\ stage = "closed"
  /\ hooks = <<>>
  /\ UNCHANGED <<test, inst, active, inherited, called, expected>>
  /\ stage # "beforeEach" => UNCHANGED due
  /\ \/ UNCHANGED exhausted
     \/ at = "after" /\ exhausted' = exhausted \cup {"after"}
     \/ stage = "closeTest" /\ exhausted' = exhausted \cap Fixture
  /\ stopped => stopped'
  /\ interrupted' => interrupted \/ stopped'
  /\ interrupted => interrupted' \/ stage = "closeTest"
  /\ status \notin {"passed", "skipped"} /\ at \notin {"begin", "done"} => UNCHANGED status

LEMMA MoveKinds ==
  ASSUME TypeOK, TestKnown, IInv
  PROVE  /\ StageStep => BeginTest \/ \E stage \in Stage : Moves(stage)
         /\ Cleaned /\ fn = None => \E stage \in Stage : Moves(stage)
         /\ (Stop \/ UnhandledError) /\ Interrupts /\ SkipsStage => \E stage \in Stage : Moves(stage)
<1> DEFINE Still == phase \in {"idle", "clean"} /\ fn = None /\ cur = None /\ hooks = <<>>
<1>1. at \notin AllStage \cup EachStage \cup CleanStage \cup {"params"} => Still
  BY Quiet
<1>2. phase = "idle" /\ hooks = <<>> => Still
  BY Quiet
<1>3. \A stage : Go(stage) => at' = stage
  BY DEF Go
<1> USE DEF Stage
<1>4. ASSUME TracingStarted PROVE Moves("after") \/ Moves("folders")
  <2>1. Still
    BY <1>1, <1>4 DEF TracingStarted, AllStage, EachStage, CleanStage
  <2> QED BY <1>3, <1>4, <2>1 DEF TracingStarted, Moves, worker, registry, history
<1>5. ASSUME FoldersRemoved PROVE Moves("beforeAll")
  <2>1. Still
    BY <1>1, <1>5 DEF FoldersRemoved, AllStage, EachStage, CleanStage
  <2> QED BY <1>3, <1>5, <2>1 DEF FoldersRemoved, Moves, info, worker, registry, history
<1>6. ASSUME BeforeAllDone PROVE Moves("after") \/ Moves("beforeEach")
  <2>1. Still
    BY <1>2, <1>6 DEF BeforeAllDone
  <2> QED BY <1>3, <1>6, <2>1 DEF BeforeAllDone, Moves, info, worker, registry, history
<1>7. ASSUME BeforeEachDone PROVE Moves("after") \/ Moves("params")
  <2>1. Still
    BY <1>2, <1>7 DEF BeforeEachDone
  <2>2. (threw /\ Go("after")) \/ (~threw /\ Go("params"))
    BY <1>7 DEF BeforeEachDone
  <2> QED BY <1>3, <1>7, <2>1, <2>2 DEF BeforeEachDone, Moves, info, worker, registry, history
<1>8. ASSUME NEW how \in Ending, TestFunctionFinished(how) PROVE Moves("afterEach")
  <2>1. Still
    BY <1>1, <1>8 DEF TestFunctionFinished, AllStage, EachStage, CleanStage
  <2>2. /\ UNCHANGED <<expected, interrupted>>
        /\ exhausted' = exhausted \/ exhausted' = exhausted \cup {"after"}
        /\ status \notin {"passed", "skipped"} => UNCHANGED status
    BY <1>8 DEF TestFunctionFinished, CallbackEnds, Failing, info, TypeOK
  <2> QED BY <1>3, <1>8, <2>1, <2>2 DEF TestFunctionFinished, Moves, worker, registry, history
<1>9. ASSUME AfterEachDone PROVE Moves("tearDown")
  <2>1. Still
    BY <1>2, <1>9 DEF AfterEachDone
  <2> QED BY <1>3, <1>9, <2>1 DEF AfterEachDone, Moves, info, worker, registry, history
<1>10. ASSUME AfterAllDone PROVE Moves("cleanTest") \/ Moves("end")
  <2>1. Still
    BY <1>2, <1>10 DEF AfterAllDone
  <2>2. Go("cleanTest") \/ Go("end")
    BY <1>10 DEF AfterAllDone
  <2>3. stopped => stopped'
    BY <1>10 DEF AfterAllDone
  <2> QED BY <1>3, <1>10, <2>1, <2>2, <2>3 DEF AfterAllDone, Moves, info, registry, history
<1>11. ASSUME CleanAllDone PROVE Moves("cleanWorker")
  <2>1. Still
    BY <1>2, <1>11 DEF CleanAllDone
  <2> QED BY <1>3, <1>11, <2>1 DEF CleanAllDone, Moves, info, worker, registry, history
<1>12. ASSUME EndTest PROVE Moves("between")
  <2>1. Still
    BY <1>1, <1>12 DEF EndTest, AllStage, EachStage, CleanStage
  <2> QED BY <1>3, <1>12, <2>1 DEF EndTest, Moves, info, worker, registry, history
<1>13. ASSUME GroupDone PROVE Moves("done")
  <2>1. Still
    BY <1>1, <1>13 DEF GroupDone, AllStage, EachStage, CleanStage
  <2> QED BY <1>3, <1>13, <2>1 DEF GroupDone, Moves, info, worker, registry, history
<1>14. ASSUME Close PROVE Moves("closeTest")
  <2>1. Still
    BY <1>1, <1>14 DEF Close, AllStage, EachStage, CleanStage
  <2> QED BY <1>3, <1>14, <2>1 DEF Close, Moves, registry, history
<1>15. ASSUME Cleaned, fn = None
       PROVE  \E stage \in {"afterAll", "cleanAll", "end", "closeWorker", "closed"} : Moves(stage)
  <2>1. Go(AfterCleaning) /\ cur = None /\ phase = "clean" /\ at \in CleanStage
    BY <1>15, GroupAssumption, AllHookIsHook DEF Cleaned, IInv, PlaceOK
  <2>2. hooks = <<>>
    BY <2>1, Quiet DEF CleanStage, AllStage, EachStage
  <2>3. UNCHANGED <<test, inst, active, inherited, called, expected, due, exhausted, stopped, interrupted, status>>
    BY <1>15 DEF Cleaned, info, worker, registry, history
  <2>4. \/ at = "tearDown" /\ AfterCleaning = "afterAll"
        \/ at = "cleanTest" /\ AfterCleaning = "cleanAll"
        \/ at = "cleanWorker" /\ AfterCleaning = "end"
        \/ at = "closeTest" /\ AfterCleaning = "closeWorker"
        \/ at = "closeWorker" /\ AfterCleaning = "closed"
    BY <2>1 DEF AfterCleaning, CleanStage
  <2>5. PICK stage \in {"afterAll", "cleanAll", "end", "closeWorker", "closed"} : AfterCleaning = stage
    BY <2>4
  <2>6. Go(stage) /\ at' = stage
    BY <1>3, <2>1, <2>5
  <2>7. Moves(stage)
    BY <1>15, <2>1, <2>2, <2>3, <2>4, <2>5, <2>6 DEF Moves
  <2> QED BY <2>7
<1>16. ASSUME Stop \/ UnhandledError, Interrupts, SkipsStage PROVE Moves("after") \/ Moves("afterEach")
  <2>1. Still
    BY <1>1, <1>16 DEF SkipsStage, AllStage, EachStage, CleanStage
  <2>2. /\ UNCHANGED <<test, expected, active, inherited, called>>
        /\ status \notin {"passed", "skipped"} => UNCHANGED status
    BY <1>16, StopKinds
  <2> QED BY <1>3, <1>16, <2>1, <2>2 DEF SkipsStage, Interrupts, Moves
<1> HIDE DEF Still
<1> QED BY <1>4, <1>5, <1>6, <1>7, <1>8, <1>9, <1>10, <1>11, <1>12, <1>13, <1>14, <1>15, <1>16 DEF StageStep

(* A fixture is gone: torn down, without a teardown, or abandoned in it.     *)
BadStatus == status \notin {"passed", "skipped"}
Drops(f) ==
  /\ phase = "clean" /\ f \in left /\ cur \in {None, f} /\ cur' = None
  /\ inst' = [inst EXCEPT ![f] = "none"]
  /\ UNCHANGED <<test, at, due, suites, hooks, phase, fn, need, threw>>
  /\ UNCHANGED <<active, inherited, called>> /\ expected' \in {expected, "skipped"}
  /\ exhausted \ {f} \subseteq exhausted'
  /\ at \in AllStage /\ "test" \in exhausted' => "test" \in exhausted
  /\ error' \in {error, "errorLater", "skipLater"}
  /\ error' \in {error, "skipLater"} \/ BadStatus' \/ interrupted \/ stopped'
  /\ BadStatus => BadStatus'
  /\ (stopped => stopped') /\ (interrupted => interrupted') /\ (interrupted' => interrupted \/ stopped')

(* A fixture begins its teardown.                                            *)
Undoes(f) ==
  /\ phase = "clean" /\ cur = None /\ cur' = f /\ inst[f] = "provided"
  /\ UNCHANGED <<test, at, due, suites, hooks, phase, fn, need, left, threw, error>>
  /\ UNCHANGED <<info, worker, inst, called>>

LEMMA DropKinds ==
  ASSUME TypeOK, IInv
  PROVE  /\ \A f \in Fixture : TearDown(f) => Drops(f) \/ Undoes(f)
         /\ \A how \in Ending : TearDownEnds(how) => cur \in Fixture /\ Drops(cur)
         /\ (Stop \/ UnhandledError) /\ Interrupts /\ DropsRunning => cur \in Fixture /\ Drops(cur)
<1>0. cur # None => cur \in Fixture /\ (phase = "clean" => cur \in left)
  BY CurIsFixture DEF IInv, LeftOK
<1>1. ASSUME NEW f \in Fixture, TearDown(f) PROVE Drops(f) \/ Undoes(f)
  <2>1. CASE cur' = f /\ UNCHANGED <<left, registry, exhausted>> /\ inst[f] = "provided"
    BY <1>1, <2>1 DEF TearDown, Undoes, info, registry, history
  <2>2. CASE Drop(f) /\ exhausted' = exhausted \ {f} /\ UNCHANGED cur
    BY <1>1, <2>2 DEF TearDown, Drops, Drop, Removable, worker, history, BadStatus
  <2> QED BY <1>1, <2>1, <2>2 DEF TearDown
<1>2. ASSUME NEW how \in Ending, TearDownEnds(how) PROVE cur \in Fixture /\ Drops(cur)
  <2>1. cur \in Fixture /\ cur \in left /\ phase = "clean"
    BY <1>0, <1>2 DEF TearDownEnds
  <2>2. exhausted' = (exhausted \cup (IF how = "timesOut" THEN {SlotOf(cur)} ELSE {})) \ {cur}
    BY <1>2 DEF TearDownEnds
  <2>3. at \in AllStage => SlotOf(cur) # "test"
    BY <2>1, FixtureAssumption DEF SlotOf, StageSlot, AllStage
  <2>4. /\ error' \in {error, "errorLater", "skipLater"} /\ expected' \in {expected, "skipped"}
        /\ error' \in {error, "skipLater"} \/ BadStatus' \/ interrupted
        /\ BadStatus => BadStatus'
    BY <1>2 DEF TearDownEnds, TearDownFails, Failing, Ending, BadStatus, TypeOK
  <2>5. exhausted \ {cur} \subseteq exhausted' /\ (at \in AllStage /\ "test" \in exhausted' => "test" \in exhausted)
    BY <2>2, <2>3
  <2>6. /\ cur' = None /\ inst' = [inst EXCEPT ![cur] = "none"]
        /\ UNCHANGED <<test, at, due, suites, hooks, phase, fn, need, threw>>
        /\ UNCHANGED <<active, inherited, called, stopped, interrupted>>
    BY <1>2 DEF TearDownEnds, Drop, worker, history
  <2> QED BY <2>1, <2>4, <2>5, <2>6 DEF Drops
<1>3. ASSUME Stop \/ UnhandledError, Interrupts, DropsRunning PROVE cur \in Fixture /\ Drops(cur)
  <2>1. /\ UNCHANGED <<expected, active, inherited, called>>
        /\ BadStatus => BadStatus'
    BY <1>3, StopKinds DEF BadStatus
  <2> QED BY <1>0, <1>3, <2>1 DEF DropsRunning, TearDownFails, Interrupts, Drops
<1> QED BY <1>1, <1>2, <1>3

(* The other steps.                                                          *)
Provides ==
  /\ phase = "resolve" /\ cur # None /\ cur' = None /\ inst' = [inst EXCEPT ![cur] = "provided"]
  /\ UNCHANGED <<test, at, due, suites, hooks, phase, fn, need, left, error, threw>>
  /\ UNCHANGED <<info, worker, called>>
Calls ==
  /\ phase = "resolve" /\ cur = None /\ need = {} /\ phase' = "call" /\ called' = called \cup {fn}
  /\ \A f \in Params[fn] : ~Failed(f)
  /\ UNCHANGED <<test, at, due, suites, hooks, fn, need, left, cur, error, threw>>
  /\ UNCHANGED <<info, worker, inst>>
Passes ==
  /\ phase = "resolve" /\ cur = None /\ need = {} /\ (\E f \in Params[fn] : Failed(f))
  /\ EndsFunction("none") /\ UNCHANGED <<info, worker, inst, called>>
Aborts ==
  /\ EndsFunction("error") /\ Interrupts /\ (phase = "resolve" => cur # None)
  /\ UNCHANGED <<inst, exhausted, expected, active, inherited, called>>
  /\ BadStatus => BadStatus'
HookCleaned ==
  /\ phase = "clean" /\ cur = None /\ left = {} /\ fn # None
  /\ phase' = "idle" /\ fn' = None /\ error' = "none"
  /\ threw' = (threw \/ error # "none")
  /\ hooks' = IF SkipsOthers THEN <<>> ELSE hooks
  /\ SkipsOthers /\ error = "skipLater" => lost' = lost \cup {hooks[i] : i \in DOMAIN hooks}
  /\ UNCHANGED <<test, at, due, suites, need, left, cur, info, worker, inst, called>>
Stays ==
  /\ UNCHANGED <<test, at, due, suites, hooks, phase, fn, need, left, cur, error, threw>>
  /\ UNCHANGED <<expected, exhausted, active, inherited, inst, called>>
  /\ (stopped => stopped') /\ (interrupted => interrupted') /\ (interrupted' => interrupted \/ stopped')
  /\ BadStatus => BadStatus'
  /\ at = "next" => UNCHANGED status

LEMMA NextKinds ==
  ASSUME TypeOK, TestKnown, IInv, Next
  PROVE  \/ \E f \in Fixture : SetUp(f) \/ LateSetUp(f) \/ Drops(f) \/ Undoes(f)
         \/ \E how \in Ending : (SetUpEnds(how) /\ how # "returns") \/ CallEnds(how)
         \/ Provides \/ Calls \/ Passes \/ Aborts \/ HookCleaned \/ Stays
         \/ RunHook \/ EnterSuite \/ LeaveSuite \/ BeginTest
         \/ \E stage \in Stage : Moves(stage)
<1>1. ASSUME SetUpEnds("returns") PROVE Provides
  BY <1>1 DEF SetUpEnds, CallbackEnds, Inherit, Provides, info, worker, history
<1>2. ASSUME Call PROVE Calls \/ Passes
  <2>1. CASE \E f \in Params[fn] : Failed(f)
    <3>1. EndsFunction("none")
      BY <1>2, <2>1, EndsKinds
    <3> QED BY <1>2, <2>1, <3>1 DEF Call, Passes, registry
  <2>2. CASE ~ \E f \in Params[fn] : Failed(f)
    BY <1>2, <2>2 DEF Call, Calls, registry
  <2> QED BY <2>1, <2>2
<1>3. ASSUME Cleaned, fn # None PROVE HookCleaned
  BY <1>3 DEF Cleaned, HookCleaned, registry, history
<1>4. ASSUME Stop \/ UnhandledError
      PROVE  Aborts \/ (\E f \in Fixture : Drops(f)) \/ Stays \/ \E stage \in Stage : Moves(stage)
  <2>1. CASE Interrupts /\ EndsFunction("error") /\ UNCHANGED <<inst, exhausted>>
    <3>1. phase = "resolve" => cur # None
      <4>1. phase = "resolve" => at \notin {"between", "begin", "folders", "after", "end"}
        BY Quiet DEF AllStage, EachStage
      <4>2. at # "between" => Awaits
        BY <1>4 DEF Stop, UnhandledError
      <4> QED BY <4>1, <4>2 DEF Awaits
    <3> QED BY <1>4, <2>1, <3>1, StopKinds DEF Aborts, BadStatus
  <2>2. CASE Interrupts /\ DropsRunning
    BY <1>4, <2>2, DropKinds
  <2>3. CASE Interrupts /\ SkipsStage
    BY <1>4, <2>3, MoveKinds
  <2>4. CASE Unheeded /\ (at = "between" \/ Interrupts \/ UNCHANGED interrupted)
    <3>1. interrupted => interrupted'
      BY <1>4, <2>4 DEF Interrupts, Stop, UnhandledError, Closing, info
    <3> QED BY <1>4, <2>4, <3>1, StopKinds DEF Unheeded, Stays, BadStatus
  <2> QED BY <1>4, <2>1, <2>2, <2>3, <2>4, StopKinds
<1>5. ASSUME NEW how \in Ending, TearDownEnds(how) PROVE \E f \in Fixture : Drops(f)
  BY <1>5, DropKinds
<1>6. ASSUME NEW f \in Fixture, TearDown(f) PROVE Drops(f) \/ Undoes(f)
  BY <1>6, DropKinds
<1>7. ASSUME StageStep PROVE BeginTest \/ \E stage \in Stage : Moves(stage)
  BY <1>7, MoveKinds
<1>8. ASSUME Cleaned, fn = None PROVE \E stage \in Stage : Moves(stage)
  BY <1>8, MoveKinds
<1>9. ASSUME FixtureStep
      PROVE  \/ \E f \in Fixture : SetUp(f) \/ Drops(f) \/ Undoes(f)
             \/ \E how \in Ending : SetUpEnds(how) /\ how # "returns"
             \/ Provides \/ HookCleaned \/ \E stage \in Stage : Moves(stage)
  BY <1>1, <1>3, <1>5, <1>6, <1>8, <1>9 DEF FixtureStep
<1> QED BY <1>2, <1>4, <1>7, <1>9 DEF Next, Step, HookStep

(* What a function loses when it is over: it is resolved no longer, and only *)
(* a hook of all tests, that is cleaned after, has an outcome.               *)
LEMMA EndsFacts ==
  ASSUME TypeOK, IInv, FunctionOK, NEW how, EndsFunction(how)
  PROVE  /\ OverTest \/ OverAll(how) \/ OverEach(how)
         /\ phase' \in {"idle", "clean"} /\ (fn' = fn \/ fn' = None) /\ UNCHANGED test /\ cur' = None
         /\ error' # "none" => phase' = "clean"
         /\ how # "none" => ~Coming'
         /\ Coming' => Coming
         /\ error = "none"
<1>1. OverTest \/ OverAll(how) \/ OverEach(how)
  BY OverFacts DEF EndsFunction
<1>2. error = "none" /\ UNCHANGED test
  BY DEF EndsFunction, FunctionOK
<1>3. CASE OverTest
  BY <1>1, <1>2, <1>3 DEF OverTest, Coming
<1>4. CASE OverAll(how)
  BY <1>1, <1>2, <1>4 DEF OverAll, Coming, AllStage
<1>5. CASE OverEach(how)
  BY <1>1, <1>2, <1>5 DEF OverEach, Coming, EachStage
<1> QED BY <1>1, <1>3, <1>4, <1>5

LEMMA EndsFunctions ==
  ASSUME TypeOK, IInv,
         (\E how \in Ending : (SetUpEnds(how) /\ how # "returns") \/ CallEnds(how)) \/ Passes \/ Aborts
  PROVE  \E how : EndsFunction(how)
BY EndsKinds DEF Passes, Aborts

LEMMA FunctionKept ==
  ASSUME TypeOK, TestKnown, IInv, FunctionOK, Next
  PROVE  FunctionOK'
<1>1. ASSUME NEW f \in Fixture, SetUp(f) PROVE FunctionOK'
  <2>1. /\ phase = "resolve" /\ f \in need /\ need' = need \ {f} /\ UNCHANGED <<test, fn, phase, error>>
        /\ cur' \in {None, f}
    BY <1>1 DEF SetUp
  <2>2. \A g \in Fixture : inst[g] # "none" \/ g = f => inst'[g] # "none"
    BY <1>1 DEF SetUp, registry, TypeOK
  <2>3. Needed(fn) \subseteq Fixture
    BY NeededClosed
  <2>4. cur' # None => cur' = f /\ inst'[f] = "setup"
    BY <1>1 DEF SetUp, TypeOK
  <2> QED BY <2>1, <2>2, <2>3, <2>4 DEF FunctionOK
<1>2. ASSUME NEW f \in Fixture, LateSetUp(f) PROVE FunctionOK'
  <2>1. /\ UNCHANGED <<test, fn, phase, error, need, cur>>
        /\ \A g \in Fixture : inst[g] # "none" => inst'[g] # "none"
        /\ cur # None => inst'[cur] = inst[cur]
    BY <1>2 DEF LateSetUp, place, TypeOK
  <2> QED BY <2>1, NeededClosed DEF FunctionOK
<1>3. ASSUME NEW f \in Fixture, Drops(f) \/ Undoes(f) PROVE FunctionOK'
  BY <1>3 DEF FunctionOK, Drops, Undoes
<1>4. ASSUME Provides PROVE FunctionOK'
  <2>1. UNCHANGED <<test, fn, phase, error, need>> /\ cur' = None /\ \A g \in Fixture : inst[g] # "none" => inst'[g] # "none"
    BY <1>4 DEF Provides, TypeOK
  <2> QED BY <2>1, NeededClosed DEF FunctionOK
<1>5. ASSUME Calls \/ HookCleaned \/ Stays PROVE FunctionOK'
  BY <1>5, GroupAssumption DEF FunctionOK, Calls, HookCleaned, Stays
<1>6. ASSUME NEW how, EndsFunction(how) PROVE FunctionOK'
  <2>1. None \notin Test
    BY GroupAssumption
  <2> QED BY <1>6, <2>1, EndsFacts DEF FunctionOK
<1>7. ASSUME RunHook PROVE FunctionOK'
  <2>1. /\ phase = "idle" /\ cur = None /\ UNCHANGED <<test, cur, error, inst>> /\ error = "none"
        /\ \/ UNCHANGED <<phase, fn>>
           \/ phase' = "resolve" /\ fn' = Head(hooks) /\ need' = Needed(fn')
    BY <1>7, Quiet DEF RunHook, FunctionOK, registry
  <2>2. Head(hooks) \in Hook
    BY <1>7 DEF RunHook, TypeOK
  <2> QED BY <2>1, <2>2, GroupAssumption DEF FunctionOK
<1>8. ASSUME EnterSuite \/ LeaveSuite PROVE FunctionOK'
  BY <1>8 DEF EnterSuite, LeaveSuite, FunctionOK, registry
<1>9. ASSUME BeginTest PROVE FunctionOK'
  <2>1. fn = None /\ phase = "idle" /\ UNCHANGED place
    BY <1>9, Quiet DEF BeginTest, AllStage, EachStage, CleanStage
  <2> QED BY <2>1, GroupAssumption DEF FunctionOK, place
<1>10. ASSUME NEW stage \in Stage, Moves(stage) PROVE FunctionOK'
  <2>1. /\ fn' = IF stage = "params" THEN test ELSE None
        /\ phase' = "resolve" => stage = "params"
        /\ need' = IF stage = "params" THEN Needed(test) ELSE {}
        /\ error' = "none" /\ cur' = None /\ UNCHANGED test
    BY <1>10 DEF Moves, Go
  <2> QED BY <2>1, GroupAssumption DEF FunctionOK
<1> QED BY <1>1, <1>2, <1>3, <1>4, <1>5, <1>6, <1>7, <1>8, <1>9, <1>10, NextKinds, EndsFunctions

(* Only the next test brings a worker back on the way to a test function.    *)
LEMMA ComingKept ==
  ASSUME TypeOK, TestKnown, IInv, FunctionOK, Next, Coming'
  PROVE  Coming \/ BeginTest
<1>1. ASSUME NEW f \in Fixture, SetUp(f) \/ LateSetUp(f) \/ Drops(f) \/ Undoes(f) PROVE Coming
  <2>1. UNCHANGED <<at, threw>> /\ error' \in {error, "errorLater", "skipLater"}
    BY <1>1 DEF SetUp, LateSetUp, Drops, Undoes, place
  <2> QED BY <2>1 DEF Coming
<1>2. ASSUME Provides \/ Calls \/ Stays PROVE Coming
  BY <1>2 DEF Coming, Provides, Calls, Stays
<1>3. ASSUME HookCleaned PROVE Coming
  BY <1>3 DEF Coming, HookCleaned, TypeOK
<1>4. ASSUME NEW how, EndsFunction(how) PROVE Coming
  BY <1>4, EndsFacts
<1>5. ASSUME RunHook \/ EnterSuite \/ LeaveSuite PROVE Coming
  BY <1>5 DEF RunHook, EnterSuite, LeaveSuite, Coming
<1>6. ASSUME NEW stage \in Stage, Moves(stage) PROVE Coming
  <2>1. phase = "clean" => at \in CleanStage
    BY <1>6, GroupAssumption, AllHookIsHook DEF Moves, IInv, PlaceOK
  <2>2. at \in {"beforeAll", "beforeEach"} => error = "none"
    BY <1>6, <2>1 DEF Moves, FunctionOK, CleanStage
  <2> QED BY <1>6, <2>2 DEF Moves, Coming
<1> QED BY <1>1, <1>2, <1>3, <1>4, <1>5, <1>6, NextKinds, EndsFunctions

(* What is lost with it, and why.                                            *)
OverWith(how) ==
  /\ EndsFunction(how) /\ UNCHANGED called /\ how \in {"none", "error", "skip"}
  /\ (stopped => stopped') /\ (interrupted => interrupted') /\ (interrupted' => interrupted \/ stopped')
  /\ BadStatus => BadStatus'
  /\ how = "error" => BadStatus' \/ stopped'
  /\ expected' \in {expected, "skipped"} /\ (how = "skip" => expected' = "skipped")
  /\ exhausted \subseteq exhausted' /\ (how # "error" => UNCHANGED exhausted)
  /\ inherited \subseteq inherited' /\ (how # "skip" => UNCHANGED inherited)
  /\ how = "skip" /\ at = "beforeAll" => \A s \in active : fn \in Members(BeforeAll[s]) => s \in inherited'
  /\ \A f \in Fixture : inst[f] = "failed" => inst'[f] = "failed"
  /\ how = "none" => UNCHANGED inst
  /\ \A f \in Fixture : inst'[f] = "setup" =>
       /\ inst[f] = "setup"
       /\ f = cur => how = "error" /\ (Scope[f] = "worker" => f \in exhausted' \/ stopped')
  /\ phase = "resolve" =>
       \/ how = "none" /\ \E f \in Params[fn] : inst[f] = "failed"
       \/ how # "none" /\ \E f \in Needed(fn) : \/ inst'[f] = "failed" \/ f \in exhausted'
                                                \/ StageSlot \in exhausted' \/ interrupted'

LEMMA CallbackFacts ==
  ASSUME TypeOK, NEW how \in Ending, NEW slot, CallbackEnds(how, slot)
  PROVE  /\ UNCHANGED interrupted
         /\ exhausted' = exhausted \/ (how = "timesOut" /\ exhausted' = exhausted \cup {slot})
         /\ how = "timesOut" => slot \in exhausted'
         /\ BadStatus => BadStatus'
         /\ how \in {"throws", "timesOut"} => BadStatus' \/ interrupted
         /\ expected' \in {expected, "skipped"} /\ (how = "skips" => expected' = "skipped")
BY DEF CallbackEnds, Failing, info, Ending, BadStatus

LEMMA OverReasons ==
  ASSUME TypeOK, IInv, FunctionOK, interrupted => stopped
  PROVE  /\ \A how \in Ending : SetUpEnds(how) /\ how # "returns" => OverWith(ErrorOf(how))
         /\ \A how \in Ending : CallEnds(how) => OverWith(ErrorOf(how))
         /\ Passes => OverWith("none")
         /\ Aborts => OverWith("error")
<1>0. cur # None => cur \in Fixture
  BY CurIsFixture
<1>1. ASSUME NEW how \in Ending, Inherit(how)
      PROVE  /\ inherited \subseteq inherited' /\ (ErrorOf(how) # "skip" => UNCHANGED inherited)
             /\ ErrorOf(how) = "skip" /\ at = "beforeAll" =>
                  \A s \in active : fn \in Members(BeforeAll[s]) => s \in inherited'
  BY <1>1 DEF Inherit, ErrorOf, Ending, Members
<1>2. /\ ErrorOf("returns") = "none" /\ ErrorOf("throws") = "error"
      /\ ErrorOf("skips") = "skip" /\ ErrorOf("timesOut") = "error"
  BY DEF ErrorOf
<1>3. ASSUME NEW how \in Ending, SetUpEnds(how), how # "returns" PROVE OverWith(ErrorOf(how))
  <2>1. EndsFunction(ErrorOf(how)) /\ ErrorOf(how) \in {"error", "skip"}
    BY <1>2, <1>3, EndsKinds DEF Ending
  <2>2. phase = "resolve" /\ cur # None /\ CallbackEnds(how, SlotOf(cur)) /\ Inherit(how) /\ UNCHANGED <<stopped, called>>
    BY <1>3 DEF SetUpEnds, history
  <2>3. /\ UNCHANGED interrupted /\ (BadStatus => BadStatus')
        /\ ErrorOf(how) = "error" => BadStatus' \/ stopped'
        /\ expected' \in {expected, "skipped"} /\ (ErrorOf(how) = "skip" => expected' = "skipped")
        /\ exhausted \subseteq exhausted' /\ (ErrorOf(how) # "error" => UNCHANGED exhausted)
        /\ how = "timesOut" => SlotOf(cur) \in exhausted'
    BY <1>2, <2>2, CallbackFacts DEF Ending
  <2>4. \/ how \in {"throws", "skips"} /\ inst' = [inst EXCEPT ![cur] = "failed"]
        \/ how = "timesOut" /\ inst' = inst
    BY <1>3 DEF SetUpEnds, Ending
  <2>5. cur \in Needed(fn)
    BY <2>2 DEF FunctionOK
  <2>6. SlotOf(cur) \in {cur, StageSlot} /\ (Scope[cur] = "worker" => SlotOf(cur) = cur)
    BY <1>0, <2>2, FixtureAssumption DEF SlotOf
  <2>7. \A f \in Fixture : inst[f] = "failed" => inst'[f] = "failed"
    BY <2>4 DEF TypeOK
  <2>8. \A f \in Fixture : inst'[f] = "setup" =>
          /\ inst[f] = "setup"
          /\ f = cur => ErrorOf(how) = "error" /\ (Scope[f] = "worker" => f \in exhausted' \/ stopped')
    BY <1>0, <1>2, <2>2, <2>3, <2>4, <2>6 DEF TypeOK
  <2>9. inst'[cur] = "failed" \/ cur \in exhausted' \/ StageSlot \in exhausted'
    BY <1>0, <2>2, <2>3, <2>4, <2>6 DEF TypeOK
  <2>10. /\ inherited \subseteq inherited' /\ (ErrorOf(how) # "skip" => UNCHANGED inherited)
         /\ ErrorOf(how) = "skip" /\ at = "beforeAll" =>
              \A s \in active : fn \in Members(BeforeAll[s]) => s \in inherited'
    BY <1>1, <2>2
  <2> QED BY <2>1, <2>2, <2>3, <2>5, <2>7, <2>8, <2>9, <2>10 DEF OverWith
<1>4. ASSUME NEW how \in Ending, CallEnds(how) PROVE OverWith(ErrorOf(how))
  <2>1. EndsFunction(ErrorOf(how)) /\ ErrorOf(how) \in {"none", "error", "skip"}
    BY <1>2, <1>4, EndsKinds DEF Ending
  <2>2. phase = "call" /\ CallbackEnds(how, StageSlot) /\ Inherit(how) /\ UNCHANGED <<stopped, called, inst>>
    BY <1>4 DEF CallEnds, history, registry
  <2>3. cur = None
    BY <2>2 DEF IInv, PlaceOK
  <2>4. /\ UNCHANGED interrupted /\ (BadStatus => BadStatus')
        /\ ErrorOf(how) = "error" => BadStatus' \/ stopped'
        /\ expected' \in {expected, "skipped"} /\ (ErrorOf(how) = "skip" => expected' = "skipped")
        /\ exhausted \subseteq exhausted' /\ (ErrorOf(how) # "error" => UNCHANGED exhausted)
    BY <1>2, <2>2, CallbackFacts DEF Ending
  <2>5. /\ inherited \subseteq inherited' /\ (ErrorOf(how) # "skip" => UNCHANGED inherited)
        /\ ErrorOf(how) = "skip" /\ at = "beforeAll" =>
             \A s \in active : fn \in Members(BeforeAll[s]) => s \in inherited'
    BY <1>1, <2>2
  <2>6. \A f \in Fixture : f # cur
    BY <2>3, GroupAssumption
  <2> QED BY <2>1, <2>2, <2>4, <2>5, <2>6 DEF OverWith
<1>5. ASSUME Passes PROVE OverWith("none")
  <2>1. EndsFunction("none") /\ phase = "resolve" /\ need = {} /\ UNCHANGED <<info, worker, inst, called>>
    BY <1>5 DEF Passes
  <2>2. PICK f \in Params[fn] : Failed(f)
    BY <1>5 DEF Passes
  <2>3. f \in Needed(fn)
    BY <2>1, <2>2, NeededClosed, Quiet DEF TypeOK
  <2>4. inst[f] = "failed"
    BY <2>1, <2>2, <2>3 DEF FunctionOK, Failed
  <2>5. cur = None
    BY <1>5 DEF Passes
  <2>6. \A g \in Fixture : g # cur
    BY <2>5, GroupAssumption
  <2> QED BY <2>1, <2>2, <2>4, <2>6 DEF OverWith, info, worker, BadStatus
<1>6. ASSUME Aborts PROVE OverWith("error")
  <2>1. /\ EndsFunction("error") /\ stopped' = TRUE /\ interrupted' = TRUE /\ (phase = "resolve" => cur \in Needed(fn))
        /\ UNCHANGED <<inst, exhausted, expected, active, inherited, called>>
        /\ BadStatus => BadStatus'
    BY <1>6 DEF Aborts, FunctionOK, Interrupts
  <2> QED BY <2>1 DEF OverWith
<1> QED BY <1>3, <1>4, <1>5, <1>6

(* How a test goes: an interrupted worker is stopped, a test has its time as *)
(* long as nothing is in the way, and what goes wrong in a "beforeAll" hook  *)
(* shows in the status.                                                      *)
Troubled == BadStatus \/ stopped
OutcomeOK ==
  /\ interrupted => stopped
  /\ test \in Test => expected \in {Expect[test], "skipped"}
  /\ Coming => "test" \notin exhausted
  /\ at = "beforeAll" => /\ threw /\ (hooks # <<>> \/ fn # None) => Troubled
                         /\ error \in {"error", "errorLater"} => Troubled
  /\ at = "next" => status = "skipped"

LEMMA NextOver ==
  ASSUME TypeOK, TestKnown, IInv, FunctionOK, interrupted => stopped, Next
  PROVE  \/ \E f \in Fixture : SetUp(f) \/ LateSetUp(f) \/ Drops(f) \/ Undoes(f)
         \/ \E how \in {"none", "error", "skip"} : OverWith(how)
         \/ Provides \/ Calls \/ HookCleaned \/ Stays
         \/ RunHook \/ EnterSuite \/ LeaveSuite \/ BeginTest
         \/ \E stage \in Stage : Moves(stage)
<1>1. (\E how \in Ending : (SetUpEnds(how) /\ how # "returns") \/ CallEnds(how)) \/ Passes \/ Aborts
        => \E how : OverWith(how)
  BY OverReasons
<1>2. \A how : OverWith(how) => how \in {"none", "error", "skip"}
  BY DEF OverWith
<1> QED BY <1>1, <1>2, NextKinds

LEMMA OutcomeKept ==
  ASSUME TypeOK, TestKnown, IInv, FunctionOK, OutcomeOK, Next
  PROVE  OutcomeOK'
<1>0. Coming' => Coming \/ BeginTest
  BY ComingKept
<1>1. ASSUME NEW f \in Fixture, SetUp(f) \/ LateSetUp(f) \/ Undoes(f) PROVE OutcomeOK'
  <2>1. UNCHANGED <<at, interrupted, stopped, test, expected, exhausted, threw, hooks, fn, error, status>>
    BY <1>1 DEF SetUp, LateSetUp, Undoes, place, info, worker
  <2> QED BY <2>1 DEF OutcomeOK, Troubled, BadStatus, Coming
<1>2. ASSUME Provides \/ Calls PROVE OutcomeOK'
  <2>1. UNCHANGED <<at, interrupted, stopped, test, expected, exhausted, threw, hooks, fn, error, status>>
    BY <1>2 DEF Provides, Calls, info, worker
  <2> QED BY <2>1 DEF OutcomeOK, Troubled, BadStatus, Coming
<1>3. ASSUME NEW f \in Fixture, Drops(f) PROVE OutcomeOK'
  <2>1. /\ UNCHANGED <<at, test, threw, hooks, fn>> /\ expected' \in {expected, "skipped"}
        /\ at = "beforeAll" /\ "test" \in exhausted' => "test" \in exhausted
        /\ error' \in {error, "skipLater"} \/ BadStatus' \/ interrupted \/ stopped'
        /\ BadStatus => BadStatus'
        /\ (stopped => stopped') /\ (interrupted' => interrupted \/ stopped')
        /\ phase = "clean"
    BY <1>3 DEF Drops, AllStage
  <2>2. at \notin {"begin", "folders", "params", "beforeEach", "next"}
    BY <2>1, Quiet, GroupAssumption, AllHookIsHook DEF IInv, PlaceOK, AllStage, EachStage, CleanStage
  <2>3. Coming' => Coming /\ at = "beforeAll"
    BY <1>0, <1>3, <2>1, <2>2 DEF Coming, Drops
  <2> QED BY <2>1, <2>2, <2>3 DEF OutcomeOK, Troubled
<1>4. ASSUME Stays PROVE OutcomeOK'
  BY <1>4 DEF Stays, OutcomeOK, Troubled, Coming
<1>5. ASSUME NEW how \in {"none", "error", "skip"}, OverWith(how) PROVE OutcomeOK'
  <2>1. EndsFunction(how) /\ phase \in {"resolve", "call"} /\ fn # None
    BY <1>5, Quiet DEF OverWith, EndsFunction
  <2>2. /\ OverTest \/ OverAll(how) \/ OverEach(how)
        /\ UNCHANGED test /\ (how # "none" => ~Coming') /\ (Coming' => Coming)
    BY <2>1, EndsFacts
  <2>3. interrupted' => stopped'
    BY <1>5 DEF OverWith, OutcomeOK
  <2>4. test' \in Test => expected' \in {Expect[test'], "skipped"}
    BY <1>5, <2>2 DEF OverWith, OutcomeOK
  <2>5. Coming' => "test" \notin exhausted'
    BY <1>5, <2>2 DEF OverWith, OutcomeOK
  <2>6. /\ at' # "next"
        /\ at' = "beforeAll" => at = "beforeAll" /\ UNCHANGED <<threw, hooks, fn>> /\ error' = how
    BY <2>2 DEF OverTest, OverAll, OverEach, AllStage, EachStage
  <2>7. (Troubled => Troubled') /\ (how = "error" => Troubled')
    BY <1>5 DEF OverWith, Troubled
  <2> QED BY <2>1, <2>3, <2>4, <2>5, <2>6, <2>7 DEF OutcomeOK
<1>6. ASSUME HookCleaned PROVE OutcomeOK'
  <2>1. /\ UNCHANGED <<at, test, expected, exhausted, interrupted, stopped, status>>
        /\ fn # None /\ fn' = None /\ error' = "none" /\ threw' = (threw \/ error # "none")
        /\ hooks' = IF SkipsOthers THEN <<>> ELSE hooks
    BY <1>6 DEF HookCleaned, info, worker
  <2>2. at # "next"
    BY <2>1, Quiet DEF AllStage, EachStage
  <2>3. Coming' => Coming
    BY <1>0, <1>6, <2>1, <2>2 DEF BeginTest, Coming
  <2>4. at = "beforeAll" /\ threw' /\ hooks' # <<>> => Troubled
    BY <2>1 DEF OutcomeOK, TypeOK, SkipsOthers
  <2> QED BY <2>1, <2>2, <2>3, <2>4 DEF OutcomeOK, Troubled, BadStatus
<1>7. ASSUME RunHook PROVE OutcomeOK'
  <2>1. /\ UNCHANGED <<at, test, expected, interrupted, stopped, status, threw, error>>
        /\ exhausted' \subseteq exhausted /\ hooks # <<>>
    BY <1>7 DEF RunHook, worker
  <2> QED BY <2>1 DEF OutcomeOK, Troubled, BadStatus, Coming
<1>8. ASSUME EnterSuite \/ LeaveSuite PROVE OutcomeOK'
  <2>1. /\ UNCHANGED <<at, test, info, stopped, threw, error, fn>> /\ (at = "beforeAll" => ~threw)
    BY <1>8 DEF EnterSuite, LeaveSuite
  <2>2. phase = "idle"
    BY <1>8 DEF EnterSuite, LeaveSuite
  <2> QED BY <2>1, <2>2 DEF OutcomeOK, Troubled, BadStatus, Coming, info
<1>9. ASSUME BeginTest PROVE OutcomeOK'
  <2>1. /\ interrupted' = FALSE /\ exhausted' = exhausted \cap Fixture /\ test' = test + 1
        /\ expected' \in {"skipped", Expect[test + 1]}
        /\ \/ at' = "next" /\ status' = "skipped"
           \/ at' = "begin"
    BY <1>9 DEF BeginTest
  <2>2. "test" \notin Fixture
    BY FixtureAssumption
  <2> QED BY <2>1, <2>2 DEF OutcomeOK
<1>10. ASSUME NEW stage \in Stage, Moves(stage) PROVE OutcomeOK'
  <2>1. /\ at' = stage /\ hooks' = (IF stage = "beforeAll" THEN <<>> ELSE hooks')
        /\ fn' = (IF stage = "params" THEN test ELSE None) /\ error' = "none"
    BY <1>10 DEF Moves, Go
  <2>2. stage # "next"
    BY <1>10 DEF Moves
  <2>3. Coming' => Coming
    BY <1>0, <1>10 DEF Moves, BeginTest, Coming
  <2>4. Coming => exhausted' = exhausted
    BY <1>10 DEF Moves, Coming
  <2>5. UNCHANGED <<test, expected>> /\ (stopped => stopped') /\ (interrupted' => interrupted \/ stopped')
    BY <1>10 DEF Moves
  <2> QED BY <2>1, <2>2, <2>3, <2>4, <2>5 DEF OutcomeOK
<1> QED BY <1>1, <1>2, <1>3, <1>4, <1>5, <1>6, <1>7, <1>8, <1>9, <1>10, NextOver DEF OutcomeOK

(* The suites of a test are entered from the outermost and left from the     *)
(* innermost.  The hooks of a suite are run in one go.                       *)
SuitesOK ==
  /\ at = "beforeAll" => /\ Members(suites) \subseteq Members(SuitesOf[test])
                         /\ Members(SuitesOf[test]) \subseteq active \cup Members(suites)
  /\ at \in {"beforeEach", "params"} => Members(SuitesOf[test]) \subseteq active

(* Whoever has "afterAll" hooks to run has a test to come that runs them.    *)
ToLeave == {s \in active : AfterAll[s] # <<>>}
LeaveOK ==
  /\ at \in {"between", "next", "cleanTest", "cleanAll", "cleanWorker", "end"} => ToLeave \subseteq EnclosingNext
  /\ at \in {"begin", "folders", "beforeAll", "beforeEach", "params", "after", "afterEach", "tearDown"}
       => ToLeave \subseteq Members(SuitesOf[test])
  /\ at = "afterAll" => ToLeave \subseteq Members(suites) \cup EnclosingNext

LEMMA MembersFacts ==
  /\ Members(<<>>) = {}
  /\ \A S : \A q \in Seq(S) : q # <<>> => /\ Members(q) = {Head(q)} \cup Members(Tail(q))
                                         /\ Head(q) \in S /\ Tail(q) \in Seq(S)
  /\ \A S : \A q \in Seq(S) : Members(q) \subseteq S
<1>1. Members(<<>>) = {}
  BY DEF Members
<1>2. ASSUME NEW S, NEW q \in Seq(S), q # <<>>
      PROVE  /\ Members(q) = {Head(q)} \cup Members(Tail(q))
             /\ Head(q) \in S /\ Tail(q) \in Seq(S)
  <2>1. /\ Len(q) \in Nat \ {0} /\ DOMAIN q = 1 .. Len(q) /\ Head(q) = q[1]
        /\ Tail(q) \in Seq(S) /\ Len(Tail(q)) = Len(q) - 1
        /\ \A i \in 1 .. Len(q) - 1 : Tail(q)[i] = q[i + 1]
    BY <1>2
  <2>2. DOMAIN Tail(q) = 1 .. Len(q) - 1
    BY <2>1
  <2>3. ASSUME NEW i \in 1 .. Len(q) PROVE q[i] \in {Head(q)} \cup Members(Tail(q))
    <3>1. CASE i = 1
      BY <2>1, <3>1
    <3>2. CASE i # 1
      <4>1. i - 1 \in 1 .. Len(q) - 1 /\ Tail(q)[i - 1] = q[i]
        BY <2>1, <3>2
      <4> QED BY <2>2, <4>1 DEF Members
    <3> QED BY <3>1, <3>2
  <2>4. Head(q) \in Members(q)
    BY <2>1 DEF Members
  <2>5. ASSUME NEW i \in 1 .. Len(q) - 1 PROVE Tail(q)[i] \in Members(q)
    <3>1. i + 1 \in 1 .. Len(q) /\ Tail(q)[i] = q[i + 1]
      BY <2>1
    <3> QED BY <2>1, <3>1 DEF Members
  <2>6. Members(q) \subseteq {Head(q)} \cup Members(Tail(q))
    BY <2>1, <2>3 DEF Members
  <2>7. Members(Tail(q)) \subseteq Members(q)
    BY <2>2, <2>5 DEF Members
  <2>8. Head(q) \in S
    BY <2>1, <1>2
  <2> QED BY <2>1, <2>4, <2>6, <2>7, <2>8
<1>3. \A S : \A q \in Seq(S) : Members(q) \subseteq S
  BY DEF Members
<1> QED BY <1>1, <1>2, <1>3

LEMMA InnermostMembers ==
  ASSUME NEW t \in Test PROVE Members(Innermost(t)) = Members(SuitesOf[t])
<1> DEFINE n == Len(SuitesOf[t])
<1>1. SuitesOf[t] \in Seq(Suite) /\ n \in Nat /\ DOMAIN SuitesOf[t] = 1 .. n
  BY GroupAssumption
<1>2. DOMAIN Innermost(t) = 1 .. n /\ \A i \in 1 .. n : Innermost(t)[i] = SuitesOf[t][n + 1 - i]
  BY DEF Innermost
<1> HIDE DEF n
<1>3. ASSUME NEW i \in 1 .. n
      PROVE  Innermost(t)[i] \in Members(SuitesOf[t]) /\ SuitesOf[t][i] \in Members(Innermost(t))
  <2>1. n + 1 - i \in 1 .. n /\ n + 1 - (n + 1 - i) = i
    BY <1>1
  <2>2. Innermost(t)[i] = SuitesOf[t][n + 1 - i] /\ Innermost(t)[n + 1 - i] = SuitesOf[t][i]
    BY <1>2, <2>1
  <2> QED BY <1>1, <1>2, <2>1, <2>2 DEF Members
<1> QED BY <1>1, <1>2, <1>3 DEF Members

LEMMA Enclosing ==
  ASSUME TypeOK
  PROVE  /\ test < LastTest => EnclosingNext = Members(SuitesOf[test + 1])
         /\ \A t \in Test : Members(SuitesOf[t]) \subseteq Suite
<1>1. \A t \in Test : Members(SuitesOf[t]) \subseteq Suite
  BY GroupAssumption, MembersFacts
<1>2. ASSUME test < LastTest PROVE EnclosingNext = Members(SuitesOf[test + 1])
  <2>1. test + 1 \in Test /\ test + 1 # None /\ NextTest = test + 1
    BY <1>2, GroupAssumption DEF TypeOK, Test, NextTest
  <2> QED BY <1>1, <2>1 DEF EnclosingNext, Members
<1> QED BY <1>1, <1>2

(* Most of what a worker does changes nothing in where it is.                *)
LEMMA InnerFrame ==
  ASSUME \/ \E f \in Fixture : SetUp(f) \/ LateSetUp(f) \/ Drops(f) \/ Undoes(f)
         \/ Provides \/ Calls \/ HookCleaned \/ Stays \/ RunHook
  PROVE  /\ UNCHANGED <<at, suites, test, active, inherited, due>>
         /\ phase # "clean" => UNCHANGED expected
BY DEF SetUp, LateSetUp, Drops, Undoes, Provides, Calls, HookCleaned, Stays, RunHook, place, info, worker

LEMMA SuitesKept ==
  ASSUME TypeOK, TestKnown, IInv, FunctionOK, OutcomeOK, SuitesOK, LeaveOK, Next
  PROVE  SuitesOK' /\ LeaveOK'
<1>0. interrupted => stopped
  BY DEF OutcomeOK
<1>1. ASSUME UNCHANGED <<at, suites, test, active>> PROVE SuitesOK' /\ LeaveOK'
  <2>1. EnclosingNext' = EnclosingNext /\ ToLeave' = ToLeave
    BY <1>1 DEF EnclosingNext, NextTest, ToLeave
  <2> QED BY <1>1, <2>1 DEF SuitesOK, LeaveOK
<1>2. ASSUME NEW how \in {"none", "error", "skip"}, OverWith(how) PROVE SuitesOK' /\ LeaveOK'
  <2>1. EndsFunction(how) /\ UNCHANGED <<test, active>>
    BY <1>2 DEF OverWith, EndsFunction
  <2>2. OverTest \/ OverAll(how) \/ OverEach(how)
    BY <2>1, EndsFacts
  <2>3. CASE OverTest
    BY <2>1, <2>3 DEF OverTest, SuitesOK, LeaveOK, ToLeave
  <2> QED BY <1>1, <2>1, <2>2, <2>3 DEF OverAll, OverEach
<1>3. ASSUME EnterSuite PROVE SuitesOK' /\ LeaveOK'
  <2>1. /\ at = "beforeAll" /\ suites # <<>> /\ suites' = Tail(suites)
        /\ active' = active \cup {Head(suites)} /\ UNCHANGED <<test, at>>
    BY <1>3 DEF EnterSuite
  <2>2. Members(suites) = {Head(suites)} \cup Members(Tail(suites))
    BY <2>1, MembersFacts DEF TypeOK
  <2> QED BY <2>1, <2>2 DEF SuitesOK, LeaveOK, ToLeave
<1>4. ASSUME LeaveSuite PROVE SuitesOK' /\ LeaveOK'
  <2>1. /\ at \in {"afterAll", "cleanAll"} /\ suites # <<>> /\ suites' = Tail(suites) /\ UNCHANGED <<test, at>>
        /\ \/ active' = active \ {Head(suites)}
           \/ active' = active /\ (Head(suites) \notin active \/ ~Leaves(Head(suites)))
    BY <1>4 DEF LeaveSuite
  <2>2. Members(suites) = {Head(suites)} \cup Members(Tail(suites))
    BY <2>1, MembersFacts DEF TypeOK
  <2>3. ~Leaves(Head(suites)) => Head(suites) \in EnclosingNext
    BY DEF Leaves
  <2>4. EnclosingNext' = EnclosingNext
    BY <2>1 DEF EnclosingNext, NextTest
  <2> QED BY <2>1, <2>2, <2>3, <2>4 DEF SuitesOK, LeaveOK, ToLeave
<1>5. ASSUME BeginTest PROVE SuitesOK' /\ LeaveOK'
  <2>1. /\ at \in {"between", "next"} /\ test < LastTest /\ test' = test + 1 /\ UNCHANGED active
        /\ \/ at' = "begin"
           \/ at' = "next" /\ test + 1 < LastTest /\ ~HasAfterAllToRun(test + 1)
    BY <1>5 DEF BeginTest, worker
  <2>2. EnclosingNext = Members(SuitesOf[test'])
    BY <2>1, Enclosing
  <2>3. ToLeave' = ToLeave /\ ToLeave \subseteq Members(SuitesOf[test'])
    BY <2>1, <2>2 DEF LeaveOK, ToLeave
  <2>4. ASSUME at' = "next" PROVE ToLeave' \subseteq EnclosingNext'
    <3>1. test + 1 < LastTest /\ ~HasAfterAllToRun(test + 1) /\ test' = test + 1 /\ test + 1 \in Test
      BY <2>1, <2>4, GroupAssumption DEF TypeOK, Test
    <3>2. test + 2 \in Test /\ (test + 1) + 1 = test + 2 /\ test + 2 # None /\ test + 1 # LastTest
      BY <3>1, GroupAssumption DEF TypeOK, Test
    <3>3. NextTest' = test + 2
      BY <3>1, <3>2 DEF NextTest
    <3>4. EnclosingAfter(test + 1) = Members(SuitesOf[test + 2])
      BY <3>2 DEF EnclosingAfter, Members
    <3>5. EnclosingNext' = Members(SuitesOf[test + 2])
      <4>1. EnclosingNext' = {s \in Suite : s \in Members(SuitesOf[test + 2])}
        BY <3>2, <3>3 DEF EnclosingNext, Members
      <4> QED BY <3>2, <4>1, Enclosing
    <3>6. ASSUME NEW s \in ToLeave PROVE s \in EnclosingAfter(test + 1)
      <4>1. PICK i \in DOMAIN SuitesOf[test + 1] : SuitesOf[test + 1][i] = s
        BY <2>3, <3>1 DEF Members
      <4> QED BY <3>1, <4>1 DEF HasAfterAllToRun, ToLeave
    <3> QED BY <2>3, <3>4, <3>5, <3>6
  <2> QED BY <2>1, <2>3, <2>4 DEF SuitesOK, LeaveOK
<1>6. ASSUME NEW stage \in Stage, Moves(stage) PROVE SuitesOK' /\ LeaveOK'
  <2>1. Go(stage) /\ at' = stage /\ UNCHANGED <<test, active>>
    BY <1>6 DEF Moves
  <2>2. /\ stage = "beforeAll" => suites' = SuitesOf[test]
        /\ stage = "afterAll" => suites' = Innermost(test)
    BY <2>1 DEF Go
  <2>3. EnclosingNext' = EnclosingNext /\ ToLeave' = ToLeave
    BY <2>1 DEF EnclosingNext, NextTest, ToLeave
  <2>4. stage = "afterAll" => at = "tearDown" /\ Members(suites') = Members(SuitesOf[test])
    BY <1>6, <2>2, InnermostMembers DEF Moves, TestKnown
  <2>5. Members(<<>>) = {}
    BY MembersFacts
  <2>6. SuitesOK'
    BY <1>6, <2>1, <2>2, <2>5 DEF Moves, SuitesOK
  <2>7. LeaveOK'
    BY <1>6, <2>1, <2>3, <2>4, <2>5 DEF Moves, LeaveOK
  <2> QED BY <2>6, <2>7
<1> QED BY <1>0, <1>1, <1>2, <1>3, <1>4, <1>5, <1>6, NextOver, InnerFrame

(* The hooks around a test run only when its own are due; those of a suite   *)
(* belong to one suite of the test, which inherits a skip.                   *)
DueOK ==
  /\ at = "beforeEach" => due
  /\ at = "afterEach" /\ (hooks # <<>> \/ fn # None) => due
  /\ called \cap (Hook \ AllHook) # {} => due
EntryOK ==
  at = "beforeAll" =>
    /\ \/ hooks = <<>> /\ fn = None
       \/ \E s \in Members(SuitesOf[test]) : /\ Members(hooks) \subseteq Members(BeforeAll[s])
                                             /\ fn # None => fn \in Members(BeforeAll[s])
    /\ error = "skip" => \A s \in active : fn \in Members(BeforeAll[s]) => s \in inherited
InheritOK ==
  Coming => \/ at = "begin" /\ expected = "skipped"
            \/ Members(SuitesOf[test]) \cap inherited = {}

LEMMA DueKept ==
  ASSUME TypeOK, TestKnown, IInv, FunctionOK, OutcomeOK, DueOK, Next
  PROVE  DueOK'
<1>0. interrupted => stopped
  BY DEF OutcomeOK
<1>1. ASSUME \E f \in Fixture : SetUp(f) \/ LateSetUp(f) \/ Drops(f) \/ Undoes(f) PROVE DueOK'
  <2>1. UNCHANGED <<at, due, called, hooks, fn>>
    BY <1>1 DEF SetUp, LateSetUp, Drops, Undoes, place, history
  <2> QED BY <2>1 DEF DueOK
<1>2. ASSUME Provides \/ Stays \/ HookCleaned PROVE DueOK'
  BY <1>2 DEF Provides, Stays, HookCleaned, DueOK
<1>3. ASSUME Calls PROVE DueOK'
  <2>1. fn \in Hook \ AllHook => at \in EachStage
    BY <1>3, Quiet, GroupAssumption DEF IInv, PlaceOK, Calls
  <2>2. fn # None
    BY <1>3, Quiet DEF Calls
  <2> QED BY <1>3, <2>1, <2>2 DEF Calls, DueOK, EachStage
<1>4. ASSUME NEW how \in {"none", "error", "skip"}, OverWith(how) PROVE DueOK'
  <2>1. EndsFunction(how) /\ UNCHANGED <<due, called>> /\ fn # None
    BY <1>4, Quiet DEF OverWith, EndsFunction
  <2>2. OverTest \/ OverAll(how) \/ OverEach(how)
    BY <2>1, EndsFacts
  <2> QED BY <2>1, <2>2 DEF DueOK, OverTest, OverAll, OverEach, AllStage, EachStage
<1>5. ASSUME RunHook PROVE DueOK'
  <2>1. hooks # <<>> /\ UNCHANGED <<at, due, called>>
    BY <1>5 DEF RunHook, history
  <2> QED BY <2>1 DEF DueOK
<1>6. ASSUME EnterSuite \/ LeaveSuite PROVE DueOK'
  BY <1>6 DEF EnterSuite, LeaveSuite, DueOK, history
<1>7. ASSUME BeginTest PROVE DueOK'
  BY <1>7 DEF BeginTest, DueOK
<1>8. ASSUME NEW stage \in Stage, Moves(stage) PROVE DueOK'
  <2>1. /\ at' = stage /\ Go(stage) /\ UNCHANGED called
        /\ stage # "beforeEach" => UNCHANGED due
        /\ stage = "beforeEach" => due'
    BY <1>8 DEF Moves
  <2>2. /\ stage = "afterEach" => hooks' = IF due THEN AfterEach[test] ELSE <<>>
        /\ stage # "params" => fn' = None
    BY <2>1 DEF Go
  <2> QED BY <2>1, <2>2 DEF DueOK
<1> QED BY <1>0, <1>1, <1>2, <1>3, <1>4, <1>5, <1>6, <1>7, <1>8, NextOver

LEMMA EntryKept ==
  ASSUME TypeOK, TestKnown, IInv, FunctionOK, OutcomeOK, SuitesOK, EntryOK, Next
  PROVE  EntryOK'
<1>0. interrupted => stopped
  BY DEF OutcomeOK
<1>1. ASSUME \E f \in Fixture : SetUp(f) \/ LateSetUp(f) \/ Drops(f) \/ Undoes(f) PROVE EntryOK'
  <2>1. UNCHANGED <<at, test, hooks, fn, active, inherited>> /\ error' \in {error, "errorLater", "skipLater"}
    BY <1>1 DEF SetUp, LateSetUp, Drops, Undoes, place, worker
  <2> QED BY <2>1 DEF EntryOK
<1>2. ASSUME Provides \/ Stays \/ Calls PROVE EntryOK'
  <2>1. UNCHANGED <<at, test, hooks, fn, active, inherited, error>>
    BY <1>2 DEF Provides, Stays, Calls, worker
  <2> QED BY <2>1 DEF EntryOK
<1>3. ASSUME HookCleaned PROVE EntryOK'
  <2>1. UNCHANGED <<at, test, active, inherited>> /\ error' = "none" /\ fn' = None /\ hooks' \in {<<>>, hooks}
    BY <1>3 DEF HookCleaned, worker
  <2> QED BY <2>1 DEF EntryOK
<1>4. ASSUME NEW how \in {"none", "error", "skip"}, OverWith(how) PROVE EntryOK'
  <2>1. EndsFunction(how) /\ UNCHANGED <<test, active>>
    BY <1>4 DEF OverWith, EndsFunction
  <2>2. OverTest \/ OverAll(how) \/ OverEach(how)
    BY <2>1, EndsFacts
  <2>3. at' = "beforeAll" => at = "beforeAll" /\ UNCHANGED <<hooks, fn>> /\ error' = how
    BY <2>2 DEF OverTest, OverAll, OverEach, AllStage, EachStage
  <2>4. how = "skip" /\ at = "beforeAll" => \A s \in active : fn \in Members(BeforeAll[s]) => s \in inherited'
    BY <1>4 DEF OverWith
  <2> QED BY <2>1, <2>3, <2>4 DEF EntryOK
<1>5. ASSUME RunHook PROVE EntryOK'
  <2>1. /\ hooks # <<>> /\ hooks' = Tail(hooks) /\ UNCHANGED <<at, test, active, inherited, error>>
        /\ fn' = Head(hooks) \/ fn' = fn
        /\ phase = "idle"
    BY <1>5 DEF RunHook, worker
  <2>2. Members(hooks) = {Head(hooks)} \cup Members(Tail(hooks))
    BY <2>1, MembersFacts DEF TypeOK
  <2>3. error = "none"
    BY <2>1 DEF FunctionOK
  <2>4. fn = None
    BY <2>1, Quiet
  <2> QED BY <2>1, <2>2, <2>3, <2>4 DEF EntryOK
<1>6. ASSUME EnterSuite PROVE EntryOK'
  <2>1. /\ at = "beforeAll" /\ suites # <<>> /\ phase = "idle" /\ UNCHANGED <<at, test, error, fn>>
        /\ hooks' \in {<<>>, BeforeAll[Head(suites)]}
    BY <1>6 DEF EnterSuite
  <2>2. Head(suites) \in Members(SuitesOf[test])
    BY <2>1, MembersFacts DEF TypeOK, SuitesOK
  <2>3. error = "none" /\ fn = None
    BY <2>1, Quiet DEF FunctionOK
  <2> QED BY <2>1, <2>2, <2>3 DEF EntryOK
<1>7. ASSUME LeaveSuite \/ BeginTest PROVE EntryOK'
  BY <1>7 DEF LeaveSuite, BeginTest, EntryOK
<1>8. ASSUME NEW stage \in Stage, Moves(stage) PROVE EntryOK'
  <2>1. at' = stage /\ error' = "none" /\ (stage = "beforeAll" => hooks' = <<>> /\ fn' = None)
    BY <1>8 DEF Moves, Go
  <2> QED BY <2>1 DEF EntryOK
<1> QED BY <1>0, <1>1, <1>2, <1>3, <1>4, <1>5, <1>6, <1>7, <1>8, NextOver

LEMMA InheritKept ==
  ASSUME TypeOK, TestKnown, IInv, FunctionOK, OutcomeOK, InheritOK, Next
  PROVE  InheritOK'
<1>0. (interrupted => stopped) /\ (Coming' => Coming \/ BeginTest)
  BY ComingKept DEF OutcomeOK
<1>1. ASSUME UNCHANGED <<at, test, inherited, expected>>, ~BeginTest PROVE InheritOK'
  BY <1>0, <1>1 DEF InheritOK
<1>2. ASSUME NEW how \in {"none", "error", "skip"}, OverWith(how) PROVE InheritOK'
  <2>1. EndsFunction(how) /\ UNCHANGED test /\ (how # "skip" => UNCHANGED inherited)
    BY <1>2 DEF OverWith, EndsFunction
  <2>2. (how # "none" => ~Coming') /\ (Coming' => Coming)
    BY <2>1, EndsFacts
  <2>3. at # "begin"
    BY <2>1, Quiet DEF EndsFunction, AllStage, EachStage
  <2> QED BY <2>1, <2>2, <2>3 DEF InheritOK
<1>3. ASSUME EnterSuite PROVE InheritOK'
  <2>1. UNCHANGED <<at, test, inherited, expected>> /\ ~BeginTest
    BY <1>3 DEF EnterSuite, info, BeginTest
  <2> QED BY <1>1, <2>1
<1>4. ASSUME LeaveSuite PROVE InheritOK'
  <2>1. at' \in {"afterAll", "cleanAll"}
    BY <1>4 DEF LeaveSuite
  <2> QED BY <2>1 DEF InheritOK, Coming
<1>5. ASSUME BeginTest PROVE InheritOK'
  <2>1. /\ test' = test + 1 /\ UNCHANGED inherited
        /\ expected' = IF IsSkipped(test + 1) THEN "skipped" ELSE Expect[test + 1]
        /\ at' \in {"begin", "next"}
    BY <1>5 DEF BeginTest, worker
  <2>2. ~IsSkipped(test + 1) => Members(SuitesOf[test']) \cap inherited' = {}
    BY <2>1 DEF IsSkipped, Members
  <2> QED BY <2>1, <2>2 DEF InheritOK, Coming
<1>6. ASSUME NEW stage \in Stage, Moves(stage) PROVE InheritOK'
  <2>1. UNCHANGED <<test, inherited, expected>> /\ at' = stage /\ (stage # "begin")
    BY <1>6 DEF Moves
  <2>2. at = "begin" /\ Coming' => expected # "skipped"
    BY <1>6, <2>1 DEF Moves, Coming
  <2>3. Coming' => Coming
    BY <1>0, <1>6 DEF Moves, BeginTest, Coming
  <2> QED BY <2>1, <2>2, <2>3 DEF InheritOK
<1>7. ASSUME \/ \E f \in Fixture : SetUp(f) \/ LateSetUp(f) \/ Drops(f) \/ Undoes(f)
             \/ Provides \/ Calls \/ HookCleaned \/ Stays \/ RunHook
      PROVE  InheritOK'
  <2>1. UNCHANGED <<at, test, inherited>> /\ (at = "begin" => UNCHANGED expected)
    BY <1>7, InnerFrame, Quiet DEF AllStage, EachStage, CleanStage
  <2>2. CASE BeginTest
    BY <1>5, <2>2
  <2> QED BY <1>0, <2>1, <2>2 DEF InheritOK
<1> QED BY <1>0, <1>2, <1>3, <1>4, <1>5, <1>6, <1>7, NextOver

(* A fixture that was left while it was set up stays without its time, or no *)
(* test follows; a fixture fails on the way to a test only for a worker      *)
(* fixture that has failed; a test function gets what it names.              *)
Hopeless(f) == IF Scope[f] = "worker" THEN f \in exhausted \/ NoMoreTests ELSE ~Coming
HungOK == \A f \in Fixture : inst[f] = "setup" /\ f # cur => Hopeless(f)

WorkerFailed(f) == Scope[f] = "worker" /\ inst[f] = "failed"
Broken(f) == \A closed \in SUBSET Fixture :
  f \in closed /\ (\A g \in closed : DependsOn(g) \subseteq closed) => \E g \in closed : WorkerFailed(g)
FailedOK == Coming => \A f \in Fixture : inst[f] = "failed" => Broken(f)

PreparedOK == phase = "call" /\ fn \in Test =>
  \A f \in Params[fn] : inst[f] = "provided" \/ (Scope[f] = "worker" /\ f \in exhausted)

LEMMA NoMoreKept ==
  ASSUME TypeOK, TestKnown, IInv, FunctionOK, OutcomeOK, NoMoreTests, Next
  PROVE  NoMoreTests'
<1>0. (interrupted => stopped) /\ (Coming' => Coming \/ BeginTest)
  BY ComingKept DEF OutcomeOK
<1>1. ASSUME UNCHANGED <<at, stopped>>, ~BeginTest PROVE NoMoreTests'
  BY <1>0, <1>1 DEF NoMoreTests
<1>2. ASSUME BeginTest PROVE NoMoreTests'
  BY <1>2 DEF BeginTest, NoMoreTests, Coming, worker
<1>3. ASSUME Stays PROVE NoMoreTests'
  BY <1>3 DEF Stays, NoMoreTests, Coming
<1>4. ASSUME NEW how \in {"none", "error", "skip"}, OverWith(how) PROVE NoMoreTests'
  <2>1. EndsFunction(how) /\ (stopped => stopped')
    BY <1>4 DEF OverWith
  <2>2. Coming' => Coming
    BY <2>1, EndsFacts
  <2>3. at \in AllStage \cup EachStage \cup {"params"}
    BY <2>1, Quiet DEF EndsFunction
  <2> QED BY <2>1, <2>2, <2>3 DEF NoMoreTests, AllStage, EachStage
<1>5. ASSUME NEW stage \in Stage, Moves(stage) PROVE NoMoreTests'
  <2>1. at' = stage /\ (stopped => stopped') /\ ~BeginTest
    BY <1>5 DEF Moves, BeginTest
  <2>2. at = "begin" /\ stopped => stage = "after"
    BY <1>5 DEF Moves
  <2>3. at \in {"done", "closeTest", "closeWorker", "closed"} => stage \in {"closeTest", "closeWorker", "closed"}
    BY <1>5 DEF Moves
  <2> QED BY <1>0, <2>1, <2>2, <2>3 DEF NoMoreTests, Coming
<1>6. ASSUME \/ \E f \in Fixture : SetUp(f) \/ LateSetUp(f) \/ Undoes(f)
             \/ Provides \/ Calls \/ HookCleaned \/ RunHook \/ EnterSuite \/ LeaveSuite
      PROVE  NoMoreTests'
  <2>1. UNCHANGED <<at, stopped>>
    BY <1>6 DEF SetUp, LateSetUp, Undoes, Provides, Calls, HookCleaned, RunHook, EnterSuite, LeaveSuite, worker
  <2> QED BY <1>1, <1>2, <2>1
<1>7. ASSUME NEW f \in Fixture, Drops(f) PROVE NoMoreTests'
  <2>1. UNCHANGED at /\ (stopped => stopped')
    BY <1>7 DEF Drops
  <2> QED BY <1>0, <1>2, <2>1 DEF NoMoreTests
<1> QED BY <1>0, <1>2, <1>3, <1>4, <1>5, <1>6, <1>7, NextOver

LEMMA HungStep ==
  ASSUME TypeOK, TestKnown, IInv, FunctionOK, OutcomeOK, HungOK, Next, ~BeginTest,
         \A g \in Fixture : inst'[g] = "setup" /\ g # cur' =>
           \/ inst[g] = "setup" /\ g # cur /\ (g \in exhausted => g \in exhausted')
           \/ Hopeless(g)'
  PROVE  HungOK'
<1>1. (Coming' => Coming) /\ (NoMoreTests => NoMoreTests')
  BY ComingKept, NoMoreKept
<1> QED BY <1>1 DEF HungOK, Hopeless

LEMMA HungKept ==
  ASSUME TypeOK, TestKnown, IInv, FunctionOK, OutcomeOK, HungOK, Next
  PROVE  HungOK'
<1>0. interrupted => stopped
  BY DEF OutcomeOK
<1>a. \A g \in Fixture : g # None
  BY GroupAssumption
<1>1. ASSUME BeginTest PROVE HungOK'
  <2>1. /\ UNCHANGED <<inst, cur>> /\ exhausted' = exhausted \cap Fixture /\ at \in {"between", "next"}
    BY <1>1 DEF BeginTest, place, registry
  <2>2. \A g \in Fixture : Scope[g] = "test" => inst[g] = "none"
    BY <2>1 DEF IInv, TestScopeOK, Registered
  <2>3. NoMoreTests => NoMoreTests'
    BY NoMoreKept
  <2> QED BY <2>1, <2>2, <2>3, FixtureAssumption DEF HungOK, Hopeless
<1>2. ASSUME NEW f \in Fixture, SetUp(f), ~BeginTest PROVE HungOK'
  <2>1. /\ UNCHANGED exhausted /\ cur = None
        /\ \/ UNCHANGED <<cur, inst>>
           \/ inst' = [inst EXCEPT ![f] = "failed"]
           \/ inst' = [inst EXCEPT ![f] = "setup"] /\ cur' = f
    BY <1>2 DEF SetUp, info, registry
  <2> QED BY <1>a, <1>2, <2>1, HungStep DEF TypeOK
<1>3. ASSUME NEW f \in Fixture, LateSetUp(f), ~BeginTest PROVE HungOK'
  <2>1. UNCHANGED <<exhausted, cur>> /\ \A g \in Fixture : inst'[g] = "setup" => inst[g] = "setup"
    BY <1>3 DEF LateSetUp, info, place, TypeOK
  <2> QED BY <1>3, <2>1, HungStep
<1>4. ASSUME NEW f \in Fixture, Drops(f), ~BeginTest PROVE HungOK'
  <2>1. /\ cur' = None /\ inst' = [inst EXCEPT ![f] = "none"] /\ exhausted \ {f} \subseteq exhausted'
        /\ phase = "clean"
    BY <1>4 DEF Drops
  <2>2. ASSUME NEW g \in Fixture, inst'[g] = "setup" PROVE inst[g] = "setup" /\ g # f
    BY <2>1, <2>2 DEF TypeOK
  <2>3. ASSUME NEW g \in Fixture, inst'[g] = "setup", g = cur PROVE g = f
    BY <1>a, <1>4, <2>3 DEF Drops
  <2> QED BY <1>4, <2>1, <2>2, <2>3, HungStep
<1>5. ASSUME NEW f \in Fixture, Undoes(f), ~BeginTest PROVE HungOK'
  <2>1. UNCHANGED <<exhausted, inst>> /\ cur = None /\ inst[f] = "provided"
    BY <1>5 DEF Undoes, info
  <2> QED BY <1>a, <1>5, <2>1, HungStep
<1>6. ASSUME Provides, ~BeginTest PROVE HungOK'
  <2>1. UNCHANGED exhausted /\ inst' = [inst EXCEPT ![cur] = "provided"] /\ cur' = None
    BY <1>6 DEF Provides, info
  <2>2. \A g \in Fixture : inst'[g] = "setup" => inst[g] = "setup" /\ g # cur
    BY <2>1 DEF TypeOK
  <2> QED BY <1>6, <2>1, <2>2, HungStep
<1>7. ASSUME Calls \/ HookCleaned \/ Stays \/ RunHook \/ EnterSuite \/ LeaveSuite, ~BeginTest PROVE HungOK'
  <2>1. UNCHANGED <<inst, cur>>
    BY <1>7 DEF Calls, HookCleaned, Stays, RunHook, EnterSuite, LeaveSuite, registry
  <2>2. exhausted \ {"hook"} \subseteq exhausted' /\ "hook" \notin Fixture
    BY <1>7, FixtureAssumption DEF Calls, HookCleaned, Stays, RunHook, EnterSuite, LeaveSuite, info
  <2>3. \A g \in Fixture : g \in exhausted => g \in exhausted'
    BY <2>2
  <2> QED BY <1>7, <2>1, <2>3, HungStep
<1>8. ASSUME NEW how \in {"none", "error", "skip"}, OverWith(how), ~BeginTest PROVE HungOK'
  <2>1. EndsFunction(how)
    BY <1>8 DEF OverWith
  <2>2. (how # "none" => ~Coming') /\ cur' = None
    BY <2>1, EndsFacts
  <2>3. ASSUME NEW g \in Fixture, inst'[g] = "setup", g = cur PROVE Hopeless(g)'
    <3>1. how = "error" /\ (Scope[g] = "worker" => g \in exhausted' \/ stopped')
      BY <1>8, <2>3 DEF OverWith
    <3> QED BY <2>2, <3>1 DEF Hopeless, NoMoreTests
  <2>4. exhausted \subseteq exhausted' /\ \A g \in Fixture : inst'[g] = "setup" => inst[g] = "setup"
    BY <1>8 DEF OverWith
  <2> QED BY <1>8, <2>3, <2>4, HungStep
<1>9. ASSUME NEW stage \in Stage, Moves(stage), ~BeginTest PROVE HungOK'
  <2>1. UNCHANGED inst /\ cur = None
    BY <1>9 DEF Moves
  <2>2. \A g \in Fixture : g \in exhausted => g \in exhausted'
    BY <1>9 DEF Moves
  <2> QED BY <1>a, <1>9, <2>1, <2>2, HungStep
<1> QED BY <1>0, <1>1, <1>2, <1>3, <1>4, <1>5, <1>6, <1>7, <1>8, <1>9, NextOver

LEMMA WorkerFailedKept ==
  ASSUME TypeOK, TestKnown, IInv, FunctionOK, interrupted => stopped, Next,
         NEW f \in Fixture, WorkerFailed(f), at \notin {"cleanWorker", "closeWorker"}
  PROVE  WorkerFailed(f)'
<1>1. ASSUME NEW g \in Fixture, SetUp(g) \/ LateSetUp(g) \/ Undoes(g) PROVE inst'[f] = inst[f]
  BY <1>1 DEF SetUp, LateSetUp, Undoes, WorkerFailed, registry, TypeOK
<1>2. ASSUME NEW g \in Fixture, Drops(g) PROVE inst'[f] = inst[f]
  <2>1. Scope[g] = "test"
    BY <1>2 DEF Drops, IInv, LeftOK, CleanScope, Registered
  <2> QED BY <1>2, <2>1 DEF Drops, WorkerFailed, TypeOK
<1>3. ASSUME Provides PROVE inst'[f] = inst[f]
  BY <1>3 DEF Provides, FunctionOK, WorkerFailed, TypeOK
<1>4. ASSUME Calls \/ HookCleaned \/ Stays \/ RunHook \/ EnterSuite \/ LeaveSuite \/ BeginTest PROVE inst'[f] = inst[f]
  BY <1>4 DEF Calls, HookCleaned, Stays, RunHook, EnterSuite, LeaveSuite, BeginTest, registry
<1>5. ASSUME NEW stage \in Stage, Moves(stage) PROVE inst'[f] = inst[f]
  BY <1>5 DEF Moves
<1>6. ASSUME NEW how \in {"none", "error", "skip"}, OverWith(how) PROVE inst'[f] = "failed"
  BY <1>6 DEF OverWith, WorkerFailed
<1> QED BY <1>1, <1>2, <1>3, <1>4, <1>5, <1>6, NextOver DEF WorkerFailed

LEMMA BrokenKept ==
  ASSUME NEW f \in Fixture, Broken(f), \A g \in Fixture : WorkerFailed(g) => WorkerFailed(g)'
  PROVE  Broken(f)'
BY DEF Broken

LEMMA FailedKept ==
  ASSUME TypeOK, TestKnown, IInv, FunctionOK, OutcomeOK, HungOK, FailedOK, Next
  PROVE  FailedOK'
<1> SUFFICES ASSUME Coming' PROVE \A f \in Fixture : inst'[f] = "failed" => Broken(f)'
  BY DEF FailedOK
<1>0. (interrupted => stopped) /\ (Coming \/ BeginTest)
  BY ComingKept DEF OutcomeOK
<1>1. \A f \in Fixture : WorkerFailed(f)' => Broken(f)'
  BY DEF Broken
<1>2. ASSUME BeginTest PROVE \A f \in Fixture : inst'[f] = "failed" => Broken(f)'
  <2>1. UNCHANGED inst /\ at \in {"between", "next"}
    BY <1>2 DEF BeginTest, registry
  <2>2. \A g \in Fixture : inst[g] # "none" => Scope[g] = "worker"
    BY <2>1, FixtureAssumption DEF IInv, TestScopeOK, Registered
  <2> QED BY <1>1, <2>1, <2>2 DEF WorkerFailed
<1>3. ASSUME Coming PROVE \A f \in Fixture : inst[f] = "failed" => Broken(f) /\ Broken(f)'
  <2>1. at \notin {"cleanWorker", "closeWorker"}
    BY <1>3 DEF Coming
  <2>2. \A g \in Fixture : WorkerFailed(g) => WorkerFailed(g)'
    BY <1>0, <2>1, WorkerFailedKept
  <2> QED BY <1>3, <2>2, BrokenKept DEF FailedOK
<1>4. ASSUME NEW f \in Fixture, SetUp(f), Coming PROVE \A g \in Fixture : inst'[g] = "failed" => Broken(g)'
  <2>1. CASE \A g \in Fixture : inst'[g] = "failed" => inst[g] = "failed"
    BY <1>3, <1>4, <2>1
  <2>2. CASE inst' = [inst EXCEPT ![f] = "failed"] /\ \E d \in DependsOn(f) : Failed(d)
    <3>1. PICK d \in DependsOn(f) : Failed(d)
      BY <2>2
    <3>2. phase = "resolve" /\ f \in need /\ DependsOn(f) \cap need = {}
      BY <1>4 DEF SetUp
    <3>3. d \in Needed(fn) \ need /\ d \in Fixture
      BY <3>1, <3>2, NeededClosed DEF FunctionOK
    <3>4. inst[d] = "failed"
      BY <3>1, <3>2, <3>3 DEF FunctionOK, Failed
    <3>5. Broken(d)'
      BY <1>3, <1>4, <3>3, <3>4
    <3>6. Broken(f)'
      BY <3>1, <3>5 DEF Broken
    <3> QED BY <1>3, <1>4, <2>2, <3>6 DEF TypeOK
  <2>3. \/ \A g \in Fixture : inst'[g] = "failed" => inst[g] = "failed"
        \/ inst' = [inst EXCEPT ![f] = "failed"] /\ \E d \in DependsOn(f) : Failed(d)
    BY <1>4 DEF SetUp, registry, TypeOK
  <2> QED BY <2>1, <2>2, <2>3
<1>5. ASSUME NEW f \in Fixture, LateSetUp(f), Coming PROVE \A g \in Fixture : inst'[g] = "failed" => Broken(g)'
  <2>1. inst[f] = "setup" /\ f # cur /\ \A g \in Fixture \ {f} : inst'[g] = inst[g]
    BY <1>5 DEF LateSetUp, TypeOK
  <2>2. Scope[f] = "worker"
    BY <1>5, <2>1 DEF HungOK, Hopeless
  <2> QED BY <1>1, <1>3, <1>5, <2>1, <2>2 DEF WorkerFailed
<1>6. ASSUME \A g \in Fixture : inst'[g] = "failed" => inst[g] = "failed", Coming
      PROVE  \A g \in Fixture : inst'[g] = "failed" => Broken(g)'
  BY <1>3, <1>6
<1>7. ASSUME NEW how \in {"none", "error", "skip"}, OverWith(how)
      PROVE  \A g \in Fixture : inst'[g] = "failed" => inst[g] = "failed"
  <2>1. EndsFunction(how)
    BY <1>7 DEF OverWith
  <2>2. how = "none"
    BY <2>1, EndsFacts
  <2> QED BY <1>7, <2>2 DEF OverWith
<1>8. ASSUME \/ \E f \in Fixture : Drops(f) \/ Undoes(f)
             \/ Provides \/ Calls \/ HookCleaned \/ Stays \/ RunHook \/ EnterSuite \/ LeaveSuite
             \/ \E stage \in Stage : Moves(stage)
      PROVE  \A g \in Fixture : inst'[g] = "failed" => inst[g] = "failed"
  BY <1>8 DEF Drops, Undoes, Provides, Calls, HookCleaned, Stays, RunHook, EnterSuite, LeaveSuite, Moves, registry, TypeOK
<1> QED BY <1>0, <1>2, <1>4, <1>5, <1>6, <1>7, <1>8, NextOver

LEMMA PreparedKept ==
  ASSUME TypeOK, TestKnown, IInv, FunctionOK, OutcomeOK, HungOK, PreparedOK, Next
  PROVE  PreparedOK'
<1>0. interrupted => stopped
  BY DEF OutcomeOK
<1>a. fn \in Test => fn \in Hook \cup Test /\ Params[fn] \subseteq Fixture
  BY FixtureAssumption
<1>1. ASSUME Calls PROVE PreparedOK'
  <2> SUFFICES ASSUME fn \in Test, NEW f \in Params[fn]
               PROVE  inst'[f] = "provided" \/ (Scope[f] = "worker" /\ f \in exhausted')
    BY <1>1 DEF Calls, PreparedOK
  <2>1. at = "params"
    BY GroupAssumption, AllHookIsHook DEF IInv, PlaceOK
  <2>2. f \in Fixture /\ cur = None /\ UNCHANGED <<inst, exhausted>> /\ ~Failed(f)
    BY <1>a, <1>1 DEF Calls, info
  <2>3. inst[f] = "setup" => f # cur /\ Hopeless(f)
    BY <2>2, GroupAssumption DEF HungOK
  <2>4. Coming /\ ~NoMoreTests
    BY <2>1 DEF Coming, NoMoreTests
  <2> QED BY <2>2, <2>3, <2>4 DEF Hopeless, Failed, TypeOK
<1>2. ASSUME NEW f \in Fixture, LateSetUp(f) PROVE PreparedOK'
  <2>1. inst[f] = "setup" /\ (\A g \in Fixture \ {f} : inst'[g] = inst[g]) /\ UNCHANGED <<exhausted, phase, fn>>
    BY <1>2 DEF LateSetUp, info, place, TypeOK
  <2> QED BY <1>a, <2>1 DEF PreparedOK
<1>3. ASSUME Stays PROVE PreparedOK'
  BY <1>3 DEF Stays, PreparedOK
<1>4. ASSUME NEW f \in Fixture, SetUp(f) \/ Drops(f) \/ Undoes(f) PROVE PreparedOK'
  BY <1>4 DEF SetUp, Drops, Undoes, PreparedOK
<1>5. ASSUME Provides \/ HookCleaned \/ RunHook \/ EnterSuite \/ LeaveSuite PROVE PreparedOK'
  BY <1>5 DEF Provides, HookCleaned, RunHook, EnterSuite, LeaveSuite, PreparedOK
<1>6. ASSUME BeginTest PROVE PreparedOK'
  <2>1. phase = "idle" /\ UNCHANGED phase
    BY <1>6, Quiet DEF BeginTest, place, AllStage, EachStage, CleanStage
  <2> QED BY <2>1 DEF PreparedOK
<1>7. ASSUME NEW how \in {"none", "error", "skip"}, OverWith(how) PROVE PreparedOK'
  <2>1. phase' # "call"
    BY <1>7, EndsFacts DEF OverWith
  <2> QED BY <2>1 DEF PreparedOK
<1>8. ASSUME NEW stage \in Stage, Moves(stage) PROVE PreparedOK'
  BY <1>8 DEF Moves, Go, PreparedOK
<1> QED BY <1>0, <1>1, <1>2, <1>3, <1>4, <1>5, <1>6, <1>7, <1>8, NextOver

(* What has become of each hook.                                             *)
Waiting(h) == h \in Members(hooks) \/ (fn = h /\ phase = "resolve")
Excused(h) ==
  \/ h \in called \/ "after" \in exhausted \/ expected = "skipped"
  \/ interrupted /\ Needed(h) # {}
Spoiled(h) == \E f \in Needed(h) : inst[f] = "failed" \/ f \in exhausted
Gone(h) == \E f \in Needed(h) : Failed(f) \/ f \in exhausted
AfterEachOK ==
  /\ at = "afterEach" /\ due => \A h \in Members(AfterEach[test]) : Excused(h) \/ Spoiled(h) \/ Waiting(h)
  /\ at = "tearDown" /\ due => \A h \in Members(AfterEach[test]) : Excused(h) \/ Gone(h)
BeforeEachOK ==
  Coming /\ at \in {"beforeEach", "params"} => \A h \in Members(BeforeEach[test]) :
     h \in called \/ WorkerFixtureFailed(h) \/ (at = "beforeEach" /\ Waiting(h))
Skipped(s, h) ==
  /\ ~Coming /\ BadStatus /\ test \in Test /\ s \in Members(SuitesOf[test]) /\ Needed(h) # {}
BeforeAllOK ==
  \A s \in active : \A h \in Members(BeforeAll[s]) :
    \/ h \in called \/ h \in lost \/ WorkerFixtureFailed(h) \/ s \in inherited \/ FailedEarlier(s, h)
    \/ at = "beforeAll" /\ Waiting(h)
    \/ NoMoreTests \/ Skipped(s, h)

LEMMA HooksOfTests ==
  ASSUME NEW t \in Test
  PROVE  /\ Members(BeforeEach[t]) \subseteq Hook \ AllHook
         /\ Members(AfterEach[t]) \subseteq Hook \ AllHook
<1>1. BeforeEach[t] \in Seq(Hook) /\ AfterEach[t] \in Seq(Hook)
  BY GroupAssumption
<1>2. Members(BeforeEach[t]) \subseteq Hook /\ Members(AfterEach[t]) \subseteq Hook
  BY <1>1, MembersFacts
<1> QED BY <1>2, GroupAssumption DEF Members

(* A hook that waits is called, or something is in its way.                  *)
LEMMA AfterEachStays ==
  ASSUME UNCHANGED <<test, due>>, at = "afterEach" => UNCHANGED at, at' = "afterEach" => at = "afterEach",
         at' # "tearDown", at = "afterEach" =>
           /\ called \subseteq called' /\ exhausted \subseteq exhausted' /\ expected' \in {expected, "skipped"}
           /\ interrupted => interrupted'
           /\ \A f \in Fixture : inst[f] = "failed" => inst'[f] = "failed",
         AfterEachOK,
         at = "afterEach" /\ due => \A h \in Members(AfterEach[test]) :
           Waiting(h) => Excused(h)' \/ Spoiled(h)' \/ Waiting(h)'
  PROVE  AfterEachOK'
<1> SUFFICES ASSUME at' = "afterEach", due', NEW h \in Members(AfterEach[test])
             PROVE  Excused(h)' \/ Spoiled(h)' \/ Waiting(h)'
  BY DEF AfterEachOK
<1>1. at = "afterEach" /\ due
  OBVIOUS
<1>2. Needed(h) \subseteq Fixture
  BY NeededClosed
<1>3. Excused(h) => Excused(h)'
  BY <1>1 DEF Excused
<1>4. Spoiled(h) => Spoiled(h)'
  BY <1>1, <1>2 DEF Spoiled
<1> QED BY <1>1, <1>3, <1>4 DEF AfterEachOK

LEMMA AfterEachKept ==
  ASSUME TypeOK, TestKnown, IInv, FunctionOK, OutcomeOK, DueOK, AfterEachOK, Next
  PROVE  AfterEachOK'
<1>0. interrupted => stopped
  BY DEF OutcomeOK
<1>a. /\ at \in {"afterEach", "tearDown"} => test \in Test
      /\ at = "tearDown" => phase = "clean" /\ fn = None
      /\ at = "afterEach" => phase # "clean"
  BY Quiet, GroupAssumption, AllHookIsHook DEF TestKnown, IInv, PlaceOK, AllStage, EachStage, CleanStage, TypeOK
<1>1. ASSUME NEW f \in Fixture, SetUp(f) PROVE AfterEachOK'
  <2>1. UNCHANGED <<test, due, at, called, exhausted, expected, interrupted, hooks, fn, phase>> /\ phase = "resolve"
    BY <1>1 DEF SetUp, info
  <2>2. \A g \in Fixture : inst[g] = "failed" => inst'[g] = "failed"
    BY <1>1 DEF SetUp, registry, TypeOK
  <2>3. \A h : Waiting(h) => Waiting(h)'
    BY <2>1 DEF Waiting
  <2> QED BY <1>a, <2>1, <2>2, <2>3, AfterEachStays
<1>2. ASSUME NEW f \in Fixture, LateSetUp(f) PROVE AfterEachOK'
  <2>1. UNCHANGED <<test, due, at, called, exhausted, expected, interrupted, hooks, fn, phase>>
    BY <1>2 DEF LateSetUp, info, place, history
  <2>2. \A g \in Fixture : inst[g] \in {"failed", "none"} => inst'[g] = inst[g]
    BY <1>2 DEF LateSetUp, TypeOK
  <2>3. \A h : (Waiting(h) => Waiting(h)') /\ (Excused(h) => Excused(h)')
    BY <2>1 DEF Waiting, Excused
  <2>4. \A h : (Spoiled(h) => Spoiled(h)') /\ (Gone(h) => Gone(h)')
    BY <2>1, <2>2, NeededClosed DEF Spoiled, Gone, Failed
  <2> QED BY <2>1, <2>3, <2>4 DEF AfterEachOK
<1>3. ASSUME NEW f \in Fixture, Drops(f) \/ Undoes(f) PROVE AfterEachOK'
  <2>1. /\ UNCHANGED <<test, due, at, called>> /\ expected' \in {expected, "skipped"}
        /\ interrupted => interrupted'
        /\ exhausted \ {f} \subseteq exhausted'
        /\ inst' \in {inst, [inst EXCEPT ![f] = "none"]}
        /\ phase = "clean"
        /\ f \in exhausted => f \in exhausted' \/ inst' = [inst EXCEPT ![f] = "none"]
    BY <1>3 DEF Drops, Undoes, info
  <2>2. "after" \notin Fixture
    BY FixtureAssumption
  <2>3. \A h : Excused(h) => Excused(h)'
    BY <2>1, <2>2 DEF Excused
  <2>4. \A g \in Fixture : Failed(g) \/ g \in exhausted => Failed(g)' \/ g \in exhausted'
    BY <2>1 DEF Failed, TypeOK
  <2>5. \A h : Gone(h) => Gone(h)'
    BY <2>4, NeededClosed DEF Gone
  <2> QED BY <1>a, <2>1, <2>3, <2>5 DEF AfterEachOK
<1>4. ASSUME Provides PROVE AfterEachOK'
  <2>1. UNCHANGED <<test, due, at, called, exhausted, expected, interrupted, hooks, fn, phase>> /\ phase = "resolve"
    BY <1>4 DEF Provides, info
  <2>2. \A g \in Fixture : inst[g] = "failed" => inst'[g] = "failed"
    BY <1>4 DEF Provides, FunctionOK, TypeOK
  <2>3. \A h : Waiting(h) => Waiting(h)'
    BY <2>1 DEF Waiting
  <2> QED BY <1>a, <2>1, <2>2, <2>3, AfterEachStays
<1>5. ASSUME Calls PROVE AfterEachOK'
  <2>1. UNCHANGED <<test, due, at, exhausted, expected, interrupted, hooks, fn, inst>> /\ phase = "resolve" /\ called' = called \cup {fn}
    BY <1>5 DEF Calls, info
  <2>2. \A h : Waiting(h) => Waiting(h)' \/ Excused(h)'
    BY <2>1 DEF Waiting, Excused
  <2> QED BY <1>a, <2>1, <2>2, AfterEachStays
<1>6. ASSUME HookCleaned \/ EnterSuite \/ LeaveSuite PROVE AfterEachOK'
  <2>1. at \in AllStage /\ UNCHANGED at
    BY <1>6, GroupAssumption, AllHookIsHook DEF HookCleaned, EnterSuite, LeaveSuite, IInv, PlaceOK, AllStage
  <2> QED BY <2>1 DEF AfterEachOK, AllStage
<1>7. ASSUME Stays PROVE AfterEachOK'
  <2>1. UNCHANGED <<test, due, at, called, exhausted, expected, hooks, fn, phase, inst>> /\ (interrupted => interrupted')
    BY <1>7 DEF Stays
  <2>2. \A h : (Waiting(h) => Waiting(h)') /\ (Excused(h) => Excused(h)')
    BY <2>1 DEF Waiting, Excused
  <2>3. \A h : (Spoiled(h) => Spoiled(h)') /\ (Gone(h) => Gone(h)')
    BY <2>1 DEF Spoiled, Gone, Failed
  <2> QED BY <2>1, <2>2, <2>3 DEF AfterEachOK
<1>8. ASSUME RunHook PROVE AfterEachOK'
  <2>1. /\ UNCHANGED <<test, due, at, called, expected, interrupted, inst>> /\ phase = "idle"
        /\ hooks # <<>> /\ hooks' = Tail(hooks)
        /\ \/ StageSlot \in exhausted /\ UNCHANGED exhausted
           \/ fn' = Head(hooks) /\ phase' = "resolve"
        /\ Head(hooks) \notin AllHook => UNCHANGED exhausted
    BY <1>8 DEF RunHook, registry, history
  <2>2. Members(hooks) = {Head(hooks)} \cup Members(Tail(hooks)) /\ Head(hooks) \in Members(hooks)
    BY <2>1, MembersFacts DEF TypeOK
  <2>3. at = "afterEach" => StageSlot = "after" /\ Head(hooks) \notin AllHook
    BY <2>2 DEF StageSlot, IInv, PlaceOK, EachStage, Members
  <2>4. at = "afterEach" => \A h : Waiting(h) => Waiting(h)' \/ Excused(h)'
    BY <2>1, <2>2, <2>3 DEF Waiting, Excused
  <2> QED BY <1>a, <2>1, <2>3, <2>4, AfterEachStays
<1>9. ASSUME NEW how \in {"none", "error", "skip"}, OverWith(how) PROVE AfterEachOK'
  <2>1. EndsFunction(how) /\ UNCHANGED <<test, due, called>> /\ phase \in {"resolve", "call"}
    BY <1>9 DEF OverWith, EndsFunction
  <2>2. OverTest \/ OverAll(how) \/ OverEach(how)
    BY <2>1, EndsFacts
  <2>3. CASE at = "afterEach"
    <3>1. OverEach(how)
      BY <2>2, <2>3 DEF OverTest, OverAll, AllStage
    <3>2. StageSlot = "after"
      BY <2>3 DEF StageSlot
    <3>3. fn \in Hook \cup Test /\ Params[fn] \subseteq Needed(fn)
      BY <3>1, NeededClosed DEF OverEach
    <3>4. /\ \A f \in Fixture : inst[f] = "failed" => inst'[f] = "failed"
          /\ how = "none" => UNCHANGED inst
          /\ how = "skip" => expected' = "skipped"
      BY <1>9 DEF OverWith
    <3>5. \A h : h = fn /\ phase = "resolve" => Excused(h)' \/ Spoiled(h)'
      <4>1. phase = "resolve" /\ how # "none" => \E f \in Needed(fn) :
              inst'[f] = "failed" \/ f \in exhausted' \/ "after" \in exhausted' \/ interrupted'
        BY <1>9, <3>2 DEF OverWith
      <4>2. phase = "resolve" /\ how = "none" => \E f \in Needed(fn) : inst'[f] = "failed"
        BY <1>9, <3>3, <3>4 DEF OverWith
      <4> QED BY <4>1, <4>2 DEF Excused, Spoiled
    <3>6. \A h : Waiting(h) => Excused(h)' \/ Spoiled(h)' \/ Waiting(h)'
      <4>1. hooks' = hooks \/ expected' = "skipped"
        BY <3>1, <3>4 DEF OverEach
      <4> QED BY <3>5, <4>1 DEF Waiting, Excused
    <3>7. /\ exhausted \subseteq exhausted' /\ expected' \in {expected, "skipped"} /\ (interrupted => interrupted')
          /\ UNCHANGED at
      BY <1>9, <3>1 DEF OverWith, OverEach
    <3> QED BY <2>1, <2>3, <3>4, <3>6, <3>7, AfterEachStays
  <2>4. CASE at # "afterEach"
    <3>1. at' \notin {"afterEach", "tearDown"}
      BY <2>2, <2>4 DEF OverTest, OverAll, OverEach, AllStage, EachStage
    <3> QED BY <3>1 DEF AfterEachOK
  <2> QED BY <2>3, <2>4
<1>10. ASSUME BeginTest PROVE AfterEachOK'
  BY <1>10 DEF BeginTest, AfterEachOK
<1>11. ASSUME NEW stage \in Stage, Moves(stage) PROVE AfterEachOK'
  <2>1. Go(stage) /\ at' = stage /\ UNCHANGED test /\ hooks = <<>> /\ fn = None
        /\ (stage = "tearDown" => at = "afterEach" /\ UNCHANGED <<inst, called, expected, due>> /\ (interrupted => interrupted'))
    BY <1>11 DEF Moves
  <2>2. CASE stage = "afterEach"
    <3>1. due' => hooks' = AfterEach[test]
      BY <1>11, <2>1, <2>2 DEF Go, Moves
    <3> QED BY <2>1, <2>2, <3>1 DEF AfterEachOK, Waiting
  <2>3. CASE stage = "tearDown"
    <3>1. phase # "resolve"
      BY <1>11 DEF Moves
    <3>2. UNCHANGED exhausted
      BY <1>11, <2>1, <2>3 DEF Moves
    <3>3. \A h : ~Waiting(h)
      BY <2>1, <3>1, MembersFacts DEF Waiting
    <3>4. \A h : (Excused(h) => Excused(h)') /\ (Spoiled(h) => Gone(h)')
      BY <2>1, <2>3, <3>2 DEF Excused, Spoiled, Gone, Failed
    <3> QED BY <2>1, <2>3, <3>3, <3>4 DEF AfterEachOK
  <2> QED BY <2>1, <2>2, <2>3 DEF AfterEachOK
<1> QED BY <1>0, <1>1, <1>2, <1>3, <1>4, <1>5, <1>6, <1>7, <1>8, <1>9, <1>10, <1>11, NextOver

LEMMA FailedFixture ==
  ASSUME NEW h, WorkerFixtureFailed(h), \A f \in Fixture : WorkerFailed(f) => WorkerFailed(f)'
  PROVE  WorkerFixtureFailed(h)'
BY NeededClosed DEF WorkerFixtureFailed, WorkerFailed

LEMMA BrokenHook ==
  ASSUME NEW h, NEW f \in Needed(h), Broken(f) PROVE WorkerFixtureFailed(h)
<1>1. PICK g \in Needed(h) : WorkerFailed(g)
  BY NeededClosed DEF Broken
<1> QED BY <1>1 DEF WorkerFixtureFailed, WorkerFailed

LEMMA BeforeEachKept ==
  ASSUME TypeOK, TestKnown, IInv, FunctionOK, OutcomeOK, FailedOK, BeforeEachOK, Next
  PROVE  BeforeEachOK'
<1> SUFFICES ASSUME Coming', at' \in {"beforeEach", "params"}, NEW h \in Members(BeforeEach[test'])
             PROVE  h \in called' \/ WorkerFixtureFailed(h)' \/ (at' = "beforeEach" /\ Waiting(h)')
  BY DEF BeforeEachOK
<1>0. (interrupted => stopped) /\ Coming /\ ~BeginTest
  BY ComingKept DEF OutcomeOK, BeginTest
<1>1. WorkerFixtureFailed(h) => WorkerFixtureFailed(h)'
  <2>1. at \notin {"cleanWorker", "closeWorker"}
    BY <1>0 DEF Coming
  <2> QED BY <1>0, <2>1, WorkerFailedKept, FailedFixture
<1>2. ASSUME UNCHANGED <<at, test>>, called \subseteq called',
             at = "beforeEach" /\ Waiting(h) => h \in called' \/ WorkerFixtureFailed(h)' \/ Waiting(h)'
      PROVE  h \in called' \/ WorkerFixtureFailed(h)' \/ (at' = "beforeEach" /\ Waiting(h)')
  BY <1>0, <1>1, <1>2 DEF BeforeEachOK
<1>a. at \in {"beforeEach", "params"} => phase # "clean"
  BY Quiet, GroupAssumption, AllHookIsHook DEF IInv, PlaceOK, AllStage, EachStage, CleanStage
<1>3. CASE \/ \E f \in Fixture : SetUp(f) \/ LateSetUp(f) \/ Undoes(f) \/ Drops(f)
           \/ Provides \/ Stays
  <2>1. UNCHANGED <<at, test, called, hooks, fn, phase>>
    BY <1>3 DEF SetUp, LateSetUp, Undoes, Drops, Provides, Stays, place, history
  <2> QED BY <1>2, <2>1 DEF Waiting
<1>4. CASE Calls
  <2>1. UNCHANGED <<at, test, hooks, fn>> /\ called' = called \cup {fn}
    BY <1>4 DEF Calls
  <2> QED BY <1>2, <2>1 DEF Waiting
<1>5. CASE HookCleaned
  BY <1>a, <1>5 DEF HookCleaned
<1>6. CASE EnterSuite \/ LeaveSuite
  BY <1>6 DEF EnterSuite, LeaveSuite
<1>7. CASE RunHook
  <2>1. /\ UNCHANGED <<at, test, called>> /\ hooks # <<>> /\ hooks' = Tail(hooks) /\ phase = "idle"
        /\ \/ StageSlot \in exhausted
           \/ fn' = Head(hooks) /\ phase' = "resolve"
    BY <1>7 DEF RunHook, history
  <2>2. Members(hooks) = {Head(hooks)} \cup Members(Tail(hooks))
    BY <2>1, MembersFacts DEF TypeOK
  <2>3. at = "beforeEach" => StageSlot \notin exhausted
    BY <1>0 DEF StageSlot, OutcomeOK
  <2> QED BY <1>2, <2>1, <2>2, <2>3 DEF Waiting
<1>8. ASSUME NEW how \in {"none", "error", "skip"}, OverWith(how)
      PROVE  h \in called' \/ WorkerFixtureFailed(h)' \/ (at' = "beforeEach" /\ Waiting(h)')
  <2>1. EndsFunction(how) /\ UNCHANGED <<test, called>> /\ phase \in {"resolve", "call"}
    BY <1>8 DEF OverWith, EndsFunction
  <2>2. (OverTest \/ OverAll(how) \/ OverEach(how)) /\ how = "none"
    BY <2>1, EndsFacts
  <2>3. OverEach(how) /\ at' = at
    BY <2>2 DEF OverTest, OverAll, OverEach, AllStage
  <2>4. UNCHANGED hooks /\ fn \in Hook
    BY <2>2, <2>3 DEF OverEach
  <2>5. phase = "resolve" => WorkerFixtureFailed(fn)
    <3>1. phase = "resolve" => \E f \in Params[fn] : inst[f] = "failed"
      BY <1>8, <2>2 DEF OverWith
    <3>2. Params[fn] \subseteq Needed(fn) /\ Needed(fn) \subseteq Fixture
      BY <2>4, NeededClosed
    <3>3. \A f \in Fixture : inst[f] = "failed" => Broken(f)
      BY <1>0 DEF FailedOK
    <3> QED BY <3>1, <3>2, <3>3, BrokenHook
  <2>6. fn = h /\ phase = "resolve" => WorkerFixtureFailed(h)'
    BY <1>1, <2>5
  <2> QED BY <1>2, <2>1, <2>3, <2>4, <2>6 DEF Waiting
<1>9. ASSUME NEW stage \in Stage, Moves(stage)
      PROVE  h \in called' \/ WorkerFixtureFailed(h)' \/ (at' = "beforeEach" /\ Waiting(h)')
  <2>1. at' = stage /\ Go(stage) /\ UNCHANGED <<test, called>> /\ hooks = <<>> /\ fn = None /\ phase # "resolve"
    BY <1>9 DEF Moves
  <2>2. stage = "beforeEach" => hooks' = BeforeEach[test]
    BY <2>1 DEF Go
  <2>3. stage = "params" => at = "beforeEach"
    BY <1>9 DEF Moves
  <2>4. ~Waiting(h)
    BY <2>1, MembersFacts DEF Waiting
  <2> QED BY <1>0, <1>1, <2>1, <2>2, <2>3, <2>4 DEF BeforeEachOK, Waiting
<1> QED BY <1>0, <1>3, <1>4, <1>5, <1>6, <1>7, <1>8, <1>9, NextOver

HookDone(s, h) ==
  \/ h \in called \/ h \in lost \/ WorkerFixtureFailed(h) \/ s \in inherited \/ FailedEarlier(s, h)
  \/ at = "beforeAll" /\ Waiting(h)
  \/ NoMoreTests \/ Skipped(s, h)

LEMMA HooksOfSuites ==
  /\ \A s \in Suite : Members(BeforeAll[s]) \subseteq AllHook
  /\ \A r, s \in Suite : \A h \in Members(BeforeAll[r]) : h \in Members(BeforeAll[s]) => r = s
<1>1. ASSUME NEW s \in Suite, NEW h \in Members(BeforeAll[s]) PROVE h \in AllHook
  <2>1. BeforeAll[s] \in Seq(Hook)
    BY GroupAssumption
  <2>2. h \in Hook /\ \E i \in DOMAIN BeforeAll[s] : BeforeAll[s][i] = h
    BY <2>1, MembersFacts DEF Members
  <2> QED BY <2>2 DEF AllHook
<1>2. \A r, s \in Suite : \A h \in Members(BeforeAll[r]) : h \in Members(BeforeAll[s]) => r = s
  BY GroupAssumption DEF Members
<1> QED BY <1>1, <1>2

(* A lost hook stays lost.                                                   *)
LEMMA LostKept == Next => lost \subseteq lost'
<1> SUFFICES ASSUME Next PROVE lost \subseteq lost'
  OBVIOUS
<1> USE DEF history
<1>1. ASSUME NEW f \in Fixture, SetUp(f) \/ TearDown(f) \/ LateSetUp(f) PROVE lost \subseteq lost'
  BY <1>1 DEF SetUp, TearDown, LateSetUp
<1>2. ASSUME NEW how \in Ending, SetUpEnds(how) \/ TearDownEnds(how) \/ CallEnds(how) \/ TestFunctionFinished(how)
      PROVE  lost \subseteq lost'
  BY <1>2 DEF SetUpEnds, TearDownEnds, CallEnds, TestFunctionFinished
<1>3. ASSUME Cleaned PROVE lost \subseteq lost'
  BY <1>3 DEF Cleaned
<1>4. ASSUME RunHook \/ Call \/ EnterSuite \/ LeaveSuite PROVE lost \subseteq lost'
  BY <1>4 DEF RunHook, Call, EnterSuite, LeaveSuite
<1>5. ASSUME \/ BeginTest \/ TracingStarted \/ FoldersRemoved \/ BeforeAllDone \/ BeforeEachDone
             \/ AfterEachDone \/ AfterAllDone \/ CleanAllDone \/ EndTest \/ GroupDone \/ Close
      PROVE  lost \subseteq lost'
  BY <1>5 DEF BeginTest, TracingStarted, FoldersRemoved, BeforeAllDone, BeforeEachDone,
              AfterEachDone, AfterAllDone, CleanAllDone, EndTest, GroupDone, Close
<1>6. ASSUME Stop \/ UnhandledError PROVE lost \subseteq lost'
  BY <1>6 DEF Stop, UnhandledError
<1> QED BY <1>1, <1>2, <1>3, <1>4, <1>5, <1>6, NextCases

(* What excuses a hook lasts as long as its test.                            *)
LEMMA BeforeAllStep ==
  ASSUME TypeOK, TestKnown, IInv, FunctionOK, OutcomeOK, Next, ~BeginTest,
         NEW s \in active, NEW h \in Members(BeforeAll[s]), HookDone(s, h),
         UNCHANGED test, called \subseteq called', s \in inherited => s \in inherited',
         ~Coming /\ BadStatus => BadStatus' \/ NoMoreTests,
         at = "beforeAll" /\ Waiting(h) => HookDone(s, h)'
  PROVE  HookDone(s, h)'
<1>0. interrupted => stopped
  BY DEF OutcomeOK
<1>1. (Coming' => Coming) /\ (NoMoreTests => NoMoreTests')
  BY ComingKept, NoMoreKept
<1>2. WorkerFixtureFailed(h) => WorkerFixtureFailed(h)' \/ NoMoreTests
  <2>1. at \in {"cleanWorker", "closeWorker"} => NoMoreTests
    BY DEF NoMoreTests, Coming, IInv, WorkerScopeOK
  <2>2. at \notin {"cleanWorker", "closeWorker"} => \A f \in Fixture : WorkerFailed(f) => WorkerFailed(f)'
    BY <1>0, WorkerFailedKept
  <2> QED BY <2>1, <2>2, FailedFixture
<1>3. FailedEarlier(s, h) => FailedEarlier(s, h)'
  BY DEF FailedEarlier
<1>4. Skipped(s, h) => Skipped(s, h)' \/ NoMoreTests
  BY <1>1 DEF Skipped
<1>5. h \in lost => h \in lost'
  BY LostKept
<1> QED BY <1>1, <1>2, <1>3, <1>4, <1>5 DEF HookDone

LEMMA BeforeAllBegin ==
  ASSUME TypeOK, TestKnown, IInv, FunctionOK, OutcomeOK, StopOK, BeginTest, Next,
         NEW s \in active, NEW h \in Members(BeforeAll[s]), HookDone(s, h)
  PROVE  HookDone(s, h)'
<1>1. /\ at \in {"between", "next"} /\ test' = test + 1 /\ called' = called \cap AllHook
      /\ UNCHANGED <<inst, inherited, stopped>> /\ at' \in {"begin", "next"} /\ test \in 0 .. LastTest
  BY DEF BeginTest, worker, registry, TypeOK
<1>2. h \in AllHook
  BY HooksOfSuites DEF TypeOK
<1>3. WorkerFixtureFailed(h) => WorkerFixtureFailed(h)'
  BY <1>1 DEF WorkerFixtureFailed
<1>4. FailedEarlier(s, h) => FailedEarlier(s, h)'
  <2>1. 1 .. test - 1 \subseteq 1 .. test' - 1
    BY <1>1, GroupAssumption
  <2> QED BY <2>1 DEF FailedEarlier
<1>5. NoMoreTests => NoMoreTests'
  BY NoMoreKept
<1>6. ASSUME Skipped(s, h) PROVE FailedEarlier(s, h)' \/ NoMoreTests'
  <2>1. BadStatus /\ test \in Test /\ s \in Members(SuitesOf[test]) /\ Needed(h) # {}
    BY <1>6 DEF Skipped
  <2>2. at = "between"
    BY <1>1, <2>1 DEF OutcomeOK, BadStatus
  <2>3. CASE IsFailure
    <3>1. stopped
      BY <2>2, <2>3 DEF StopOK, Over
    <3> QED BY <1>1, <3>1 DEF NoMoreTests, Coming
  <2>4. CASE ~IsFailure
    <3>1. status = expected /\ expected \in {Expect[test], "skipped"}
      BY <2>1, <2>4 DEF IsFailure, BadStatus, OutcomeOK
    <3>2. Expect[test] \in {"passed", "failed", "skipped"}
      BY <2>1, GroupAssumption
    <3>3. Expect[test] = "failed"
      BY <2>1, <3>1, <3>2 DEF BadStatus
    <3>4. test \in 1 .. test' - 1
      BY <1>1, <2>1, GroupAssumption DEF Test
    <3>5. \E i \in DOMAIN SuitesOf[test] : SuitesOf[test][i] = s
      BY <2>1 DEF Members
    <3> QED BY <2>1, <3>3, <3>4, <3>5 DEF FailedEarlier
  <2> QED BY <2>3, <2>4
<1>7. h \in lost => h \in lost'
  BY LostKept
<1> QED BY <1>1, <1>2, <1>3, <1>4, <1>5, <1>6, <1>7 DEF HookDone

(* The hook whose turn it was is over without having been called.            *)
LEMMA BeforeAllOver ==
  ASSUME TypeOK, TestKnown, IInv, FunctionOK, OutcomeOK, FailedOK, EntryOK,
         NEW how, OverWith(how), at = "beforeAll", phase = "resolve",
         NEW s \in active, NEW h \in Members(BeforeAll[s]), fn = h
  PROVE  HookDone(s, h)' \/ WorkerFixtureFailed(h) \/ (NoMoreTests /\ UNCHANGED inst)
<1>1. EndsFunction(how) /\ UNCHANGED test /\ test \in Test /\ fn # None /\ how \in {"none", "error", "skip"}
  BY Quiet DEF OverWith, EndsFunction, TestKnown
<1>2. /\ how # "none" => ~Coming'
      /\ Coming' => Coming
      /\ error = "none"
  BY <1>1, EndsFacts
<1>3. s \in Members(SuitesOf[test]) /\ fn \in Hook \cup Test
  <2>1. PICK r \in Members(SuitesOf[test]) : fn \in Members(BeforeAll[r])
    BY <1>1 DEF EntryOK
  <2>2. r \in Suite /\ s \in Suite
    BY <1>1, <2>1, Enclosing DEF TypeOK
  <2>3. r = s
    BY <2>1, <2>2, HooksOfSuites
  <2>4. fn \in AllHook
    BY <2>2, HooksOfSuites
  <2> QED BY <2>1, <2>3, <2>4, AllHookIsHook
<1>4. Params[fn] \subseteq Needed(fn) /\ Needed(fn) \subseteq Fixture /\ Needed(fn) # {}
  <2>1. Params[fn] \subseteq Needed(fn) /\ Needed(fn) \subseteq Fixture
    BY <1>3, NeededClosed
  <2>2. (\E f \in Params[fn] : TRUE) \/ (\E f \in Needed(fn) : TRUE)
    BY DEF OverWith
  <2> QED BY <2>1, <2>2
<1>5. CASE how = "none"
  <2>1. PICK f \in Params[fn] : inst[f] = "failed"
    BY <1>5 DEF OverWith
  <2>2. UNCHANGED inst /\ (BadStatus => BadStatus')
    BY <1>5 DEF OverWith
  <2>3. CASE Coming
    <3>1. Broken(f)
      BY <1>4, <2>1, <2>3 DEF FailedOK
    <3> QED BY <1>4, <2>1, <3>1, BrokenHook
  <2>4. CASE ~Coming
    <3>1. Troubled
      BY <1>1, <1>2, <2>4 DEF OutcomeOK, Coming
    <3>2. CASE BadStatus
      <4>1. Skipped(s, h)'
        BY <1>1, <1>2, <1>3, <1>4, <2>2, <2>4, <3>2 DEF Skipped
      <4> QED BY <4>1 DEF HookDone
    <3>3. CASE stopped
      BY <2>2, <2>4, <3>3 DEF NoMoreTests
    <3> QED BY <3>1, <3>2, <3>3 DEF Troubled
  <2> QED BY <2>3, <2>4
<1>6. CASE how = "error"
  <2>1. BadStatus' \/ stopped'
    BY <1>6 DEF OverWith
  <2>2. BadStatus' => Skipped(s, h)'
    BY <1>1, <1>2, <1>3, <1>4, <1>6 DEF Skipped
  <2>3. stopped' => NoMoreTests'
    BY <1>2, <1>6 DEF NoMoreTests
  <2> QED BY <2>1, <2>2, <2>3 DEF HookDone
<1>7. CASE how = "skip"
  <2>1. s \in inherited'
    BY <1>7 DEF OverWith
  <2> QED BY <2>1 DEF HookDone
<1> QED BY <1>1, <1>5, <1>6, <1>7

LEMMA BeforeAllKept ==
  ASSUME TypeOK, TestKnown, IInv, FunctionOK, OutcomeOK, StopOK, FailedOK, SuitesOK, EntryOK, BeforeAllOK, Next
  PROVE  BeforeAllOK'
<1> SUFFICES ASSUME NEW s \in active', NEW h \in Members(BeforeAll[s]) PROVE HookDone(s, h)'
  BY DEF BeforeAllOK, HookDone
<1>0. (interrupted => stopped) /\ (s \in active => HookDone(s, h))
  BY DEF OutcomeOK, BeforeAllOK, HookDone
<1>1. ASSUME UNCHANGED test, called \subseteq called', s \in active, s \in inherited => s \in inherited', ~BeginTest,
             ~Coming /\ BadStatus => BadStatus' \/ NoMoreTests,
             at = "beforeAll" /\ Waiting(h) => HookDone(s, h)'
      PROVE  HookDone(s, h)'
  BY <1>0, <1>1, BeforeAllStep
<1>2. CASE BeginTest
  <2>1. s \in active
    BY <1>2 DEF BeginTest, worker
  <2> QED BY <1>0, <1>2, <2>1, BeforeAllBegin
<1>3. CASE ~BeginTest /\ (Provides \/ Stays \/ \E f \in Fixture : SetUp(f) \/ LateSetUp(f) \/ Undoes(f) \/ Drops(f))
  <2>1. /\ UNCHANGED <<at, test, called, hooks, fn, phase, active, inherited>>
        /\ BadStatus => BadStatus'
    BY <1>3 DEF SetUp, LateSetUp, Undoes, Drops, Provides, Stays, place, info, history, worker, BadStatus
  <2>2. Waiting(h)' = Waiting(h)
    BY <2>1 DEF Waiting
  <2> QED BY <1>1, <1>3, <2>1, <2>2 DEF HookDone
<1>4. CASE ~BeginTest /\ Calls
  <2>1. UNCHANGED <<at, test, hooks, fn, active, inherited, status>> /\ called' = called \cup {fn}
    BY <1>4 DEF Calls, info, worker
  <2>2. Waiting(h) => Waiting(h)' \/ h \in called'
    BY <2>1 DEF Waiting
  <2> QED BY <1>1, <1>4, <2>1, <2>2 DEF HookDone, BadStatus
<1>5. CASE ~BeginTest /\ HookCleaned
  <2>1. /\ UNCHANGED <<at, test, called, active, inherited, status>> /\ phase = "clean" /\ fn # None
        /\ hooks' = IF SkipsOthers THEN <<>> ELSE hooks
        /\ SkipsOthers /\ error = "skipLater" => lost' = lost \cup {hooks[i] : i \in DOMAIN hooks}
    BY <1>5 DEF HookCleaned, info, worker
  <2>2. ASSUME at = "beforeAll", Waiting(h) PROVE HookDone(s, h)'
    <3>1. h \in Members(hooks)
      BY <2>1, <2>2 DEF Waiting
    <3>2. CASE error = "skip"
      <4>1. hooks # <<>>
        BY <3>1, MembersFacts
      <4>2. PICK r \in Members(SuitesOf[test]) : Members(hooks) \subseteq Members(BeforeAll[r]) /\ fn \in Members(BeforeAll[r])
        BY <2>1, <2>2, <4>1 DEF EntryOK
      <4>3. test \in Test
        BY <2>2 DEF TestKnown
      <4>4. r = s
        <5>1. r \in Suite /\ s \in Suite
          BY <2>1, <4>2, <4>3, Enclosing DEF TypeOK
        <5>2. h \in Members(BeforeAll[r]) /\ h \in Members(BeforeAll[s])
          BY <3>1, <4>2
        <5> QED BY <5>1, <5>2, HooksOfSuites
      <4>5. s \in inherited
        BY <2>1, <2>2, <3>2, <4>2, <4>4 DEF EntryOK
      <4> QED BY <2>1, <4>5 DEF HookDone
    <3>3. CASE error = "skipLater"
      <4>1. h \in lost'
        BY <2>1, <2>2, <3>1, <3>3 DEF SkipsOthers, Members
      <4> QED BY <4>1 DEF HookDone
    <3>4. CASE error \notin {"skip", "skipLater"}
      BY <2>1, <2>2, <3>1, <3>4 DEF HookDone, Waiting, SkipsOthers
    <3> QED BY <3>2, <3>3, <3>4
  <2> QED BY <1>1, <1>5, <2>1, <2>2 DEF BadStatus
<1>6. CASE ~BeginTest /\ RunHook
  <2>1. /\ UNCHANGED <<at, test, called, active, inherited, status>> /\ hooks # <<>> /\ hooks' = Tail(hooks)
        /\ Head(hooks) \in AllHook => fn' = Head(hooks) /\ phase' = "resolve"
        /\ phase = "idle"
    BY <1>6 DEF RunHook, worker, history
  <2>2. Members(hooks) = {Head(hooks)} \cup Members(Tail(hooks)) /\ Head(hooks) \in Members(hooks)
    BY <2>1, MembersFacts DEF TypeOK
  <2>3. at = "beforeAll" => Head(hooks) \in AllHook
    BY <2>2 DEF IInv, PlaceOK, AllStage, Members
  <2>4. at = "beforeAll" /\ Waiting(h) => Waiting(h)'
    BY <2>1, <2>2, <2>3 DEF Waiting
  <2> QED BY <1>1, <1>6, <2>1, <2>4 DEF HookDone, BadStatus
<1>7. CASE ~BeginTest /\ EnterSuite
  <2>1. /\ at = "beforeAll" /\ hooks = <<>> /\ phase = "idle" /\ UNCHANGED <<at, test, called, inherited, status>>
        /\ active' = active \cup {Head(suites)}
        /\ hooks' = IF Head(suites) \in active THEN <<>> ELSE BeforeAll[Head(suites)]
    BY <1>7 DEF EnterSuite, info, history
  <2>2. CASE s \in active
    <3>1. ~Waiting(h)
      BY <2>1, MembersFacts DEF Waiting
    <3> QED BY <1>1, <1>7, <2>1, <2>2, <3>1 DEF BadStatus
  <2>3. CASE s \notin active
    <3>1. hooks' = BeforeAll[s]
      BY <2>1, <2>3
    <3> QED BY <2>1, <3>1 DEF HookDone, Waiting
  <2> QED BY <2>2, <2>3
<1>8. CASE ~BeginTest /\ LeaveSuite
  <2>1. /\ at # "beforeAll" /\ UNCHANGED <<test, called, status>> /\ s \in active /\ (s \in inherited => s \in inherited')
    BY <1>8 DEF LeaveSuite, info, history
  <2> QED BY <1>1, <1>8, <2>1 DEF BadStatus
<1>9. ASSUME NEW how \in {"none", "error", "skip"}, OverWith(how), ~BeginTest PROVE HookDone(s, h)'
  <2>1. EndsFunction(how) /\ UNCHANGED <<test, called, active>> /\ (BadStatus => BadStatus') /\ inherited \subseteq inherited'
    BY <1>9 DEF OverWith, EndsFunction
  <2>2. OverTest \/ OverAll(how) \/ OverEach(how)
    BY <2>1, EndsFacts
  <2>3. at = "beforeAll" => UNCHANGED <<at, hooks>>
    BY <2>2 DEF OverTest, OverAll, OverEach, EachStage
  <2>4. WorkerFixtureFailed(h) /\ at = "beforeAll" => HookDone(s, h)'
    <3>1. at = "beforeAll" => \A f \in Fixture : WorkerFailed(f) => WorkerFailed(f)'
      BY <1>0, WorkerFailedKept
    <3> QED BY <3>1, FailedFixture DEF HookDone
  <2>5. NoMoreTests => HookDone(s, h)'
    BY NoMoreKept DEF HookDone
  <2>6. ASSUME at = "beforeAll", Waiting(h) PROVE HookDone(s, h)'
    <3>1. CASE h \in Members(hooks)
      BY <2>3, <2>6, <3>1 DEF HookDone, Waiting
    <3>2. CASE fn = h /\ phase = "resolve"
      <4>1. HookDone(s, h)' \/ WorkerFixtureFailed(h) \/ NoMoreTests
        BY <1>9, <2>1, <2>6, <3>2, BeforeAllOver
      <4> QED BY <2>4, <2>5, <2>6, <4>1
    <3> QED BY <2>6, <3>1, <3>2 DEF Waiting
  <2> QED BY <1>1, <1>9, <2>1, <2>6
<1>10. ASSUME NEW stage \in Stage, Moves(stage), ~BeginTest PROVE HookDone(s, h)'
  <2>1. /\ UNCHANGED <<test, called, active, inherited>> /\ hooks = <<>> /\ fn = None /\ phase # "resolve"
        /\ BadStatus /\ at \notin {"begin", "done"} => UNCHANGED status
    BY <1>10 DEF Moves, BadStatus
  <2>2. ~Waiting(h)
    BY <2>1, MembersFacts DEF Waiting
  <2>3. ~Coming /\ BadStatus => BadStatus' \/ NoMoreTests
    BY <2>1 DEF Coming, NoMoreTests, BadStatus
  <2> QED BY <1>1, <1>10, <2>1, <2>2, <2>3
<1> QED BY <1>0, <1>2, <1>3, <1>4, <1>5, <1>6, <1>7, <1>8, <1>9, <1>10, NextOver

(* All that holds on the way, together.                                      *)
AroundOK ==
  /\ FunctionOK /\ OutcomeOK /\ SuitesOK /\ LeaveOK /\ DueOK /\ EntryOK /\ InheritOK
  /\ HungOK /\ FailedOK /\ PreparedOK /\ AfterEachOK /\ BeforeEachOK /\ BeforeAllOK

LEMMA AroundSame ==
  ASSUME AroundOK, UNCHANGED vars PROVE AroundOK'
<1> USE DEF vars, place, info, worker, registry, history
<1>1. /\ Coming' = Coming /\ NoMoreTests' = NoMoreTests /\ BadStatus' = BadStatus
      /\ (\A h : Waiting(h)' = Waiting(h)) /\ (\A f : Failed(f)' = Failed(f) /\ WorkerFailed(f)' = WorkerFailed(f))
      /\ EnclosingNext' = EnclosingNext
  BY DEF Coming, NoMoreTests, BadStatus, Waiting, Failed, WorkerFailed, EnclosingNext, NextTest
<1>2. FunctionOK' /\ OutcomeOK' /\ SuitesOK' /\ LeaveOK' /\ DueOK' /\ EntryOK' /\ InheritOK'
  BY <1>1 DEF AroundOK, FunctionOK, OutcomeOK, SuitesOK, LeaveOK, DueOK, EntryOK, InheritOK, ToLeave, Troubled
<1>3. HungOK' /\ FailedOK' /\ PreparedOK' /\ AfterEachOK' /\ BeforeEachOK' /\ BeforeAllOK'
  BY <1>1 DEF AroundOK, HungOK, FailedOK, PreparedOK, AfterEachOK, BeforeEachOK, BeforeAllOK, Hopeless, Broken,
              Excused, Spoiled, Gone, Skipped, FailedEarlier, WorkerFixtureFailed
<1> QED BY <1>2, <1>3 DEF AroundOK

LEMMA AroundInit ==
  ASSUME Init PROVE AroundOK
<1>0. test = 0 /\ 0 \notin Test /\ None \notin Test /\ at = "between" /\ fn = None
  BY GroupAssumption DEF Init, Test
<1>1. FunctionOK /\ OutcomeOK /\ SuitesOK /\ LeaveOK /\ DueOK /\ EntryOK /\ InheritOK
  BY <1>0 DEF Init, FunctionOK, OutcomeOK, SuitesOK, LeaveOK, DueOK, EntryOK, InheritOK, ToLeave, Coming
<1>2. HungOK /\ FailedOK /\ PreparedOK /\ AfterEachOK /\ BeforeEachOK /\ BeforeAllOK
  BY <1>0 DEF Init, HungOK, FailedOK, PreparedOK, AfterEachOK, BeforeEachOK, BeforeAllOK
<1> QED BY <1>1, <1>2 DEF AroundOK

LEMMA AroundKept ==
  ASSUME TypeOK, TestKnown, IInv, StopOK, AroundOK, Next PROVE AroundOK'
<1>1. FunctionOK' /\ OutcomeOK' /\ SuitesOK' /\ LeaveOK'
  BY FunctionKept, OutcomeKept, SuitesKept DEF AroundOK
<1>2. DueOK' /\ EntryOK' /\ InheritOK'
  BY DueKept, EntryKept, InheritKept DEF AroundOK
<1>3. HungOK' /\ FailedOK' /\ PreparedOK'
  BY HungKept, FailedKept, PreparedKept DEF AroundOK
<1>4. AfterEachOK' /\ BeforeEachOK' /\ BeforeAllOK'
  BY AfterEachKept, BeforeEachKept, BeforeAllKept DEF AroundOK
<1> QED BY <1>1, <1>2, <1>3, <1>4 DEF AroundOK

(* What is known of suites, hooks, fixtures and outcomes on the way to a test *)
(* function holds in every behaviour of the worker.                          *)
THEOREM HooksInvariant == Spec => [](TypeOK /\ TestKnown /\ IInv /\ StopOK /\ AroundOK)
<1>1. Init => StopOK /\ AroundOK
  BY AroundInit DEF Init, StopOK, Ahead, Over, IsFailure
<1>2. TypeOK /\ TestKnown /\ IInv /\ StopOK /\ AroundOK /\ [Next]_vars => StopOK' /\ AroundOK'
  <2>1. ASSUME TypeOK, TestKnown, IInv, StopOK, AroundOK, Next PROVE StopOK' /\ AroundOK'
    BY <2>1, StopFixtures, StopStages, StopStops, AroundKept DEF Next, Step
  <2>2. ASSUME StopOK, AroundOK, UNCHANGED vars PROVE StopOK' /\ AroundOK'
    <3>1. StopOK'
      BY <2>2 DEF vars, StopOK, IsFailure, info, worker
    <3> QED BY <2>2, <3>1, AroundSame
  <2> QED BY <2>1, <2>2
<1> QED BY <1>1, <1>2, Invariant, PTL DEF Spec

(* When a test function is called, all the fixtures it names are there, its  *)
(* suites are entered, and every hook before it has been called, but for     *)
(* what an earlier test that was declared to fail has spoiled and for the    *)
(* "beforeAll" hooks that were lost to a skip in a teardown.                 *)
THEOREM TestsArePrepared == Spec => []TestRunsPrepared
<1>1. TypeOK /\ TestKnown /\ IInv /\ AroundOK => TestRunsPrepared
  <2> SUFFICES ASSUME TypeOK, TestKnown, IInv, AroundOK, phase = "call", fn \in Test PROVE TestRunsPrepared
    BY DEF TestRunsPrepared
  <2>1. at = "params" /\ fn = test
    BY GroupAssumption, AllHookIsHook DEF IInv, PlaceOK, AroundOK, FunctionOK
  <2>2. Coming /\ ~NoMoreTests
    BY <2>1 DEF Coming, NoMoreTests
  <2>3. \A f \in Params[fn] : inst[f] = "provided" \/ (Scope[f] = "worker" /\ f \in exhausted)
    BY DEF AroundOK, PreparedOK
  <2>4. Members(SuitesOf[fn]) \subseteq active
    BY <2>1 DEF AroundOK, SuitesOK
  <2>5. \A h \in Members(BeforeEach[fn]) : h \in called \/ WorkerFixtureFailed(h)
    BY <2>1, <2>2 DEF AroundOK, BeforeEachOK
  <2>6. Members(SuitesOf[fn]) \cap inherited = {}
    BY <2>1, <2>2 DEF AroundOK, InheritOK
  <2>7. \A s \in Members(SuitesOf[fn]) : \A h \in Members(BeforeAll[s]) :
          h \in lost \/ BeforeAllDealtWith(s, h)
    BY <2>1, <2>2, <2>4, <2>6 DEF AroundOK, BeforeAllOK, Skipped, BeforeAllDealtWith
  <2>8. SuitesOfTest(fn) = Members(SuitesOf[fn])
    BY DEF Members, SuitesOfTest
  <2> HIDE DEF AroundOK
  <2>9. \A s \in SuitesOfTest(fn) : \A i \in DOMAIN BeforeAll[s] :
          BeforeAll[s][i] \in lost \/ BeforeAllDealtWith(s, BeforeAll[s][i])
    BY <2>7, <2>8 DEF Members
  <2>10. \A i \in DOMAIN BeforeEach[fn] :
           BeforeEach[fn][i] \in called \/ WorkerFixtureFailed(BeforeEach[fn][i])
    BY <2>5 DEF Members
  <2>11. SuitesOfTest(fn) \subseteq active
    BY <2>4, <2>8
  <2> QED BY <2>3, <2>9, <2>10, <2>11 DEF TestRunsPrepared
<1> QED BY <1>1, HooksInvariant, PTL

(* No "afterAll" hook of a suite that was entered is lost, and where a       *)
(* "beforeEach" hook was called the "afterEach" hooks are called as well,    *)
(* unless there is no time, a skip, an interruption or a failed fixture.     *)
THEOREM HooksFollow == Spec => []AfterHooksFollow
<1>1. TypeOK /\ TestKnown /\ AroundOK => AfterHooksFollow
  <2> SUFFICES ASSUME TypeOK, TestKnown, AroundOK PROVE SuitesAreLeft /\ AfterEachFollows
    BY DEF AfterHooksFollow
  <2>1. SuitesAreLeft
    BY DEF AroundOK, LeaveOK, ToLeave, SuitesAreLeft
  <2>2. ASSUME at = "tearDown", \E i \in DOMAIN BeforeEach[test] : BeforeEach[test][i] \in called
        PROVE  \A i \in DOMAIN AfterEach[test] :
                 \/ AfterEach[test][i] \in called
                 \/ "after" \in exhausted \/ expected = "skipped"
                 \/ interrupted /\ Needed(AfterEach[test][i]) # {}
                 \/ \E f \in Needed(AfterEach[test][i]) : Failed(f) \/ f \in exhausted
    <3>1. test \in Test
      BY <2>2 DEF TestKnown
    <3>2. due
      BY <2>2, <3>1, HooksOfTests DEF AroundOK, DueOK, Members
    <3>3. \A h \in Members(AfterEach[test]) : Excused(h) \/ Gone(h)
      BY <2>2, <3>2 DEF AroundOK, AfterEachOK
    <3> QED BY <3>3 DEF Excused, Gone, Members
  <2> QED BY <2>1, <2>2 DEF AfterEachFollows
<1> QED BY <1>1, HooksInvariant, PTL

(* A test runs between all its hooks, whatever fails, skips, hangs or stops:  *)
(* those before it have been called, none of those after it is lost.         *)
THEOREM HooksSurround == Spec => []HooksSurroundTests
<1>1. TestRunsPrepared /\ AfterHooksFollow => HooksSurroundTests
  BY DEF HooksSurroundTests
<1> QED BY <1>1, TestsArePrepared, HooksFollow, PTL

=============================================================================
