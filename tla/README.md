# Treegress Browser Core: a TLA+ verification project

The repository is a fork of Playwright: a client library, a server that drives
browsers, a channel between the two, and a test runner. This directory holds
TLA+ models of the parts whose correctness depends on the order of events, the
TLC configurations that check them on small instances, and TLAPS proofs for
every value of the constants.

Paths below are relative to the repository; `core/` stands for
`packages/playwright-core/src/` and `test/` for `packages/playwright/src/`.

    tlc -workers 2 -config MCFrameManagerQuiet.cfg MCFrameManager
    tlapm FrameProofs.tla

## 1. The system

| Component | State | Operations | Talks to | Hard part |
|---|---|---|---|---|
| Frame manager (`core/server/frames.ts`) | frame tree, current and pending document of each frame, requests in flight, fired lifecycle events, idle timers | callbacks of the browser backend: attach, detach, commit, abort, request started / finished / failed; the idle timer | backend calls it, dispatchers and waits listen | any order of callbacks of several frames and a timer; an aggregate over a tree that changes |
| Navigation calls (`core/server/frames.ts`, `page.ts`) | of each goto, reload, goBack, goForward: what it has heard and waits for; redirected navigations | start, answer of the command, commits, aborts, lifecycle events, response, timeout | listens to the frame manager, sends commands | the commit may come before the command is answered, or be another one's; a route replaces the navigation |
| Network manager (`core/server/chromium/crNetworkManager.ts`) | half-matched events, requests, routes, extra-info headers, interception | CDP network, extra-info and fetch events; routes; credentials | backend sends events in several orders, it reports to the frame manager | three unordered sources describe one request; redirects share its id |
| Dispatchers and connection (`core/server/dispatchers/dispatcher.ts`, `core/client/connection.ts`) | tree of dispatchers, buckets, calls and their controllers; mirror tree and callbacks at the client | create, adopt, dispose, collect, call, abort, event, disconnect | two FIFO channels | objects that disappear under calls in progress; aborts at any moment |
| Test dispatcher (`test/runner/dispatcher.ts`, `processHost.ts`, `workerHost.ts`) | queue, slots, locks, limits, worker processes | schedule, start / stop / reuse workers, requeue, stop | worker processes by messages and exit | awaits between a decision and its use; crashes; everybody waiting |
| Job dispatcher and worker loop (`test/runner/dispatcher.ts`, `test/worker/workerMain.ts`) | remaining, failed and current tests, results, failure count | testBegin, testEnd, done, exit; in the worker the loop over tests, hooks and errors | messages, lost when the process dies | who is blamed, what runs again, what is counted |
| Worker: tests, hooks, fixtures, time slots (`test/worker/`) | place in the test, active suites, fixture instances and their users, slots | run hooks and tests, set up and tear down fixtures, stop, full cleanup | user functions; the loop above | partial failure of set-up and teardown at any point, interruption, late completion |
| Routes (`core/client/page.ts`, `network.ts`, `core/server/network.ts`, the dispatchers of page and context) | client: lists of handlers with their counts, the chain of each request; server: matchers, interceptors, removals in progress | route, unroute, unrouteAll, the calls on a route, setNetworkInterceptionPatterns | the channel of the connection, the network manager | handlers come, expire and go while requests and answers are on their way |
| Page, context, browser (`core/server/page.ts`, `browserContext.ts`) | lifecycle, scopes that reject what is in progress | open, close, crash, report | backend, dispatchers | closing while anything is in progress |
| Task runner, sharding, watch mode, reporters, loaders, tracing, tools and MCP, relay and extension, transports, other browser backends, injected scripts, viewers, protocol | see `PROJECT.json` | | | |

What makes each of them correct:

- *Frame manager*: `networkidle` is announced only for a subtree that is quiet;
  a quiet page gets it; no request is counted for ever; a document keeps its
  own request; removal leaves a tree.
- *Navigation calls*: a call succeeds only with its own document, sleeps
  through no event, and follows a redirection instead of failing.
- *Network manager*: each request of a chain is reported once and in order,
  with its own response and headers; no pause of a request is left unanswered.
- *Routes*: client and server agree about what is routed whenever nothing is on
  its way between them; a handler is called no more often than its times; no
  paused request is forgotten.
- *Connection*: the client can read every message when it gets it, has the tree
  of the server after reading everything, and gets exactly one answer per call,
  also when it aborts.
- *Test dispatcher*: retries run alone, locks exclude, limits hold, nobody
  waits for ever, nothing starts after a stop, every run returns.
- *Job dispatcher*: no test is lost or run too often, a run that passes has run
  every test, failures are counted exactly, every result ends.
- *Worker*: fixtures go after what uses them, and all of them go; a test runs
  between all its hooks; after a failure no test runs; the worker ends.

The full list of components, with the reason for each that is left out, and the
list of hazards with their lines are in `PROJECT.json`.

## 2. Modules

JavaScript runs one turn of its event loop at a time: what code does between
two awaits, with all it calls, is one action. Processes, timers and messages
interleave between turns.

| Module | Models | Checked by |
|---|---|---|
| `FrameManager` | `frames.ts`: class FrameManager and the network-idle half of Frame | `frame_idle_lost`, `frame_navigation` |
| `FrameNavigation` | `frames.ts` and `page.ts`: gotoImpl, waitForNavigation, raceNavigationAction, redirectNavigation, reload, goBack, goForward; composed with `FrameManager` | `frame_navigation` |
| `NetworkManager` | `crNetworkManager.ts`: CRNetworkManager, RouteImpl, ResponseExtraInfoTracker, with Chromium as this code uses it | `network_requests` |
| `RequestReports` | abstract: what the frame manager may expect of who reports requests | `network_requests` (refinement) |
| `TestDispatcher` | `dispatcher.ts`: class Dispatcher; ProcessHost and WorkerHost | `dispatcher_schedule` |
| `JobPool` | abstract: slots that take jobs under constraints | `dispatcher_schedule` (refinement) |
| `TestJob` | `dispatcher.ts`: class JobDispatcher; the test loop of `workerMain.ts` | `testjob_runs`, `testjob_snapshot`, `testjob_stray` |
| `TestWorker` | `workerMain.ts`: one test with its hooks; `fixtureRunner.ts`, `timeoutManager.ts`, `testInfo.ts` | `worker_tests`, `worker_passed` |
| `DispatcherConnection` | `dispatcher.ts` of the server, `connection.ts` and `channelOwner.ts` of the client, the controllers of `progress.ts` | `connection_tree`, `connection_unbound` |
| `Routes` | client `page.ts`, `browserContext.ts`, `network.ts` (RouteHandler, Route); server `network.ts` (Route), `pageDispatcher.ts`, `browserContextDispatcher.ts` (setNetworkInterceptionPatterns) | `routes` |
| `...Proofs` | theorems about each module above but the two abstract ones | tlapm |
| `MC...` | the small instances | |

How they fit together: `FrameNavigation` EXTENDS `FrameManager`, each action of
which is conjoined with what the calls do in the same turn. `RequestReports`
is what `FrameManager` assumes of `RequestStarted` and its siblings, and
`NetworkManager` implements it. `TestDispatcher` and `TestJob` describe the two
levels of one file: a job of `TestDispatcher` ends with a choice of leftovers
(the tests it did not reach, the retries), bounded by a budget; `TestJob`
computes what those leftovers are for one group, whose jobs never overlap, and
sees the other groups only as failures that count towards `maxFailures`.
`TestWorker` is the inside of what is a few actions of the worker in `TestJob`.
`Routes` lies between the channel of `DispatcherConnection`, of which it takes
only that calls arrive in the order sent, and the pauses of `NetworkManager`, of
which it takes only whether the browser pauses a request.

In each module the operators whose comment begins with "Mutation" or "Mutant"
are the definitions with a plausible bug in them, used to show that each
property notices one; no specification refers to them.

### FrameManager

State: `page` (lifecycle), `scope` and `chain` (a frame's detached scope and
its ancestors as a set, which replaces `_parentFrame` and `_childFrames`),
`fired`, `idleSelf`, `timer`, `inflight`, `current`, `pending`, `req`.
Each callback is one action that includes the recalculation of the whole tree,
which in the code is the last thing a lifecycle event does. A frame object is
attached and detached once; that a frame id can be taken again by a new object
is not modelled. `timer` is "elapsed" after the callback of the timer, because
the code does not reset the handle there and later tests it.

Not modelled: web sockets, console tags, evaluation, selectors, execution
contexts, and requests of frames that are gone.

### FrameNavigation

State: `call`, for each call its kind and phase, the document it is about, what
a goto collected before its command was answered, and the document that a
redirected navigation replaces; and `heard`, history: the lifecycle events of
the call's frame since its document was committed. An action of the frame
manager comes with the event it emits (`Emits`): in the same turn the waiting
calls hear it, those that wait for a lifecycle event wake, `raceNavigationAction`
rejects those whose frame or page is gone, and the calls that follow a
redirected navigation end with it. The other actions are the call's own: the
answer of its command, the response of its document, the timeout.

What the model assumes of the browser, beyond `FrameManager`: a document
belongs to one frame; the document of a request that a route replaces is never
committed; the goto that asked for it is answered before the document that
replaces it commits; such a navigation is neither a download nor cancelled by a
`beforeunload` dialog, which are reported without a document; a redirection is
for another document.

Not modelled: setContent and the console tags, waitForLoadState, the signal
barrier of actions, and the client's own waiter (`core/client/waiter.ts`).

### NetworkManager

The maps of the code are all by request id, so the module follows one id: a
request and the requests it is redirected to, numbered by hop. `m` is the state
of the manager, its requests and the tracker of extra-info events; a handler is
an operator from `m` to `m` whose commands are in `m.out` until the action
sends them. `browser` is Chromium's side, taken from how this code uses it and
what its comments say; `network`, `extra`, `fetch` and `commands` are channels
that keep their own order and none among each other. Of headers and payloads
only the hop they belong to is kept. `kind` covers preflights, requests handled
by a service worker, and requests foreign to the Network domain.

Behaviours of the code that the model has and the properties leave room for:

- interception that is switched while a request begins (`Disturbed`): the
  manager waits for a pause that does not come, or does not wait for one that
  comes, and has no answer to it; the properties bind until then;
- a redirected request that is cancelled while the manager waits for its pause
  is taken for the end of the request before it (`CutShort`);
- a request that is restarted without having been continued by a route is
  paused a second time, and that pause is kept for ever (`LoadsEnd`);
- the first hop of a redirect that a service worker handled is not reported
  under interception, and after a `loadingFinished` without a response the raw
  request headers stay pending.

Not modelled: data: URLs, header overrides, several sessions and requests that
change session, offline, bodies, timing, sizes, the service worker's own
manager, the handler chain of `network.Route`.

### TestDispatcher and JobPool

State: the queue, the job and phase of each slot, the worker of each slot with
its process, the hash counter, and the flags of stop and end. `_scheduleJobs`
is a loop in one turn: while `scheduling` holds, only its iterations are
possible. The two awaits in `_runJobInWorker` (stopping the old worker,
starting the new one) are phases, and stop, crash and exit may come in each of
them. The process of a worker exits before its host emits `exit`, since the
artifacts folder is removed in between.

`JobPool` has neither queue nor workers nor event loop: a slot takes any job
that may begin (no lock shared, the project below its limit, a retry alone and
after everything else), releases it with leftovers smaller than it was, and
`run()` returns when nothing is held and nothing left to do. `TestDispatcher`
implements it (`ActsAsPool`), which is where isolation, locks, limits and the
end of the run are stated.

Not modelled: stdio, environment hand-over, heartbeats, the force-kill timer,
a failure to create the artifacts folder, and a `done` that is read after the
exit of its own process.

### TestJob

State: the queue of jobs of one group, the sets of the job (`remaining`,
`begun`, `failed`, `nonRetriable`, `current`), the results reported, the
failure count, the worker and the wire. A `setting` names the tests, the limits
and the `Faults` of a run: a failing test, a failing hook, an unhandled error
in or outside a test, a file that does not load, a test the worker does not
find, a crash, a stop, a kill.

Behaviours of the code that differ from what one would expect, and that the
model has:

- an unhandled error outside any test makes the worker skip the next test,
  which nobody runs again (`testjob_stray`, below);
- when the file does not load, the error is blamed on the first test of the
  job, which satisfies a `test.fail()` declaration;
- a failure that must not be retried is not added to the failure count before
  the last retry, does not stop the rest of its serial suite and does not
  retry the suite;
- a describe with its own `retries` inside a serial suite is retried without
  its siblings;
- a worker that is killed after a stop leaves a result without an end.

- a `test.fail()` test whose snapshot is missing marks its serial suite as not
  to be retried while the suite goes on; with isolated retries a later failure
  is then retried alone, and from a job of its own once more with the suite, so
  that a test runs more often than it may (`MayComeApart`);
- with immediate retries a test can be skipped for a crash or a hook of others
  until it has no retries left, while those others pass in the end;
- of a serial suite to retry the tests that were skipped come behind all tests that
  failed, others included. When tests are renamed, one that is no member can come
  between the tests of the suite; the worker runs them in file order all the same,
  a crash within the suite is blamed on the first in the order of the job
  (`test/runner/dispatcher.ts:487`), and the suite loses a round in which none of its
  tests failed: with two retries a run can pass without them;
- a crash between two tests can be blamed on one that is declared to be skipped.
  It becomes flaky, which fails nothing, and the tests skipped along with it can
  come to the end of their retries without having run;
- the tests that a worker does not find are failed also after `maxFailures`.

The properties name these conditions where they have to (`NoTestTooOften`,
`ResultsAddUp`, `PassedMeansRanIfIsolated`, `NoFailureAfterMax`) and hold
otherwise; the instances give every test of a group the same number of retries.

### TestWorker

State: the place in the code (`test`, the stage `at` of `_runTest`, the
`suites` and `hooks` it has still to visit, the `phase` of the function at
work: resolving its fixtures, running, cleaning up), the outcome of the test
(`status`, `expected`, `interrupted`, the `exhausted` time slots), the worker
(`stopped`, `cleaned`, `active` suites) and the fixtures (`inst`, `usages`).
Any function of the user (hook, test, fixture set-up and teardown) may return,
throw, skip or time out; the worker may be stopped and an unhandled error may
arrive while it awaits; a set-up that was cut off may still provide its value
(`LateSetUp`). Time is not counted: a slot is either exhausted or not, and the
function that exhausts it ends with `timesOut`.

After each "beforeAll" and "afterAll" hook the test fixtures it used are torn down,
in a finally block: the first error of a teardown takes the place of what the hook
itself had thrown (`TearDownFails`, `Cleaned`). A skip there keeps the remaining
"beforeAll" hooks of the suite from running as one in the hook does, but no test
inherits it. These hooks are in `lost`, a history variable. While the worker closes, skips
are not allowed, and one is an error like any other.

`HooksSurroundTests` names three things that the code does not repair. The first are
the `lost` hooks: the suite is active and nothing in it but the test at hand is
skipped, so that the next test runs, and hooks that are declared to run before all
tests were never called (`test/worker/workerMain.ts:596`). A test that is
declared to fail and does so lets the worker go on. A worker fixture that failed or
hung in it stays as it is, so that the hooks which need the fixture are not called
for later tests (`WorkerFixtureFailed`), and a later test is called with a hung one.
A "beforeAll" hook that did not get its fixtures in it is not called again
(`FailedEarlier`). Of the constants the module assumes that a "beforeAll" hook is
declared in one suite, and that the names of fixtures are not those of time slots.

Not modelled: steps, attachments, paused tests and ignored timeouts,
`test.slow()`, the second group of a worker that is reused, and the messages,
which `TestJob` has.

### DispatcherConnection

State: `up`, the object and its ancestors for each guid that has a dispatcher;
`bucket`; `call`, with the phase of `dispatch()` for each message; the two
queues; at the client `mirror`, `held`, `callbacks` and `signalled`; and
`link`. What a handler or an event does in one turn is a chain of operations on
a record of tree, buckets and messages (`Created`, `AdoptedBy`, `Disposed`,
`Collected`, put together in `From`), so that the order of the messages is that
of the code.

An object of the browser can outlive its dispatcher: it is in `gone` when it no
longer exists, and as long as it is not, `from()` may create a dispatcher of
the same guid again. The constants describe the types of objects: `Scopes`
where a dispatcher is created, `Adopted` what it takes over, `Below` what goes
with it, `Returned` what its methods answer.

What the constants promise is named: each object has a scope to be created
under, events and results mention objects created under the root or the object
itself, and `adopt()` is that of a page and its main frame, its one use here. Two
things can go wrong in the code that the instance excludes by `ScopesAreKept`,
and that the theorems about the tree therefore have as their hypothesis: when
the bucket of a scope overflows (10000 pages or frames), a collected parent
leaves its adopted child behind, or a method of it that returns later creates
dispatchers under a disposed parent.

Not modelled: `__waitInfo__`, validation errors, arguments that are objects,
results with several objects, the uses of `stopPendingOperations` other than
the end of the connection, the contents of results and errors. A method creates
dispatchers only in the turn that ends it. When `link` is no longer "open" the
client is not followed: its callbacks are rejected and it refuses every call.

### Routes

State: at the client the lists `routes` of the page and the context, the
`handledCount` of each handler, the `chain` of handlers that each request goes
through, and what `unrouteAll("wait")` waits for; the calls on their way; at the
server `matchers`, `interceptors` and the calls of
`setNetworkInterceptionPatterns` in `removing`, whether the browser pauses
requests, and the `route` of each request. A call on a route, its answer, the
handler's own end and the removal of an interceptor are separate turns. Calls
reach the server's methods in the order they were sent.

`setNetworkInterceptionPatterns` clears the matchers after it has awaited the
removal of the interceptor. Patterns that came meanwhile are lost with them
(`core/server/dispatchers/pageDispatcher.ts:215`): the client has routes, the
server's interceptor has no matchers, and the requests go on unrouted, although
every matching request is documented to stall until a handler takes it on. A
scope is `overlapped` as long as its latest patterns came in this way, and
`RoutedMeansIntercepted` binds all others: the next patterns that do not come during a
removal repair it, also when the interceptor was left installed twice or without
matchers (twice only in the proof: it takes more changes of patterns than the run
has). `RoutesGoOn` binds overlapped scopes too.

`TargetGone` is the client hearing that the page has closed or crashed, which comes
after the routes and answers that were sent before it. From then on a call on a route
resolves without an answer, or whatever the answer would be (`_raceWithTargetClose`,
`core/client/network.ts:334`; `tests/library/unroute-behavior.spec.ts:265` and the tests
after it want it so), and the handler is told that it handled a request that nobody
took further (`OnAnswer`). The client goes on with its lists, chains and calls. Of the server only
that its dispatchers may refuse the calls is modelled (`Receive`), not what it does with
the requests of the page: `RoutedMeansIntercepted`, `RoutesGoOn` and the last clause of
`HandlerContract` speak of a page that is there. A handler may have `times` zero, which
the client does not check: it expires when it is called, so it is called once.

Not modelled: the contents of overrides and responses, HAR and web socket
routes, routes of popups without a page, interceptors of the server's own.

## 3. Runs

All runs are exhaustive on their instance.

| Run | Instance | Shows |
|---|---|---|
| `frame_navigation` | two settings: "tree", three frames side by side or nested, two requests of which one continues the other, one document, process swaps, page open, no call; and "calls", the main frame, two documents, two requests, a call and a redirected one; about 160 000 states | `StateAgrees` (the tree is connected, timers and idle flags agree with what is in flight, documents with their requests), `NetworkIdleCoversSubtree`, `NetworkIdleIsSound`, `ArmedFramesGetIdle`; `CallsOK`, `CallsMissNothing`, `RedirectedGotoFollows` |
| `frame_idle_lost` | two frames, one request, one document | violation: a quiet page never gets `networkidle` |
| `network_requests` | a request of any kind and one redirection, one switch of interception or credentials; any order between the channels | `TypeOK`, `LoadsAreReported`, `AnswersAreOwn`, `LoadsEnd`, and `ReportsInOrder`, the refinement of `RequestReports` |
| `dispatcher_schedule` | two slots, three groups of two hashes and two projects with a limit of one, a shared lock, one group queued twice, isolated retries, stop at any time; about 240 000 states | `TypeOK`, `NotEveryoneWaits`, `WorkersServeJobs`, `NothingStartsAfterStop`, `RunFinishes`, and `ActsAsPool`, the refinement of `JobPool` |
| `testjob_runs` | four settings: "retrying", a serial suite of two tests and a test behind it, two isolated retries each, a "beforeAll" hook of the file, every fault of a worker; "missing", three tests in no suite, one isolated retry each, the same faults and renamed tests; "stopping", a skipped test and a serial suite, immediate retries, `maxFailures` 2, stops, kills, missing snapshots and failures elsewhere; and "declared", the same three, one declared to fail; about 770 000 states | `TypeOK`, `NoTestTooOften`, `SerialSuitesRunAsOne`, `PassedMeansRanIfIsolated`, `ResultsAddUp`, `NoFailureAfterMax`, `RunEnds` |
| `testjob_snapshot` | a serial suite of two tests, only missing snapshots | violation: a serial suite goes on after a failure |
| `testjob_stray` | two tests, only stray errors | violation: a run passes without one of its tests |
| `worker_tests` | five tests (one expected to fail, two skipped), a describe around the first three with two "beforeAll" hooks and an "afterAll" hook, hooks around each, a server and a browser per worker, a page and a session per test; about 64 000 states | `TypeOK`, `FixturesAreCleaned`, `HooksSurroundTests`, `FailingTestIsLast`, `WorkerFixtureOnce`, `WorkerCloses` |
| `worker_passed` | the same with two tests, the first expected to fail | violation: a test is reported as passed and has not run |
| `connection_tree` | a context, a page with its main frame, two handles, buckets of one, two calls, aborts, disconnect; about 180 000 states | `TypeOK`, `TreeIsWhole`, `ClientKeepsUp`, `OneAnswerPerCall`, `CallsAreAnswered` |
| `connection_unbound` | the same | violation: a response mentions a disposed object |
| `routes` | three settings: "list", two handlers of the page (one for two requests, one with `times` 0 and a function as url) and one request; "requests", one handler and two requests; "scopes", a handler of the page, one of the context, closing and failing calls; in the first and the last the page may close or crash; about 650 000 states | `TypeOK`, `RoutedMeansIntercepted`, `HandlerContract`, `RoutesGoOn` |

### Bounds, and why they are enough

- *Frames*: the idle calculation relates a frame to its subtree and its
  ancestors; three frames give a chain and two siblings. Two requests give a
  redirect chain and a competition. The setting "tree" of `MCFrameNavigation`
  keeps the page open with no call, one document and frames attached in one
  order (they are interchangeable). No request is of a kind that is not counted;
  the proofs have those too. Frames that moved to another process are kept in
  `moving`, because the browser owes them the commit it moved them for.
- *Calls*: the setting "calls" has one frame: a call hears only its own, and
  what detaching does to a call (`Raced`) is what closing does. Requests are
  for documents, the idle timers do not elapse, and a request is redirected,
  by the server or by a route, only next to a goto. A page is watched until it
  crashes or its calls are over. Two documents give a goto its own and one that
  replaces it; two calls give the goto and the redirected navigation. The
  proofs have none of these bounds.
- *Network manager*: one redirection (`MaxHop`) and one change of mind
  (`MaxSwitch`); the safety properties were also checked with two of each. A
  hop relates only to the one before it.
- *Test dispatcher*: two slots are what isolation, locks and limits are about;
  three groups make one wait behind both. `Budget` bounds how often a group
  comes back, as its tests and their retries do.
- *Test job*: three tests give a suite of two with a test behind or before it; one
  retry gives a first and a last run. `maxFailures` 2 is reached by this group alone
  or with others.
  Three tests, of which one is declared to fail, give a suite that passes with
  a failure in it.
  Two retries give a round between the first and the last, in which a suite can
  come back after it has passed in part.
- *Worker*: two levels of suites, hooks on both sides of them and of the test;
  each scope has a fixture that uses another, one across the scopes; one
  fixture is automatic, and one test fixture has a time slot of its own. Of two
  "beforeAll" hooks the first uses test fixtures and the second none, so that the
  second can be lost to a teardown after the first. Five
  tests give a describe that ends in a skipped test, a test skipped on the fast
  path, and one behind it.
- *Connection*: buckets of one object let the second handle collect the first
  (the code has 10000 and collects a tenth at a time; `MaxDispatchers` and
  `DisposeCount` are both 1 here). Two calls overlap in every pair of phases.
  `MaxWire` = 1 bounds only events: a method adds its messages to any queue.
  The collector never meets a frame or page with live calls in this instance
  (`ScopesAreKept`); the theorems about types, buckets and answers hold with it.
- *Routes*: two messages on their way (`MaxMessages`) let a call on a route and a
  change of patterns, or two changes, overtake nothing but each other's effects.
  Two handlers give a fallback and a removal of either; two requests share the
  `times` of a handler; the two scopes are linked only by the order of their
  interceptors. `InSetting` names what each setting leaves to the others;
  a call fails for another reason than an earlier one, at the client or the server,
  only on a page that is neither closing nor gone.

Deadlock is not checked where the system may stop: a page, a request that is
over or that nobody continues, a worker that has closed, a connection with
nothing left to do, and routes whose handlers never end.

### Fairness

- `FrameManager`, `FrameNavigation`: a timer that runs eventually fires.
  Else the browser owes no event but one: a frame that moves to another process
  commits a document there, which is why it moved. `ArmedFramesGetIdle` and
  `QuietPageGetsIdle` assume that from some point on no document is committed.
- `NetworkManager`: as long as an event or a command is on its way, the network
  has a request or a handler a route, one of them makes a step (one `WF` on all
  of these together, so that no single one of them is promised a turn).
- `TestDispatcher`: turns of the event loop are taken; a job in a running
  worker ends or its process does; a worker becomes ready or exits; a worker
  that was asked to stop exits (the host kills it otherwise); after the end
  `stop()` is called, as `run()` does in a finally block.
- `TestJob`: the runner handles messages and starts jobs, the worker goes on;
  tests end, since each has a timeout.
- `TestWorker`: every function ends or its time slot does, and the process is
  closed when the run is over. Nothing has to stop the worker.
- `DispatcherConnection`: messages are delivered, `onBeforeCall` and
  `onAfterCall` have 3 seconds each, and a method that was aborted ends because
  its progress races the abort. A method that was not aborted may run for ever
  (timeout 0), and the properties say so.
- `Routes`: calls arrive, the browser switches, removals end, and the client goes
  on with a chain once it may. No handler has to return or to call anything.

### What the violations show

- `QuietPageGetsIdle`: `_startNetworkIdleTimer` returns when `networkidle` is
  still among the fired events, although the request that just ended had reset
  the frame's own flag; the next recalculation withdraws `networkidle`, and no
  timer is left to announce it again. The comment next to the withdrawal
  says that "networkidle is fired once and not removed after that" usually.
- `SerialSuiteStops`: a failure that must not be retried (a missing snapshot was
  written) is passed over before its serial suite is noted, so the tests after it
  stay in the remaining job and run in a new worker, while the documentation has
  them skipped.
- `PassedMeansRan`: the skipped test after a stray error is neither remaining
  nor failed, so it is not retried, and the run passes.
- `PassedMeansTestRan`: a worker fixture that failed stays registered. When the
  test it failed in was declared with `test.fail()` the worker goes on, the next
  test that names the fixture is not called, and, as nothing failed in it, it is
  reported as passed.
- `ResponsesAreBound`: a result is serialized, `onAfterCall` and slowMo are
  awaited, and the response is sent; when the page closes or the collector runs
  meanwhile, the client gets `__dispose__` first and throws on the response
  after it has removed the callback, so the call never settles.

## 4. Proofs

All proofs are checked by tlapm without any unproved step. They assume only the
named assumptions on the constants, and two theorems about
`DispatcherConnection` the named condition `ScopesAreKept`; one about `TestJob` is
for groups without serial suites (`NoSerialSuite`).

`FrameProofs`. First about the frame manager, for any sets of frames, requests and
documents:

- `TypeCorrect`; one step per action.
- `AssertionHolds` and `TimersAgree` from `IdleInv`, the conjunction of
  the two properties and "a frame object that was not attached yet has nothing
  in flight", without which attaching would break them.
- `IdleIsSound`, an action property: a recalculation announces a frame only
  when all of its subtree has `idleSelf`, which by `IdleInv` is an elapsed timer
  and nothing in flight.
- `TreeStaysConnected`, inductive by itself. `EverythingAgrees` joins it with
  `TimersAgree` and `RequestsMatch`, as the run checks them.
- `IdleCoversSubtree`: a frame that is network idle has a subtree that is, but
  for frames attached since.
- `RequestsMatch` from `DocInv`, which adds to its three parts that no document
  refers to a request that has not started, and that a frame object without a
  constructor call has no pending document. The proof goes frame by frame:
  `FrameStep(f)` says what any action may do to one frame, and `DocInv` is kept
  by it.

Then about the navigation calls, for any number of them next to any page:

- `CallsOnlyWatch`: `NavSpec` implies the `Spec` of `FrameManager`. Each page
  step is a step of the frame manager or leaves its variables alone, so that
  every theorem above holds with calls as well.
- `CallsStayOK` and `NothingIsMissed` from `NavInv` and `CommitFired` (an
  attached frame has always fired "commit"). `NavInv` says of each call, besides
  its type, what it has heard in each phase: nothing while it is idle or waits;
  for a goto that was sent, something exactly if the commit it collected is that
  of its target; its commit but not its event while it is loading; and that
  what its frame has fired since is a subset of what it has heard. The
  strengthening is needed because the answer of the command decides from what
  was collected turns earlier. The induction goes by lemmas that say what one
  event does to one call (`EmitsKeepsNavInv`) and what a call does by itself.
- `RedirectedFollows`, the action property `RedirectedGotoFollows`, from
  `RedirectInv` and `NavInv`. While the redirected navigation is in progress, its
  entry is there for whoever hears of the abort. When it succeeds, the entry goes,
  and then nobody it concerns may still listen: `SettledOK` says so from the turn in
  which the navigation hears of its commit, which is the turn in which the goto hears
  of the same commit (their frame is one, `RedirectionOK` and `TargetOK`) unless its
  command was answered before. This rests on the browser: that a held document is never
  committed, and that the goto has its answer before the document that replaces it
  commits (`MayCommit`). `Turned` says what a step makes of one call, but for the
  end of what it follows (`FollowedKeepsRedirects`).

`NetworkManagerProofs`, for chains of any length and any number of changes of
interception:

- `TypeCorrect` and `ReportsAreInOrder` (the refinement of `RequestReports`)
  from `IInv`, a conjunction of the types, of `Structure` and of
  `Disturbed \/ Ordered`.
  - `Structure` is what the order of the browser's events gives whatever
    happens: nothing is known anywhere of a hop the browser has not reached
    (`Future`), it is decided whether each earlier hop is paused (`Past`), hops
    are announced in order, the end of a load is the last event of the network,
    and a service worker's request is never paused.
  - `Ordered` holds until interception is switched while a request begins: the
    request listed is the only one in flight; from the hop that is announced or
    kept on, nothing was reported, unless the manager waits in vain for the
    first request of a service worker; and a hop that was not taken for begun
    cannot be let go, so that the browser still holds it and has not gone on.
  The last part is what makes the rest inductive. Were a kept hop followed by
  another one, the browser must have decided not to pause it or have lost its
  pause, and the manager would be disturbed.
- The handlers are summed up by lemmas on what they report (`Begins`, `Skips`,
  `IsOver`), on what they keep, and on which pauses they may let go; the
  actions of `Next` become nine kinds of steps of the browser and five of the
  manager; and each step of the manager is a start, an end or a redirect of
  `RequestReports`, or none.
- `LoadsReported` from `LInv`, which adds to `IInv` what the network says of the
  load (`Loading`: an answer on its way is that of the current hop, nothing is
  announced after it, and the last event of a load that is over is its end) and,
  until disturbed, how far the manager has come with it (`Reporting`): what it
  has heard of and need not wait for was begun (`BegunOK`); the last hop is over
  only once the end was handled, the ones before it only by their redirect
  (`OverOK`); a response belongs to a hop that was answered, and the answer of the
  last one was kept (`ResponsesOK`); and after the end only what was cut short is
  still listed or kept (`EndOK`). It is inductive because of `WaitingOK`: a hop
  that still waits for its pause when the load is over was never let go, so the
  load was cancelled, and that is the exception `CutShort` names (`NewIsCut`).
  The handlers are summed up a second time, by what they do to the answers.
`ResponseTrackerProofs`, on top of it, about the headers:

- `AnswersOwn` from `TInv`, which adds to `LInv` that the chain is in order
  (`Chained`: what is listed is followed only by hops that are announced or kept, and
  has no response before its last one) and that the tracker keeps to a sequence of
  hops `g`, the hops whose response has extra info, in order (`Tracking`). The
  browser appends to `g` when it sends the extra info of a hop. `Sound(m, g)` is what
  the tracker guarantees by itself: the responses it lists are a prefix of `g`, an
  extra-info event at place `i` is that of `g[i]` or used up, and a response at a place
  whose extra info is there has taken it. `Aligned(g)` is what makes the next event
  fit: the channel of extra info continues `g` where the two lists of the tracker
  stop (`Extras`), the responses listed are those of the hops before the request
  that is listed (`Position`), and a flag `hasExtraInfo` on its way, or kept with
  requestWillBeSent, says whether the hop is in `g` (`Sources`), but for an answer
  from the cache, of which the tracker hears first (`Caching`). Each operator of the
  tracker is shown to keep `Sound` for any `g` that fits, each step of the browser
  and each handler to keep `Aligned`. A tracker entry that goes with the end of the
  load starts over with the empty `g`: `OverIsEnd` says that nothing is listed by
  then, so that late extra info finds no response. The proof needs that an entry is
  not `None` (`EntryAssumption`).

`TestDispatcherProofs`, for any number of slots, groups, projects and locks:

- `TypeCorrect`; `StepCases` reduces every action to claiming a slot, releasing
  one with leftovers, or leaving jobs and queue alone, and the later proofs use
  these three cases instead of the actions.
- `RetriesAlone` from `RetryInv`: retries are last in the queue, what is
  isolated is a retry, a retry that runs before the isolated ones does so
  alone, and the remainder of a retry is the next job.
- `LocksExclusive`, `ProjectLimit` (a count over busy slots, by the cardinality
  lemmas), `SomebodyRuns` (a job can always run alone, so that with no busy slot
  the first job can run), `FinishedIsOver`, and `WorkerFits`.
- `StopIsFinal`, one case per action from the type invariant alone: a stopped run
  creates no worker and sends no job to one.
- `CountCovers`: the jobs of a hash in the queue and in the slots are counted as
  sets of positions and slots; a claim is an injection of the positions that
  remain, a release puts at most as many behind or in front as it counts, and at
  first the queue is a bijection with the groups. `WorkersServe` joins it with
  `WorkerFits`, as the run checks them.
- `PoolImplemented`: under the mapping of `ActsAsPool` initial states are
  initial states of `JobPool`, and each of the three cases of a step is a step
  of the pool or a stutter.

`TestWorkerProofs`, for any tests, suites, hooks and fixtures:

- `TypeCorrect`; `FixturesIntegral`, `NothingLeft`, `FixturesCleaned` and
  `FixtureOnce` from one inductive invariant: where in the code each phase can
  be (`PlaceOK`), that what is left to tear down is all that is registered in the
  scope (`LeftOK`), who uses what (`UsageOK`), in which stages
  fixtures of each scope exist (`TestScopeOK`, `WorkerScopeOK`), and that a
  worker fixture goes only when nothing will be set up any more (`MadeOK`).
- `FailingIsLast` from `StopOK`, which relates the flag of a stop to the
  interruption of what runs.
- `TestsArePrepared`, `HooksFollow` and their conjunction `HooksSurround` from
  `HooksInvariant`. Its part `AroundOK` says what is known at every place of
  `_runTest`: on the way to a test function (`Coming`) the suites of the test are
  entered (`SuitesOK`), and each "beforeAll" hook of an entered suite and each
  "beforeEach" hook was called, is still in the list of hooks to visit, or is
  excused (`BeforeAllOK`, `BeforeEachOK`); behind it the same holds of the
  "afterEach" hooks (`AfterEachOK`); and every suite that has "afterAll" hooks to
  run has a test to come that runs them (`LeaveOK`). Three facts carry it. A list of
  hooks counts only by its members: it shrinks by one, which is then called. What
  went wrong in an earlier test has stopped the worker (`NoMoreTests`), by `StopOK`,
  or that test was declared to fail (`OutcomeOK`). And a fixture that failed on
  the way to a test function depends on a failed worker fixture (`FailedOK`), since
  test fixtures do not outlive their test, while one that still hangs has no time
  left (`HungOK`). A `lost` hook is an excuse for good (`LostKept`).

`RoutesProofs`, for any handlers and requests and any queue of calls:

- `RoutesTyped`, `RoutedIsIntercepted` and the action property `HandlersAreServed`
  from `IInv`, whose parts are: a listed handler has times left, or was not called yet
  if its times are zero (`ListsOK`); what
  `unrouteAll("wait")` removed is not listed, and it waits for each of its
  invocations (`WaitsOK`); a request the client knows has a dispatcher, and one
  that was answered has gone on (`CallsOK`); the latest call about a scope names
  every handler of its list, and when none is on its way the server knows them,
  as long as the page is there and the scope is not `overlapped` (`PatternsOK`);
  and the interceptor is installed whenever there are matchers and no removal
  (`InstalledOK`).

`TestJobProofs`, for any group, serial suites, retries and faults:

- `TypesHold`, `ResultsAreClosed` and `QuietAfterMax` from `Inv`: a worker that
  runs a test has told so or will (`WireOK`: the messages on the wire follow each
  other as the worker sends them, the first fits what was handled and the last
  what the worker is at), a result is open only of the test that has begun
  (`OpenOK`), and the run is stopped once failures reach their maximum.
- `TestsRunAsOftenAsAllowed` and `ResultsAreExact` from `IInv`, which adds, unless a
  suite may come apart, that jobs share no test, that with isolated retries a
  serial suite waits as a whole, that what waits has a run left, and that the
  failure count is that of the tests that are unexpected after their last run.
  A job's end is the hard step: what `_onDone` leaves over is computed by folds and
  sorts over sequences, of which the lemmas need only who is in them.
- `SuitesRunAsOne` from `SInv`, which adds to `IInv`: the worker begins its tests in
  file order, and what it has not begun comes after what it has (`OrderOK`); on the
  wire and in the worker, nothing passes after a failure of the same job
  (`StreamOK`); and, unless a snapshot may be missing or the retries of a suite
  differ, the tests of a suite that wait in a job have had as many runs as one
  another and one less than the others, which did well in their last (`SuitesOK`).
  The end of a job is an order on the ledgers that `_onDone` goes through
  (`Advances`): who leaves what remains has one result more, or its open one
  closed, and is failed. A suite without a failure then waits as far as it had not
  come to its turn, one with a failure as a whole or not at all.
- `PassedRunsRanAll`, which is `PassedMeansRanIfIsolated` for groups without serial
  suites, from `PInv`. It adds to `SInv`, in a run with isolated retries that was not
  stopped: what is on the wire and in the worker tells how each test ended, and no
  tests are to be skipped for a failed hook before the test that failed it is
  reported (`PlainStream`); a test that waits, runs or has failed in the job has
  not passed yet, and one that has failed there has a result that says so
  (`PlayingOK`); the tests of a job have had equally many runs (`LevelOK`); and a
  test that neither ran nor waits leaves another one that failed, never passed and
  runs no more (`NoneLost`), which fails the run. At the end of a job this last part
  needs to know who takes the blame: when any test is skipped, one that failed has a
  result that says so (`SettledBlames`), and being level with the skipped one it is
  as much out of retries.

`DispatcherConnectionProofs`, for any objects, buckets and calls:

- `TypesHold` and `BucketsListTheTree` from `TypeInv`, by lemmas on each operation of
  a turn (`Created`, `AdoptedBy`, `Disposed`, `Collected`, `From`).
- `CallsHaveOneAnswer` from `AnswersOK`: of the phases of a call, what is on the
  wire and the callback, each fits the others.
- `TreeStaysWhole` and `ClientFollows` from `WholeInv`: the tree is closed under
  ancestors; a call at work has its target unless it is stale; and `Leads`: the
  messages on the wire lead from the client's tree to the server's, through trees
  in each of which the next message can be read. Every operation extends the path
  at its end, the client takes it off at its head.

Only model-checked: every liveness property (the prover has no rule for
fairness here), and `PassedMeansRanIfIsolated` of `TestJob` for groups with serial
suites, which holds there only for suites that follow each other in the file: it
needs the order of the tests in a job, which the lemmas do without.

## 5. Plan and what is not modelled

Components that would be next, and what each would ask:

1. *Lifecycle*: page, context and browser closing; what is in progress when a
   scope closes is rejected once, and nothing starts in it. `DispatcherConnection`
   has the part of it that shows on the channel, `FrameNavigation` the part that
   navigation calls race with.
2. *Task runner and shards*: teardown of tasks after failures and
   interruptions; a partition of the test groups.
3. *Tracing*: start, chunk and stop over a serialized file queue.

Next abstractions: a request / answer channel that `DispatcherConnection`
implements; an idle detector for `FrameManager`. Next theorem:
`PassedMeansRanIfIsolated` for serial suites, where a test that runs again may have
passed and the test to blame is the last of its suite that ever failed.

Behaviours seen and covered by no property: interception that is switched while
a request begins (`core/server/chromium/crNetworkManager.ts:206`); that a
failure which must not be retried is not counted before the last retry and does
not stop its serial suite (`test/runner/dispatcher.ts:692` and `:545`); a
dispatcher created under a parent that is disposed
(`core/server/dispatchers/dispatcher.ts:74`); a list of properties larger than a
bucket of handles (`jsHandleDispatcher.ts:62`).

Not modelled at all, because it is data or input and output rather than order
of events: injected scripts, selectors and aria snapshots, custom DOM
snapshots, loaders and matchers, reporters, the registry, transports, viewers,
protocol validators. The other browser backends make the same callbacks to the
frame manager from other protocols; the models follow Chromium. The models
cover a small share of the repository's lines for this reason: most of it is
not concurrent state.
