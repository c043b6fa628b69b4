------------------------------ MODULE MCTestJob ------------------------------
(* Small instances of TestJob.                                              *)
EXTENDS TestJob

TwoTests  == {1, 2}
NineTests == 1..9

(* Three groups: a serial suite and a test behind it; a test and a serial    *)
(* suite; tests in no serial suite.                                          *)
InSuite == {1, 2, 3}
Behind  == {4, 5, 6}
Apart   == {7, 8, 9}
Suites  == {{1, 2}, {5, 6}}
Both    == {{1, 2}}
NoSuite == {}

(* The beforeAll hooks of files, of a serial suite and of a describe.        *)
Setups == {InSuite, Behind, {5, 6}, {8, 9}}

OneRetry    == [t \in Test |-> 1]
TwoThenOne  == [t \in Test |-> IF t \in InSuite THEN 2 ELSE 1]

AllPass  == [t \in Test |-> "passed"]
Skips(s) == [t \in Test |-> IF t = s THEN "skipped" ELSE "passed"]
Fails(s) == [t \in Test |-> IF t = s THEN "failed" ELSE "passed"]

(* Isolated retries without a limit, and whatever goes wrong in a worker.    *)
Retrying == [group |-> InSuite, expected |-> AllPass, maxFailures |-> 0, isolated |-> TRUE,
             faults |-> {"fail", "hook", "throw", "crash", "load", "skip"}]

(* The same in no serial suite, where tests can also be renamed.             *)
Missing == [group |-> Apart, expected |-> AllPass, maxFailures |-> 0, isolated |-> TRUE,
            faults |-> {"fail", "hook", "throw", "crash", "load", "skip", "rename"}]

(* Immediate retries with a limit, interruptions and errors of every kind.   *)
Stopping == [group |-> Behind, expected |-> Skips(4), maxFailures |-> 2, isolated |-> FALSE,
             faults |-> {"fail", "snapshot", "skip", "hook", "throw", "stray", "load",
                         "rename", "crash", "kill", "stop", "elsewhere"}]

(* Immediate retries of a serial suite with a test that is declared to fail. *)
Declared == [group |-> Behind, expected |-> Fails(5), maxFailures |-> 0, isolated |-> FALSE,
             faults |-> {"fail", "hook", "throw", "crash", "stray"}]

(* Errors while no test is running.                                         *)
Straying == [group |-> Test, expected |-> AllPass, maxFailures |-> 0, isolated |-> TRUE,
             faults |-> {"stray"}]

(* A snapshot of a serial suite is missing.                                 *)
Snapping == [group |-> Test, expected |-> AllPass, maxFailures |-> 0, isolated |-> FALSE,
             faults |-> {"snapshot"}]

AnyOfFour == {Retrying, Missing, Stopping, Declared}
OnlyStraying == {Straying}
OnlySnapping == {Snapping}
=============================================================================
