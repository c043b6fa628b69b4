---------------------------- MODULE MCTestWorker ----------------------------
(* Small instances of TestWorker: a server and a browser per worker, a page  *)
(* and a session in it per test.                                             *)
EXTENDS TestWorker, TLC

CONSTANTS file, group, openAll, seedAll, openEach, closeEach, closeAll,
          server, browser, page, session

(* A describe block with the first three tests of a file.                      *)
FileAndGroup   == [t \in Test |-> IF t <= 3 THEN <<file, group>> ELSE <<file>>]
GroupSetUp     == file :> <<>> @@ group :> <<openAll, seedAll>>
GroupTearDown  == file :> <<>> @@ group :> <<closeAll>>
EachSetUp      == [t \in Test |-> <<openEach>>]
EachTearDown   == [t \in Test |-> <<closeEach>>]

Scopes         == server :> "worker" @@ browser :> "worker" @@ page :> "test" @@ session :> "test"
SessionInPage  == server :> <<>> @@ browser :> <<server>> @@ page :> <<browser>>
                  @@ session :> <<browser, page>>
HooksUsePages  == [x \in Hook \cup Test |->
                     CASE x = openAll   -> {page}
                       [] x = closeAll  -> {browser}
                       [] x \in {seedAll, closeEach} -> {}
                       [] x = openEach  -> {page}
                       [] OTHER         -> {browser, session}]

(* The third test is skipped and the last of its block, the fourth is        *)
(* skipped by the fast path.                                                 *)
FiveTests      == <<"passed", "failed", "skipped", "skipped", "passed">>
FirstFails     == <<"failed", "passed">>
=============================================================================
