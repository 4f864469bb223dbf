---------------------------- MODULE MCSubmission ----------------------------
(* Model-checking instance of a round: the directory of the system reports   *)
(* holds one that the server never takes, one that it always does, and gets  *)
(* one that is sent; that of another helper holds a file that it sends, in   *)
(* either way, or gives up in each way there is.                             *)
EXTENDS Submission, TLC

CONSTANTS h1, h2, stuck, fine, report, crash

MCHelperOf == [l \in Log |-> IF l = crash THEN h2 ELSE h1]
MCCrash == {<<"kdump", "good">>, <<"kdump", "garbled">>, <<"kdump", "misnamed">>,
            <<"gpu", "empty">>, <<"devcoredump", "unreadable">>, <<"earlyoom", "empty">>,
            <<"trace", "garbled">>, <<"journal", "garbled">>,
            <<"minidump", "garbled">>, <<"minidump", "unreadable">>, <<"sysinfo", "good">>}
MCSetups == {[kind |-> (h1 :> "sysreport") @@ (h2 :> c[1]),
              content |-> [l \in Log |-> IF l = crash THEN c[2] ELSE "good"]] : c \in MCCrash}
MCServer == (stuck :> {"other", "NetworkError"}) @@ (fine :> {"200"})
            @@ (report :> {"200", "413", "timeout"}) @@ (crash :> Status)
=============================================================================
