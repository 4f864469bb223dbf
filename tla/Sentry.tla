------------------------------- MODULE Sentry -------------------------------
(***************************************************************************)
(* What submitting a log comes to: a helper reads its file and makes an     *)
(* event of it, or gives up; aggregators/sentry.py sends the event, and     *)
(* then the attachments that every helper adds, or a minidump in a single   *)
(* request.  What is in an event is left out.                               *)
(***************************************************************************)

Results == {"OK", "TRANSIENT_ERROR", "PERMANENT_ERROR", "CLASS_ERROR", "exception"}

\* A file that is as its helper wrote it; is not in its format; lacks what the
\* helper looks for; has a name of another form; or cannot be read.
Contents == {"good", "garbled", "empty", "misnamed", "unreadable"}

\* What may come of a request; after the last two the server may have taken it.
Status == {"200", "413", "400 invalid minidump", "other", "NetworkError", "timeout"}
Unanswered == {"NetworkError", "timeout"}

-----------------------------------------------------------------------------
(* Helper.submit up to the first request: what is to be sent, or the result *)

Kdump(content) == CASE content \in {"garbled", "empty"} -> "PERMANENT_ERROR"
                    [] content = "unreadable" -> "TRANSIENT_ERROR"
                    [] content = "misnamed" -> "exception"
                    [] OTHER -> "event"

Gpu(content) == CASE content = "garbled" -> "PERMANENT_ERROR"
                  [] content = "unreadable" -> "TRANSIENT_ERROR"
                  [] content = "empty" -> "exception"
                  [] OTHER -> "event"

Devcoredump(content) == CASE content \in {"garbled", "empty"} -> "PERMANENT_ERROR"
                          [] content = "unreadable" -> "TRANSIENT_ERROR"
                          [] OTHER -> "event"

\* Without a name and an application, the message is never assigned.
Earlyoom(content) == CASE content = "garbled" -> "PERMANENT_ERROR"
                       [] content = "unreadable" -> "TRANSIENT_ERROR"
                       [] content = "empty" -> "exception"
                       [] OTHER -> "event"

Trace(content) == CASE content = "garbled" -> "PERMANENT_ERROR"
                    [] content = "unreadable" -> "TRANSIENT_ERROR"
                    [] content = "empty" -> "exception"
                    [] OTHER -> "event"

\* A journal that does not parse is attached as it is.
Journal(content) == IF content = "unreadable" THEN "TRANSIENT_ERROR" ELSE "event"

Sysreport(content) == IF content = "unreadable" THEN "TRANSIENT_ERROR" ELSE "event"

\* The server judges the format.
Minidump(content) == IF content = "unreadable" THEN "exception" ELSE "minidump"

Sysinfo(content) == "PERMANENT_ERROR"

Kinds == {"kdump", "gpu", "devcoredump", "earlyoom", "trace", "journal",
          "sysreport", "minidump", "sysinfo"}

Prepared(kind, content) ==
  CASE kind = "kdump" -> Kdump(content)         [] kind = "gpu" -> Gpu(content)
    [] kind = "devcoredump" -> Devcoredump(content)
    [] kind = "earlyoom" -> Earlyoom(content)   [] kind = "trace" -> Trace(content)
    [] kind = "journal" -> Journal(content)     [] kind = "sysreport" -> Sysreport(content)
    [] kind = "minidump" -> Minidump(content)   [] kind = "sysinfo" -> Sysinfo(content)

-----------------------------------------------------------------------------
(* SentryEvent.send and MinidumpEvent.send_minidump: the results *)

StoreResult(status) == CASE status = "413" -> "PERMANENT_ERROR"
                         [] status = "timeout" -> "exception"
                         [] OTHER -> "TRANSIENT_ERROR"

\* (Mutant: the status is not looked at.)
EnvelopeResultAny(status) == CASE status = "NetworkError" -> "TRANSIENT_ERROR"
                               [] status = "timeout" -> "exception"
                               [] OTHER -> "OK"
EnvelopeResult(status) == CASE status = "200" -> "OK"
                            [] status = "timeout" -> "exception"
                            [] OTHER -> "TRANSIENT_ERROR"

MinidumpResult(status) == CASE status = "200" -> "OK"
                            [] status = "400 invalid minidump" -> "PERMANENT_ERROR"
                            [] status = "timeout" -> "exception"
                            [] OTHER -> "TRANSIENT_ERROR"
=============================================================================
