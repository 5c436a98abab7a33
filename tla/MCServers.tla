------------------------------ MODULE MCServers ------------------------------
(***************************************************************************)
(* One instance of each server program for TLC.                            *)
(***************************************************************************)
EXTENDS Servers, TLC

CONSTANTS ann, bob, cid

\* A client of each kind: one that sends nothing, one that may reset.
NumSent == ann :> 0 @@ bob :> 2 @@ cid :> 1

\* Polling: with two slots next to the listening socket, or two descriptors for
\* epoll, there is one client too many.
Limits == [p \in {"epoll"} |-> 2] @@
          [p \in {"select42", "select", "poll", "lesson32", "lesson35", "lesson36",
                  "lesson37", "lesson38", "lesson39", "lesson40"} |-> 3]

\* The pool of lesson32: what is typed.
Calculations ==
    <<[x |-> 7, op |-> "%", y |-> -2], [x |-> 1, op |-> "/", y |-> 0],
      [x |-> -7, op |-> "/", y |-> 2]>>

\* HTTP: what is asked for, and where the first line of the request ends.
Urls == bob :> "/" @@ cid :> "script.js"
Lines == bob :> 2 @@ cid :> 1
Wwwroot == "index.html" :> ".html" @@ "404.html" :> ".html" @@ "script.js" :> ".js"

-----------------------------------------------------------------------------
\* Every client is answered, as far as its server promises it.
NobodyForgotten ==
    []<>(/\ prog \in PollingPrograms => \A k \in Clients : NotWaiting(k)
         /\ prog \in Programs => \A k \in Clients \ Leaving : Answered(k)
         /\ prog \in ForkPrograms => Attended(cid))
=============================================================================
