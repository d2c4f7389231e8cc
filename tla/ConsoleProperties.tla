-------------------------- MODULE ConsoleProperties --------------------------
(* What a browser may rely on, and what the scheduler may.                 *)
EXTENDS Console

(* Everything that was sent to the page has arrived, and the task is over. *)
AtRest(p, t) ==
    /\ creating[t] = "done" /\ pc[t] = "done"
    /\ list[p].state = "settled"
    /\ conn[p] # NoConnection => channel[conn[p]] = <<>> /\ wire[conn[p]] = <<>>

(* The page has a wrong status or result, or still keeps live output of a  *)
(* task that has ended (page.tsx:71-80).                                   *)
Stale(p, t) ==
    \/ shown[p][t] # row[t]
    \/ t \in streams[p] /\ row[t].status \in Terminal

(* "The DB remains source of truth" (events.go:30-31): a page is left with *)
(* something else than the row for one of five reasons only, although the  *)
(* events share a Task that is written while they wait: the terminal event *)
(* did not fit in the channel; the page had no connection for it (it does  *)
(* not load the list again, page.tsx:52); the reply to its first request   *)
(* came after it (page.tsx:33); "created" did (server.go:132); or the      *)
(* row could not be read for it (daemon.go:224-229).                       *)
StaleHasCause ==
    \A p \in Page, t \in Task :
        AtRest(p, t) /\ Stale(p, t) =>
            t \in dropped[p] \cup missed[p] \cup replaced[p] \cup overtaken \cup unread

(* "Dropping messages rather than blocking the publisher" (events.go:30):  *)
(* every task gets through its execution, whether or not any browser reads *)
(* or any handler writes.                                                  *)
DaemonNeverWaits == \A t \in Task : row[t].status # "absent" ~> pc[t] = "done"
=============================================================================
