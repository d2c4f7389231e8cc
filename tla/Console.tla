------------------------------- MODULE Console -------------------------------
(***************************************************************************)
(* How a browser follows the tasks: the in-process event bus               *)
(* (server/events.go), the WebSocket handler (server/server.go) and the    *)
(* page of the web console (web/app/page.tsx).                             *)
(*                                                                         *)
(* The publishers are the API handler that creates a task and the          *)
(* scheduler of module Daemon, cut down to one execution per task and to   *)
(* the order of its SQL statements and of its calls of publish.  The       *)
(* events of an execution carry a pointer to one Task, which execute goes  *)
(* on to write: what a browser is sent is what it holds when the handler   *)
(* encodes it.                                                             *)
(***************************************************************************)
EXTENDS Integers, Sequences, FiniteSets

CONSTANTS
    Task,
    Page,           \* browser tabs
    Connection,     \* bound: WebSocket connections of a behaviour
    NoConnection,
    Capacity,       \* of a subscriber's channel
    Window,         \* messages the network holds before a write blocks
    MaxChunks,      \* bound: lines a child prints
    Ending          \* terminal statuses that an execution may write

ASSUME CapacityAssumption     == Capacity \in Nat \ {0} /\ Window \in Nat \ {0}
ASSUME ChunksAssumption       == MaxChunks \in Nat
ASSUME EndingAssumption       == Ending \subseteq {"completed", "failed", "canceled"} /\ Ending # {}
ASSUME NoConnectionAssumption == NoConnection \notin Connection

VARIABLES
    row,       \* the table: status, and whether there is a result
    creating,  \* handleCreateTask, between its INSERT and its end
    pc,        \* the execution of each task
    memory,    \* Status of the Task that the execution points to
    ending,    \* how the child ended
    chunks,    \* lines published so far
    link,      \* of each connection: unused, open, cut, closed
    channel,   \* the subscriber's channel
    wire,      \* messages encoded and not yet handled by the page
    conn,      \* the page's open WebSocket
    list,      \* the page's initial GET /api/tasks, and its reply
    shown,     \* tasks, as the page holds them
    streams,   \* tasks that have a live buffer in the page
    unread,    \* history: terminal events that refresh() could not read
    overtaken, \* history: tasks whose "created" came after the terminal event
    told,      \* history, per page: terminal events handled
    dropped,   \* ... dropped because the channel was full
    missed,    \* ... published or under way while the page had no connection
    replaced   \* ... undone by the reply to the initial request

taskVars == <<row, creating, pc, memory, ending, chunks, unread, overtaken>>
linkVars == <<link, channel, wire, conn>>
pageVars == <<list, shown, streams>>
history  == <<told, dropped, missed, replaced>>
vars     == <<taskVars, linkVars, pageVars, history>>

-----------------------------------------------------------------------------
Terminal == {"completed", "failed", "canceled"}
Status   == {"absent", "pending", "claimed", "running"} \cup Terminal

(* A string is two words: one that is being assigned can be read as the    *)
(* text of one value with the length of the other.                         *)
Torn == "torn"

Record == [status : Status \cup {Torn}, result : BOOLEAN]
Absent == [status |-> "absent", result |-> FALSE]

(* An event has a row of its own, or the one of the execution (shared).    *)
Event   == [type : {"created", "claimed", "running", "chunk", "terminal"},
            task : Task, shared : BOOLEAN, own : Record]
Message == [type : {"created", "claimed", "running", "chunk", "terminal"},
            task : Task, body : Record]

Own(type, t, r) == [type |-> type, task |-> t, shared |-> FALSE, own |-> r]
Shared(type, t) == [type |-> type, task |-> t, shared |-> TRUE, own |-> Absent]

TypeOK ==
    /\ row \in [Task -> Record]
    /\ creating \in [Task -> {"no", "inserted", "done"}]
    /\ pc \in [Task -> {"none", "claimed", "marking", "marked", "run", "write",
                        "assign", "assigning", "publish", "done"}]
    /\ memory \in [Task -> Status]
    /\ ending \in [Task -> {"none"} \cup Terminal]
    /\ chunks \in [Task -> 0..MaxChunks]
    /\ link \in [Connection -> {"unused", "open", "cut", "closed"}]
    /\ channel \in [Connection -> Seq(Event)]
    /\ wire \in [Connection -> Seq(Message)]
    /\ \A c \in Connection : Len(channel[c]) <= Capacity /\ Len(wire[c]) <= Window
    /\ conn \in [Page -> Connection \cup {NoConnection}]
    /\ list \in [Page -> [state : {"asked", "read", "settled"}, rows : [Task -> Record]]]
    /\ shown \in [Page -> [Task -> Record]]
    /\ streams \in [Page -> SUBSET Task]
    /\ unread \in SUBSET Task /\ overtaken \in SUBSET Task
    /\ \A h \in {told, dropped, missed, replaced} : h \in [Page -> SUBSET Task]

Init ==
    /\ row = [t \in Task |-> Absent]
    /\ creating = [t \in Task |-> "no"]
    /\ pc = [t \in Task |-> "none"]
    /\ memory = [t \in Task |-> "claimed"]
    /\ ending = [t \in Task |-> "none"]
    /\ chunks = [t \in Task |-> 0]
    /\ link = [c \in Connection |-> "unused"]
    /\ channel = [c \in Connection |-> <<>>]
    /\ wire = [c \in Connection |-> <<>>]
    /\ conn = [p \in Page |-> NoConnection]
    /\ list = [p \in Page |-> [state |-> "asked", rows |-> [t \in Task |-> Absent]]]
    /\ shown = [p \in Page |-> [t \in Task |-> Absent]]
    /\ streams = [p \in Page |-> {}]
    /\ unread = {} /\ overtaken = {}
    /\ told = [p \in Page |-> {}] /\ dropped = [p \in Page |-> {}]
    /\ missed = [p \in Page |-> {}] /\ replaced = [p \in Page |-> {}]

-----------------------------------------------------------------------------
(*                                The bus                                  *)

Subscribers == {c \in Connection : link[c] \in {"open", "cut"}}

HasRoom(c) == Len(channel[c]) < Capacity

PublishRegardless(e) ==
    /\ channel' = [c \in Connection |->
         IF c \in Subscribers THEN Append(channel[c], e) ELSE channel[c]]
    /\ UNCHANGED <<link, wire, conn, told, dropped, missed, replaced>>

\* Mutant: the send has no default branch.
PublishBlocking(e) ==
    /\ \A c \in Subscribers : HasRoom(c)
    /\ PublishRegardless(e)

(* A subscriber whose channel is full loses the event.  Publishers may run *)
(* at the same time and reach two subscribers in different orders: nothing *)
(* here compares what two connections get.                                 *)
Publish(e) ==
    LET t == e.task
        Full(p) == conn[p] # NoConnection /\ ~HasRoom(conn[p])
        Without(p) == conn[p] = NoConnection
        Note(h, Case(_)) == [p \in Page |->
            IF e.type = "terminal" /\ Case(p) THEN h[p] \cup {t} ELSE h[p]]
    IN /\ channel' = [c \in Connection |->
            IF c \in Subscribers /\ HasRoom(c) THEN Append(channel[c], e) ELSE channel[c]]
       /\ dropped' = Note(dropped, Full)
       /\ missed' = Note(missed, Without)
       /\ UNCHANGED <<link, wire, conn, told, replaced>>

-----------------------------------------------------------------------------
(*                             The publishers                              *)

(* handleCreateTask: the task can be claimed from its INSERT on. *)
CreateTask(t) ==
    /\ creating[t] = "no"
    /\ row' = [row EXCEPT ![t].status = "pending"]
    /\ creating' = [creating EXCEPT ![t] = "inserted"]
    /\ UNCHANGED <<pc, memory, ending, chunks, unread, overtaken, linkVars, pageVars, history>>

CreateTaskPublishes(t) ==
    /\ creating[t] = "inserted"
    /\ Publish(Own("created", t, [status |-> "pending", result |-> FALSE]))
    /\ creating' = [creating EXCEPT ![t] = "done"]
    /\ overtaken' = IF pc[t] = "done" THEN overtaken \cup {t} ELSE overtaken
    /\ UNCHANGED <<row, pc, memory, ending, chunks, unread, pageVars>>

(* One step of the execution that publishes nothing. *)
Step(t, from, to) ==
    /\ pc[t] = from
    /\ pc' = [pc EXCEPT ![t] = to]

Quiet == UNCHANGED <<creating, unread, overtaken, linkVars, pageVars, history>>

TickClaims(t) ==
    /\ row[t].status = "pending"
    /\ Step(t, "none", "claimed")
    /\ row' = [row EXCEPT ![t].status = "claimed"]
    /\ UNCHANGED <<memory, ending, chunks>> /\ Quiet

TickPublishes(t) ==
    /\ Step(t, "claimed", "marking")
    /\ Publish(Shared("claimed", t))
    /\ UNCHANGED <<row, creating, memory, ending, chunks, unread, overtaken, pageVars>>

(* The error of MarkRunning is logged. *)
MarkRunning(t) ==
    /\ Step(t, "marking", "marked")
    /\ row' = row \/ row' = [row EXCEPT ![t].status = "running"]
    /\ UNCHANGED <<memory, ending, chunks>> /\ Quiet

(* t.Status is assigned and published; "claimed" and "running" are equally *)
(* long, so that a reader sees either.                                     *)
PublishRunning(t) ==
    /\ Step(t, "marked", "run")
    /\ memory' = [memory EXCEPT ![t] = "running"]
    /\ Publish(Shared("running", t))
    /\ UNCHANGED <<row, creating, ending, chunks, unread, overtaken, pageVars>>

Chunk(t) ==
    /\ pc[t] = "run"
    /\ chunks[t] < MaxChunks
    /\ chunks' = [chunks EXCEPT ![t] = @ + 1]
    /\ Publish(Own("chunk", t, Absent))
    /\ UNCHANGED <<row, creating, pc, memory, ending, unread, overtaken, pageVars>>

RunnerReturns(t, s) ==
    /\ Step(t, "run", "write")
    /\ ending' = [ending EXCEPT ![t] = s]
    /\ UNCHANGED <<row, memory, chunks>> /\ Quiet

(* Complete, Fail or Canceled; its error is ignored. *)
WriteTerminal(t) ==
    /\ Step(t, "write", "assign")
    /\ row' = row \/ row' = [row EXCEPT ![t] = [status |-> ending[t], result |-> TRUE]]
    /\ UNCHANGED <<memory, ending, chunks>> /\ Quiet

AssignBegins(t) ==
    /\ Step(t, "assign", "assigning")
    /\ UNCHANGED <<row, memory, ending, chunks>> /\ Quiet

AssignEnds(t) ==
    /\ Step(t, "assigning", "publish")
    /\ memory' = [memory EXCEPT ![t] = ending[t]]
    /\ UNCHANGED <<row, ending, chunks>> /\ Quiet

\* Mutant: the event carries the task as the execution holds it.
TerminalEventUnrefreshed(t, readable) == Shared("terminal", t)

(* refresh(): the row, or what is in memory if it cannot be read. *)
TerminalEvent(t, readable) ==
    IF readable THEN Own("terminal", t, row[t]) ELSE Shared("terminal", t)

PublishTerminal(t) ==
    /\ Step(t, "publish", "done")
    /\ \E readable \in BOOLEAN :
         /\ Publish(TerminalEvent(t, readable))
         /\ unread' = IF readable THEN unread ELSE unread \cup {t}
    /\ UNCHANGED <<row, creating, memory, ending, chunks, overtaken, pageVars>>

-----------------------------------------------------------------------------
(*                        handleWS, one goroutine per connection           *)

(* connect() of the page: now, or 1.5 s after the previous connection was  *)
(* closed.  Nothing else is done then; the list is not loaded again.       *)
Connect(p, c) ==
    /\ conn[p] = NoConnection
    /\ link[c] = "unused"
    /\ link' = [link EXCEPT ![c] = "open"]
    /\ conn' = [conn EXCEPT ![p] = c]
    /\ UNCHANGED <<channel, wire, taskVars, pageVars, history>>

(* What json.Marshal can read of a shared task. *)
Readable(t) == IF pc[t] = "assigning" THEN {memory[t], ending[t], Torn} ELSE {memory[t]}

Bodies(e) ==
    IF e.shared THEN {[status |-> s, result |-> FALSE] : s \in Readable(e.task)} ELSE {e.own}

WriteJSON(c) ==
    /\ link[c] = "open"
    /\ channel[c] # <<>>
    /\ Len(wire[c]) < Window
    /\ LET e == Head(channel[c]) IN \E b \in Bodies(e) :
         wire' = [wire EXCEPT ![c] = Append(@, [type |-> e.type, task |-> e.task, body |-> b])]
    /\ channel' = [channel EXCEPT ![c] = Tail(@)]
    /\ UNCHANGED <<link, conn, taskVars, pageVars, history>>

(* The connection is lost, or the handler gives up a write after 10 s.     *)
Disconnect(p, c) ==
    LET Ends(q) == {q[i].task : i \in {j \in DOMAIN q : q[j].type = "terminal"}} IN
    /\ conn[p] = c
    /\ link' = [link EXCEPT ![c] = "cut"]
    /\ conn' = [conn EXCEPT ![p] = NoConnection]
    /\ wire' = [wire EXCEPT ![c] = <<>>]
    /\ missed' = [missed EXCEPT ![p] = @ \cup Ends(channel[c]) \cup Ends(wire[c])]
    /\ UNCHANGED <<channel, taskVars, pageVars, told, dropped, replaced>>

(* The reader goroutine or a failed write ends the loop, and the deferred  *)
(* unsubscribe removes the channel.                                        *)
HandleWSReturns(c) ==
    /\ link[c] = "cut"
    /\ link' = [link EXCEPT ![c] = "closed"]
    /\ channel' = [channel EXCEPT ![c] = <<>>]
    /\ UNCHANGED <<wire, conn, taskVars, pageVars, history>>

-----------------------------------------------------------------------------
(*                                 The page                                *)

(* handleListTasks reads the table. *)
ListTasks(p) ==
    /\ list[p].state = "asked"
    /\ list' = [list EXCEPT ![p] = [state |-> "read", rows |-> row]]
    /\ UNCHANGED <<shown, streams, taskVars, linkVars, history>>

(* setTasks(ts): the reply replaces whatever the page holds by then. *)
InitialLoad(p) ==
    /\ list[p].state = "read"
    /\ list' = [list EXCEPT ![p].state = "settled"]
    /\ shown' = [shown EXCEPT ![p] = list[p].rows]
    /\ replaced' = [replaced EXCEPT ![p] =
         {t \in told[p] : list[p].rows[t].status \notin Terminal}]
    /\ UNCHANGED <<streams, taskVars, linkVars, told, dropped, missed>>

(* This request or that for the agents failed: the page stays as it is.    *)
InitialLoadFails(p) ==
    /\ list[p].state \in {"asked", "read"}
    /\ list' = [list EXCEPT ![p].state = "settled"]
    /\ UNCHANGED <<shown, streams, taskVars, linkVars, history>>

(* A chunk is added to the live buffer; a terminal status clears it. *)
StreamsAfter(s, m) ==
    CASE m.type = "chunk" -> s \cup {m.task}
      [] m.type # "chunk" /\ m.body.status \in Terminal -> s \ {m.task}
      [] OTHER -> s

OnMessage(p) ==
    LET c == conn[p]  m == Head(wire[c]) IN
    /\ c # NoConnection
    /\ wire[c] # <<>>
    /\ wire' = [wire EXCEPT ![c] = Tail(@)]
    /\ shown' = IF m.type = "chunk" THEN shown ELSE [shown EXCEPT ![p][m.task] = m.body]
    /\ streams' = [streams EXCEPT ![p] = StreamsAfter(@, m)]
    /\ told' = IF m.type = "terminal" THEN [told EXCEPT ![p] = @ \cup {m.task}] ELSE told
    /\ UNCHANGED <<link, channel, conn, list, taskVars, dropped, missed, replaced>>

-----------------------------------------------------------------------------
Execute(t) ==
    \/ TickPublishes(t)
    \/ MarkRunning(t)
    \/ PublishRunning(t)
    \/ Chunk(t)
    \/ \E s \in Ending : RunnerReturns(t, s)
    \/ WriteTerminal(t)
    \/ AssignBegins(t)
    \/ AssignEnds(t)
    \/ PublishTerminal(t)

Server(t) == CreateTaskPublishes(t) \/ TickClaims(t) \/ Execute(t)

Browser(p) ==
    \/ ListTasks(p)
    \/ InitialLoad(p)
    \/ InitialLoadFails(p)
    \/ OnMessage(p)
    \/ \E c \in Connection : Connect(p, c) \/ Disconnect(p, c)

Next ==
    \/ \E t \in Task : CreateTask(t) \/ Server(t)
    \/ \E c \in Connection : WriteJSON(c) \/ HandleWSReturns(c)
    \/ \E p \in Page : Browser(p)

Spec == Init /\ [][Next]_vars

(* The server's goroutines run; a browser may stop reading at any time, so *)
(* nothing is assumed of pages, nor of the handlers that serve them.  A    *)
(* child ends.                                                             *)
FairSpec == Spec /\ \A t \in Task : WF_vars(Server(t))
=============================================================================
