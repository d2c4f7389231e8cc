---------------------------- MODULE ConsoleProofs ----------------------------
(***************************************************************************)
(* What a browser is left with: the type invariant of Console, and         *)
(* StaleHasCause for any number of tasks, pages and connections, and for   *)
(* channels and networks of any size.                                      *)
(***************************************************************************)
EXTENDS ConsoleProperties, SequenceTheorems, TLAPS

USE CapacityAssumption, ChunksAssumption, EndingAssumption, NoConnectionAssumption

-----------------------------------------------------------------------------
(*                              Sequences                                  *)

(* What Append and Tail do to the elements of a sequence. *)
LEMMA AppendElements ==
  ASSUME NEW S, NEW s \in Seq(S), NEW e \in S
  PROVE  /\ Append(s, e) \in Seq(S)
         /\ Len(s) \in Nat /\ DOMAIN s = 1 .. Len(s)
         /\ Len(Append(s, e)) = Len(s) + 1
         /\ DOMAIN Append(s, e) = 1 .. Len(s) + 1
         /\ \A i \in 1 .. Len(s) : Append(s, e)[i] = s[i]
         /\ Append(s, e)[Len(s) + 1] = e
OBVIOUS

LEMMA TailElements ==
  ASSUME NEW S, NEW s \in Seq(S), s # <<>>
  PROVE  /\ Head(s) \in S /\ Head(s) = s[1] /\ 1 \in DOMAIN s
         /\ Tail(s) \in Seq(S)
         /\ Len(s) \in Nat \ {0} /\ DOMAIN s = 1 .. Len(s)
         /\ Len(Tail(s)) = Len(s) - 1
         /\ DOMAIN Tail(s) = 1 .. Len(s) - 1
         /\ \A i \in 1 .. Len(s) - 1 : Tail(s)[i] = s[i + 1]
OBVIOUS

-----------------------------------------------------------------------------
(*                           Type correctness                              *)

(* The part of the types that the publishers write, and the rest. *)
TaskTypes ==
    /\ row \in [Task -> Record]
    /\ creating \in [Task -> {"no", "inserted", "done"}]
    /\ pc \in [Task -> {"none", "claimed", "marking", "marked", "run", "write",
                        "assign", "assigning", "publish", "done"}]
    /\ memory \in [Task -> Status]
    /\ ending \in [Task -> {"none"} \cup Terminal]
    /\ chunks \in [Task -> 0..MaxChunks]
    /\ unread \in SUBSET Task /\ overtaken \in SUBSET Task

LinkTypes ==
    /\ link \in [Connection -> {"unused", "open", "cut", "closed"}]
    /\ channel \in [Connection -> Seq(Event)]
    /\ wire \in [Connection -> Seq(Message)]
    /\ \A c \in Connection : Len(channel[c]) <= Capacity /\ Len(wire[c]) <= Window
    /\ conn \in [Page -> Connection \cup {NoConnection}]

PageTypes ==
    /\ list \in [Page -> [state : {"asked", "read", "settled"}, rows : [Task -> Record]]]
    /\ shown \in [Page -> [Task -> Record]]
    /\ streams \in [Page -> SUBSET Task]

HistoryTypes == \A h \in {told, dropped, missed, replaced} : h \in [Page -> SUBSET Task]

LEMMA TypeParts == TypeOK <=> TaskTypes /\ LinkTypes /\ PageTypes /\ HistoryTypes
BY DEF TypeOK, TaskTypes, LinkTypes, PageTypes, HistoryTypes

(* An execution whose child has ended has a terminal status to write. *)
Endings ==
    \A t \in Task :
        pc[t] \in {"write", "assign", "assigning", "publish", "done"} => ending[t] \in Terminal

(* Publishing keeps the types of the bus and of the history. *)
LEMMA PublishTypes ==
  ASSUME LinkTypes, HistoryTypes, NEW e \in Event, Publish(e)
  PROVE  LinkTypes' /\ HistoryTypes'
<1>1. channel' \in [Connection -> Seq(Event)]
  BY AppendElements DEF Publish, LinkTypes
<1>2. \A c \in Connection : Len(channel'[c]) <= Capacity
  <2> TAKE c \in Connection
  <2>1. CASE channel'[c] = channel[c]
    BY <2>1 DEF LinkTypes
  <2>2. CASE channel'[c] = Append(channel[c], e) /\ HasRoom(c)
    <3>1. Len(channel[c]) < Capacity /\ channel[c] \in Seq(Event)
      BY <2>2 DEF HasRoom, LinkTypes
    <3>2. Len(channel'[c]) = Len(channel[c]) + 1 /\ Len(channel[c]) \in Nat
      BY <3>1, <2>2, AppendElements
    <3> QED BY <3>1, <3>2
  <2> QED BY <2>1, <2>2 DEF Publish, LinkTypes
<1>3. LinkTypes'
  BY <1>1, <1>2 DEF LinkTypes, Publish
<1>4. e.task \in Task
  BY DEF Event
<1>5. dropped' \in [Page -> SUBSET Task] /\ missed' \in [Page -> SUBSET Task]
  BY <1>4 DEF Publish, HistoryTypes
<1>6. told' = told /\ replaced' = replaced
  BY DEF Publish
<1> QED BY <1>3, <1>5, <1>6 DEF HistoryTypes

(* The events that are published. *)
LEMMA EventTypes ==
  ASSUME TaskTypes, NEW t \in Task
  PROVE  /\ Own("created", t, [status |-> "pending", result |-> FALSE]) \in Event
         /\ Own("chunk", t, Absent) \in Event
         /\ Own("terminal", t, row[t]) \in Event
         /\ Shared("claimed", t) \in Event
         /\ Shared("running", t) \in Event
         /\ Shared("terminal", t) \in Event
<1>1. row[t] \in Record /\ Absent \in Record /\ [status |-> "pending", result |-> FALSE] \in Record
  BY DEF TaskTypes, Record, Absent, Status
<1> QED BY <1>1 DEF Own, Shared, Event

LEMMA CreateTypes ==
  ASSUME TypeOK, Endings, NEW t \in Task, CreateTask(t) \/ CreateTaskPublishes(t)
  PROVE  TypeOK' /\ Endings'
<1> USE DEF TaskTypes, Endings
<1>1. CASE CreateTask(t)
  <2>1. [row[t] EXCEPT !.status = "pending"] \in Record
    BY TypeParts DEF Record, Status
  <2>2. TaskTypes'
    BY <1>1, <2>1, TypeParts DEF CreateTask
  <2>3. LinkTypes' /\ PageTypes' /\ HistoryTypes' /\ Endings'
    BY <1>1, TypeParts
    DEF CreateTask, LinkTypes, PageTypes, HistoryTypes, linkVars, pageVars, history
  <2> QED BY <2>2, <2>3, TypeParts DEF TypeOK, TaskTypes, LinkTypes, PageTypes, HistoryTypes
<1>2. CASE CreateTaskPublishes(t)
  <2>1. LinkTypes' /\ HistoryTypes'
    BY <1>2, TypeParts, EventTypes, PublishTypes DEF CreateTaskPublishes
  <2>2. TaskTypes' /\ PageTypes' /\ Endings'
    BY <1>2, TypeParts DEF CreateTaskPublishes, PageTypes, pageVars
  <2> QED BY <2>1, <2>2 DEF TypeOK, TaskTypes, LinkTypes, PageTypes, HistoryTypes
<1> QED BY <1>1, <1>2

(* The steps of an execution that publish nothing. *)
LEMMA QuietTypes ==
  ASSUME TypeOK, Endings, NEW t \in Task,
         \/ TickClaims(t) \/ MarkRunning(t) \/ WriteTerminal(t)
         \/ AssignBegins(t) \/ AssignEnds(t)
         \/ \E s \in Ending : RunnerReturns(t, s)
  PROVE  TypeOK' /\ Endings'
<1> USE TypeParts DEF TaskTypes, Endings, Quiet, Step, Terminal
<1>1. Quiet
  BY DEF TickClaims, MarkRunning, WriteTerminal, AssignBegins, AssignEnds, RunnerReturns
<1>2. LinkTypes' /\ PageTypes' /\ HistoryTypes'
  BY <1>1 DEF LinkTypes, PageTypes, HistoryTypes, linkVars, pageVars, history
<1>3. /\ [row[t] EXCEPT !.status = "claimed"] \in Record
      /\ [row[t] EXCEPT !.status = "running"] \in Record
      /\ ending[t] \in Terminal => [status |-> ending[t], result |-> TRUE] \in Record
  BY DEF Record, Status
<1>4. CASE TickClaims(t)
  <2>1. row' \in [Task -> Record]
    BY <1>4, <1>3 DEF TickClaims
  <2> QED BY <2>1, <1>1, <1>2, <1>4 DEF TickClaims, TypeOK, LinkTypes, PageTypes, HistoryTypes
<1>5. CASE MarkRunning(t)
  <2>1. row' \in [Task -> Record]
    BY <1>5, <1>3 DEF MarkRunning
  <2> QED BY <2>1, <1>1, <1>2, <1>5 DEF MarkRunning, TypeOK, LinkTypes, PageTypes, HistoryTypes
<1>6. CASE WriteTerminal(t)
  <2>1. row' \in [Task -> Record]
    BY <1>6, <1>3 DEF WriteTerminal
  <2> QED BY <2>1, <1>1, <1>2, <1>6 DEF WriteTerminal, TypeOK, LinkTypes, PageTypes, HistoryTypes
<1>7. CASE AssignBegins(t)
  BY <1>1, <1>2, <1>7 DEF AssignBegins, TypeOK, LinkTypes, PageTypes, HistoryTypes
<1>8. CASE AssignEnds(t)
  <2>1. memory' \in [Task -> Status]
    BY <1>8 DEF AssignEnds, Status
  <2> QED BY <2>1, <1>1, <1>2, <1>8 DEF AssignEnds, TypeOK, LinkTypes, PageTypes, HistoryTypes
<1>9. CASE \E s \in Ending : RunnerReturns(t, s)
  <2>1. PICK s \in Ending : RunnerReturns(t, s)
    BY <1>9
  <2>2. s \in Terminal
    BY <2>1
  <2> QED BY <2>1, <2>2, <1>1, <1>2 DEF RunnerReturns, TypeOK, LinkTypes, PageTypes, HistoryTypes
<1> QED BY <1>4, <1>5, <1>6, <1>7, <1>8, <1>9

(* The steps of an execution that publish. *)
LEMMA LoudTypes ==
  ASSUME TypeOK, Endings, NEW t \in Task,
         TickPublishes(t) \/ PublishRunning(t) \/ Chunk(t) \/ PublishTerminal(t)
  PROVE  TypeOK' /\ Endings'
<1> USE TypeParts DEF TaskTypes, Endings, Step
<1>1. \E e \in Event : Publish(e)
  BY EventTypes
  DEF TickPublishes, PublishRunning, Chunk, PublishTerminal, TerminalEvent
<1>2. LinkTypes' /\ HistoryTypes'
  BY <1>1, PublishTypes
<1>3. PageTypes'
  BY DEF TickPublishes, PublishRunning, Chunk, PublishTerminal, PageTypes, pageVars
<1>4. CASE TickPublishes(t)
  BY <1>2, <1>3, <1>4 DEF TickPublishes, TypeOK, LinkTypes, PageTypes, HistoryTypes
<1>5. CASE PublishRunning(t)
  <2>1. memory' \in [Task -> Status]
    BY <1>5 DEF PublishRunning, Status
  <2> QED BY <2>1, <1>2, <1>3, <1>5 DEF PublishRunning, TypeOK, LinkTypes, PageTypes, HistoryTypes
<1>6. CASE Chunk(t)
  <2>1. chunks' \in [Task -> 0..MaxChunks]
    BY <1>6 DEF Chunk
  <2> QED BY <2>1, <1>2, <1>3, <1>6 DEF Chunk, TypeOK, LinkTypes, PageTypes, HistoryTypes
<1>7. CASE PublishTerminal(t)
  BY <1>2, <1>3, <1>7 DEF PublishTerminal, TypeOK, LinkTypes, PageTypes, HistoryTypes
<1> QED BY <1>4, <1>5, <1>6, <1>7

(* What a handler encodes. *)
LEMMA MessageTypes ==
  ASSUME TypeOK, Endings, NEW e \in Event, NEW b \in Bodies(e),
         \A t \in Task : Readable(t) \subseteq Status \cup {Torn}
  PROVE  [type |-> e.type, task |-> e.task, body |-> b] \in Message
<1>1. e.task \in Task /\ e.own \in Record
  BY DEF Event
<1>2. b \in Record
  <2>1. CASE e.shared
    <3>1. PICK st \in Readable(e.task) : b = [status |-> st, result |-> FALSE]
      BY <2>1 DEF Bodies
    <3>2. st \in Status \cup {Torn}
      BY <1>1, <3>1
    <3> QED BY <3>1, <3>2 DEF Record
  <2>2. CASE ~e.shared
    BY <1>1, <2>2 DEF Bodies
  <2> QED BY <2>1, <2>2
<1> QED BY <1>1, <1>2 DEF Message, Event

LEMMA ReadableTypes ==
  ASSUME TypeOK, Endings, NEW t \in Task
  PROVE  Readable(t) \subseteq Status \cup {Torn}
BY DEF Readable, TypeOK, Endings, Status

LEMMA HandlerTypes ==
  ASSUME TypeOK, Endings, NEW c \in Connection, WriteJSON(c) \/ HandleWSReturns(c)
  PROVE  TypeOK' /\ Endings'
<1>1. TaskTypes' /\ PageTypes' /\ HistoryTypes' /\ Endings'
  BY TypeParts DEF WriteJSON, HandleWSReturns, TaskTypes, PageTypes, HistoryTypes, Endings,
                   taskVars, pageVars, history
<1>2. CASE WriteJSON(c)
  <2>1. channel[c] \in Seq(Event) /\ wire[c] \in Seq(Message) /\ channel[c] # <<>>
    BY <1>2 DEF WriteJSON, TypeOK
  <2>2. PICK b \in Bodies(Head(channel[c])) :
          wire' = [wire EXCEPT ![c] = Append(@, [type |-> Head(channel[c]).type,
                                                 task |-> Head(channel[c]).task, body |-> b])]
    BY <1>2 DEF WriteJSON
  <2> DEFINE m == [type |-> Head(channel[c]).type, task |-> Head(channel[c]).task, body |-> b]
  <2>3. m \in Message
    BY <2>1, TailElements, MessageTypes, ReadableTypes
  <2>4. wire'[c] = Append(wire[c], m) /\ channel'[c] = Tail(channel[c])
    BY <1>2, <2>2 DEF WriteJSON, TypeOK
  <2>5. Append(wire[c], m) \in Seq(Message) /\ Len(Append(wire[c], m)) = Len(wire[c]) + 1
    BY <2>1, <2>3, AppendElements
  <2>6. Tail(channel[c]) \in Seq(Event) /\ Len(Tail(channel[c])) = Len(channel[c]) - 1
    BY <2>1, TailElements
  <2>7. Len(wire[c]) \in Nat /\ Len(channel[c]) \in Nat
    BY <2>1
  <2>8. Len(wire'[c]) <= Window /\ Len(channel'[c]) <= Capacity
    BY <1>2, <2>4, <2>5, <2>6, <2>7 DEF WriteJSON, TypeOK
  <2>9. LinkTypes'
    BY <1>2, <2>2, <2>3, <2>5, <2>6, <2>8, TypeParts DEF WriteJSON, LinkTypes
  <2> QED BY <1>1, <2>9 DEF TypeOK, TaskTypes, LinkTypes, PageTypes, HistoryTypes
<1>3. CASE HandleWSReturns(c)
  <2>1. <<>> \in Seq(Event) /\ Len(<<>>) = 0
    OBVIOUS
  <2>2. LinkTypes'
    BY <1>3, <2>1, TypeParts DEF HandleWSReturns, LinkTypes
  <2> QED BY <1>1, <2>2 DEF TypeOK, TaskTypes, LinkTypes, PageTypes, HistoryTypes
<1> QED BY <1>2, <1>3

LEMMA BrowserTypes ==
  ASSUME TypeOK, Endings, NEW p \in Page, Browser(p)
  PROVE  TypeOK' /\ Endings'
<1>1. TaskTypes' /\ Endings'
  BY TypeParts DEF Browser, ListTasks, InitialLoad, InitialLoadFails, OnMessage, Connect,
                   Disconnect, TaskTypes, Endings, taskVars
<1> DEFINE ListType == [state : {"asked", "read", "settled"}, rows : [Task -> Record]]
<1>8. [list[p] EXCEPT !.state = "settled"] \in ListType
  <2>1. list[p] \in ListType
    BY DEF TypeOK
  <2> QED BY <2>1
<1>2. CASE ListTasks(p)
  BY <1>1, <1>2 DEF ListTasks, TypeOK, TaskTypes, linkVars, history
<1>3. CASE InitialLoad(p)
  <2>1. list[p].rows \in [Task -> Record]
    BY DEF TypeOK
  <2>2. replaced' \in [Page -> SUBSET Task]
    BY <1>3 DEF InitialLoad, TypeOK
  <2>3. list' \in [Page -> ListType]
    BY <1>3, <1>8 DEF InitialLoad, TypeOK
  <2>4. shown' \in [Page -> [Task -> Record]]
    BY <1>3, <2>1 DEF InitialLoad, TypeOK
  <2>5. LinkTypes' /\ PageTypes' /\ HistoryTypes'
    BY <1>3, <2>2, <2>3, <2>4, TypeParts
    DEF InitialLoad, LinkTypes, PageTypes, HistoryTypes, linkVars
  <2> QED BY <1>1, <2>5 DEF TypeOK, TaskTypes, LinkTypes, PageTypes, HistoryTypes
<1>4. CASE InitialLoadFails(p)
  <2>1. list' \in [Page -> ListType]
    BY <1>4, <1>8 DEF InitialLoadFails, TypeOK
  <2> QED BY <1>1, <1>4, <2>1 DEF InitialLoadFails, TypeOK, TaskTypes, linkVars, history
<1>5. CASE OnMessage(p)
  <2>1. conn[p] \in Connection /\ wire[conn[p]] \in Seq(Message) /\ wire[conn[p]] # <<>>
    BY <1>5 DEF OnMessage, TypeOK
  <2> DEFINE c == conn[p]
             m == Head(wire[c])
  <2>2. m \in Message /\ Tail(wire[c]) \in Seq(Message) /\ Len(Tail(wire[c])) = Len(wire[c]) - 1
        /\ Len(wire[c]) \in Nat
    BY <2>1, TailElements
  <2>3. m.task \in Task /\ m.body \in Record
    BY <2>2 DEF Message
  <2>4. shown' \in [Page -> [Task -> Record]]
    BY <1>5, <2>3 DEF OnMessage, TypeOK
  <2>5. StreamsAfter(streams[p], m) \subseteq Task
    <3>1. streams[p] \subseteq Task
      BY DEF TypeOK
    <3> QED BY <2>3, <3>1 DEF StreamsAfter
  <2>6. streams' \in [Page -> SUBSET Task]
    BY <1>5, <2>5 DEF OnMessage, TypeOK
  <2>7. told' \in [Page -> SUBSET Task]
    BY <1>5, <2>3 DEF OnMessage, TypeOK
  <2>8. wire' \in [Connection -> Seq(Message)] /\ \A d \in Connection : Len(wire'[d]) <= Window
    BY <1>5, <2>1, <2>2 DEF OnMessage, TypeOK
  <2> QED BY <1>1, <1>5, <2>4, <2>6, <2>7, <2>8 DEF OnMessage, TypeOK, TaskTypes
<1>6. CASE \E c \in Connection : Connect(p, c)
  BY <1>1, <1>6 DEF Connect, TypeOK, TaskTypes, pageVars, history
<1>7. CASE \E c \in Connection : Disconnect(p, c)
  <2>1. PICK c \in Connection : Disconnect(p, c)
    BY <1>7
  <2>2. /\ channel[c] \in Seq(Event) /\ wire[c] \in Seq(Message)
        /\ <<>> \in Seq(Message) /\ Len(<<>>) = 0
    BY DEF TypeOK
  <2>3. missed' \in [Page -> SUBSET Task]
    <3>1. /\ \A i \in DOMAIN channel[c] : channel[c][i].task \in Task
          /\ \A i \in DOMAIN wire[c] : wire[c][i].task \in Task
      <4>1. /\ \A i \in DOMAIN channel[c] : channel[c][i] \in Event
            /\ \A i \in DOMAIN wire[c] : wire[c][i] \in Message
        BY <2>2
      <4> QED BY <4>1 DEF Event, Message
    <3> QED BY <2>1, <3>1 DEF Disconnect, TypeOK
  <2>4. wire' \in [Connection -> Seq(Message)] /\ \A d \in Connection : Len(wire'[d]) <= Window
    BY <2>1, <2>2 DEF Disconnect, TypeOK
  <2> QED BY <1>1, <2>1, <2>3, <2>4 DEF Disconnect, TypeOK, TaskTypes, pageVars
<1> QED BY <1>2, <1>3, <1>4, <1>5, <1>6, <1>7 DEF Browser

LEMMA TypeStep ==
  ASSUME TypeOK, Endings, [Next]_vars
  PROVE  TypeOK' /\ Endings'
<1>1. CASE UNCHANGED vars
  BY <1>1 DEF vars, taskVars, linkVars, pageVars, history, TypeOK, Endings
<1>2. ASSUME NEW t \in Task, Execute(t)
      PROVE  TypeOK' /\ Endings'
  BY <1>2, QuietTypes, LoudTypes DEF Execute
<1>3. ASSUME NEW t \in Task, TickClaims(t)
      PROVE  TypeOK' /\ Endings'
  BY <1>3, QuietTypes
<1> QED BY <1>1, <1>2, <1>3, CreateTypes, HandlerTypes, BrowserTypes DEF Next, Server

LEMMA TypeInit == Init => TypeOK /\ Endings
BY DEF Init, TypeOK, Endings, Record, Absent, Status

(* The bus, the handlers and the pages keep their types: no channel holds  *)
(* more events than it has places (events.go:42), no message is of a task  *)
(* that does not exist, and an execution that has lost its child writes a  *)
(* terminal status.                                                        *)
THEOREM ConsoleTypeCorrect == Spec => []TypeOK
BY TypeInit, TypeStep, PTL DEF Spec

-----------------------------------------------------------------------------
(*                      What becomes of the last event                     *)

(* A row is terminal only when its execution has written it, and nothing   *)
(* runs before the row is inserted.                                        *)
Rows ==
    \A t \in Task :
        /\ pc[t] \in {"none", "claimed", "marking", "marked", "run", "write"}
              => row[t].status \notin Terminal
        /\ creating[t] = "no" => pc[t] = "none" /\ row[t].status = "absent"

(* A page has its connection for itself, and a connection starts empty.    *)
Links ==
    /\ \A p \in Page : conn[p] # NoConnection => link[conn[p]] = "open"
    /\ \A p, q \in Page : conn[p] # NoConnection /\ conn[p] = conn[q] => p = q
    /\ \A c \in Connection : link[c] = "unused" => channel[c] = <<>> /\ wire[c] = <<>>

(* A terminal row in the reply to the initial request is the final row.    *)
Lists ==
    \A p \in Page :
        /\ list[p].state # "settled" => replaced[p] = {}
        /\ \A t \in Task : list[p].rows[t].status \in Terminal => list[p].rows[t] = row[t]

Excused(p, t) == t \in dropped[p] \cup missed[p] \cup replaced[p] \cup overtaken \cup unread

(* The events or messages of s from position n on are of other tasks.      *)
Without(s, t, n) == \A i \in DOMAIN s : i >= n => s[i].task # t

InChannel(c, t) ==
    \E i \in DOMAIN channel[c] :
        channel[c][i] = Own("terminal", t, row[t]) /\ Without(channel[c], t, i + 1)

OnWire(c, t) ==
    /\ \E i \in DOMAIN wire[c] :
          /\ wire[c][i] = [type |-> "terminal", task |-> t, body |-> row[t]]
          /\ Without(wire[c], t, i + 1)
    /\ Without(channel[c], t, 1)

Arrived(p, t) ==
    /\ t \in told[p]
    /\ shown[p][t] = row[t]
    /\ row[t].status \in Terminal => t \notin streams[p]
    /\ conn[p] # NoConnection => Without(wire[conn[p]], t, 1) /\ Without(channel[conn[p]], t, 1)

(* The final row of a task that has ended is on its way to the page, with  *)
(* nothing of the task behind it, or has arrived.                          *)
Delivered(p, t) ==
    \/ Arrived(p, t)
    \/ conn[p] # NoConnection /\ (InChannel(conn[p], t) \/ OnWire(conn[p], t))

Delivery == \A p \in Page, t \in Task : pc[t] = "done" /\ ~Excused(p, t) => Delivered(p, t)

ConsoleInv == TypeOK /\ Endings /\ Rows /\ Links /\ Lists /\ Delivery

-----------------------------------------------------------------------------
(*                          Rows, links and lists                          *)

(* What the API and an execution do to the rows: nothing is written to a   *)
(* terminal row.                                                           *)
LEMMA ServerRows ==
  ASSUME TypeOK, Endings, Rows, NEW t \in Task, CreateTask(t) \/ Server(t)
  PROVE  /\ Rows'
         /\ \A s \in Task : row[s].status \in Terminal => row'[s] = row[s]
<1> USE TypeParts DEF Rows, TaskTypes, Record, Terminal
<1>1. CASE CreateTask(t)
  BY <1>1 DEF CreateTask
<1>2. CASE CreateTaskPublishes(t)
  BY <1>2 DEF CreateTaskPublishes
<1>3. CASE TickClaims(t)
  BY <1>3 DEF TickClaims, Step, Quiet
<1>4. CASE TickPublishes(t)
  BY <1>4 DEF TickPublishes, Step
<1>5. CASE MarkRunning(t)
  BY <1>5 DEF MarkRunning, Step, Quiet
<1>6. CASE PublishRunning(t)
  BY <1>6 DEF PublishRunning, Step
<1>7. CASE Chunk(t)
  BY <1>7 DEF Chunk
<1>8. CASE \E e \in Ending : RunnerReturns(t, e)
  BY <1>8 DEF RunnerReturns, Step, Quiet
<1>9. CASE WriteTerminal(t)
  BY <1>9 DEF WriteTerminal, Step, Quiet
<1>10. CASE AssignBegins(t)
  BY <1>10 DEF AssignBegins, Step, Quiet
<1>11. CASE AssignEnds(t)
  BY <1>11 DEF AssignEnds, Step, Quiet
<1>12. CASE PublishTerminal(t)
  BY <1>12 DEF PublishTerminal, Step
<1> QED
  BY <1>1, <1>2, <1>3, <1>4, <1>5, <1>6, <1>7, <1>8, <1>9, <1>10, <1>11, <1>12
  DEF Server, Execute

LEMMA RowsStep ==
  ASSUME TypeOK, Endings, Rows, [Next]_vars
  PROVE  /\ Rows'
         /\ \A s \in Task : row[s].status \in Terminal => row'[s] = row[s]
<1>1. CASE UNCHANGED taskVars
  BY <1>1 DEF taskVars, Rows
<1>2. CASE \E t \in Task : CreateTask(t) \/ Server(t)
  BY <1>2, ServerRows
<1>3. ASSUME NEW c \in Connection, WriteJSON(c) \/ HandleWSReturns(c)
      PROVE  UNCHANGED taskVars
  BY <1>3 DEF WriteJSON, HandleWSReturns
<1>4. ASSUME NEW p \in Page, Browser(p)
      PROVE  UNCHANGED taskVars
  BY <1>4 DEF Browser, ListTasks, InitialLoad, InitialLoadFails, OnMessage, Connect, Disconnect
<1> QED BY <1>1, <1>2, <1>3, <1>4 DEF Next, vars

(* What the API and an execution do to the bus and to the pages: nothing,  *)
(* or they publish one event.                                              *)
LEMMA ServerBus ==
  ASSUME TypeOK, NEW t \in Task, CreateTask(t) \/ Server(t)
  PROVE  /\ UNCHANGED pageVars
         /\ \/ UNCHANGED <<linkVars, history>>
            \/ \E e \in Event : e.task = t /\ Publish(e)
<1>1. CASE \/ CreateTask(t) \/ TickClaims(t) \/ MarkRunning(t)
           \/ WriteTerminal(t) \/ AssignBegins(t) \/ AssignEnds(t)
           \/ \E s \in Ending : RunnerReturns(t, s)
  BY <1>1 DEF CreateTask, TickClaims, MarkRunning, WriteTerminal, AssignBegins, AssignEnds,
              RunnerReturns, Quiet
<1>2. CASE \/ CreateTaskPublishes(t) \/ TickPublishes(t)
           \/ PublishRunning(t) \/ Chunk(t) \/ PublishTerminal(t)
  <2>1. \E e \in Event : e.task = t /\ Publish(e)
    BY <1>2, EventTypes, TypeParts
    DEF CreateTaskPublishes, TickPublishes, PublishRunning, Chunk, PublishTerminal,
        TerminalEvent, Own, Shared
  <2>2. UNCHANGED pageVars
    BY <1>2 DEF CreateTaskPublishes, TickPublishes, PublishRunning, Chunk, PublishTerminal
  <2> QED BY <2>1, <2>2
<1> QED BY <1>1, <1>2 DEF Server, Execute

LEMMA LinksStep ==
  ASSUME TypeOK, Links, [Next]_vars
  PROVE  Links'
<1> USE TypeParts DEF Links, LinkTypes
<1>1. CASE UNCHANGED linkVars
  BY <1>1 DEF linkVars
<1>2. ASSUME NEW e \in Event, Publish(e)
      PROVE  Links'
  <2>1. /\ UNCHANGED <<link, wire, conn>>
        /\ \A c \in Connection : link[c] = "unused" => channel'[c] = channel[c]
    BY <1>2 DEF Publish, Subscribers
  <2> QED BY <2>1
<1>3. ASSUME NEW t \in Task, CreateTask(t) \/ Server(t)
      PROVE  Links'
  BY <1>1, <1>2, <1>3, ServerBus
<1>4. ASSUME NEW c \in Connection, WriteJSON(c) \/ HandleWSReturns(c)
      PROVE  Links'
  <2>1. CASE WriteJSON(c)
    <3>1. \A d \in Connection : d # c => channel'[d] = channel[d] /\ wire'[d] = wire[d]
      BY <2>1 DEF WriteJSON
    <3>2. UNCHANGED <<link, conn>> /\ link[c] = "open"
      BY <2>1 DEF WriteJSON
    <3> QED BY <3>1, <3>2
  <2>2. CASE HandleWSReturns(c)
    BY <2>2 DEF HandleWSReturns
  <2> QED BY <1>4, <2>1, <2>2
<1>5. ASSUME NEW p \in Page, NEW c \in Connection, Connect(p, c)
      PROVE  Links'
  BY <1>5 DEF Connect
<1>6. ASSUME NEW p \in Page, NEW c \in Connection, Disconnect(p, c)
      PROVE  Links'
  BY <1>6 DEF Disconnect
<1>7. ASSUME NEW p \in Page, OnMessage(p)
      PROVE  Links'
  BY <1>7 DEF OnMessage
<1>8. ASSUME NEW p \in Page, ListTasks(p) \/ InitialLoad(p) \/ InitialLoadFails(p)
      PROVE  Links'
  BY <1>1, <1>8 DEF ListTasks, InitialLoad, InitialLoadFails, linkVars
<1> QED BY <1>1, <1>3, <1>4, <1>5, <1>6, <1>7, <1>8 DEF Next, Browser, vars

LEMMA ListsStep ==
  ASSUME TypeOK, Endings, Rows, Lists, [Next]_vars
  PROVE  Lists'
<1> USE TypeParts DEF Lists, PageTypes, HistoryTypes
<1>1. \A t \in Task : row[t].status \in Terminal => row'[t] = row[t]
  BY RowsStep
<1>2. CASE UNCHANGED <<list, replaced>>
  BY <1>1, <1>2
<1>3. ASSUME NEW t \in Task, CreateTask(t) \/ Server(t)
      PROVE  UNCHANGED <<list, replaced>>
  BY <1>3, ServerBus DEF pageVars, history, Publish
<1>4. ASSUME NEW c \in Connection, WriteJSON(c) \/ HandleWSReturns(c)
      PROVE  UNCHANGED <<list, replaced>>
  BY <1>4 DEF WriteJSON, HandleWSReturns, pageVars, history
<1>5. ASSUME NEW p \in Page, NEW c \in Connection,
             Connect(p, c) \/ Disconnect(p, c) \/ OnMessage(p)
      PROVE  UNCHANGED <<list, replaced>>
  BY <1>5 DEF Connect, Disconnect, OnMessage, pageVars, history
<1>6. ASSUME NEW p \in Page, ListTasks(p)
      PROVE  Lists'
  BY <1>6 DEF ListTasks, taskVars, history
<1>7. ASSUME NEW p \in Page, InitialLoad(p)
      PROVE  Lists'
  <2>1. \A q \in Page : list'[q].rows = list[q].rows
    BY <1>7 DEF InitialLoad
  <2>2. list'[p].state = "settled"
    BY <1>7 DEF InitialLoad
  <2>3. \A q \in Page : q # p => list'[q] = list[q] /\ replaced'[q] = replaced[q]
    BY <1>7 DEF InitialLoad
  <2> QED BY <1>7, <2>1, <2>2, <2>3 DEF InitialLoad, taskVars
<1>8. ASSUME NEW p \in Page, InitialLoadFails(p)
      PROVE  Lists'
  BY <1>8 DEF InitialLoadFails, taskVars, history
<1>9. ASSUME NEW p \in Page, OnMessage(p)
      PROVE  UNCHANGED <<list, replaced>>
  BY <1>9 DEF OnMessage
<1>10. CASE UNCHANGED vars
  BY <1>2, <1>10 DEF vars, pageVars, history
<1> QED BY <1>2, <1>3, <1>4, <1>5, <1>6, <1>7, <1>8, <1>9, <1>10 DEF Next, Browser

-----------------------------------------------------------------------------
(*                               Delivery                                  *)

(* Nothing of what page p is owed for task t is disturbed. *)
Untouched(p, t) ==
    /\ row'[t] = row[t] /\ conn'[p] = conn[p]
    /\ shown'[p] = shown[p] /\ streams'[p] = streams[p] /\ told'[p] = told[p]
    /\ conn[p] # NoConnection => UNCHANGED <<channel[conn[p]], wire[conn[p]]>>

LEMMA UntouchedDelivered ==
  ASSUME NEW p \in Page, NEW t \in Task, Delivered(p, t), Untouched(p, t)
  PROVE  Delivered(p, t)'
<1>1. CASE conn[p] = NoConnection
  BY <1>1 DEF Untouched, Delivered, Arrived
<1>2. CASE conn[p] # NoConnection
  BY <1>2 DEF Untouched, Delivered, Arrived, InChannel, OnWire, Without
<1> QED BY <1>1, <1>2

(* An event of another task goes behind what a channel holds. *)
LEMMA OtherEventDelivered ==
  ASSUME TypeOK, NEW p \in Page, NEW t \in Task, Delivered(p, t),
         NEW e \in Event, e.task # t, Publish(e),
         row'[t] = row[t], UNCHANGED pageVars
  PROVE  Delivered(p, t)'
<1> DEFINE c == conn[p]
<1>1. UNCHANGED <<conn, wire, told, shown, streams>>
  BY DEF Publish, pageVars
<1>2. CASE c = NoConnection \/ channel'[c] = channel[c]
  <2>1. Untouched(p, t)
    BY <1>1, <1>2 DEF Untouched
  <2> QED BY <2>1, UntouchedDelivered
<1>3. CASE c # NoConnection /\ channel'[c] # channel[c]
  <2>1. c \in Connection /\ channel[c] \in Seq(Event)
    BY <1>3 DEF TypeOK
  <2>2. channel'[c] = Append(channel[c], e)
    BY <1>3, <2>1 DEF Publish
  <2>3. /\ Len(channel[c]) \in Nat /\ DOMAIN channel[c] = 1 .. Len(channel[c])
        /\ DOMAIN channel'[c] = 1 .. Len(channel[c]) + 1
        /\ \A i \in 1 .. Len(channel[c]) : channel'[c][i] = channel[c][i]
        /\ channel'[c][Len(channel[c]) + 1] = e
    BY <2>1, <2>2, AppendElements
  <2>4. \A n \in Nat : Without(channel[c], t, n) => Without(channel'[c], t, n)
    BY <2>3 DEF Without
  <2>5. InChannel(c, t) => InChannel(c, t)'
    <3>1. SUFFICES ASSUME NEW i \in 1 .. Len(channel[c]),
                          channel[c][i] = Own("terminal", t, row[t]),
                          Without(channel[c], t, i + 1)
                   PROVE  InChannel(c, t)'
      BY <2>3 DEF InChannel
    <3>2. i \in DOMAIN channel'[c] /\ channel'[c][i] = Own("terminal", t, row'[t])
      BY <2>3, <3>1
    <3>3. Without(channel'[c], t, i + 1)
      BY <2>4, <3>1
    <3> QED BY <1>1, <3>2, <3>3 DEF InChannel, Without
  <2>6. OnWire(c, t) => OnWire(c, t)'
    BY <1>1, <2>4 DEF OnWire, Without
  <2>7. Arrived(p, t) => Arrived(p, t)'
    BY <1>1, <2>4 DEF Arrived, Without
  <2> QED BY <1>1, <1>3, <2>5, <2>6, <2>7 DEF Delivered
<1> QED BY <1>2, <1>3

(* The terminal event, when its row could be read and the page's channel   *)
(* had room for it, is the last event in that channel.                     *)
LEMMA LastEventDelivered ==
  ASSUME TypeOK, Links, NEW p \in Page, NEW t \in Task, PublishTerminal(t), ~Excused(p, t)'
  PROVE  Delivered(p, t)'
<1> DEFINE c == conn[p]
           e == Own("terminal", t, row[t])
<1>1. /\ Publish(e) /\ UNCHANGED row
  <2>1. PICK readable \in BOOLEAN :
          /\ Publish(TerminalEvent(t, readable))
          /\ unread' = IF readable THEN unread ELSE unread \cup {t}
    BY DEF PublishTerminal
  <2>2. readable
    BY <2>1 DEF Excused
  <2> QED BY <2>1, <2>2 DEF TerminalEvent, PublishTerminal
<1>2. e \in Event /\ e.task = t /\ e.type = "terminal"
  BY EventTypes, TypeParts DEF Own
<1>3. conn' = conn /\ wire' = wire
  BY <1>1 DEF Publish
<1>4. c # NoConnection /\ HasRoom(c)
  BY <1>1, <1>2 DEF Publish, Excused, TypeOK
<1>5. c \in Connection /\ channel[c] \in Seq(Event) /\ c \in Subscribers
  BY <1>4 DEF TypeOK, Links, Subscribers
<1>6. channel'[c] = Append(channel[c], e)
  BY <1>1, <1>4, <1>5 DEF Publish
<1> DEFINE n == Len(channel[c]) + 1
<1>7. /\ n \in Nat /\ DOMAIN channel'[c] = 1 .. n
      /\ channel'[c][n] = e
  BY <1>2, <1>5, <1>6, AppendElements
<1>8. n \in DOMAIN channel'[c] /\ Without(channel'[c], t, n + 1)
  BY <1>7 DEF Without
<1>9. conn'[p] = c /\ e = Own("terminal", t, row'[t])
  BY <1>1, <1>3
<1> QED BY <1>4, <1>7, <1>8, <1>9 DEF Delivered, InChannel, Without

LEMMA ServerDelivery ==
  ASSUME TypeOK, Rows, Links, NEW s \in Task, CreateTask(s) \/ Server(s),
         NEW p \in Page, NEW t \in Task, pc'[t] = "done", ~Excused(p, t)',
         pc[t] = "done" /\ ~Excused(p, t) => Delivered(p, t)
  PROVE  Delivered(p, t)'
<1>1. CASE s = t
  <2>1. CASE pc[t] = "done"
    <3>1. ~CreateTask(t) /\ creating[t] # "no"
      BY <2>1 DEF CreateTask, Rows
    <3>2. CreateTaskPublishes(t)
      BY <1>1, <2>1, <3>1
      DEF Server, Execute, TickClaims, TickPublishes, MarkRunning, PublishRunning, Chunk,
          RunnerReturns, WriteTerminal, AssignBegins, AssignEnds, PublishTerminal, Step
    <3> QED BY <2>1, <3>2 DEF CreateTaskPublishes, Excused
  <2>2. CASE pc[t] # "done"
    <3>1. PublishTerminal(t)
      BY <1>1, <2>2
      DEF CreateTask, Server, CreateTaskPublishes, Execute, TickClaims, TickPublishes, MarkRunning,
          PublishRunning, Chunk, RunnerReturns, WriteTerminal, AssignBegins, AssignEnds, Step,
          TypeOK
    <3> QED BY <3>1, LastEventDelivered
  <2> QED BY <2>1, <2>2
<1>2. CASE s # t
  <2>1. /\ pc[t] = pc'[t] /\ row'[t] = row[t]
        /\ t \in overtaken => t \in overtaken'
        /\ t \in unread => t \in unread'
    BY <1>2
    DEF CreateTask, Server, CreateTaskPublishes, Execute, TickClaims, TickPublishes, MarkRunning,
        PublishRunning, Chunk, RunnerReturns, WriteTerminal, AssignBegins, AssignEnds,
        PublishTerminal, Step, Quiet, TypeOK
  <2>2. UNCHANGED pageVars
    BY ServerBus
  <2>3. CASE UNCHANGED <<linkVars, history>>
    <3>1. ~Excused(p, t) /\ Untouched(p, t)
      BY <2>1, <2>2, <2>3 DEF Excused, Untouched, linkVars, pageVars, history
    <3> QED BY <2>1, <3>1, UntouchedDelivered
  <2>4. CASE \E e \in Event : e.task = s /\ Publish(e)
    <3>1. PICK e \in Event : e.task = s /\ Publish(e)
      BY <2>4
    <3>2. ~Excused(p, t)
      BY <2>1, <3>1 DEF Excused, Publish, TypeOK
    <3> QED BY <1>2, <2>1, <2>2, <3>1, <3>2, OtherEventDelivered
  <2> QED BY <2>3, <2>4, ServerBus
<1> QED BY <1>1, <1>2

(* The handler moves an event from the channel to the wire. *)
LEMMA WriteDelivery ==
  ASSUME TypeOK, Endings, NEW d \in Connection, WriteJSON(d),
         NEW p \in Page, NEW t \in Task, Delivered(p, t)
  PROVE  Delivered(p, t)'
<1>1. UNCHANGED <<row, conn, shown, streams, told>>
  BY DEF WriteJSON, taskVars, pageVars, history
<1>2. CASE conn[p] # d
  <2>1. Untouched(p, t)
    BY <1>1, <1>2 DEF Untouched, WriteJSON
  <2> QED BY <2>1, UntouchedDelivered
<1>3. CASE conn[p] = d
  <2> DEFINE s == channel[d]
             w == wire[d]
             e == Head(s)
  <2>1. s \in Seq(Event) /\ w \in Seq(Message) /\ s # <<>> /\ d # NoConnection
    BY DEF TypeOK, WriteJSON
  <2>2. PICK b \in Bodies(e) :
          wire' = [wire EXCEPT ![d] = Append(@, [type |-> e.type, task |-> e.task, body |-> b])]
    BY DEF WriteJSON
  <2> DEFINE m == [type |-> e.type, task |-> e.task, body |-> b]
  <2>3. /\ e \in Event /\ e = s[1] /\ Len(s) \in Nat \ {0} /\ DOMAIN s = 1 .. Len(s)
        /\ DOMAIN Tail(s) = 1 .. Len(s) - 1
        /\ \A i \in 1 .. Len(s) - 1 : Tail(s)[i] = s[i + 1]
    BY <2>1, TailElements
  <2>4. m \in Message
    BY <2>3, MessageTypes, ReadableTypes
  <2>5. wire'[d] = Append(w, m) /\ channel'[d] = Tail(s)
    BY <2>2 DEF TypeOK, WriteJSON
  <2>6. /\ Len(w) \in Nat /\ DOMAIN w = 1 .. Len(w)
        /\ DOMAIN wire'[d] = 1 .. Len(w) + 1
        /\ \A i \in 1 .. Len(w) : wire'[d][i] = w[i]
        /\ wire'[d][Len(w) + 1] = m
    BY <2>1, <2>4, <2>5, AppendElements
  <2>7. Without(s, t, 1) => e.task # t
    BY <2>3 DEF Without
  <2>8. \A i \in Nat : Without(s, t, i + 1) => Without(channel'[d], t, i)
    <3> SUFFICES ASSUME NEW i \in Nat, Without(s, t, i + 1),
                        NEW k \in 1 .. Len(s) - 1, k >= i
                 PROVE  channel'[d][k].task # t
      BY <2>3, <2>5 DEF Without
    <3>1. k + 1 \in DOMAIN s /\ k + 1 >= i + 1 /\ channel'[d][k] = s[k + 1]
      BY <2>3, <2>5
    <3> QED BY <3>1 DEF Without
  <2>9. Without(s, t, 1) => Without(channel'[d], t, 1)
    <3> SUFFICES ASSUME Without(s, t, 1)
                 PROVE  Without(s, t, 1 + 1)
      BY <2>8
    <3> QED BY <2>3 DEF Without
  <2>10. \A i \in Nat : Without(w, t, i) /\ e.task # t => Without(wire'[d], t, i)
    BY <2>6 DEF Without
  <2>11. CASE Arrived(p, t)
    <3>1. Without(w, t, 1) /\ Without(s, t, 1)
      BY <1>3, <2>1, <2>11 DEF Arrived
    <3>2. Without(wire'[d], t, 1) /\ Without(channel'[d], t, 1)
      BY <3>1, <2>7, <2>9, <2>10
    <3> QED BY <1>1, <1>3, <2>11, <3>2 DEF Delivered, Arrived, Without
  <2>12. CASE InChannel(d, t)
    <3>1. PICK i \in 1 .. Len(s) :
            s[i] = Own("terminal", t, row[t]) /\ Without(s, t, i + 1)
      BY <2>3, <2>12 DEF InChannel
    <3>2. CASE i = 1
      <4>1. b = row[t] /\ m = [type |-> "terminal", task |-> t, body |-> row'[t]]
        BY <1>1, <2>2, <2>3, <3>1, <3>2 DEF Bodies, Own
      <4>2. Without(channel'[d], t, 1)
        BY <2>8, <3>1, <3>2
      <4>3. Len(w) + 1 \in DOMAIN wire'[d] /\ Without(wire'[d], t, Len(w) + 1 + 1)
        BY <2>6 DEF Without
      <4> QED BY <1>1, <1>3, <2>1, <2>6, <4>1, <4>2, <4>3 DEF Delivered, OnWire, Without
    <3>3. CASE i # 1
      <4>1. /\ i - 1 \in DOMAIN channel'[d]
            /\ channel'[d][i - 1] = Own("terminal", t, row'[t])
        BY <1>1, <2>3, <2>5, <3>1, <3>3
      <4>2. Without(channel'[d], t, (i - 1) + 1)
        BY <2>8, <3>1, <3>3
      <4> QED BY <1>1, <1>3, <2>1, <4>1, <4>2 DEF Delivered, InChannel, Without
    <3> QED BY <3>2, <3>3
  <2>13. CASE OnWire(d, t)
    <3>1. PICK i \in 1 .. Len(w) :
            /\ w[i] = [type |-> "terminal", task |-> t, body |-> row[t]]
            /\ Without(w, t, i + 1)
      BY <2>6, <2>13 DEF OnWire
    <3>2. Without(s, t, 1)
      BY <2>13 DEF OnWire
    <3>3. Without(channel'[d], t, 1) /\ Without(wire'[d], t, i + 1)
      BY <2>7, <2>9, <2>10, <3>1, <3>2
    <3>4. i \in DOMAIN wire'[d]
          /\ wire'[d][i] = [type |-> "terminal", task |-> t, body |-> row'[t]]
      BY <1>1, <2>6, <3>1
    <3> QED BY <1>1, <1>3, <2>1, <3>3, <3>4 DEF Delivered, OnWire, Without
  <2> QED BY <1>3, <2>11, <2>12, <2>13 DEF Delivered
<1> QED BY <1>2, <1>3

(* The page handles the first message of its connection. *)
LEMMA MessageDelivery ==
  ASSUME TypeOK, Links, NEW q \in Page, OnMessage(q),
         NEW p \in Page, NEW t \in Task, Delivered(p, t)
  PROVE  Delivered(p, t)'
<1>1. UNCHANGED <<row, conn, channel>>
  BY DEF OnMessage, taskVars
<1>2. CASE p # q
  <2>1. conn[p] # NoConnection => conn[p] # conn[q]
    BY <1>2 DEF Links
  <2>2. Untouched(p, t)
    BY <1>1, <1>2, <2>1 DEF Untouched, OnMessage
  <2> QED BY <2>2, UntouchedDelivered
<1>3. CASE p = q
  <2> DEFINE d == conn[p]
             w == wire[d]
             m == Head(w)
  <2>1. d # NoConnection /\ d \in Connection /\ w \in Seq(Message) /\ w # <<>>
    BY <1>3 DEF TypeOK, OnMessage
  <2>2. /\ m = w[1] /\ Len(w) \in Nat \ {0} /\ DOMAIN w = 1 .. Len(w)
        /\ DOMAIN Tail(w) = 1 .. Len(w) - 1
        /\ \A i \in 1 .. Len(w) - 1 : Tail(w)[i] = w[i + 1]
    BY <2>1, TailElements
  <2>3. wire'[d] = Tail(w)
    BY <1>3, <2>1 DEF OnMessage, TypeOK
  <2>4. /\ streams'[p] = StreamsAfter(streams[p], m)
        /\ m.type # "chunk" => shown'[p][m.task] = m.body
        /\ m.task # t => shown'[p][t] = shown[p][t]
        /\ t \in told[p] => t \in told'[p]
        /\ m.type = "terminal" => m.task \in told'[p]
    <3>1. m \in Message
      BY <2>1, TailElements
    <3>2. m.task \in Task
      BY <3>1 DEF Message
    <3> QED BY <1>3, <3>2 DEF OnMessage, TypeOK
  <2>5. \A i \in Nat : Without(w, t, i + 1) => Without(wire'[d], t, i)
    <3> SUFFICES ASSUME NEW i \in Nat, Without(w, t, i + 1),
                        NEW k \in 1 .. Len(w) - 1, k >= i
                 PROVE  wire'[d][k].task # t
      BY <2>2, <2>3 DEF Without
    <3>1. k + 1 \in DOMAIN w /\ k + 1 >= i + 1 /\ wire'[d][k] = w[k + 1]
      BY <2>2, <2>3
    <3> QED BY <3>1 DEF Without
  <2>6. CASE Arrived(p, t)
    <3>1. Without(w, t, 1) /\ Without(channel[d], t, 1)
      BY <2>1, <2>6 DEF Arrived
    <3>2. m.task # t
      BY <2>2, <3>1 DEF Without
    <3>3. Without(wire'[d], t, 1)
      <4>1. Without(w, t, 1 + 1)
        BY <2>2, <3>1 DEF Without
      <4> QED BY <2>5, <4>1
    <3>4. t \in StreamsAfter(streams[p], m) => t \in streams[p]
      BY <3>2 DEF StreamsAfter
    <3>5. Without(channel'[d], t, 1)
      BY <1>1, <3>1
    <3> QED BY <1>1, <2>4, <2>6, <3>2, <3>3, <3>4, <3>5 DEF Delivered, Arrived, Without
  <2>7. CASE InChannel(d, t)
    BY <1>1, <2>1, <2>7 DEF Delivered, InChannel, Without
  <2>8. CASE OnWire(d, t)
    <3>1. PICK i \in 1 .. Len(w) :
            /\ w[i] = [type |-> "terminal", task |-> t, body |-> row[t]]
            /\ Without(w, t, i + 1)
      BY <2>2, <2>8 DEF OnWire
    <3>2. Without(channel'[d], t, 1)
      BY <1>1, <2>8 DEF OnWire
    <3>3. CASE i = 1
      <4>1. m.type = "terminal" /\ m.task = t /\ m.body = row'[t]
        BY <1>1, <2>2, <3>1, <3>3
      <4>2. row'[t].status \in Terminal => t \notin streams'[p]
        BY <2>4, <4>1 DEF StreamsAfter
      <4>3. Without(wire'[d], t, 1)
        BY <2>5, <3>1, <3>3
      <4> QED BY <1>1, <2>4, <3>2, <4>1, <4>2, <4>3 DEF Delivered, Arrived, Without
    <3>4. CASE i # 1
      <4>1. /\ i - 1 \in DOMAIN wire'[d]
            /\ wire'[d][i - 1] = [type |-> "terminal", task |-> t, body |-> row'[t]]
        BY <1>1, <2>2, <2>3, <3>1, <3>4
      <4>2. Without(wire'[d], t, (i - 1) + 1)
        BY <2>5, <3>1, <3>4
      <4> QED BY <1>1, <2>1, <3>2, <4>1, <4>2 DEF Delivered, OnWire, Without
    <3> QED BY <3>3, <3>4
  <2> QED BY <2>6, <2>7, <2>8 DEF Delivered
<1> QED BY <1>2, <1>3

(* A new connection is empty; one that is lost takes what it held with it. *)
LEMMA ConnectionDelivery ==
  ASSUME TypeOK, Links, NEW q \in Page, NEW c \in Connection,
         Connect(q, c) \/ Disconnect(q, c),
         NEW p \in Page, NEW t \in Task, Delivered(p, t), ~Excused(p, t)'
  PROVE  Delivered(p, t)'
<1>1. CASE Connect(q, c) /\ p = q
  <2>1. /\ UNCHANGED <<row, shown, streams, told, channel, wire>>
        /\ conn'[p] = c /\ conn[p] = NoConnection
        /\ channel[c] = <<>> /\ wire[c] = <<>>
    BY <1>1 DEF Connect, taskVars, pageVars, history, Links, TypeOK
  <2>2. Without(channel'[c], t, 1) /\ Without(wire'[c], t, 1)
    BY <2>1 DEF Without
  <2> QED BY <2>1, <2>2 DEF Delivered, Arrived, Without
<1>2. CASE Connect(q, c) /\ p # q
  <2>1. Untouched(p, t)
    BY <1>2 DEF Untouched, Connect, taskVars, pageVars, history
  <2> QED BY <2>1, UntouchedDelivered
<1>3. CASE Disconnect(q, c) /\ p = q
  <2>1. UNCHANGED <<row, shown, streams, told>> /\ conn[p] = c /\ conn'[p] = NoConnection
    BY <1>3 DEF Disconnect, taskVars, pageVars, TypeOK
  <2>2. CASE Arrived(p, t)
    BY <2>1, <2>2 DEF Delivered, Arrived
  <2>3. CASE InChannel(c, t)
    <3>1. \E i \in DOMAIN channel[c] : channel[c][i].type = "terminal" /\ channel[c][i].task = t
      BY <2>3 DEF InChannel, Own
    <3>2. t \in missed'[p]
      BY <1>3, <3>1 DEF Disconnect, TypeOK
    <3> QED BY <3>2 DEF Excused
  <2>4. CASE OnWire(c, t)
    <3>1. \E i \in DOMAIN wire[c] : wire[c][i].type = "terminal" /\ wire[c][i].task = t
      BY <2>4 DEF OnWire
    <3>2. t \in missed'[p]
      BY <1>3, <3>1 DEF Disconnect, TypeOK
    <3> QED BY <3>2 DEF Excused
  <2> QED BY <2>1, <2>2, <2>3, <2>4 DEF Delivered
<1>4. CASE Disconnect(q, c) /\ p # q
  <2>1. conn[q] = c /\ c # NoConnection
    BY <1>4 DEF Disconnect
  <2>2. conn[p] # c
    BY <1>4, <2>1 DEF Links
  <2>3. Untouched(p, t)
    BY <1>4, <2>2 DEF Untouched, Disconnect, taskVars, pageVars
  <2> QED BY <2>3, UntouchedDelivered
<1> QED BY <1>1, <1>2, <1>3, <1>4

(* The reply to the initial request undoes nothing but what is noted.      *)
LEMMA LoadDelivery ==
  ASSUME TypeOK, Lists, NEW q \in Page, InitialLoad(q),
         NEW p \in Page, NEW t \in Task, Delivered(p, t), ~Excused(p, t)'
  PROVE  Delivered(p, t)'
<1>1. UNCHANGED <<row, conn, channel, wire, streams, told>>
  BY DEF InitialLoad, taskVars, linkVars
<1>2. CASE p # q
  <2>1. Untouched(p, t)
    BY <1>1, <1>2 DEF Untouched, InitialLoad
  <2> QED BY <2>1, UntouchedDelivered
<1>3. CASE p = q
  <2>1. shown'[p] = list[p].rows
    BY <1>3 DEF InitialLoad, TypeOK
  <2>2. Arrived(p, t) => list[p].rows[t].status \in Terminal
    BY <1>3 DEF InitialLoad, Arrived, Excused, TypeOK
  <2>3. Arrived(p, t) => shown'[p][t] = row'[t]
    BY <1>1, <2>1, <2>2 DEF Lists
  <2>4. Arrived(p, t) => Arrived(p, t)'
    BY <1>1, <2>3 DEF Arrived, Without
  <2>5. conn[p] # NoConnection /\ (InChannel(conn[p], t) \/ OnWire(conn[p], t)) => Delivered(p, t)'
    BY <1>1 DEF Delivered, InChannel, OnWire, Without
  <2> QED BY <2>4, <2>5 DEF Delivered
<1> QED BY <1>2, <1>3

LEMMA DeliveryStep ==
  ASSUME ConsoleInv, [Next]_vars
  PROVE  Delivery'
<1> USE DEF ConsoleInv
<1> SUFFICES ASSUME NEW p \in Page, NEW t \in Task, pc'[t] = "done", ~Excused(p, t)'
             PROVE  Delivered(p, t)'
  BY DEF Delivery, Excused, Delivered, Arrived, InChannel, OnWire, Without
<1>1. pc[t] = "done" /\ ~Excused(p, t) => Delivered(p, t)
  BY DEF Delivery
<1>2. ASSUME NEW s \in Task, CreateTask(s) \/ Server(s)
      PROVE  Delivered(p, t)'
  BY <1>1, <1>2, ServerDelivery
<1>3. ASSUME UNCHANGED taskVars, Excused(p, t) => Excused(p, t)'
      PROVE  Delivered(p, t)
  BY <1>1, <1>3 DEF taskVars
<1>4. ASSUME NEW c \in Connection, WriteJSON(c)
      PROVE  Delivered(p, t)'
  BY <1>3, <1>4, WriteDelivery DEF WriteJSON, taskVars, history, Excused
<1>5. ASSUME NEW c \in Connection, HandleWSReturns(c)
      PROVE  Delivered(p, t)'
  <2>1. Delivered(p, t)
    BY <1>3, <1>5 DEF HandleWSReturns, taskVars, history, Excused
  <2>2. conn[p] # NoConnection => conn[p] # c
    BY <1>5 DEF HandleWSReturns, Links
  <2>3. Untouched(p, t)
    BY <1>5, <2>2 DEF Untouched, HandleWSReturns, taskVars, pageVars, history
  <2> QED BY <2>1, <2>3, UntouchedDelivered
<1>6. ASSUME NEW q \in Page, NEW c \in Connection, Connect(q, c) \/ Disconnect(q, c)
      PROVE  Delivered(p, t)'
  <2>1. UNCHANGED taskVars /\ (Excused(p, t) => Excused(p, t)')
    <3>1. CASE Connect(q, c)
      BY <3>1 DEF Connect, taskVars, history, Excused
    <3>2. CASE Disconnect(q, c)
      <4>1. missed[p] \subseteq missed'[p]
        BY <3>2 DEF Disconnect, TypeOK
      <4> QED BY <3>2, <4>1 DEF Disconnect, taskVars, Excused
    <3> QED BY <1>6, <3>1, <3>2
  <2> QED BY <1>3, <1>6, <2>1, ConnectionDelivery
<1>7. ASSUME NEW q \in Page, ListTasks(q) \/ InitialLoadFails(q)
      PROVE  Delivered(p, t)'
  <2>1. Delivered(p, t)
    BY <1>3, <1>7 DEF ListTasks, InitialLoadFails, taskVars, history, Excused
  <2>2. Untouched(p, t)
    BY <1>7 DEF Untouched, ListTasks, InitialLoadFails, taskVars, linkVars, history
  <2> QED BY <2>1, <2>2, UntouchedDelivered
<1>8. ASSUME NEW q \in Page, InitialLoad(q)
      PROVE  Delivered(p, t)'
  <2>1. UNCHANGED taskVars /\ (Excused(p, t) => Excused(p, t)')
    BY <1>8 DEF InitialLoad, taskVars, Excused, TypeOK, Lists
  <2> QED BY <1>3, <1>8, <2>1, LoadDelivery
<1>9. ASSUME NEW q \in Page, OnMessage(q)
      PROVE  Delivered(p, t)'
  <2>1. UNCHANGED taskVars /\ (Excused(p, t) => Excused(p, t)')
    BY <1>9 DEF OnMessage, taskVars, Excused
  <2> QED BY <1>3, <1>9, <2>1, MessageDelivery
<1>10. CASE UNCHANGED vars
  <2>1. Delivered(p, t)
    BY <1>3, <1>10 DEF vars, taskVars, history, Excused
  <2>2. Untouched(p, t)
    BY <1>10 DEF Untouched, vars, taskVars, linkVars, pageVars, history
  <2> QED BY <2>1, <2>2, UntouchedDelivered
<1> QED BY <1>2, <1>4, <1>5, <1>6, <1>7, <1>8, <1>9, <1>10 DEF Next, Browser

LEMMA InitConsole == Init => ConsoleInv
<1> SUFFICES ASSUME Init PROVE ConsoleInv
  OBVIOUS
<1>1. Rows /\ Links /\ Delivery
  BY DEF Init, Rows, Links, Delivery, Absent, Terminal
<1>2. Lists
  BY DEF Init, Lists, Absent, Terminal
<1> QED BY <1>1, <1>2, TypeInit DEF ConsoleInv

(* A page that has been sent everything shows the row of the table, unless *)
(* one of the five causes applies: for any number of tasks, pages and      *)
(* connections, and although WebSocket handlers encode tasks that execute  *)
(* is writing (daemon.go:106, events.go:58-69, page.tsx:50-83).            *)
THEOREM StaleHasCauseHolds == Spec => []StaleHasCause
<1>1. ConsoleInv => StaleHasCause
  <2> SUFFICES ASSUME ConsoleInv, NEW p \in Page, NEW t \in Task, AtRest(p, t), ~Excused(p, t)
               PROVE  ~Stale(p, t)
    BY DEF StaleHasCause, Excused
  <2>1. Delivered(p, t)
    BY DEF ConsoleInv, Delivery, AtRest
  <2>2. ~(conn[p] # NoConnection /\ (InChannel(conn[p], t) \/ OnWire(conn[p], t)))
    BY DEF AtRest, InChannel, OnWire
  <2> QED BY <2>1, <2>2 DEF Delivered, Arrived, Stale
<1>2. ConsoleInv /\ [Next]_vars => ConsoleInv'
  BY TypeStep, RowsStep, LinksStep, ListsStep, DeliveryStep DEF ConsoleInv
<1> QED BY <1>1, <1>2, InitConsole, PTL DEF Spec
=============================================================================
