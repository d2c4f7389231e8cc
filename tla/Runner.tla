------------------------------- MODULE Runner -------------------------------
(***************************************************************************)
(* Runner.Run of server/task/runner.go: one child process, whatever it     *)
(* leaves running in the background with its pipes, two goroutines that    *)
(* scan the pipes, and the goroutine of os/exec that sends SIGTERM and     *)
(* SIGKILL when the context is cancelled.                                  *)
(*                                                                         *)
(* os/exec and the pipes are modelled as runner.go uses them.  Chunks      *)
(* never block (EventBus.Publish), and the goroutine that feeds stdin is   *)
(* waited for by nobody: both are left out.                                *)
(***************************************************************************)
EXTENDS Naturals, SequencesExt

CONSTANTS
    Capacity,   \* lines a pipe holds
    LongLines,  \* TRUE: a line may be longer than MaxLineBytes
    MaxLines    \* bound: lines a process writes

ASSUME RunnerAssumption ==
    Capacity \in Nat \ {0} /\ LongLines \in BOOLEAN /\ MaxLines \in Nat

Stream  == {"stdout", "stderr"}
Process == {"child", "helper"}
Line    == [stream : Stream, length : IF LongLines THEN {"short", "long"} ELSE {"short"}]
Program == BoundedSeq(Line, MaxLines)

VARIABLES
    pc,         \* of Run
    state,      \* of each process
    program,    \* the lines it is still going to write
    holds,      \* the pipes whose write end it has open
    code,       \* exit status of the child
    output,     \* of each pipe: the lines ever written to it
    read,       \* how many of them were scanned and passed on
    scanner,    \* of each pipe: scanning, at its end, or given up
    cancelled,  \* the context
    watcher,    \* what os/exec did about it
    failed,     \* cmd.Wait returned an error
    outcome     \* the branch of execute()'s switch that Run's error leads to

childVars == <<state, program, holds, code>>
pipeVars  == <<output, read, scanner>>
vars == <<pc, childVars, pipeVars, cancelled, watcher, failed, outcome>>

TypeOK ==
    /\ pc \in {"start", "drain", "wait", "decide", "returned"}
    /\ state \in [Process -> {"none", "running", "exited"}]
    /\ program \in [Process -> Seq(Line)]
    /\ holds \in [Process -> SUBSET Stream]
    /\ code \in {"none", "success", "failure"}
    /\ output \in [Stream -> Seq({"short", "long"})]
    /\ read \in [Stream -> Nat] /\ \A s \in Stream : read[s] <= Len(output[s])
    /\ scanner \in [Stream -> {"scanning", "eof", "gave up"}]
    /\ cancelled \in BOOLEAN
    /\ watcher \in {"armed", "signalled", "killed"}
    /\ failed \in BOOLEAN
    /\ outcome \in {"none", "ok", "error", "canceled"}

Init ==
    /\ pc = "start"
    /\ state = [p \in Process |-> "none"]
    /\ program = [p \in Process |-> <<>>]
    /\ holds = [p \in Process |-> {}]
    /\ code = "none"
    /\ output = [s \in Stream |-> <<>>]
    /\ read = [s \in Stream |-> 0]
    /\ scanner = [s \in Stream |-> "scanning"]
    /\ cancelled = FALSE
    /\ watcher = "armed"
    /\ failed = FALSE
    /\ outcome = "none"

-----------------------------------------------------------------------------
(*                       The child and its helper                          *)

PipesOpen == pc \in {"drain", "wait"}

(* cmd.Start refuses a context that is cancelled already. *)
StartFails ==
    /\ pc = "start"
    /\ pc' = "returned"
    /\ outcome' = IF cancelled THEN "canceled" ELSE "error"
    /\ UNCHANGED <<childVars, pipeVars, cancelled, watcher, failed>>

Launch ==
    /\ pc = "start" /\ ~cancelled
    /\ pc' = "drain"
    /\ state' = [state EXCEPT !["child"] = "running"]
    /\ \E prog \in Program : program' = [program EXCEPT !["child"] = prog]
    /\ holds' = [holds EXCEPT !["child"] = Stream]
    /\ UNCHANGED <<code, pipeVars, cancelled, watcher, failed, outcome>>

(* The child starts a process that inherits some of its pipes. *)
Fork ==
    /\ state["child"] = "running" /\ state["helper"] = "none"
    /\ state' = [state EXCEPT !["helper"] = "running"]
    /\ \E inherited \in SUBSET holds["child"] :
         /\ holds' = [holds EXCEPT !["helper"] = inherited]
         /\ \E prog \in {q \in Program : \A i \in DOMAIN q : q[i].stream \in inherited} :
              program' = [program EXCEPT !["helper"] = prog]
    /\ UNCHANGED <<pc, code, pipeVars, cancelled, watcher, failed, outcome>>

Room(s) == Len(output[s]) - read[s] < Capacity

(* A write waits until the pipe has room. *)
Write(p) ==
    /\ PipesOpen
    /\ state[p] = "running" /\ program[p] # <<>>
    /\ LET line == Head(program[p]) IN
         /\ line.stream \in holds[p]
         /\ Room(line.stream)
         /\ output' = [output EXCEPT ![line.stream] = Append(@, line.length)]
    /\ program' = [program EXCEPT ![p] = Tail(@)]
    /\ UNCHANGED <<pc, state, holds, code, read, scanner, cancelled, watcher,
                   failed, outcome>>

CloseStream(p, s) ==
    /\ state[p] = "running" /\ s \in holds[p]
    /\ \A i \in DOMAIN program[p] : program[p][i].stream # s
    /\ holds' = [holds EXCEPT ![p] = @ \ {s}]
    /\ UNCHANGED <<pc, state, program, code, pipeVars, cancelled, watcher, failed, outcome>>

End(p) ==
    /\ state[p] = "running"
    /\ state' = [state EXCEPT ![p] = "exited"]
    /\ holds' = [holds EXCEPT ![p] = {}]
    /\ UNCHANGED <<pc, program, pipeVars, cancelled, failed, outcome>>

ChildExits ==
    /\ End("child")
    /\ program["child"] = <<>>
    /\ code' \in {"success", "failure"}
    /\ UNCHANGED watcher

HelperExits ==
    /\ End("helper")
    /\ program["helper"] = <<>>
    /\ UNCHANGED <<code, watcher>>

-----------------------------------------------------------------------------
(*                             Cancellation                                *)

Cancel ==
    /\ ~cancelled /\ pc # "returned"
    /\ cancelled' = TRUE
    /\ UNCHANGED <<pc, childVars, pipeVars, watcher, failed, outcome>>

(* cmd.Cancel; the child cannot be signalled before it is started nor      *)
(* after it is reaped.                                                     *)
WatchSignals ==
    /\ cancelled /\ watcher = "armed" /\ PipesOpen
    /\ watcher' = "signalled"
    /\ UNCHANGED <<pc, childVars, pipeVars, cancelled, failed, outcome>>

(* A child need not die of SIGTERM, and may exit with 0 when it does. *)
ChildObeys ==
    /\ watcher = "signalled"
    /\ End("child")
    /\ code' \in {"success", "failure"}
    /\ UNCHANGED watcher

\* Mutant: NewRunner leaves WaitDelay at 0 and nothing follows SIGTERM.
WatchKillsNever == FALSE /\ UNCHANGED vars

(* WaitDelay has passed: SIGKILL, for the child alone. *)
WatchKills ==
    /\ watcher = "signalled"
    /\ End("child")
    /\ code' = "failure"
    /\ watcher' = "killed"

-----------------------------------------------------------------------------
(*                                  Run                                    *)

\* Mutant: one goroutine drains both pipes, stdout first.
ScanInTurn(s) ==
    /\ pc = "drain" /\ scanner[s] = "scanning"
    /\ s = "stderr" => scanner["stdout"] # "scanning"
    /\ read[s] < Len(output[s])
    /\ output[s][read[s] + 1] = "short"
    /\ read' = [read EXCEPT ![s] = @ + 1]
    /\ UNCHANGED <<pc, childVars, output, scanner, cancelled, watcher, failed, outcome>>

\* Mutant: a scanner that does not wait for the next line.
ScanPastTheEnd(s) ==
    /\ pc = "drain" /\ scanner[s] = "scanning"
    /\ read[s] = 0
    /\ read' = [read EXCEPT ![s] = @ + 1]
    /\ UNCHANGED <<pc, childVars, output, scanner, cancelled, watcher, failed, outcome>>

Scan(s) ==
    /\ pc = "drain" /\ scanner[s] = "scanning"
    /\ read[s] < Len(output[s])
    /\ output[s][read[s] + 1] = "short"
    /\ read' = [read EXCEPT ![s] = @ + 1]
    /\ UNCHANGED <<pc, childVars, output, scanner, cancelled, watcher, failed, outcome>>

(* bufio.ErrTooLong: the loop ends, nobody looks at sc.Err(), and nobody   *)
(* reads the pipe any more.                                                *)
ScanTooLong(s) ==
    /\ pc = "drain" /\ scanner[s] = "scanning"
    /\ read[s] < Len(output[s])
    /\ output[s][read[s] + 1] = "long"
    /\ scanner' = [scanner EXCEPT ![s] = "gave up"]
    /\ UNCHANGED <<pc, childVars, output, read, cancelled, watcher, failed, outcome>>

\* Mutant: the end of the child is taken for the end of its output.
ScanEndsWithChild(s) ==
    /\ pc = "drain" /\ scanner[s] = "scanning"
    /\ read[s] = Len(output[s])
    /\ s \notin holds["child"]
    /\ scanner' = [scanner EXCEPT ![s] = "eof"]
    /\ UNCHANGED <<pc, childVars, output, read, cancelled, watcher, failed, outcome>>

(* EOF: everything is read and every write end is closed. *)
ScanEnds(s) ==
    /\ pc = "drain" /\ scanner[s] = "scanning"
    /\ read[s] = Len(output[s])
    /\ \A p \in Process : s \notin holds[p]
    /\ scanner' = [scanner EXCEPT ![s] = "eof"]
    /\ UNCHANGED <<pc, childVars, output, read, cancelled, watcher, failed, outcome>>

(* wg.Wait *)
Drained ==
    /\ pc = "drain"
    /\ \A s \in Stream : scanner[s] # "scanning"
    /\ pc' = "wait"
    /\ UNCHANGED <<childVars, pipeVars, cancelled, watcher, failed, outcome>>

(* cmd.Wait fails if the child did, or if it was signalled because of the  *)
(* context, and closes the pipes.                                          *)
CmdWait ==
    /\ pc = "wait"
    /\ state["child"] = "exited"
    /\ failed' = (code = "failure" \/ watcher # "armed")
    /\ pc' = "decide"
    /\ UNCHANGED <<childVars, pipeVars, cancelled, watcher, outcome>>

\* Mutant: ctx.Err() is not looked at.
DecideByExitStatus ==
    /\ pc = "decide"
    /\ outcome' = IF code = "failure" THEN "error" ELSE "ok"
    /\ pc' = "returned"
    /\ UNCHANGED <<childVars, pipeVars, cancelled, watcher, failed>>

Decide ==
    /\ pc = "decide"
    /\ outcome' = IF ~failed THEN "ok" ELSE IF cancelled THEN "canceled" ELSE "error"
    /\ pc' = "returned"
    /\ UNCHANGED <<childVars, pipeVars, cancelled, watcher, failed>>

Run ==
    \/ StartFails \/ Launch
    \/ \E s \in Stream : Scan(s) \/ ScanTooLong(s) \/ ScanEnds(s)
    \/ Drained \/ CmdWait \/ Decide

Next ==
    \/ Run
    \/ Fork \/ ChildExits \/ HelperExits
    \/ \E p \in Process : Write(p) \/ \E s \in Stream : CloseStream(p, s)
    \/ Cancel \/ WatchSignals \/ ChildObeys \/ WatchKills

Spec == Init /\ [][Next]_vars

(* The goroutines of the daemon run, the child gets on with its program    *)
(* whenever its writes go through, and WaitDelay passes.  Nobody has to    *)
(* cancel; a helper need not end.                                          *)
Fairness ==
    /\ WF_vars(StartFails \/ Launch)
    /\ \A s \in Stream : WF_vars(Scan(s) \/ ScanTooLong(s) \/ ScanEnds(s))
    /\ WF_vars(Drained) /\ WF_vars(CmdWait) /\ WF_vars(Decide)
    /\ WF_vars(WatchSignals) /\ WF_vars(WatchKills)
    /\ \A p \in Process : SF_vars(Write(p))
    /\ WF_vars(ChildExits)

FairSpec == Spec /\ Fairness
=============================================================================
