-------------------------- MODULE RunnerProperties --------------------------
(* What execute() may expect of Runner.Run. *)
EXTENDS Runner

(* cmd.Wait closes the pipes, and with them whatever was not read.  When   *)
(* it is called, every line of both pipes, the helper's included, has been *)
(* passed on, except behind a line longer than MaxLineBytes.               *)
NothingLost ==
    pc \in {"wait", "decide", "returned"} =>
        \A s \in Stream : scanner[s] = "gave up" \/ read[s] = Len(output[s])

(* A child that was signalled is never recorded as completed or failed,    *)
(* not even if it caught SIGTERM and exited with 0; one that was not is    *)
(* recorded as completed only if it succeeded (runner.go:123-130, and      *)
(* daemon.go:135-151, which looks at the error before the context).        *)
TruthfulOutcome ==
    pc = "returned" =>
        /\ watcher # "armed" => outcome = "canceled"
        /\ outcome = "canceled" => cancelled
        /\ outcome = "ok" => state["child"] = "exited" /\ code = "success"

(* "Cancelling ctx sends SIGTERM, then SIGKILL after WaitDelay": a cancel  *)
(* ends the child, whatever it does with SIGTERM, even if it is blocked on *)
(* a pipe that nobody reads.                                               *)
CancelEndsChild == cancelled ~> state["child"] # "running"

HelperEnds == []<>(state["helper"] # "running")

(* Two goroutines for two pipes: a child that ends by itself and writes no *)
(* overlong line is never stuck on a full pipe, and Run returns.           *)
RunReturns ==
    HelperEnds /\ [](\A s \in Stream : "long" \notin Range(output[s]))
        => <>(pc = "returned")

(* After a cancel Run returns, so that a shutdown drains, unless a helper  *)
(* of the child keeps a pipe open.                                         *)
CancelReturns == HelperEnds => (cancelled ~> pc = "returned")

(* "Draining in goroutines is what prevents the child from blocking on a   *)
(* full pipe" (DESIGN.md:123-124): a write of the child that finds no room *)
(* finds some later, whoever wrote what fills the pipe.                    *)
Blocked(p) ==
    PipesOpen /\ state[p] = "running" /\ program[p] # <<>> /\ ~Room(Head(program[p]).stream)
DrainingPreventsBlocking == Blocked("child") ~> ~Blocked("child")
=============================================================================
