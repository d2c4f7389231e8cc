---------------------------- MODULE RunnerProofs ----------------------------
(***************************************************************************)
(* Runner.Run loses no output and tells the truth about the child, for     *)
(* pipes of any size and programs of any length.                           *)
(***************************************************************************)
EXTENDS RunnerProperties, SequenceTheorems, TLAPS

(* Nothing has happened before the child is started. *)
Untouched ==
    /\ \A s \in Stream : read[s] = Len(output[s]) /\ scanner[s] = "scanning"
    /\ \A p \in Process : state[p] = "none"
    /\ watcher = "armed"

Fresh == pc = "start" => Untouched

(* Write ends are closed with their process, and once a scanner has seen   *)
(* the end of its pipe there is nobody left to write to it.                *)
EndOfPipe ==
    /\ \A p \in Process : state[p] # "running" => holds[p] = {}
    /\ \A s \in Stream : scanner[s] = "eof" =>
          read[s] = Len(output[s]) /\ \A p \in Process : s \notin holds[p]

(* After wg.Wait no scanner is at work; a start that failed had none. *)
ScannersDone ==
    /\ pc \in {"wait", "decide"} => \A s \in Stream : scanner[s] # "scanning"
    /\ pc = "returned" => Untouched \/ \A s \in Stream : scanner[s] # "scanning"

(* What cmd.Wait has returned, and that only a cancel arms a signal. *)
WaitTold ==
    /\ watcher # "armed" => cancelled
    /\ pc = "decide" =>
          /\ state["child"] = "exited"
          /\ code \in {"success", "failure"}
          /\ failed = (code = "failure" \/ watcher # "armed")
    /\ state["child"] = "exited" => code \in {"success", "failure"}

RunInv == TypeOK /\ Fresh /\ EndOfPipe /\ ScannersDone /\ WaitTold /\ TruthfulOutcome

-----------------------------------------------------------------------------
(* Programs are finite sequences of lines. *)
LEMMA ProgramType == Program \subseteq Seq(Line)
<1> SUFFICES ASSUME NEW prog \in Program PROVE prog \in Seq(Line)
  OBVIOUS
<1>1. PICK n \in 0..MaxLines : prog \in [1..n -> Line]
  BY DEF Program, BoundedSeq, SeqOf
<1>2. n \in Nat
  BY RunnerAssumption
<1>3. prog \in UNION {[1..m -> Line] : m \in Nat}
  BY <1>1, <1>2
<1> QED BY <1>3, SeqDef, Zenon

(* A line names its pipe and its length. *)
LEMMA LineType == \A l \in Line : l.stream \in Stream /\ l.length \in {"short", "long"}
  BY DEF Line

(* A run begins with nothing done. *)
LEMMA InitRun == Init => RunInv
<1> SUFFICES ASSUME Init PROVE RunInv
  OBVIOUS
<1> USE DEF Init, Process, Stream
<1>1. TypeOK
  <2>1. program \in [Process -> Seq(Line)]
    OBVIOUS
  <2>2. output \in [Stream -> Seq({"short", "long"})]
    OBVIOUS
  <2>3. read \in [Stream -> Nat] /\ \A s \in Stream : read[s] <= Len(output[s])
    OBVIOUS
  <2>4. holds \in [Process -> SUBSET Stream] /\ state \in [Process -> {"none", "running", "exited"}]
    OBVIOUS
  <2> QED BY <2>1, <2>2, <2>3, <2>4 DEF TypeOK
<1>2. Fresh /\ EndOfPipe
  BY DEF Fresh, Untouched, EndOfPipe
<1>3. ScannersDone /\ WaitTold /\ TruthfulOutcome
  BY DEF ScannersDone, WaitTold, TruthfulOutcome
<1> QED BY <1>1, <1>2, <1>3 DEF RunInv

(* The effect of a write and of a scanned line on the pipes. *)
LEMMA WriteEffect ==
  ASSUME TypeOK, NEW p \in Process, Write(p)
  PROVE  /\ output' \in [Stream -> Seq({"short", "long"})]
         /\ program' \in [Process -> Seq(Line)]
         /\ \A s \in Stream : read[s] <= Len(output'[s])
         /\ \A s \in Stream : s \notin holds[p] => output'[s] = output[s]
<1> DEFINE line == Head(program[p])
<1>1. program[p] \in Seq(Line) /\ program[p] # <<>>
  BY DEF Write, TypeOK
<1>2. line \in Line /\ Tail(program[p]) \in Seq(Line)
  BY <1>1
<1>3. line.stream \in Stream /\ line.length \in {"short", "long"}
  BY <1>2, LineType
<1>4. output[line.stream] \in Seq({"short", "long"})
  BY <1>3 DEF TypeOK
<1>5. /\ Append(output[line.stream], line.length) \in Seq({"short", "long"})
      /\ Len(Append(output[line.stream], line.length)) = Len(output[line.stream]) + 1
      /\ Len(output[line.stream]) \in Nat
  BY <1>3, <1>4
<1>6. /\ output' = [output EXCEPT ![line.stream] = Append(output[line.stream], line.length)]
      /\ program' = [program EXCEPT ![p] = Tail(program[p])]
      /\ line.stream \in holds[p]
  BY DEF Write
<1>7. \A s \in Stream : read[s] \in Nat /\ read[s] <= Len(output[s])
  BY DEF TypeOK
<1>8. \A s \in Stream : s # line.stream => output'[s] = output[s]
  BY <1>6 DEF TypeOK
<1>9. output'[line.stream] = Append(output[line.stream], line.length)
  BY <1>3, <1>6 DEF TypeOK
<1>10. \A s \in Stream : read[s] <= Len(output'[s])
  BY <1>5, <1>7, <1>8, <1>9
<1>11. output' \in [Stream -> Seq({"short", "long"})]
  BY <1>5, <1>6 DEF TypeOK
<1>12. program' \in [Process -> Seq(Line)]
  BY <1>2, <1>6 DEF TypeOK
<1> QED BY <1>6, <1>8, <1>10, <1>11, <1>12

(* A process ends with its pipes closed. *)
LEMMA EndEffect ==
  ASSUME RunInv, NEW p \in Process, End(p), p = "child" => code' \in {"success", "failure"},
         p # "child" => code' = code, watcher' = watcher \/ watcher' = "killed",
         watcher' # watcher => watcher = "signalled"
  PROVE  RunInv'
<1> USE DEF Process, Stream
<1>1. pc # "start"
  BY DEF End, RunInv, Fresh, Untouched
<1>2. TypeOK'
  BY DEF End, RunInv, TypeOK, pipeVars
<1>3. Fresh'
  BY <1>1 DEF End, Fresh
<1>4. EndOfPipe'
  BY DEF End, RunInv, EndOfPipe, TypeOK, pipeVars
<1>5. ScannersDone'
  BY DEF End, RunInv, ScannersDone, Untouched, pipeVars
<1>6. WaitTold' /\ TruthfulOutcome'
  BY DEF End, RunInv, WaitTold, TruthfulOutcome, TypeOK
<1> QED BY <1>2, <1>3, <1>4, <1>5, <1>6 DEF RunInv

-----------------------------------------------------------------------------
(* The processes keep the invariant. *)
LEMMA ProcessesKeepInv ==
  ASSUME RunInv,
         \/ Fork \/ ChildExits \/ HelperExits
         \/ \E p \in Process : Write(p) \/ \E s \in Stream : CloseStream(p, s)
  PROVE  RunInv'
<1> USE DEF Process, Stream
<1>1. CASE Fork
  <2>1. state["child"] = "running" /\ pc # "start" /\ state["helper"] = "none"
    BY <1>1 DEF Fork, RunInv, Fresh, Untouched
  <2>2. PICK inherited \in SUBSET holds["child"] :
           /\ holds' = [holds EXCEPT !["helper"] = inherited]
           /\ \E prog \in Program : program' = [program EXCEPT !["helper"] = prog]
    BY <1>1 DEF Fork
  <2>3. TypeOK'
    BY <1>1, <2>2, ProgramType DEF Fork, RunInv, TypeOK, pipeVars
  <2>4. Fresh'
    BY <1>1, <2>1 DEF Fork, Fresh
  <2>5. EndOfPipe'
    BY <1>1, <2>1, <2>2 DEF Fork, RunInv, EndOfPipe, TypeOK, pipeVars
  <2>6. ScannersDone'
    BY <1>1, <2>1 DEF Fork, RunInv, ScannersDone, Untouched, pipeVars
  <2>7. WaitTold' /\ TruthfulOutcome'
    BY <1>1, <2>1 DEF Fork, RunInv, WaitTold, TruthfulOutcome, TypeOK
  <2> QED BY <2>3, <2>4, <2>5, <2>6, <2>7 DEF RunInv
<1>2. CASE ChildExits
  BY <1>2, EndEffect DEF ChildExits
<1>3. CASE HelperExits
  BY <1>3, EndEffect DEF HelperExits
<1>4. ASSUME NEW p \in Process, Write(p)
      PROVE  RunInv'
  <2>1. /\ pc \in {"drain", "wait"} /\ pc' = pc
        /\ UNCHANGED <<pc, state, holds, code, read, scanner, cancelled, watcher, failed, outcome>>
    BY <1>4 DEF Write, PipesOpen
  <2>2. /\ output' \in [Stream -> Seq({"short", "long"})]
        /\ program' \in [Process -> Seq(Line)]
        /\ \A s \in Stream : read[s] <= Len(output'[s])
        /\ \A s \in Stream : s \notin holds[p] => output'[s] = output[s]
    BY <1>4, WriteEffect DEF RunInv
  <2>3. TypeOK'
    BY <2>1, <2>2 DEF RunInv, TypeOK
  <2>4. Fresh'
    BY <2>1 DEF Fresh
  <2>5. EndOfPipe'
    BY <2>1, <2>2 DEF RunInv, EndOfPipe
  <2>6. ScannersDone'
    BY <2>1 DEF RunInv, ScannersDone
  <2>7. WaitTold' /\ TruthfulOutcome'
    BY <2>1 DEF RunInv, WaitTold, TruthfulOutcome
  <2> QED BY <2>3, <2>4, <2>5, <2>6, <2>7 DEF RunInv
<1>5. ASSUME NEW p \in Process, NEW s \in Stream, CloseStream(p, s)
      PROVE  RunInv'
  <2>1. pc # "start" /\ state[p] = "running"
    BY <1>5 DEF CloseStream, RunInv, Fresh, Untouched
  <2>2. TypeOK'
    BY <1>5 DEF CloseStream, RunInv, TypeOK, pipeVars
  <2>3. Fresh'
    BY <1>5, <2>1 DEF CloseStream, Fresh
  <2>4. EndOfPipe'
    BY <1>5, <2>1 DEF CloseStream, RunInv, EndOfPipe, TypeOK, pipeVars
  <2>5. ScannersDone'
    BY <1>5, <2>1 DEF CloseStream, RunInv, ScannersDone, Untouched, pipeVars
  <2>6. WaitTold' /\ TruthfulOutcome'
    BY <1>5 DEF CloseStream, RunInv, WaitTold, TruthfulOutcome
  <2> QED BY <2>2, <2>3, <2>4, <2>5, <2>6 DEF RunInv
<1> QED BY <1>1, <1>2, <1>3, <1>4, <1>5

(* So does a cancel and what os/exec makes of it. *)
LEMMA CancelKeepsInv ==
  ASSUME RunInv, Cancel \/ WatchSignals \/ ChildObeys \/ WatchKills
  PROVE  RunInv'
<1> USE DEF Process, Stream
<1>1. CASE Cancel
  <2>1. TypeOK' /\ Fresh' /\ EndOfPipe'
    BY <1>1 DEF Cancel, RunInv, TypeOK, Fresh, Untouched, EndOfPipe, childVars, pipeVars
  <2>2. ScannersDone' /\ WaitTold' /\ TruthfulOutcome'
    BY <1>1 DEF Cancel, RunInv, ScannersDone, WaitTold, TruthfulOutcome, childVars, pipeVars
  <2> QED BY <2>1, <2>2 DEF RunInv
<1>2. CASE WatchSignals
  <2>1. TypeOK' /\ Fresh' /\ EndOfPipe'
    BY <1>2 DEF WatchSignals, PipesOpen, RunInv, TypeOK, Fresh, EndOfPipe, childVars, pipeVars
  <2>2. ScannersDone' /\ WaitTold' /\ TruthfulOutcome'
    BY <1>2 DEF WatchSignals, PipesOpen, RunInv, ScannersDone, WaitTold, TruthfulOutcome, childVars, pipeVars
  <2> QED BY <2>1, <2>2 DEF RunInv
<1>3. CASE ChildObeys
  BY <1>3, EndEffect DEF ChildObeys
<1>4. CASE WatchKills
  BY <1>4, EndEffect DEF WatchKills
<1> QED BY <1>1, <1>2, <1>3, <1>4

(* Run itself keeps it. *)
LEMMA RunKeepsInv ==
  ASSUME RunInv, Run
  PROVE  RunInv'
<1> USE DEF Process, Stream
<1>1. CASE StartFails
  <2>1. TypeOK' /\ Fresh' /\ EndOfPipe'
    BY <1>1 DEF StartFails, RunInv, TypeOK, Fresh, EndOfPipe, childVars, pipeVars
  <2>2. ScannersDone' /\ WaitTold' /\ TruthfulOutcome'
    BY <1>1 DEF StartFails, RunInv, TypeOK, Fresh, Untouched, ScannersDone, WaitTold,
                TruthfulOutcome, childVars, pipeVars
  <2> QED BY <2>1, <2>2 DEF RunInv
<1>2. CASE Launch
  <2>1. TypeOK'
    BY <1>2, ProgramType DEF Launch, RunInv, TypeOK, pipeVars
  <2>2. Fresh' /\ EndOfPipe'
    BY <1>2 DEF Launch, RunInv, TypeOK, Fresh, Untouched, EndOfPipe, pipeVars
  <2>3. ScannersDone' /\ WaitTold' /\ TruthfulOutcome'
    BY <1>2 DEF Launch, RunInv, TypeOK, ScannersDone, WaitTold, TruthfulOutcome
  <2> QED BY <2>1, <2>2, <2>3 DEF RunInv
<1>3. ASSUME NEW s \in Stream, Scan(s) \/ ScanTooLong(s) \/ ScanEnds(s)
      PROVE  RunInv'
  <2>1. pc = "drain" /\ scanner[s] = "scanning"
    BY <1>3 DEF Scan, ScanTooLong, ScanEnds
  <2>2. TypeOK'
    <3>1. TypeOK
      BY DEF RunInv
    <3>2. CASE Scan(s)
      <4>1. /\ read' = [read EXCEPT ![s] = read[s] + 1]
            /\ read[s] < Len(output[s]) /\ UNCHANGED output
        BY <3>2 DEF Scan
      <4>2. read' \in [Stream -> Nat] /\ \A t \in Stream : read'[t] <= Len(output'[t])
        <5>1. output[s] \in Seq({"short", "long"})
          BY <3>1 DEF TypeOK
        <5>2. Len(output[s]) \in Nat
          BY <5>1
        <5>3. read \in [Stream -> Nat] /\ \A t \in Stream : read[t] <= Len(output[t])
          BY <3>1 DEF TypeOK
        <5>4. read' \in [Stream -> Nat] /\ read'[s] = read[s] + 1
          BY <4>1, <5>3
        <5>5. \A t \in Stream : t # s => read'[t] = read[t]
          BY <4>1, <5>3
        <5>6. read[s] + 1 <= Len(output[s])
          BY <4>1, <5>2, <5>3
        <5> QED BY <4>1, <5>3, <5>4, <5>5, <5>6
      <4> QED BY <3>1, <3>2, <4>2 DEF Scan, TypeOK, childVars
    <3>3. CASE ScanTooLong(s) \/ ScanEnds(s)
      BY <3>1, <3>3 DEF ScanTooLong, ScanEnds, TypeOK, childVars
    <3> QED BY <1>3, <3>2, <3>3
  <2>3. Fresh'
    BY <1>3 DEF Scan, ScanTooLong, ScanEnds, Fresh
  <2>4. EndOfPipe'
    BY <1>3 DEF Scan, ScanTooLong, ScanEnds, RunInv, TypeOK, EndOfPipe, childVars
  <2>5. ScannersDone' /\ WaitTold' /\ TruthfulOutcome'
    BY <1>3 DEF Scan, ScanTooLong, ScanEnds, RunInv, ScannersDone, WaitTold,
                TruthfulOutcome, childVars
  <2> QED BY <2>2, <2>3, <2>4, <2>5 DEF RunInv
<1>4. CASE Drained
  <2>1. TypeOK' /\ Fresh' /\ EndOfPipe'
    BY <1>4 DEF Drained, RunInv, TypeOK, Fresh, EndOfPipe, childVars, pipeVars
  <2>2. ScannersDone' /\ WaitTold' /\ TruthfulOutcome'
    BY <1>4 DEF Drained, RunInv, ScannersDone, WaitTold, TruthfulOutcome, childVars, pipeVars
  <2> QED BY <2>1, <2>2 DEF RunInv
<1>5. CASE CmdWait
  <2>1. TypeOK' /\ Fresh' /\ EndOfPipe'
    BY <1>5 DEF CmdWait, RunInv, TypeOK, Fresh, EndOfPipe, childVars, pipeVars
  <2>2. ScannersDone' /\ WaitTold' /\ TruthfulOutcome'
    BY <1>5 DEF CmdWait, RunInv, ScannersDone, WaitTold, TruthfulOutcome, childVars, pipeVars
  <2> QED BY <2>1, <2>2 DEF RunInv
<1>6. CASE Decide
  <2>1. TypeOK' /\ Fresh' /\ EndOfPipe'
    BY <1>6 DEF Decide, RunInv, TypeOK, Fresh, EndOfPipe, childVars, pipeVars
  <2>2. ScannersDone' /\ WaitTold'
    BY <1>6 DEF Decide, RunInv, ScannersDone, WaitTold, childVars, pipeVars
  <2>3. TruthfulOutcome'
    BY <1>6 DEF Decide, RunInv, WaitTold, TruthfulOutcome, childVars
  <2> QED BY <2>1, <2>2, <2>3 DEF RunInv
<1> QED BY <1>1, <1>2, <1>3, <1>4, <1>5, <1>6 DEF Run

(* The invariant holds at every step of a run. *)
LEMMA RunInvariant == Spec => []RunInv
<1>1. RunInv /\ [Next]_vars => RunInv'
  <2> SUFFICES ASSUME RunInv, [Next]_vars PROVE RunInv'
    OBVIOUS
  <2>1. CASE UNCHANGED vars
    BY <2>1 DEF vars, childVars, pipeVars, RunInv, TypeOK, Fresh, Untouched, EndOfPipe,
                ScannersDone, WaitTold, TruthfulOutcome
  <2> QED BY <2>1, RunKeepsInv, ProcessesKeepInv, CancelKeepsInv DEF Next
<1> QED BY <1>1, InitRun, PTL DEF Spec

(* The state of a run has its type: no scanner reads more than was written.*)
THEOREM RunTypeCorrect == Spec => []TypeOK
<1>1. RunInv => TypeOK
  BY DEF RunInv
<1> QED BY <1>1, RunInvariant, PTL

(* When cmd.Wait closes the pipes, everything in them has been passed on,  *)
(* except behind an overlong line.                                         *)
THEOREM OutputComplete == Spec => []NothingLost
<1>1. RunInv => NothingLost
  BY DEF RunInv, TypeOK, EndOfPipe, ScannersDone, Untouched, NothingLost
<1> QED BY <1>1, RunInvariant, PTL

(* Run's error leads execute() to the status that fits what the child did. *)
THEOREM OutcomeTruthful == Spec => []TruthfulOutcome
<1>1. RunInv => TruthfulOutcome
  BY DEF RunInv
<1> QED BY <1>1, RunInvariant, PTL
=============================================================================
