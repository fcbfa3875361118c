----------------------------- MODULE RunscProof -----------------------------
(***************************************************************************)
(* Proofs about Runsc, for any number of lines and any size of the pipes.  *)
(*                                                                         *)
(* NilMeansAllHandled is not inductive.  What makes it so is an account of *)
(* the lines (Flow), kept as long as a reader has not closed its channel,  *)
(* and the reason why stdout's was closed: as long as the context lives it *)
(* can only have been the end of the process (OutRead), and runsc goes to  *)
(* wait for the process only if the context still lives then.              *)
(***************************************************************************)
EXTENDS Runsc, TLAPS

\* Lines written are handled, in the pipe, or in the hands of the reader.
InHand(s) == IF reader[s] = "send" THEN 1 ELSE 0

Flow ==
    \A s \in Streams :
        reader[s] # "closed" => written[s] = handled[s] + unread[s] + InHand(s)

\* What is there before, during and after the process.
Process ==
    /\ child = "none" => reader = [s \in Streams |-> "none"]
    /\ child # "none" => \A s \in Streams : reader[s] # "none"
    /\ child \notin Alive => open = {}
    /\ child \in Alive /\ Orderly => "out" \in open
    /\ reaped => child \in Ended
    /\ readable = IF child # "none" /\ ~reaped THEN Streams ELSE {}

\* What runsc knows at each of its places.
Control ==
    /\ main = "start" => child = "none"
    /\ main \in {"loop", "wait", "deferred"} => child # "none"
    /\ main \in {"start", "loop", "wait"} => err = "none" /\ ~reaped
    /\ main \in {"deferred", "panicked"} => err # "none"
    /\ main = "wait" \/ reaped => reader["out"] = "closed"
    /\ main = "returned" => child # "running"
    /\ child = "killed" => main = "returned" /\ err \in {"context", "handler"}
    /\ err = "context" => ctx = "dead"
    /\ err = "exit" => reaped
    /\ err = "start" => child = "none"
    /\ main = "returned" /\ err = "none" => child = "exit0" /\ reaped

\* Has runsc, or would it have, gone to wait for the process?
Awaited == ctx = "live" \/ main = "wait" \/ (main = "returned" /\ err = "none")

OutRead ==
    Orderly /\ reader["out"] = "closed" /\ Awaited =>
        /\ child \notin Alive
        /\ unread["out"] = 0
        /\ handled["out"] = written["out"]

IInv == TypeOK /\ Flow /\ Process /\ Control /\ OutRead

\* The initial states satisfy the invariant.
LEMMA InitInv == Init => IInv
<1> SUFFICES ASSUME Init PROVE IInv
    OBVIOUS
<1> USE BoundAssumption DEF Init, Streams, Ended, Alive
<1>1. TypeOK
  <2>1. 0 \in 0 .. MaxLines /\ 0 \in 0 .. PipeSize
        OBVIOUS
  <2>2. /\ written \in [Streams -> 0 .. MaxLines]
        /\ handled \in [Streams -> 0 .. MaxLines]
        BY <2>1
  <2>3. unread \in [Streams -> 0 .. PipeSize]
        BY <2>1
  <2> QED
      BY <2>2, <2>3 DEF TypeOK
<1>2. Flow
      BY DEF Flow, InHand
<1>3. Process /\ Control /\ OutRead
      BY DEF Process, Control, Awaited, OutRead
<1> QED
    BY <1>1, <1>2, <1>3 DEF IInv

\* Every step keeps it: one step of the proof for each action.
LEMMA StepInv == IInv /\ [Next]_vars => IInv'
<1> SUFFICES ASSUME IInv, [Next]_vars PROVE IInv'
    OBVIOUS
<1> USE BoundAssumption, OutputAssumption
    DEF IInv, TypeOK, Flow, InHand, Process, Control, Awaited, OutRead, Streams, Ended,
        Alive
<1>1. CASE CannotStart
      BY <1>1 DEF CannotStart, pipeVars
<1>2. CASE Start
      BY <1>2 DEF Start
<1>3. ASSUME NEW s \in Streams, Receive(s) PROVE IInv'
      BY <1>3 DEF Receive, ReaderFree, Leave, pipeVars
<1>4. CASE OutClosed
      BY <1>4 DEF OutClosed, WaitUnlessDead, Leave, pipeVars
<1>5. CASE CtxDone
      BY <1>5 DEF CtxDone, CtxSelected, Leave, pipeVars
<1>6. CASE Wait
      BY <1>6 DEF Wait, Leave
<1>7. CASE Deferred
  <2>1. CASE ~MustKill
        BY <1>7, <2>1 DEF Deferred, MustKill, pipeVars
  <2>2. CASE MustKill /\ reaped
        BY <1>7, <2>2 DEF Deferred, pipeVars
  <2>3. CASE MustKill /\ ~reaped
        BY <1>7, <2>3 DEF Deferred, pipeVars
  <2> QED
        BY <2>1, <2>2, <2>3
<1>8. ASSUME NEW s \in Streams, Scan(s) PROVE IInv'
      BY <1>8 DEF Scan
<1>9. ASSUME NEW s \in Streams, ScanEnds(s) PROVE IInv'
      BY <1>9 DEF ScanEnds, pipeVars
<1>10. ASSUME NEW s \in Streams, SendCanceled(s) PROVE IInv'
      BY <1>10 DEF SendCanceled, GivesUp, pipeVars
<1>11. ASSUME NEW s \in Streams, Write(s) PROVE IInv'
      BY <1>11 DEF Write
<1>12. ASSUME NEW s \in Streams, CloseStream(s) PROVE IInv'
      BY <1>12 DEF CloseStream
<1>13. CASE End
      BY <1>13 DEF End
<1>14. CASE CtxDies
      BY <1>14 DEF CtxDies, pipeVars
<1>15. CASE Dies
      BY <1>15 DEF Dies
<1>16. CASE UNCHANGED vars
      BY <1>16 DEF vars, pipeVars
<1> QED
    BY <1>1, <1>2, <1>3, <1>4, <1>5, <1>6, <1>7, <1>8, <1>9, <1>10, <1>11, <1>12,
       <1>13, <1>14, <1>15, <1>16
    DEF Next, Main, Reader, Container

\* The inductive invariant holds in every state of a run.
THEOREM Invariance == SafeSpec => []IInv
  BY InitInv, StepInv, PTL DEF SafeSpec

\* Every variable stays in its range, for any number of lines.
THEOREM TypeCorrect == SafeSpec => []TypeOK
<1> IInv => TypeOK
    BY DEF IInv
<1> QED BY Invariance, PTL

\* A run that returns nil handled everything its process wrote to stdout.
THEOREM AllHandled == SafeSpec => []NilMeansAllHandled
<1> IInv => NilMeansAllHandled
    BY DEF IInv, Control, Awaited, OutRead, NilMeansAllHandled
<1> QED BY Invariance, PTL

\* A run leaves no process behind but one it has sent a SIGKILL, because the
\* context was dead or the handler refused a line.
THEOREM OnlyKilledSurvive == SafeSpec => []SurvivorsAreKilled
<1> IInv => SurvivorsAreKilled
    BY DEF IInv, Control, SurvivorsAreKilled
<1> QED BY Invariance, PTL

=============================================================================
