------------------------------- MODULE Runsc -------------------------------
(***************************************************************************)
(* One container run (rinser/runsc.go): the call of runsc by a stage of a  *)
(* job, the two goroutines that scan the output of the process it starts,  *)
(* that process, and the context of the job.                               *)
(*                                                                         *)
(* Lines are counted, not told apart: the scanners hand them over one by   *)
(* one and in order.  Log and configuration files are left out.  The       *)
(* operating system and os/exec are modelled by what runsc sees of them.   *)
(***************************************************************************)
EXTENDS Naturals

CONSTANTS
    MaxLines,     \* bound: lines the process writes to each stream
    PipeSize,     \* lines a pipe holds before its writer blocks
    HandlerFails, \* may outhandler return an error? (runTesseract's does)
    Orderly,      \* does stdout stay open and scannable as long as the process
                  \*   lives?  bufio.Scanner gives up on a line of 64 kB
    Signals       \* may anyone but runsc kill the process with a signal?

ASSUME BoundAssumption == MaxLines \in Nat /\ PipeSize \in Nat \ {0}

ASSUME OutputAssumption == {HandlerFails, Orderly, Signals} \subseteq BOOLEAN

Streams == {"out", "err"}

VARIABLES
    ctx,      \* the context of the job: "live" or "dead"
    child,    \* the process: "none", "running", "killed" (sent a SIGKILL that
              \*   has yet to take effect), or how it ended
    reaped,   \* cmd.ProcessState is set
    open,     \* the streams the process can still write to
    readable, \* the streams runsc can still read from
    written,  \* how many lines were written to each stream
    unread,   \* how many of them are in the pipe
    reader,   \* the goroutine that scans the stream: "none", "scan", "send"
              \*   (it has a line), or "closed": its channel is closed
    handled,  \* how many lines of each stream were logged and handled
    main,     \* where runsc is
    err       \* the error it has

pipeVars == <<open, readable, written, unread>>
vars     == <<ctx, child, reaped, pipeVars, reader, handled, main, err>>

Ended == {"exit0", "exitOther", "signaled"}

Alive == {"running", "killed"}

Init ==
    /\ ctx = "live"
    /\ child = "none"
    /\ reaped = FALSE
    /\ open = {}
    /\ readable = {}
    /\ written = [s \in Streams |-> 0]
    /\ unread = [s \in Streams |-> 0]
    /\ reader = [s \in Streams |-> "none"]
    /\ handled = [s \in Streams |-> 0]
    /\ main = "start"
    /\ err = "none"

-----------------------------------------------------------------------------
(* runsc                                                                   *)

\* The log, config.json, the data directory, a pipe or the process cannot be
\* made; the deferred function finds no process.
CannotStart ==
    /\ main = "start"
    /\ main' = "returned"
    /\ err' = "start"
    /\ UNCHANGED <<ctx, child, reaped, pipeVars, reader, handled>>

\* cmd.Start and the two go statements.
Start ==
    /\ main = "start"
    /\ main' = "loop"
    /\ child' = "running"
    /\ open' = Streams
    /\ readable' = Streams
    /\ reader' = [s \in Streams |-> "scan"]
    /\ UNCHANGED <<ctx, reaped, written, unread, handled, err>>

\* The loop ends with an error: the deferred function is next.
Leave(e) == main' = "deferred" /\ err' = e

\* The reader is free to scan on once its line was received.
ReaderFree == "scan"

\* A line comes over the channel of stream s and is handled.
Receive(s) ==
    /\ main = "loop"
    /\ reader[s] = "send"
    /\ reader' = [reader EXCEPT ![s] = ReaderFree]
    /\ handled' = [handled EXCEPT ![s] = @ + 1]
    /\ \/ UNCHANGED <<main, err>>
       \/ HandlerFails /\ Leave("handler")
    /\ UNCHANGED <<ctx, child, reaped, pipeVars>>

\* Mutation: the context is not looked at.
WaitAnyway == main' = "wait" /\ UNCHANGED err

\* The end of stdout may be the end of the process or of the context.
WaitUnlessDead ==
    \/ ctx = "live" /\ main' = "wait" /\ UNCHANGED err
    \/ ctx = "dead" /\ Leave("context")

\* The channel of stdout is closed.  That of stderr says nothing.
OutClosed ==
    /\ main = "loop"
    /\ reader["out"] = "closed"
    /\ WaitUnlessDead
    /\ UNCHANGED <<ctx, child, reaped, pipeVars, reader, handled>>

\* Mutation: the select of the loop has no case for the context.
NotSelected == FALSE

CtxSelected == ctx = "dead"

CtxDone ==
    /\ main = "loop"
    /\ CtxSelected
    /\ Leave("context")
    /\ UNCHANGED <<ctx, child, reaped, pipeVars, reader, handled>>

\* cmd.Wait waits for the process alone, then closes runsc's ends of the pipes.
\* The deferred function has nothing to do after an exit.
Wait ==
    /\ main = "wait"
    /\ child \in Ended
    /\ reaped' = TRUE
    /\ readable' = {}
    /\ \/ child = "exit0" /\ main' = "returned" /\ UNCHANGED err
       \/ child # "exit0" /\ Leave("exit")
    /\ UNCHANGED <<ctx, child, open, written, unread, reader, handled>>

\* Mutation: a process that was not waited for is not killed.
MustKillReaped == reaped /\ child = "signaled"

\* cmd.ProcessState == nil || !cmd.ProcessState.Exited()
MustKill == ~reaped \/ child = "signaled"

\* The deferred function.  Kill of a process that was waited for is an error,
\* and panics; of one that ended but was not, it does nothing; of one that runs,
\* it sends the signal and does not wait.
Deferred ==
    /\ main = "deferred"
    /\ IF ~MustKill
       THEN main' = "returned" /\ UNCHANGED child
       ELSE IF reaped
       THEN main' = "panicked" /\ UNCHANGED child
       ELSE /\ main' = "returned"
            /\ child' = IF child = "running" THEN "killed" ELSE child
    /\ UNCHANGED <<ctx, reaped, pipeVars, reader, handled, err>>

-----------------------------------------------------------------------------
(* The goroutines that scan                                                *)

\* lineScanner.Scan finds a line.
Scan(s) ==
    /\ reader[s] = "scan"
    /\ s \in readable
    /\ unread[s] > 0
    /\ unread' = [unread EXCEPT ![s] = @ - 1]
    /\ reader' = [reader EXCEPT ![s] = "send"]
    /\ UNCHANGED <<ctx, child, reaped, open, readable, written, handled, main, err>>

\* Scan returns false: the stream is at its end, the pipe was closed by Wait,
\* or the line is too long.
ScanEnds(s) ==
    /\ reader[s] = "scan"
    /\ \/ s \notin readable
       \/ s \notin open /\ unread[s] = 0
       \/ (s = "out" => ~Orderly) /\ unread[s] > 0
    /\ reader' = [reader EXCEPT ![s] = "closed"]
    /\ UNCHANGED <<ctx, child, reaped, pipeVars, handled, main, err>>

\* Mutation: the reader sends without looking at the context.
NeverGivesUp == FALSE

GivesUp == ctx = "dead"

SendCanceled(s) ==
    /\ reader[s] = "send"
    /\ GivesUp
    /\ reader' = [reader EXCEPT ![s] = "closed"]
    /\ UNCHANGED <<ctx, child, reaped, pipeVars, handled, main, err>>

-----------------------------------------------------------------------------
(* The process and the context                                             *)

Write(s) ==
    /\ child \in Alive
    /\ s \in open
    /\ written[s] < MaxLines
    /\ unread[s] < PipeSize
    /\ written' = [written EXCEPT ![s] = @ + 1]
    /\ unread' = [unread EXCEPT ![s] = @ + 1]
    /\ UNCHANGED <<ctx, child, reaped, open, readable, reader, handled, main, err>>

CloseStream(s) ==
    /\ child \in Alive
    /\ s \in open
    /\ s = "out" => ~Orderly
    /\ open' = open \ {s}
    /\ UNCHANGED <<ctx, child, reaped, readable, written, unread, reader, handled,
                   main, err>>

End ==
    /\ child = "running"
    /\ child' \in {"exit0", "exitOther"} \union (IF Signals THEN {"signaled"} ELSE {})
    /\ open' = {}
    /\ UNCHANGED <<ctx, reaped, readable, written, unread, reader, handled, main, err>>

\* The SIGKILL of runsc takes effect.  It reaches `runsc run` alone; that gVisor
\* then ends the sandbox and its output is taken for granted.
Dies ==
    /\ child = "killed"
    /\ child' = "signaled"
    /\ open' = {}
    /\ UNCHANGED <<ctx, reaped, readable, written, unread, reader, handled, main, err>>

\* The deadline of the job, its watchdog, or Close.
CtxDies ==
    /\ ctx = "live"
    /\ ctx' = "dead"
    /\ UNCHANGED <<child, reaped, pipeVars, reader, handled, main, err>>

-----------------------------------------------------------------------------
Main ==
    \/ CannotStart \/ Start
    \/ \E s \in Streams : Receive(s)
    \/ OutClosed \/ CtxDone \/ Wait \/ Deferred

Reader(s) == Scan(s) \/ ScanEnds(s) \/ SendCanceled(s)

Container == End \/ Dies \/ \E s \in Streams : Write(s) \/ CloseStream(s)

Next == Main \/ (\E s \in Streams : Reader(s)) \/ Container \/ CtxDies

SafeSpec == Init /\ [][Next]_vars

\* Goroutines are scheduled, every job has a deadline, and a SIGKILL takes
\* effect in the end.  A process that is not killed may run for ever.
Fairness ==
    /\ WF_vars(Main)
    /\ \A s \in Streams : WF_vars(Reader(s))
    /\ WF_vars(Dies)
    /\ WF_vars(CtxDies)

Spec == SafeSpec /\ Fairness

-----------------------------------------------------------------------------
(* Properties                                                              *)

\* Every variable stays in its range.
TypeOK ==
    /\ ctx \in {"live", "dead"}
    /\ child \in {"none"} \union Alive \union Ended
    /\ reaped \in BOOLEAN
    /\ open \subseteq Streams
    /\ readable \subseteq Streams
    /\ written \in [Streams -> 0 .. MaxLines]
    /\ unread \in [Streams -> 0 .. PipeSize]
    /\ reader \in [Streams -> {"none", "scan", "send", "closed"}]
    /\ handled \in [Streams -> 0 .. MaxLines]
    /\ main \in {"start", "loop", "wait", "deferred", "returned", "panicked"}
    /\ err \in {"none", "start", "handler", "context", "exit"}

\* A run that returns nil has handled all the process ever wrote to stdout,
\* and the process exited with code 0, though its end, the end of its output
\* and the end of the context reach runsc over three channels in any order
\* (runsc.go:105-130).  runExtractMeta parses what was handled.
NilMeansAllHandled ==
    Orderly /\ main = "returned" /\ err = "none" =>
        child = "exit0" /\ handled["out"] = written["out"]

\* When runsc has returned, however it did, its process has ended or has been
\* sent a SIGKILL.  The second, after which it may still write for a while, only
\* happens when the context is dead or the handler refused a line: the cases in
\* which Job.tla lets a container outlive its stage (runsc.go:66-75,
\* README.md:63-64).
SurvivorsAreKilled ==
    main = "returned" =>
        /\ child # "running"
        /\ child = "killed" => ctx = "dead" \/ err = "handler"

\* A canceled run returns, whatever its process writes and whether or not it
\* exits, if it is orderly: what Job.tla assumes of the stages with its fairness.
\* It fails if the process is not (run runsc_hang).
CanceledRunReturns == ctx = "dead" ~> main = "returned"

\* The goroutines that scan end as well, though nobody receives from them once
\* runsc has returned, and runsc has not closed the pipes (runsc.go:82-103).
ReadersEnd ==
    main = "returned" ~> \A s \in Streams : reader[s] \in {"none", "closed"}

\* runsc.go:69-71: the deferred function takes it that Kill has no error.
KillSucceeds == main # "panicked"

=============================================================================
