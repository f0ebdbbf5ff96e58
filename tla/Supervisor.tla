----------------------------- MODULE Supervisor ------------------------------
(***************************************************************************)
(* One run of a server process: ProcessSupervisor.Run of supervisor.go     *)
(* with the goroutines around the child (console relay, output pumps,      *)
(* readiness probe, the waiter of cmd.Wait), the pipe to the child's       *)
(* standard input, and the control channels of control.go and qmp.go.      *)
(*                                                                         *)
(* Deadlines are actions that may be taken at any time. The child, the     *)
(* user at the console and the panel do as they like.                      *)
(***************************************************************************)
EXTENDS Integers, Sequences, SequencesExt

CONSTANTS
    Modes,        \* the control modes to look at
    PipeCapacity, \* commands that fit in the child's stdin pipe
    MaxLines      \* bound on the lines typed at the console

ASSUME SupervisorParameters ==
    /\ Modes \subseteq {"stdin", "network", "signal", "qmp"} \* network: source-rcon and telnet
    /\ PipeCapacity \in Nat \ {0} /\ MaxLines \in Nat

Streams == {"stdout", "stderr"}

VARIABLES
    mode, regex,  \* control.Mode; whether readiness comes from the output or from a probe
    pc,           \* where Run is
    result,       \* what Run returns
    hook,         \* BeforeStart: "no", "prepared", "cleaned"
    child,        \* the leader of the process group: "none", "running", "exited"
    family,       \* whether descendants of the child are alive
    told,         \* what the child was told: "stop", "int", "term", "kill"
    reading,      \* whether the child still reads its stdin
    pipe,         \* the commands in the stdin pipe
    stdinClosed,  \* closed of synchronizedProcessStdin
    ready,        \* the channel of the same name holds a value
    announced,    \* how often READY was printed
    lines,        \* per stream, whether a line that matches waits to be read
    reaped,       \* the channel done holds a value
    relay,        \* the console goroutine: "reading", "sending", "writing", "done"
    cancelled,    \* its context is cancelled and its input closed
    typed         \* lines typed so far

config == <<mode, regex>>
kid == <<child, family, told, reading>>
console == <<relay, cancelled, typed>>
output == <<ready, announced, lines>>
main == <<pc, result, hook>>
vars == <<config, main, kid, pipe, stdinClosed, output, reaped, console>>

Init ==
    /\ mode \in Modes /\ regex \in BOOLEAN
    /\ pc = "prepare" /\ result = "none" /\ hook = "no"
    /\ child = "none" /\ family = FALSE /\ told = {} /\ reading = TRUE
    /\ pipe = <<>> /\ stdinClosed = FALSE
    /\ ready = FALSE /\ announced = 0 /\ lines = [s \in Streams |-> FALSE]
    /\ reaped = FALSE
    /\ relay = "reading" /\ cancelled = FALSE /\ typed = 0

\* RepeatReadiness is set for virtual machines alone, whose control mode is qmp.
RepeatReadiness == mode = "qmp"

\* A write to the pipe fails once either of its ends is closed.
Broken == stdinClosed \/ child = "exited"

\* killGroup: the leader may take its time to die, its descendants do not.
KillGroup == /\ family' = FALSE
             /\ told' = IF child = "running" THEN told \cup {"kill"} ELSE told

------------------------------------------------------------------------------
(***************************************************************************)
(* The main goroutine.                                                     *)
(***************************************************************************)

Prepare ==
    /\ pc = "prepare"
    /\ \/ pc' = "start" /\ hook' = "prepared" /\ UNCHANGED result
       \/ pc' = "returned" /\ result' = "failed" /\ UNCHANGED hook
    /\ UNCHANGED <<config, kid, pipe, stdinClosed, output, reaped, console>>

StartChild ==
    /\ pc = "start"
    /\ \/ pc' = "select" /\ child' = "running" /\ UNCHANGED result
       \/ pc' = "return" /\ result' = "failed" /\ UNCHANGED child
    /\ UNCHANGED <<config, hook, family, told, reading, pipe, stdinClosed, output, reaped,
                   console>>

SeeReady ==
    /\ pc = "select" /\ ready
    /\ pc' = "serving" /\ ready' = FALSE
    /\ UNCHANGED <<config, result, hook, kid, pipe, stdinClosed, announced, lines, reaped,
                   console>>

\* Mutant: descendants of a process that has exited are left alone.
SeeExitOfLeader ==
    /\ pc \in {"select", "serving"} /\ reaped
    /\ pc' = "drain"
    /\ result' = IF pc = "select" THEN "exited_early" ELSE "exited"
    /\ UNCHANGED <<config, hook, kid, pipe, stdinClosed, output, reaped, console>>

SeeExit ==
    /\ pc \in {"select", "serving"} /\ reaped
    /\ pc' = "drain"
    /\ result' = IF pc = "select" THEN "exited_early" ELSE "exited"
    /\ KillGroup
    /\ UNCHANGED <<config, hook, child, reading, pipe, stdinClosed, output, reaped, console>>

\* SIGINT or SIGTERM from the panel, or the context.
SeeSignal ==
    /\ pc \in {"select", "serving"}
    /\ pc' = "join" /\ result' = "stopped"
    /\ UNCHANGED <<config, hook, kid, pipe, stdinClosed, output, reaped, console>>

ReadyTimeout ==
    /\ pc = "select"
    /\ pc' = "join" /\ result' = "unready"
    /\ UNCHANGED <<config, hook, kid, pipe, stdinClosed, output, reaped, console>>

\* stopConsoleRelay: cancel, close the input, then wait for the goroutine.
CancelRelay ==
    /\ pc = "join"
    /\ pc' = "joining" /\ cancelled' = TRUE
    /\ UNCHANGED <<config, result, hook, kid, pipe, stdinClosed, output, reaped, relay, typed>>

\* Mutant: the relay is cancelled but nobody waits for it.
JoinAtOnce ==
    /\ pc = "joining"
    /\ pc' = IF mode = "signal" THEN "interrupt" ELSE "stop"
    /\ UNCHANGED <<config, result, hook, kid, pipe, stdinClosed, output, reaped, console>>

JoinRelay ==
    /\ pc = "joining" /\ relay = "done"
    /\ pc' = IF mode = "signal" THEN "interrupt" ELSE "stop"
    /\ UNCHANGED <<config, result, hook, kid, pipe, stdinClosed, output, reaped, console>>

\* Mutant: Run waits for the relay without a deadline.
JoinForever ==
    /\ pc = "joining" /\ relay = "done"
    /\ stdinClosed' = TRUE
    /\ pc' = IF mode \in {"signal", "stdin"} THEN "interrupt" ELSE "stop"
    /\ UNCHANGED <<config, result, hook, kid, pipe, output, reaped, console>>

\* The relay did not stop within a second: closing the descriptor frees it,
\* and the stop command cannot be written any more.
JoinTimesOut ==
    /\ pc = "joining"
    /\ stdinClosed' = TRUE
    /\ pc' = IF mode \in {"signal", "stdin"} THEN "interrupt" ELSE "stop"
    /\ UNCHANGED <<config, result, hook, kid, pipe, output, reaped, console>>

\* sendWithRetry over stdin: the write mutex, then a write that waits while
\* the pipe is full; three attempts when the pipe is broken.
SendStopOnStdin ==
    /\ pc = "stop" /\ mode = "stdin" /\ relay # "writing"
    /\ \/ Broken /\ UNCHANGED pipe
       \/ ~Broken /\ Len(pipe) < PipeCapacity /\ pipe' = Append(pipe, "stop")
    /\ pc' = "close"
    /\ UNCHANGED <<config, result, hook, kid, stdinClosed, output, reaped, console>>

\* sendWithRetry over RCON, telnet or QMP: every attempt has its deadline.
SendStopOnSocket ==
    /\ pc = "stop" /\ mode \in {"network", "qmp"}
    /\ told' \in {told, told \cup {"stop"}}
    /\ pc' = "close"
    /\ UNCHANGED <<config, result, hook, child, family, reading, pipe, stdinClosed, output,
                   reaped, console>>

Interrupt ==
    /\ pc = "interrupt"
    /\ told' = told \cup {"int"}
    /\ pc' = "close"
    /\ UNCHANGED <<config, result, hook, child, family, reading, pipe, stdinClosed, output,
                   reaped, console>>

CloseStdin ==
    /\ pc = "close"
    /\ stdinClosed' = TRUE /\ pc' = "grace"
    /\ UNCHANGED <<config, result, hook, kid, pipe, output, reaped, console>>

\* The child is gone within StopTimeout, after SIGTERM, or after SIGKILL.
Reaped ==
    /\ pc \in {"grace", "term", "kill"} /\ reaped
    /\ KillGroup
    /\ pc' = "drain"
    /\ UNCHANGED <<config, result, hook, child, reading, pipe, stdinClosed, output, reaped,
                   console>>

Terminate ==
    /\ pc = "grace"
    /\ told' = told \cup {"term"} /\ pc' = "term"
    /\ UNCHANGED <<config, result, hook, child, family, reading, pipe, stdinClosed, output,
                   reaped, console>>

Kill ==
    /\ pc = "term"
    /\ KillGroup
    /\ pc' = "kill"
    /\ UNCHANGED <<config, result, hook, child, reading, pipe, stdinClosed, output, reaped,
                   console>>

\* Not even SIGKILL had an effect within five seconds.
GiveUp ==
    /\ pc = "kill"
    /\ pc' = "drain"
    /\ result' = IF result = "unready" THEN result ELSE "unreaped"
    /\ UNCHANGED <<config, hook, kid, pipe, stdinClosed, output, reaped, console>>

\* drainPumps: until the pumps end or the deadline closes their pipes.
DrainPumps ==
    /\ pc = "drain"
    /\ pc' = "return" /\ lines' = [s \in Streams |-> FALSE]
    /\ UNCHANGED <<config, result, hook, kid, pipe, stdinClosed, ready, announced, reaped,
                   console>>

\* The deferred calls of Run, last to first.
Return ==
    /\ pc = "return"
    /\ pc' = "returned" /\ hook' = "cleaned"
    /\ cancelled' = TRUE /\ stdinClosed' = TRUE
    /\ UNCHANGED <<config, result, kid, pipe, output, reaped, relay, typed>>

Main == \/ Prepare \/ StartChild \/ SeeReady \/ SeeExit \/ ReadyTimeout \/ CancelRelay
        \/ JoinRelay \/ JoinTimesOut \/ SendStopOnStdin \/ SendStopOnSocket \/ Interrupt
        \/ CloseStdin \/ Reaped \/ Terminate \/ Kill \/ GiveUp \/ DrainPumps \/ Return

Started == child # "none" /\ pc # "returned"

------------------------------------------------------------------------------
(***************************************************************************)
(* Readiness: the pumps match lines of the output, or a probe (a delay or  *)
(* a TCP connection) succeeds.                                             *)
(***************************************************************************)

MarkReady ==
    /\ announced' = IF announced = 0 \/ (RepeatReadiness /\ announced < 2) THEN announced + 1
                                                                          ELSE announced
    /\ ready' = (ready \/ announced = 0)

Pump(s) ==
    /\ Started /\ lines[s]
    /\ lines' = [lines EXCEPT ![s] = FALSE]
    /\ MarkReady
    /\ UNCHANGED <<config, main, kid, pipe, stdinClosed, reaped, console>>

\* waitTCPReady and the delay end with Run's context, that is when it returns.
Probe ==
    /\ Started /\ ~regex /\ announced = 0
    /\ MarkReady
    /\ UNCHANGED <<config, main, kid, pipe, stdinClosed, lines, reaped, console>>

\* The goroutine of cmd.Wait, which closes the read ends of the output: what
\* the pumps have not read by then is lost.
Wait ==
    /\ Started /\ child = "exited" /\ ~reaped
    /\ reaped' = TRUE
    /\ \/ UNCHANGED lines
       \/ lines' = [s \in Streams |-> FALSE]
    /\ UNCHANGED <<config, main, kid, pipe, stdinClosed, ready, announced, console>>

------------------------------------------------------------------------------
(***************************************************************************)
(* The console relay.                                                      *)
(***************************************************************************)

\* The line relay looks at its context between a read and the send, the raw
\* relay of QMP before the read.
ReadLine ==
    /\ Started /\ relay = "reading" /\ typed < MaxLines
    /\ typed' = typed + 1
    /\ relay' = IF cancelled /\ mode # "qmp" THEN "done" ELSE "sending"
    /\ UNCHANGED <<config, main, kid, pipe, stdinClosed, output, reaped, cancelled>>

\* The console ends, or its reader is woken by the close of the input. An
\* os.Stdin in blocking mode is not woken.
EndOfInput ==
    /\ Started \/ cancelled
    /\ relay = "reading"
    /\ relay' = "done"
    /\ UNCHANGED <<config, main, kid, pipe, stdinClosed, output, reaped, cancelled, typed>>

\* sender: over the network or refused (signal), at once or within its
\* deadline; over stdin it takes the write mutex and looks at closed.
SendLine ==
    /\ relay = "sending"
    /\ relay' = IF mode \in {"network", "signal"} \/ stdinClosed THEN "reading" ELSE "writing"
    /\ UNCHANGED <<config, main, kid, pipe, stdinClosed, output, reaped, cancelled, typed>>

\* Mutant: Close waits for the write mutex, so a blocked write is never freed.
WriteLineUninterrupted ==
    /\ relay = "writing"
    /\ child = "exited" \/ Len(pipe) < PipeCapacity
    /\ pipe' = IF Broken THEN pipe ELSE Append(pipe, "user")
    /\ relay' = "reading"
    /\ UNCHANGED <<config, main, kid, stdinClosed, output, reaped, cancelled, typed>>

WriteLine ==
    /\ relay = "writing"
    /\ Broken \/ Len(pipe) < PipeCapacity
    /\ pipe' = IF Broken THEN pipe ELSE Append(pipe, "user")
    /\ relay' = "reading"
    /\ UNCHANGED <<config, main, kid, stdinClosed, output, reaped, cancelled, typed>>

Relay == SendLine \/ WriteLine

------------------------------------------------------------------------------
(***************************************************************************)
(* The child process.                                                      *)
(***************************************************************************)

Fork == /\ child = "running" /\ ~family /\ "kill" \notin told
        /\ family' = TRUE
        /\ UNCHANGED <<config, main, child, told, reading, pipe, stdinClosed, output, reaped,
                       console>>

\* A line that matches a readiness pattern; the others are only forwarded.
PrintLine(s) ==
    /\ child = "running" /\ regex /\ ~lines[s]
    /\ lines' = [lines EXCEPT ![s] = TRUE]
    /\ UNCHANGED <<config, main, kid, pipe, stdinClosed, ready, announced, reaped, console>>

ReadStdin ==
    /\ child = "running" /\ reading /\ pipe # <<>>
    /\ pipe' = Tail(pipe)
    /\ told' = IF Head(pipe) = "stop" THEN told \cup {"stop"} ELSE told
    /\ UNCHANGED <<config, main, child, family, reading, stdinClosed, output, reaped, console>>

\* Its stdin is of interest to the models of pipe writers only.
Hang == /\ child = "running" /\ reading /\ mode \in {"stdin", "qmp"}
        /\ reading' = FALSE
        /\ UNCHANGED <<config, main, child, family, told, pipe, stdinClosed, output, reaped,
                       console>>

\* By itself, because it was asked to, or killed; a killed process that is
\* stuck in the kernel may never exit.
Exit == /\ child = "running"
        /\ child' = "exited"
        /\ UNCHANGED <<config, main, family, told, reading, pipe, stdinClosed, output, reaped,
                       console>>

Child == Fork \/ ReadStdin \/ Hang \/ Exit \/ \E s \in Streams : PrintLine(s)

------------------------------------------------------------------------------

Done == pc = "returned" /\ UNCHANGED vars

Next == \/ Main \/ SeeSignal \/ Probe \/ Wait \/ Relay \/ ReadLine \/ EndOfInput \/ Child
        \/ (\E s \in Streams : Pump(s)) \/ Done

Spec == Init /\ [][Next]_vars

\* Goroutines run, deadlines pass. Nothing is assumed of the child, the
\* console or the panel.
FairSpec == Spec /\ WF_vars(Main) /\ WF_vars(Relay) /\ WF_vars(Wait)

------------------------------------------------------------------------------

RunOK ==
    /\ mode \in Modes
    /\ pc \in {"prepare", "start", "select", "serving", "join", "joining", "stop", "interrupt",
               "close", "grace", "term", "kill", "drain", "return", "returned"}
    /\ result \in {"none", "failed", "exited_early", "exited", "stopped", "unready", "unreaped"}
    /\ hook \in {"no", "prepared", "cleaned"}

ChildOK == /\ child \in {"none", "running", "exited"}
           /\ told \subseteq {"stop", "int", "term", "kill"}

PipeOK == pipe \in Seq({"user", "stop"}) /\ Len(pipe) <= PipeCapacity

OutputOK == announced \in 0 .. 2 /\ lines \in [Streams -> BOOLEAN]

RelayOK == relay \in {"reading", "sending", "writing", "done"} /\ typed \in 0 .. MaxLines

FlagsOK == /\ regex \in BOOLEAN /\ family \in BOOLEAN /\ reading \in BOOLEAN
           /\ stdinClosed \in BOOLEAN /\ ready \in BOOLEAN /\ reaped \in BOOLEAN
           /\ cancelled \in BOOLEAN

TypeOK == RunOK /\ ChildOK /\ PipeOK /\ OutputOK /\ RelayOK /\ FlagsOK

\* No console command follows the stop command into the server's stdin, nor is
\* one on its way when it is sent: Run joins the relay, or gives up stdin,
\* before it sends the stop command.
StopCommandIsLast ==
    mode = "stdin" => /\ pc = "stop" => relay = "done"
                      /\ ("stop" \in told \/ "stop" \in ToSet(pipe)) => relay = "done"

\* When Run has returned, no process of the server's group is left, on any
\* path, but for a leader that survived SIGKILL and a Run that says so (or has
\* already said that the server did not become ready).
NothingOutlivesRun ==
    pc = "returned" => /\ ~family
                       /\ child = "running" => /\ "kill" \in told
                                               /\ result \in {"unreaped", "unready"}

\* Run waits for a child that does not read its input to make room for the
\* stop command, in a write that nothing interrupts.
HeldHostage == pc = "stop" /\ mode = "stdin" /\ Len(pipe) = PipeCapacity

\* Every stop request and every missed readiness ends in Run's return, whatever
\* the child, the relay and the pumps do, but for HeldHostage.
StopEnds == (pc = "join") ~> (pc = "returned" \/ HeldHostage)

\* The relay goroutine is never left blocked in a write to the child.
RelayIsReleased == (pc = "returned") ~> (relay \in {"reading", "done"})

\* supervisor.go:39: escalation is never held hostage by console input.
EscalationIsNotHeldHostage == (pc = "join") ~> (pc = "returned")

==============================================================================
