--------------------------- MODULE SupervisorProofs ----------------------------
(***************************************************************************)
(* Proofs about Supervisor: the stop command is the last one the server    *)
(* reads from its stdin, and no process of the server outlives Run.        *)
(***************************************************************************)
EXTENDS Supervisor, SequenceTheorems, TLAPS

Commands == {"user", "stop"}

\* How the content of the stdin pipe changes.
LEMMA AppendInPipe ==
    ASSUME NEW p \in Seq(Commands), NEW c \in Commands, Len(p) < PipeCapacity
    PROVE  Append(p, c) \in Seq(Commands) /\ Len(Append(p, c)) <= PipeCapacity
           /\ ToSet(Append(p, c)) = ToSet(p) \cup {c}
BY SupervisorParameters DEF ToSet

LEMMA TailOfPipe ==
    ASSUME NEW p \in Seq(Commands), p # <<>>, Len(p) <= PipeCapacity
    PROVE  /\ Tail(p) \in Seq(Commands) /\ Len(Tail(p)) <= PipeCapacity
           /\ ToSet(Tail(p)) \subseteq ToSet(p) /\ Head(p) \in ToSet(p)
BY SupervisorParameters DEF ToSet

------------------------------------------------------------------------------
(***************************************************************************)
(* The inductive invariant.                                                *)
(***************************************************************************)

\* What Run leaves at its end.
GroupIsGone ==
    ~family /\ (child = "running" => "kill" \in told /\ result \in {"unreaped", "unready"})

Group ==
    /\ pc \in {"prepare", "start"} => child = "none"
    /\ child = "none" => ~family
    /\ reaped => child = "exited"
    /\ pc = "kill" => ~family /\ (child = "running" => "kill" \in told)
    /\ pc \in {"drain", "return", "returned"} => GroupIsGone

Inv == TypeOK /\ StopCommandIsLast /\ Group

------------------------------------------------------------------------------

LEMMA InitEstablishesInv == Init => Inv
<1> SUFFICES ASSUME Init PROVE Inv
  OBVIOUS
<1> USE SupervisorParameters DEF Init
<1>1. RunOK /\ ChildOK
  BY DEF RunOK, ChildOK
<1>2. PipeOK /\ OutputOK
  BY DEF PipeOK, OutputOK
<1>3. RelayOK
  BY DEF RelayOK
<1>4. FlagsOK
  BY DEF FlagsOK
<1>5. StopCommandIsLast /\ Group
  BY DEF StopCommandIsLast, Group, GroupIsGone, ToSet
<1> QED BY <1>1, <1>2, <1>3, <1>4, <1>5 DEF Inv, TypeOK

LEMMA PipeStaysOK == ASSUME PipeOK, [Next]_vars PROVE PipeOK'
<1> USE DEF PipeOK
<1>0. "user" \in Commands /\ "stop" \in Commands
  BY DEF Commands
<1>1. CASE SendStopOnStdin
  BY <1>0, <1>1, AppendInPipe DEF SendStopOnStdin, Commands
<1>2. CASE WriteLine
  BY <1>0, <1>2, AppendInPipe DEF WriteLine, Broken, Commands
<1>3. CASE ReadStdin
  BY <1>3, TailOfPipe DEF ReadStdin, Commands
<1>4. CASE UNCHANGED pipe
  BY <1>4
<1> QED BY <1>1, <1>2, <1>3, <1>4
        DEF Next, Main, Prepare, StartChild, SeeReady, SeeExit, SeeSignal, ReadyTimeout,
            CancelRelay, JoinRelay, JoinTimesOut, SendStopOnSocket, Interrupt, CloseStdin, Reaped,
            Terminate, Kill, GiveUp, DrainPumps, Return, Probe, Wait, Relay, SendLine, ReadLine,
            EndOfInput, Child, Fork, Hang, Exit, PrintLine, Pump, Done, vars

LEMMA TypesStayOK ==
    ASSUME [Next]_vars
    PROVE  /\ RunOK => RunOK'
           /\ ChildOK => ChildOK'
           /\ OutputOK => OutputOK'
           /\ RelayOK => RelayOK'
           /\ FlagsOK => FlagsOK'
<1> USE DEF config, main, kid, output, console
<1>1. RunOK => RunOK'
  BY DEF Next, Main, Prepare, StartChild, SeeReady, SeeExit, SeeSignal, ReadyTimeout, CancelRelay,
         JoinRelay, JoinTimesOut, SendStopOnStdin, SendStopOnSocket, Interrupt, CloseStdin, Reaped,
         Terminate, Kill, GiveUp, DrainPumps, Return, KillGroup, Probe, MarkReady, Wait, Relay,
         SendLine, WriteLine, ReadLine, EndOfInput, Child, Fork, ReadStdin, Hang, Exit, PrintLine,
         Pump, Done, vars,
         RunOK
<1>2. ChildOK => ChildOK'
  BY DEF Next, Main, Prepare, StartChild, SeeReady, SeeExit, SeeSignal, ReadyTimeout, CancelRelay,
         JoinRelay, JoinTimesOut, SendStopOnStdin, SendStopOnSocket, Interrupt, CloseStdin, Reaped,
         Terminate, Kill, GiveUp, DrainPumps, Return, KillGroup, Probe, MarkReady, Wait, Relay,
         SendLine, WriteLine, ReadLine, EndOfInput, Child, Fork, ReadStdin, Hang, Exit, PrintLine,
         Pump, Done, vars,
         ChildOK
<1>3. OutputOK => OutputOK'
  <2>1. ASSUME NEW s \in Streams, Pump(s) PROVE OutputOK => OutputOK'
    BY <2>1 DEF Pump, MarkReady, OutputOK
  <2>2. ASSUME NEW s \in Streams, PrintLine(s) PROVE OutputOK => OutputOK'
    BY <2>2 DEF PrintLine, OutputOK
  <2>3. CASE Probe \/ Wait \/ DrainPumps
    <3>1. announced \in 0 .. 2 => announced' \in 0 .. 2
      BY <2>3 DEF Probe, Wait, DrainPumps, MarkReady
    <3>2. lines \in [Streams -> BOOLEAN] => lines' \in [Streams -> BOOLEAN]
      BY <2>3 DEF Probe, Wait, DrainPumps
    <3> QED BY <3>1, <3>2 DEF OutputOK
  <2>4. CASE UNCHANGED <<announced, lines>>
    BY <2>4 DEF OutputOK
  <2>5. CASE Main \/ SeeSignal
    BY <2>3, <2>4, <2>5
       DEF Main, Prepare, StartChild, SeeReady, SeeExit, SeeSignal, ReadyTimeout, CancelRelay,
           JoinRelay, JoinTimesOut, SendStopOnStdin, SendStopOnSocket, Interrupt, CloseStdin,
           Reaped, Terminate, Kill, GiveUp, Return
  <2>6. CASE Relay \/ ReadLine \/ EndOfInput \/ Fork \/ ReadStdin \/ Hang \/ Exit
    BY <2>4, <2>6 DEF Relay, SendLine, WriteLine, ReadLine, EndOfInput, Fork, ReadStdin, Hang, Exit
  <2>7. CASE Done \/ UNCHANGED vars
    BY <2>4, <2>7 DEF Done, vars
  <2> QED BY <2>1, <2>2, <2>3, <2>5, <2>6, <2>7 DEF Next, Child
<1>4. RelayOK => RelayOK'
  <2> USE DEF RelayOK
  <2>1. CASE CancelRelay \/ Return \/ SendLine \/ WriteLine \/ ReadLine \/ EndOfInput
    BY <2>1, SupervisorParameters DEF CancelRelay, Return, SendLine, WriteLine, ReadLine, EndOfInput
  <2>2. CASE UNCHANGED console
    BY <2>2
  <2> QED
    BY <2>1, <2>2
       DEF Next, Main, Prepare, StartChild, SeeReady, SeeExit, SeeSignal, ReadyTimeout, JoinRelay,
           JoinTimesOut, SendStopOnStdin, SendStopOnSocket, Interrupt, CloseStdin, Reaped,
           Terminate, Kill, GiveUp, DrainPumps, KillGroup, Probe, Wait, Relay, Child, Fork,
           ReadStdin, Hang, Exit, PrintLine, Pump, Done, vars
<1>5. FlagsOK => FlagsOK'
  <2> USE DEF FlagsOK
  <2>1. CASE Prepare \/ StartChild \/ SeeReady \/ SeeExit \/ SeeSignal \/ ReadyTimeout
    BY <2>1 DEF Prepare, StartChild, SeeReady, SeeExit, SeeSignal, ReadyTimeout, KillGroup
  <2>2. CASE CancelRelay \/ JoinRelay \/ JoinTimesOut \/ SendStopOnStdin \/ SendStopOnSocket
    BY <2>2 DEF CancelRelay, JoinRelay, JoinTimesOut, SendStopOnStdin, SendStopOnSocket
  <2>3. CASE Interrupt \/ CloseStdin \/ Reaped \/ Terminate \/ Kill \/ GiveUp \/ DrainPumps \/ Return
    BY <2>3 DEF Interrupt, CloseStdin, Reaped, Terminate, Kill, GiveUp, DrainPumps, Return, KillGroup
  <2>4. CASE Probe \/ Wait \/ Relay \/ ReadLine \/ EndOfInput \/ \E s \in Streams : Pump(s)
    BY <2>4 DEF Probe, Wait, Relay, SendLine, WriteLine, ReadLine, EndOfInput, Pump, MarkReady
  <2>5. CASE Child
    BY <2>5 DEF Child, Fork, ReadStdin, Hang, Exit, PrintLine
  <2>6. CASE Done \/ UNCHANGED vars
    BY <2>6 DEF Done, vars
  <2> QED BY <2>1, <2>2, <2>3, <2>4, <2>5, <2>6 DEF Next, Main
<1> QED BY <1>1, <1>2, <1>3, <1>4, <1>5

------------------------------------------------------------------------------

\* The relay, once it has ended, stays so, and only then is the stop command
\* written to stdin or about to be.
LEMMA StopCommandStaysLast ==
    ASSUME Inv, [Next]_vars PROVE StopCommandIsLast'
<1> USE DEF StopCommandIsLast, config, kid, console, output, main
<1>0. TypeOK /\ StopCommandIsLast /\ pipe \in Seq(Commands) /\ Len(pipe) <= PipeCapacity
      /\ "user" \in Commands /\ "stop" \in Commands
  BY DEF Inv, TypeOK, PipeOK, Commands
<1>1. mode' = mode /\ (relay = "done" => relay' = "done")
  BY DEF Next, Main, Prepare, StartChild, SeeReady, SeeExit, SeeSignal, ReadyTimeout, CancelRelay,
         JoinRelay, JoinTimesOut, SendStopOnStdin, SendStopOnSocket, Interrupt, CloseStdin, Reaped,
         Terminate, Kill, GiveUp, DrainPumps, Return, Probe, Wait, Relay, SendLine, WriteLine,
         ReadLine, EndOfInput, Child, Fork, ReadStdin, Hang, Exit, PrintLine, Pump, Done, vars
<1>2. CASE SendStopOnStdin
  <2>1. mode = "stdin" => relay = "done"
    BY <1>0, <1>2 DEF SendStopOnStdin
  <2> QED BY <1>1, <1>2, <2>1 DEF SendStopOnStdin
<1>3. CASE WriteLine
  <2>1. "stop" \in ToSet(pipe') => "stop" \in ToSet(pipe)
    BY <1>0, <1>3, AppendInPipe DEF WriteLine, Broken
  <2> QED BY <1>0, <1>3, <2>1 DEF WriteLine
<1>4. CASE ReadStdin
  <2>1. /\ "stop" \in ToSet(pipe') => "stop" \in ToSet(pipe)
        /\ "stop" \in told' => "stop" \in told \/ "stop" \in ToSet(pipe)
    BY <1>0, <1>4, TailOfPipe DEF ReadStdin
  <2> QED BY <1>0, <1>4, <2>1 DEF ReadStdin
<1>5. CASE SendStopOnSocket
  BY <1>0, <1>5 DEF SendStopOnSocket
<1>6. CASE JoinRelay \/ JoinTimesOut
  BY <1>0, <1>6 DEF JoinRelay, JoinTimesOut
<1>7. ASSUME pipe' = pipe, "stop" \in told' => "stop" \in told, pc' # "stop" \/ pc' = pc
      PROVE  StopCommandIsLast'
  BY <1>0, <1>1, <1>7
<1>8. ASSUME ~SendStopOnStdin, ~WriteLine, ~ReadStdin, ~SendStopOnSocket, ~JoinRelay, ~JoinTimesOut
      PROVE  pipe' = pipe /\ ("stop" \in told' => "stop" \in told) /\ (pc' # "stop" \/ pc' = pc)
  BY <1>8 DEF Next, Main, Prepare, StartChild, SeeReady, SeeExit, SeeSignal, ReadyTimeout,
         CancelRelay, Interrupt, CloseStdin, Reaped, Terminate, Kill, GiveUp, DrainPumps, Return,
         KillGroup, Probe, Wait, Relay, SendLine, ReadLine, EndOfInput, Child, Fork, Hang, Exit,
         PrintLine, Pump, Done, vars
<1> QED BY <1>2, <1>3, <1>4, <1>5, <1>6, <1>7, <1>8

\* The end of the group: what is killed forks no more.
LEMMA GroupStaysSound == ASSUME Inv, [Next]_vars PROVE Group'
<1> USE DEF Group, GroupIsGone, config, kid, console, output, main
<1>0. TypeOK /\ Group
  BY DEF Inv
<1>1. CASE Prepare \/ StartChild \/ SeeReady \/ SeeSignal \/ ReadyTimeout
  BY <1>0, <1>1 DEF Prepare, StartChild, SeeReady, SeeSignal, ReadyTimeout
<1>2. CASE SeeExit \/ Reaped \/ Terminate \/ Kill
  BY <1>0, <1>2 DEF SeeExit, Reaped, Terminate, Kill, KillGroup, TypeOK, ChildOK
<1>3. CASE GiveUp \/ DrainPumps \/ Return
  BY <1>0, <1>3 DEF GiveUp, DrainPumps, Return
<1>4. CASE CancelRelay \/ JoinRelay \/ JoinTimesOut \/ SendStopOnStdin
  BY <1>0, <1>4 DEF CancelRelay, JoinRelay, JoinTimesOut, SendStopOnStdin
<1>5. CASE SendStopOnSocket \/ Interrupt \/ CloseStdin
  BY <1>0, <1>5 DEF SendStopOnSocket, Interrupt, CloseStdin
<1>6. CASE Probe \/ Wait \/ Relay \/ ReadLine \/ EndOfInput \/ \E s \in Streams : Pump(s)
  BY <1>0, <1>6 DEF Probe, Wait, Relay, SendLine, WriteLine, ReadLine, EndOfInput, Pump
<1>7. CASE Child
  BY <1>0, <1>7 DEF Child, Fork, ReadStdin, Hang, Exit, PrintLine
<1>8. CASE Done \/ UNCHANGED vars
  BY <1>0, <1>8 DEF Done, vars
<1> QED BY <1>1, <1>2, <1>3, <1>4, <1>5, <1>6, <1>7, <1>8 DEF Next, Main

LEMMA StepKeepsInv == ASSUME Inv, [Next]_vars PROVE Inv'
BY PipeStaysOK, TypesStayOK, StopCommandStaysLast, GroupStaysSound DEF Inv, TypeOK

\* What is known of the pipe, of the process group and of the steps of Run
\* (supervisor.go) is inductive, for every capacity of the pipe.
THEOREM Invariance == Spec => []Inv
BY InitEstablishesInv, StepKeepsInv, PTL DEF Spec

------------------------------------------------------------------------------

\* The state of Run, of the goroutines around it and of the child are of their
\* types; the pipe never holds more than its capacity.
THEOREM TypeCorrect == Spec => []TypeOK
BY Invariance, PTL DEF Inv

\* No console command follows the stop command into the server's stdin
\* (supervisor.go, stopConsoleRelay before sendWithRetry), for every capacity
\* of the pipe and any number of lines.
THEOREM StopCommandIsAlwaysLast == Spec => []StopCommandIsLast
BY Invariance, PTL DEF Inv

\* On no path does Run return and leave a process of the server behind, but for
\* a leader that SIGKILL did not end and that the result tells of.
THEOREM NothingEverOutlivesRun == Spec => []NothingOutlivesRun
<1>1. Inv => NothingOutlivesRun
  BY DEF Inv, Group, GroupIsGone, NothingOutlivesRun
<1> QED BY <1>1, Invariance, PTL

==============================================================================
