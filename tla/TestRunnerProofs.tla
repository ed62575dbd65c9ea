-------------------------- MODULE TestRunnerProofs --------------------------
(***************************************************************************)
(* What the runner's exit code and report can be trusted for, whatever the *)
(* exit codes of the command and the number of signals.                    *)
(***************************************************************************)
EXTENDS TestRunner, TLAPS

\* Where main is past cmd.Wait, and where it is past the join.
Waited == {"stop", "untrap", "join", "settle", "print", "quit"}
Joined == {"settle", "print", "quit"}

RunnerInv ==
    /\ TypeOK
    /\ main \in Joined => Sampled
    /\ main \in {"wait"} \cup Waited => started
    /\ main \in {"snapshot", "trap", "start", "abort"} => ~started
    /\ main \in Waited => command # Running
    /\ sent = 0 => queued = 0 /\ ~terminated
    /\ main \in {"print", "quit"} \/ (main = "exited" /\ started) =>
          /\ command # Running
          /\ exit # NoCode
          /\ exit = 0 => command = 0
          /\ sent = 0 => exit = CommandCode
    /\ main = "quit" \/ (main = "exited" /\ started) => reported
    /\ main = "exited" /\ ~started => exit = 1
    /\ main \notin {"print", "quit", "exited", "killed"} => exit = NoCode

LEMMA RunnerInit == Init => RunnerInv
<1> SUFFICES ASSUME Init PROVE RunnerInv
  OBVIOUS
<1>1. /\ stop \in BOOLEAN /\ trapped \in BOOLEAN /\ terminated \in BOOLEAN
      /\ started \in BOOLEAN /\ signalled \in BOOLEAN /\ reported \in BOOLEAN
  BY Zenon DEF Init
<1>2. queued \in 0..SigBuffer /\ sent \in 0..MaxSignals
  BY SignalsAssumption DEF Init, SigBuffer
<1>3. TypeOK
  BY <1>1, <1>2 DEF Init, TypeOK, Statuses
<1> QED BY <1>3 DEF Init, RunnerInv, Joined, Waited

LEMMA RunnerStep == RunnerInv /\ [Next]_vars => RunnerInv'
<1> SUFFICES ASSUME RunnerInv, [Next]_vars PROVE RunnerInv'
  OBVIOUS
<1> USE CodesAssumption, SignalsAssumption DEF RunnerInv, TypeOK, Statuses, SigBuffer, Joined, Waited,
        Alive, Sampled, Main, Sample, signals, child, outcome, CommandCode,
        Interrupted, MinusOne
<1>0. CASE Usage
  BY <1>0 DEF Usage
<1>1. CASE Snapshot
  BY <1>1 DEF Snapshot
<1>2. CASE Trap
  BY <1>2 DEF Trap
<1>3. CASE StartCommand
  BY <1>3 DEF StartCommand
<1>4. CASE StartFails
  BY <1>4 DEF StartFails
<1>5. CASE Abort
  BY <1>5 DEF Abort
<1>6. CASE WaitReturns
  BY <1>6 DEF WaitReturns
<1>7. CASE StopSampling
  BY <1>7 DEF StopSampling
<1>8. CASE Untrap
  <2>1. trapped' \in BOOLEAN
    BY <1>8, Zenon DEF Untrap
  <2> QED BY <1>8, <2>1 DEF Untrap
<1>9. CASE Join
  BY <1>9 DEF Join
<1>10. CASE Settle
  <2>1. command \in Codes \cup {Killed}
    BY <1>10 DEF Settle
  <2>2. /\ exit' \in Codes \cup {Interrupted, MinusOne}
        /\ exit' # NoCode
        /\ exit' = 0 => command = 0
        /\ sent = 0 => exit' = CommandCode
    <3>1. PICK seen \in {FALSE, terminated} :
             exit' = IF seen THEN Interrupted ELSE CommandCode
      BY <1>10, Zenon DEF Settle
    <3>2. CASE seen
      <4>1. exit' = Interrupted
        BY <3>1, <3>2, Zenon
      <4>2. terminated
        BY <3>2, Zenon
      <4>3. sent # 0
        BY <4>2, Zenon
      <4> QED BY <4>1, <4>3
    <3>3. CASE ~seen
      <4>1. exit' = CommandCode
        BY <3>1, <3>3, Zenon
      <4> QED BY <2>1, <4>1
    <3> QED BY <3>2, <3>3
  <2>3. TypeOK'
    BY <1>10, <2>2 DEF Settle
  <2> QED BY <1>10, <2>2, <2>3 DEF Settle
<1>11. CASE PrintReport
  BY <1>11 DEF PrintReport
<1>12. CASE Quit
  BY <1>12 DEF Quit
<1>13. CASE Tick
  BY <1>13 DEF Tick
<1>14. CASE PollEnds
  BY <1>14 DEF PollEnds
<1>15. CASE Update
  BY <1>15 DEF Update
<1>16. CASE SamplerStops
  BY <1>16 DEF SamplerStops
<1>17. CASE Signal
  BY <1>17 DEF Signal
<1>18. CASE ReceiveSignal
  BY <1>18 DEF ReceiveSignal
<1>19. CASE ForwardSignal
  BY <1>19 DEF ForwardSignal
<1>20. CASE CommandEnds
  BY <1>20 DEF CommandEnds
<1>21. CASE UNCHANGED vars
  BY <1>21 DEF vars
<1> QED
  BY <1>0, <1>1, <1>2, <1>3, <1>4, <1>5, <1>6, <1>7, <1>8, <1>9, <1>10, <1>11,
     <1>12, <1>13, <1>14, <1>15, <1>16, <1>17, <1>18, <1>19, <1>20, <1>21
     DEF Next, MainStep, Ended

LEMMA RunnerInvariant == Spec => []RunnerInv
BY RunnerInit, RunnerStep, PTL DEF Spec

\* Type correctness, whatever the exit codes and the number of signals.
THEOREM RunnerTypes == Spec => []TypeOK
<1>1. RunnerInv => TypeOK
  BY DEF RunnerInv
<1> QED BY <1>1, RunnerInvariant, PTL

\* The report never races with the sampler.
THEOREM ReportsFinalMetrics == Spec => []MetricsAreFinal
<1>1. RunnerInv => MetricsAreFinal
  BY DEF RunnerInv, MetricsAreFinal, Sampled, Joined
<1> QED BY <1>1, RunnerInvariant, PTL

\* Exit code 0 means that the command ran, exited 0 and was reported on.
THEOREM ZeroMeansSuccess == Spec => []SuccessIsReal
<1>1. RunnerInv => SuccessIsReal
  BY DEF RunnerInv, SuccessIsReal
<1> QED BY <1>1, RunnerInvariant, PTL

\* Without signals the exit code is the command's.
THEOREM CodeIsTheCommands == Spec => []UnsignalledCodePreserved
<1>1. RunnerInv => UnsignalledCodePreserved
  BY DEF RunnerInv, UnsignalledCodePreserved, CommandCode
<1> QED BY <1>1, RunnerInvariant, PTL
=============================================================================
