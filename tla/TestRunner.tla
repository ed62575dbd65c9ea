----------------------------- MODULE TestRunner -----------------------------
(***************************************************************************)
(* cmd/test-runner: the main goroutine that starts the test command, waits *)
(* for it and reports; the sampler that polls Podman meanwhile; and the    *)
(* goroutine that forwards a signal to the command.  The test command and  *)
(* whoever sends signals are external.  All signals are alike, and a       *)
(* command that a signal killed has exit status Killed (ExitCode is -1).   *)
(*                                                                         *)
(* `terminated' is written by the signal goroutine and read by main with   *)
(* no synchronisation: main may read the value before the write.           *)
(***************************************************************************)
EXTENDS Naturals

CONSTANTS
    Codes,       \* the exit codes a command may end with
    Killed,      \* the status of a command that a signal killed
    Running,     \* the status of a command that has not ended
    NoCode,      \* the runner has not set its exit code
    MaxSignals   \* bound: how many signals the runner is sent

ASSUME CodesAssumption ==
    /\ {0, 1} \subseteq Codes
    /\ Codes \subseteq Nat
    /\ {Killed, Running, NoCode} \cap Nat = {}
    /\ Running # Killed

ASSUME SignalsAssumption == MaxSignals \in Nat

Interrupted == 130   \* the exit code of a terminated runner
MinusOne == 255      \* what os.Exit(-1) is to the parent process
SigBuffer == 2       \* capacity of sigChan

VARIABLES
    main,        \* where the main goroutine is
    sampler,     \* the sampling goroutine
    handler,     \* the goroutine that forwards one signal
    stop,        \* is stopSampling closed
    trapped,     \* is sigChan registered with signal.Notify
    queued,      \* signals in sigChan
    terminated,  \* the flag of main.go:473
    command,     \* status of the test command
    started,     \* has the command been started
    signalled,   \* has the command been sent the signal
    exit,        \* the runner's exit code
    reported,    \* has the report been printed
    sent         \* signals the runner was sent

vars == <<main, sampler, handler, stop, trapped, queued, terminated, command,
          started, signalled, exit, reported, sent>>

signals == <<trapped, queued, sent>>
child == <<command, started, signalled>>
outcome == <<exit, reported>>

Statuses == Codes \cup {Killed, Running}

TypeOK ==
    /\ main \in {"snapshot", "trap", "start", "wait", "stop", "untrap", "join",
                 "settle", "print", "quit", "abort", "exited", "killed"}
    /\ sampler \in {"off", "select", "poll", "update", "done"}
    /\ handler \in {"off", "receive", "forward", "done"}
    /\ stop \in BOOLEAN
    /\ trapped \in BOOLEAN
    /\ queued \in 0..SigBuffer
    /\ terminated \in BOOLEAN
    /\ command \in Statuses
    /\ started \in BOOLEAN
    /\ signalled \in BOOLEAN
    /\ exit \in Codes \cup {NoCode, Interrupted, MinusOne}
    /\ reported \in BOOLEAN
    /\ sent \in 0..MaxSignals

Init ==
    /\ main = "snapshot"
    /\ sampler = "off"
    /\ handler = "off"
    /\ stop = FALSE
    /\ trapped = FALSE
    /\ queued = 0
    /\ terminated = FALSE
    /\ command = Running
    /\ started = FALSE
    /\ signalled = FALSE
    /\ exit = NoCode
    /\ reported = FALSE
    /\ sent = 0

Alive == main \notin {"exited", "killed"}

Main(from, to) == main = from /\ main' = to

-----------------------------------------------------------------------------
(* The main goroutine *)

\* No command was given.
Usage ==
    /\ Main("snapshot", "exited")
    /\ exit' = 1
    /\ UNCHANGED <<sampler, handler, stop, signals, terminated, child, reported>>

\* First snapshots; the sampler starts only when Podman answers.
Snapshot ==
    /\ Main("snapshot", "trap")
    /\ sampler' \in {"off", "select"}
    /\ UNCHANGED <<handler, stop, signals, terminated, child, outcome>>

Trap ==
    /\ Main("trap", "start")
    /\ trapped' = TRUE
    /\ UNCHANGED <<sampler, handler, stop, queued, sent, terminated, child, outcome>>

StartCommand ==
    /\ Main("start", "wait")
    /\ started' = TRUE
    /\ handler' = "receive"
    /\ UNCHANGED <<sampler, stop, signals, terminated, command, signalled, outcome>>

\* cmd.Start fails: the sampler is stopped, and there is no report.
StartFails ==
    /\ Main("start", "abort")
    /\ stop' = TRUE
    /\ UNCHANGED <<sampler, handler, signals, terminated, child, outcome>>

Sampled == sampler \in {"off", "done"}    \* wg.Wait returns

Abort ==
    /\ Main("abort", "exited")
    /\ Sampled
    /\ exit' = 1
    /\ UNCHANGED <<sampler, handler, stop, signals, terminated, child, reported>>

WaitReturns ==
    /\ Main("wait", "stop")
    /\ command # Running
    /\ UNCHANGED <<sampler, handler, stop, signals, terminated, child, outcome>>

\* Seeded fault: stopSampling is not closed.
StopNothing ==
    /\ Main("stop", "untrap")
    /\ UNCHANGED <<sampler, handler, stop, signals, terminated, child, outcome>>

StopSampling ==
    /\ Main("stop", "untrap")
    /\ stop' = TRUE
    /\ UNCHANGED <<sampler, handler, signals, terminated, child, outcome>>

\* signal.Stop: from here on a signal has its default action again.
Untrap ==
    /\ Main("untrap", "join")
    /\ trapped' = FALSE
    /\ UNCHANGED <<sampler, handler, stop, queued, sent, terminated, child, outcome>>

\* Seeded fault: main does not wait for the sampler.
JoinNobody ==
    /\ Main("join", "settle")
    /\ UNCHANGED <<sampler, handler, stop, signals, terminated, child, outcome>>

Join ==
    /\ Main("join", "settle")
    /\ Sampled
    /\ UNCHANGED <<sampler, handler, stop, signals, terminated, child, outcome>>

\* Seeded fault: the status of a killed command is not translated.
StatusAsItIs == command

\* Seeded fault: every failure of the command is reported as 1.
AnyFailureIsOne == IF command = 0 THEN 0 ELSE 1

\* Seeded fault: the zero exit code stands when the command was killed.
KilledIsZero == IF command = Killed THEN 0 ELSE command

CommandCode == IF command = Killed THEN MinusOne ELSE command

\* Final snapshots, then the exit code; main may read `terminated' stale.
Settle ==
    /\ Main("settle", "print")
    /\ \E seen \in {FALSE, terminated} :
          exit' = IF seen THEN Interrupted ELSE CommandCode
    /\ UNCHANGED <<sampler, handler, stop, signals, terminated, child, reported>>

PrintReport ==
    /\ Main("print", "quit")
    /\ reported' = TRUE
    /\ UNCHANGED <<sampler, handler, stop, signals, terminated, child, exit>>

Quit ==
    /\ Main("quit", "exited")
    /\ UNCHANGED <<sampler, handler, stop, signals, terminated, child, outcome>>

MainStep ==
    \/ Usage \/ Snapshot \/ Trap \/ StartCommand \/ StartFails \/ Abort \/ WaitReturns
    \/ StopSampling \/ Untrap \/ Join \/ Settle \/ PrintReport \/ Quit

-----------------------------------------------------------------------------
(* The sampler *)

Sample(from, to) ==
    /\ Alive
    /\ sampler = from
    /\ sampler' = to
    /\ UNCHANGED <<main, handler, stop, signals, terminated, child, outcome>>

Tick == Sample("select", "poll")

\* podman stats ends or times out; without entries there is no update.
PollEnds == Sample("poll", "update") \/ Sample("poll", "select")

Update == Sample("update", "select")

SamplerStops == stop /\ Sample("select", "done")

-----------------------------------------------------------------------------
(* Signals *)

\* Delivered to sigChan, where a third one is dropped, or fatal when
\* untrapped: the goroutines are gone, the command is not.
Signal ==
    /\ Alive
    /\ sent < MaxSignals
    /\ sent' = sent + 1
    /\ \/ /\ trapped
          /\ queued' = IF queued < SigBuffer THEN queued + 1 ELSE queued
          /\ UNCHANGED main
       \/ ~trapped /\ main' = "killed" /\ UNCHANGED queued
    /\ UNCHANGED <<sampler, handler, stop, trapped, terminated, child, outcome>>

\* The goroutine receives once.
ReceiveSignal ==
    /\ Alive
    /\ handler = "receive" /\ handler' = "forward"
    /\ queued > 0 /\ queued' = queued - 1
    /\ terminated' = TRUE
    /\ UNCHANGED <<main, sampler, stop, trapped, sent, child, outcome>>

\* Seeded fault: the signal is noted and not passed on.
ForwardNothing ==
    /\ Alive
    /\ handler = "forward" /\ handler' = "done"
    /\ UNCHANGED <<main, sampler, stop, signals, terminated, child, outcome>>

\* To a command that has ended, Process.Signal does nothing.
ForwardSignal ==
    /\ Alive
    /\ handler = "forward" /\ handler' = "done"
    /\ signalled' = (signalled \/ command = Running)
    /\ UNCHANGED <<main, sampler, stop, signals, terminated, command, started, outcome>>

\* The test command ends by itself or by a signal, its own or the forwarded.
CommandEnds ==
    /\ started /\ command = Running
    /\ command' \in Codes \cup {Killed}
    /\ UNCHANGED <<main, sampler, handler, stop, signals, terminated, started,
                   signalled, outcome>>

Ended == ~Alive /\ (started => command # Running) /\ UNCHANGED vars

Next ==
    \/ MainStep
    \/ Tick \/ PollEnds \/ Update \/ SamplerStops
    \/ Signal \/ ReceiveSignal \/ ForwardSignal
    \/ CommandEnds
    \/ Ended

Spec == Init /\ [][Next]_vars

\* The goroutines are scheduled and every podman call has a timeout; select
\* picks at random among ready cases, so a closed channel is picked at last.
\* Nothing is assumed of the command: the runner sets no bound on it.
FairSpec ==
    /\ Spec
    /\ WF_vars(MainStep)
    /\ WF_vars(Tick) /\ WF_vars(PollEnds) /\ WF_vars(Update)
    /\ SF_vars(SamplerStops)
    /\ WF_vars(ReceiveSignal) /\ WF_vars(ForwardSignal)

-----------------------------------------------------------------------------

\* The final snapshots and the report see metrics nobody updates any more
\* (wg.Wait, main.go:496), whenever the sampler was caught polling.
MetricsAreFinal ==
    main \in {"settle", "print", "quit"} => sampler \in {"off", "done"}

\* CI never sees a success the tests did not have: whatever signals came and
\* whatever main read of `terminated', the runner exits 0 only if the command
\* was started, exited 0 and was reported on.
SuccessIsReal ==
    main = "exited" /\ exit = 0 => started /\ command = 0 /\ reported

\* The exit code is the command's unless a signal reached the runner while
\* it trapped them (README:331, as far as it holds).
UnsignalledCodePreserved ==
    main = "exited" /\ started /\ sent = 0 =>
        exit = IF command = Killed THEN MinusOne ELSE command

\* A command that would run for ever gets the signal that the runner trapped,
\* also when it was trapped before the command was started: it reaches the
\* command or comes too late for it, unless a later signal kills the runner.
SignalReachesCommand ==
    handler = "receive" /\ queued > 0
        ~> signalled \/ command # Running \/ main = "killed"

\* When the command has ended or could not be started, the runner ends too,
\* wherever the sampler is and though the signal goroutine may block for ever.
RunnerEnds == command # Running \/ main = "abort" ~> ~Alive

\* What the comment at main.go:461 says: signals are trapped to guarantee the
\* report even if the run is terminated.
ReportGuaranteed == main = "killed" => ~started \/ reported
=============================================================================
