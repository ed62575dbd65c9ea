------------------------------ MODULE Harness ------------------------------
(***************************************************************************)
(* common.Setup and the t.Cleanup it registers, inside one test process.   *)
(*                                                                         *)
(* Setup reuses the active scenario when its name is the same and builds a *)
(* new one otherwise; scenarioMu is held for all of Setup, connectivity    *)
(* checks included, and again for all of the cleanup.  Each test builds at *)
(* most one scenario, so a scenario is named after the test that built it. *)
(* Tests follow each other, or run in parallel (t.Parallel).               *)
(*                                                                         *)
(* Build, Teardown and the prune in both are in Environment: here each of  *)
(* them removes what the engine lets it, of any scenario, and the error is *)
(* dropped (harness.go:175, 188, 207; builder.go:89, 139).                 *)
(***************************************************************************)
CONSTANTS
    Tests,   \* the tests of the package that call Setup
    Name,    \* ScenarioConfig.Name, per test
    None     \* no test: the mutex is free, no scenario is active

ASSUME NoneAssumption == None \notin Tests

VARIABLES
    parallel,  \* do the tests of this process run in parallel
    mu,        \* the holder of scenarioMu
    active,    \* activeScenario
    pc,        \* where each test is
    scenario,  \* the Scenario each test got from Setup
    remains,   \* the scenarios of which the engine has a container
    up,        \* those Build completed that lost no container since
    spared,    \* ghost: those of remains that the last prune left
    failed,    \* tests marked failed
    unsound    \* ghost: tests under way whose connectivity checks failed

engine == <<remains, up, spared>>

vars == <<parallel, mu, active, pc, scenario, remains, up, spared, failed, unsound>>

\* "abandon" is the Teardown of a failed Setup, "exit" its require.
InSetup == {"setup", "prune", "build", "launch", "connect", "abandon", "exit"}
InCleanup == {"teardown", "clear"}
Outside == {"waiting", "lock", "body", "cleanup", "over"}

TypeOK ==
    /\ parallel \in BOOLEAN
    /\ mu \in Tests \cup {None}
    /\ active \in Tests \cup {None}
    /\ pc \in [Tests -> InSetup \cup InCleanup \cup Outside]
    /\ scenario \in [Tests -> Tests \cup {None}]
    /\ remains \subseteq Tests
    /\ up \subseteq remains
    /\ spared \subseteq remains
    /\ failed \subseteq Tests
    /\ unsound \subseteq failed

Init ==
    /\ parallel \in BOOLEAN
    /\ mu = None
    /\ active = None
    /\ pc = [t \in Tests |-> "waiting"]
    /\ scenario = [t \in Tests |-> None]
    /\ remains = {}
    /\ up = {}
    /\ spared = {}
    /\ failed = {}
    /\ unsound = {}

Move(t, from, to) == pc[t] = from /\ pc' = [pc EXCEPT ![t] = to]

\* go test runs a test when the one before it is over, cleanups included.
Start(t) ==
    /\ Move(t, "waiting", "lock")
    /\ parallel \/ \A u \in Tests : pc[u] \in {"waiting", "over"}
    /\ UNCHANGED <<parallel, mu, active, scenario, engine, failed, unsound>>

-----------------------------------------------------------------------------
(* Setup *)

LockSetup(t) ==
    /\ Move(t, "lock", "setup")
    /\ mu = None
    /\ mu' = t
    /\ UNCHANGED <<parallel, active, scenario, engine, failed, unsound>>

Reusable(t) == active # None /\ Name[active] = Name[t]

ReuseScenario(t) ==
    /\ Move(t, "setup", "connect")
    /\ Reusable(t)
    /\ scenario' = [scenario EXCEPT ![t] = active]
    /\ UNCHANGED <<parallel, mu, active, engine, failed, unsound>>

BeginBuild(t) ==
    /\ Move(t, "setup", "prune")
    /\ ~Reusable(t)
    /\ UNCHANGED <<parallel, mu, active, scenario, engine, failed, unsound>>

Removing(t) == pc[t] \in {"prune", "teardown", "abandon"}

\* A Terminate or a removal of the prune succeeds: the scenario loses its
\* first container, or the last one.
Remove(t) ==
    /\ Removing(t)
    /\ \E u \in remains :
        IF u \in up
        THEN up' = up \ {u} /\ UNCHANGED <<remains, spared>>
        ELSE remains' = remains \ {u} /\ spared' = spared \ {u} /\ UNCHANGED up
    /\ UNCHANGED <<parallel, mu, active, pc, scenario, failed, unsound>>

\* The prune is over: complete, or with a failed list, refused removals or no
\* time left.  Nobody looks at its error.
PruneEnds(t) ==
    /\ \/ Move(t, "prune", "build")
       \/ Move(t, "teardown", "clear")
       \/ Move(t, "abandon", "exit")
    /\ spared' = remains
    /\ UNCHANGED <<parallel, mu, active, scenario, remains, up, failed, unsound>>

CreateContainer(t) ==
    /\ pc[t] = "build"
    /\ t \notin remains
    /\ remains' = remains \cup {t}
    /\ UNCHANGED <<parallel, mu, active, pc, scenario, up, spared, failed, unsound>>

BuildSucceeds(t) ==
    /\ Move(t, "build", "launch")
    /\ t \in remains
    /\ up' = up \cup {t}
    /\ UNCHANGED <<parallel, mu, active, scenario, remains, spared, failed, unsound>>

\* Seeded fault: assert in the place of require, Setup goes on.
BuildFailsUnchecked(t) ==
    /\ Move(t, "build", "launch")
    /\ UNCHANGED <<parallel, mu, active, scenario, engine, failed, unsound>>

\* A component does not start: Build tears down what there is.
BuildFails(t) ==
    /\ Move(t, "build", "abandon")
    /\ UNCHANGED <<parallel, mu, active, scenario, engine, failed, unsound>>

\* No configuration or no network: Build returns before any container.
BuildAborts(t) ==
    /\ Move(t, "build", "exit")
    /\ t \notin remains
    /\ UNCHANGED <<parallel, mu, active, scenario, engine, failed, unsound>>

LaunchServices(t) ==
    /\ Move(t, "launch", "connect")
    /\ active' = t
    /\ scenario' = [scenario EXCEPT ![t] = t]
    /\ UNCHANGED <<parallel, mu, engine, failed, unsound>>

\* Seeded fault: require ends the test before the environment is torn down.
LaunchFailsUncleaned(t) ==
    /\ Move(t, "launch", "exit")
    /\ UNCHANGED <<parallel, mu, active, scenario, engine, failed, unsound>>

\* A service does not start or has no endpoint: Teardown, then require.
LaunchFails(t) ==
    /\ Move(t, "launch", "abandon")
    /\ UNCHANGED <<parallel, mu, active, scenario, engine, failed, unsound>>

\* Seeded fault: Unlock is not deferred, and require leaves before it.
ExitLocked(t) ==
    /\ Move(t, "exit", "over")
    /\ failed' = failed \cup {t}
    /\ UNCHANGED <<parallel, mu, active, scenario, engine, unsound>>

\* require ends the test and the deferred Unlock runs; no cleanup is
\* registered and activeScenario stays what it was.
Exit(t) ==
    /\ Move(t, "exit", "over")
    /\ failed' = failed \cup {t}
    /\ mu' = None
    /\ UNCHANGED <<parallel, active, scenario, engine, unsound>>

\* Seeded fault: a failed check is only logged.
ConnectUnmarked(t) ==
    /\ Move(t, "connect", "body")
    /\ mu' = None
    /\ \/ UNCHANGED unsound
       \/ unsound' = unsound \cup {t}
    /\ UNCHANGED <<parallel, active, scenario, engine, failed>>

\* The result of the connectivity subtest is not looked at: when it fails,
\* Setup returns the scenario all the same.  No check calls an application,
\* so they may pass on a scenario that lost containers.
Connect(t) ==
    /\ Move(t, "connect", "body")
    /\ mu' = None
    /\ \/ UNCHANGED <<failed, unsound>>
       \/ /\ failed' = failed \cup {t}
          /\ unsound' = unsound \cup {t}
    /\ UNCHANGED <<parallel, active, scenario, engine>>

-----------------------------------------------------------------------------
(* The test and its cleanup *)

\* What the test does with its scenario; it passes or fails.
Body(t) ==
    /\ Move(t, "body", "cleanup")
    /\ failed' \in {failed, failed \cup {t}}
    /\ unsound' = unsound \ {t}
    /\ UNCHANGED <<parallel, mu, active, scenario, engine>>

\* Seeded fault: the cleanup does not take the mutex.
LockNothing(t) ==
    /\ Move(t, "cleanup", "teardown")
    /\ UNCHANGED <<parallel, mu, active, scenario, engine, failed, unsound>>

LockCleanup(t) ==
    /\ Move(t, "cleanup", "teardown")
    /\ mu = None
    /\ mu' = t
    /\ UNCHANGED <<parallel, active, scenario, engine, failed, unsound>>

\* Seeded fault: activeScenario is left as it is.
ClearNothing(t) ==
    /\ Move(t, "clear", "over")
    /\ mu' = None
    /\ UNCHANGED <<parallel, active, scenario, engine, failed, unsound>>

\* activeScenario is cleared, whichever scenario it is.
ClearActive(t) ==
    /\ Move(t, "clear", "over")
    /\ active' = None
    /\ mu' = None
    /\ UNCHANGED <<parallel, scenario, engine, failed, unsound>>

-----------------------------------------------------------------------------

Step(t) ==
    \/ Start(t)
    \/ LockSetup(t) \/ ReuseScenario(t) \/ BeginBuild(t)
    \/ Remove(t) \/ PruneEnds(t)
    \/ CreateContainer(t) \/ BuildSucceeds(t) \/ BuildFails(t) \/ BuildAborts(t)
    \/ LaunchServices(t) \/ LaunchFails(t) \/ Exit(t) \/ Connect(t)
    \/ Body(t) \/ LockCleanup(t) \/ ClearActive(t)

AllOver == (\A t \in Tests : pc[t] = "over") /\ UNCHANGED vars

Next == (\E t \in Tests : Step(t)) \/ AllOver

Spec == Init /\ [][Next]_vars

\* What makes a call without a deadline: every prune asks podman for its
\* socket until DOCKER_HOST is set (exec.Command), Build and the connectivity
\* checks create topics, the checks call http.Get, the test what it likes.
Unbounded(t) == pc[t] \in {"prune", "build", "connect", "body", "teardown", "abandon"}

\* A test that waits for scenarioMu gets it (sync.Mutex is starvation free);
\* nothing is assumed of calls without a deadline.
FairSpec ==
    /\ Spec
    /\ \A t \in Tests :
        /\ WF_vars(Step(t) /\ ~Unbounded(t))
        /\ SF_vars(LockSetup(t))
        /\ SF_vars(LockCleanup(t))

-----------------------------------------------------------------------------

\* Even among parallel tests, a scenario that Setup has just built is whole
\* when its connectivity checks run: scenarioMu keeps every other Build and
\* every cleanup, which prune everything, out of Setup (harness.go:118).
FreshScenarioIsUp ==
    \A t \in Tests :
        pc[t] = "launch" \/ (pc[t] = "connect" /\ scenario[t] = t) => t \in up

\* Tests that follow each other each get a scenario of their own, which is up
\* from the end of Setup until their cleanup (README "Deterministic State
\* Isolation"): no cleanup leaves an active scenario behind to be reused.
SequentialTestsOwnTheirScenario ==
    \A t \in Tests : ~parallel /\ pc[t] \in {"connect", "body", "cleanup"} =>
        scenario[t] = t /\ t \in up

\* However the tests interleave and whatever failed, when the last one is over
\* the engine has no container but those the last prune was refused, and no
\* scenario is active: each container is followed by a Teardown, that of the
\* Setup that failed or that of a cleanup.
NothingOutlivesTheTests ==
    (\A t \in Tests : pc[t] = "over") =>
        remains \subseteq spared /\ active = None /\ mu = None

\* What README:301 says: if any connectivity check fails, the test halts.
ConnectivityFailureHalts == \A t \in Tests : t \in unsound => pc[t] # "body"

PhaseOf(l) ==
    CASE l \in {"waiting", "lock"} -> "idle"
      [] l \in {"setup", "prune", "build", "launch"} -> "provisioning"
      [] l \in {"connect", "body", "cleanup"} -> "available"
      [] l \in {"abandon", "exit", "teardown", "clear"} -> "releasing"
      [] l = "over" -> "ended"

HeldBy(t) ==
    {x \in {"some", "whole"} : t \in remains /\ (x = "whole" => t \in up)}

Lent == INSTANCE Lease WITH
    Runs <- Tests,
    Resources <- {"some", "whole"},
    Required <- {"some", "whole"},
    phase <- [t \in Tests |-> IF parallel THEN "idle" ELSE PhaseOf(pc[t])],
    held <- [t \in Tests |-> IF parallel THEN {} ELSE HeldBy(t)]

\* To tests that follow each other Setup and its cleanup are the lease that the
\* environment under them is: the scenario is up before the test has it and no
\* build or cleanup of another takes it away; what the engine refuses to take
\* back stays until the prune of a later test reclaims it, and only then.
TestsImplementLease == Lent!Spec

\* What u is in the middle of that keeps t from its end: any call in Setup or
\* the cleanup holds scenarioMu; a body holds up itself and the tests after it.
HoldsUp(u, t) == Unbounded(u) /\ (pc[u] = "body" => u = t \/ ~parallel)

\* Every test ends, unless some test stays for ever in calls that have no
\* deadline: no path through Setup keeps scenarioMu locked (harness.go:119).
EveryTestEnds ==
    \A t \in Tests : <>(pc[t] = "over") \/ \E u \in Tests : <>[]HoldsUp(u, t)
=============================================================================
