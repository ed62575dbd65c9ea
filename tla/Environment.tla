---------------------------- MODULE Environment ----------------------------
(***************************************************************************)
(* The life of the test environments that pkg/env builds and tears down.   *)
(*                                                                         *)
(* A run is one Builder.Build with the services that suites/common starts  *)
(* on top of it, and the Environment.Teardown that ends it.  Runs of       *)
(* several test processes share one container engine, and every run        *)
(* prunes all the managed containers of that engine when it starts and     *)
(* again when it ends.  A run can crash between any two engine calls       *)
(* (go test -timeout panics, SIGKILL, SIGINT): t.Cleanup does not run then.*)
(*                                                                         *)
(* The engine (Podman, through testcontainers-go) is external.  A failing  *)
(* engine call stands for an error answer and for a deadline that passed.  *)
(***************************************************************************)
EXTENDS Naturals, Sequences, SequencesExt

CONSTANTS
    Runs,            \* the runs, one per common.Setup that builds
    WithMySQL,       \* is Builder.WithMySQL called
    Migrations,      \* sequence of the Flyway containers, one per database
    RedisInstances,  \* sequence of the Redis aliases
    WithKafka,       \* is Builder.WithKafka called
    WithWireMock,    \* is Builder.WithWireMock called
    Apps,            \* sequence of the catalog services of the scenario
    Foreign,         \* containers without the label harness.managed=true
    Serial           \* do runs follow each other (go test -p 1)

\* The containers of a run, in the order in which Build and Setup start them.
Plan ==
    (IF WithMySQL THEN <<"mysql">> \o Migrations ELSE << >>)
    \o RedisInstances
    \o (IF WithKafka THEN <<"kafka">> ELSE << >>)
    \o (IF WithWireMock THEN <<"wiremock">> ELSE << >>)
    \o Apps

Services == ToSet(Plan)

Managed == Runs \X Services      \* the containers DefaultLabels labels

Own(r) == {c \in Managed : c[1] = r}

Bridge == "bridge network"       \* the network, among the services of a run

\* Seeded fault: the applications are ended last.
AppsLastOrder ==
    <<ToSet(RedisInstances), {"mysql"}, {"kafka"}, {"wiremock"}, ToSet(Apps)>>

\* Teardown ends the handles it holds class by class, in this order.
TerminationOrder ==
    <<ToSet(Apps), ToSet(RedisInstances), {"mysql"}, {"kafka"}, {"wiremock"}>>

Before(s, t) ==
    \E i, j \in DOMAIN TerminationOrder :
        i < j /\ s \in TerminationOrder[i] /\ t \in TerminationOrder[j]

Names == {"mysql", "kafka", "wiremock"}
         \cup ToSet(Migrations) \cup ToSet(RedisInstances) \cup ToSet(Apps)

ASSUME NamesAssumption ==
    /\ Migrations \in Seq(Names)
    /\ RedisInstances \in Seq(Names)
    /\ Apps \in Seq(Names)
ASSUME SerialAssumption == Serial \in BOOLEAN
ASSUME BridgeAssumption == Bridge \notin Services
ASSUME ForeignAssumption == Foreign \cap Managed = {}
ASSUME PlanAssumption ==
    \A i, j \in DOMAIN Plan : Plan[i] = Plan[j] => i = j

VARIABLES
    containers,  \* what the engine holds: managed and foreign containers
    networks,    \* the runs whose bridge network exists
    pc,          \* where each run is
    next,        \* index in Plan of the service the run starts next
    handles,     \* containers recorded in the run's Environment
    pools,       \* containers to which the run holds a client pool
    listed,      \* what the run's current prune has listed and not removed
    spared,      \* ghost: what the run's latest prune could not remove
    strays,      \* ghost: runs that left a container without a handle
    refused      \* ghost: runs whose Teardown had an engine call refused

vars == <<containers, networks, pc, next, handles, pools, listed, spared,
          strays, refused>>

engine == <<containers, networks>>
memory == <<next, handles, pools>>
ghosts == <<strays, refused>>
pruning == <<listed, spared>>

Pruning == {"list", "prune", "network"}
Building == {"start", "await", "configure"}
Closing == {"close", "terminate", "unlink", "relist", "reprune"}
Live == Pruning \cup Building \cup {"ready"} \cup Closing
Finished == {"done", "dead"}

TypeOK ==
    /\ containers \subseteq Managed \cup Foreign
    /\ networks \subseteq Runs
    /\ pc \in [Runs -> Live \cup Finished \cup {"idle"}]
    /\ next \in [Runs -> Nat \ {0}]
    /\ handles \subseteq Managed
    /\ pools \subseteq Managed
    /\ listed \in [Runs -> SUBSET Managed]
    /\ spared \in [Runs -> SUBSET Managed]
    /\ strays \subseteq Runs
    /\ refused \subseteq Runs
    /\ \A r \in Runs : pc[r] \in {"await", "configure"} => next[r] \in DOMAIN Plan

Init ==
    /\ containers = Foreign
    /\ networks = {}
    /\ pc = [r \in Runs |-> "idle"]
    /\ next = [r \in Runs |-> 1]
    /\ handles = {}
    /\ pools = {}
    /\ listed = [r \in Runs |-> {}]
    /\ spared = [r \in Runs |-> {}]
    /\ strays = {}
    /\ refused = {}

Move(r, from, to) == pc[r] = from /\ pc' = [pc EXCEPT ![r] = to]

-----------------------------------------------------------------------------
(* Build: the startup prune, the network, then one container after another *)

\* Seeded fault: packages run in parallel (no -p 1, no scenarioMu).
AlwaysMayBegin == TRUE

\* Seeded fault: only a run that reached its end lets the next one in.
MayBeginAfterDone == Serial => \A q \in Runs : pc[q] \in {"idle", "done"}

\* Under go test -p 1 one test binary runs at a time, and scenarioMu admits
\* one Setup at a time inside it.
MayBegin == Serial => \A q \in Runs : pc[q] \notin Live

\* Seeded fault: Build does not prune.
BeginUnpruned(r) ==
    /\ MayBegin
    /\ Move(r, "idle", "network")
    /\ UNCHANGED <<engine, memory, pruning, ghosts>>

Begin(r) ==
    /\ MayBegin
    /\ Move(r, "idle", "list")
    /\ UNCHANGED <<engine, memory, pruning, ghosts>>

\* Seeded fault: the list has no label filter.
Unfiltered == containers

Labelled == containers \cap Managed    \* the list filter on the label

\* PruneManagedContainers lists once ...
ListManaged(r) ==
    /\ Move(r, "list", "prune") \/ Move(r, "relist", "reprune")
    /\ listed' = [listed EXCEPT ![r] = Labelled]
    /\ spared' = [spared EXCEPT ![r] = {}]
    /\ UNCHANGED <<engine, memory, ghosts>>

\* ... and gives up when there is no client or no list; Build ignores the
\* error and Teardown only reports it.
ListFails(r) ==
    /\ \/ Move(r, "list", "network") /\ UNCHANGED refused
       \/ Move(r, "relist", "done") /\ refused' = refused \cup {r}
    /\ spared' = [spared EXCEPT ![r] = Labelled]
    /\ UNCHANGED <<engine, memory, listed, strays>>

\* One ContainerRemove of the loop: its error is dropped.  A container that
\* is gone already is no error that matters.
RemoveListed(r) ==
    /\ pc[r] \in {"prune", "reprune"}
    /\ \E c \in listed[r] :
          /\ listed' = [listed EXCEPT ![r] = @ \ {c}]
          /\ \/ containers' = containers \ {c} /\ UNCHANGED spared
             \/ /\ spared' = [spared EXCEPT ![r] = @ \cup {c}]
                /\ UNCHANGED containers
    /\ UNCHANGED <<networks, pc, memory, ghosts>>

PruneEnds(r) ==
    /\ listed[r] = {}
    /\ Move(r, "prune", "network") \/ Move(r, "reprune", "done")
    /\ UNCHANGED <<engine, memory, pruning, ghosts>>

\* config.Load or network.New fails: Build returns and there is nothing to
\* tear down.
BuildAborts(r) ==
    /\ Move(r, "network", "done")
    /\ UNCHANGED <<engine, memory, pruning, ghosts>>

CreateNetwork(r) ==
    /\ Move(r, "network", "start")
    /\ networks' = networks \cup {r}
    /\ UNCHANGED <<containers, memory, pruning, ghosts>>

Service(r) == Plan[next[r]]
Current(r) == <<r, Service(r)>>
Ephemeral(r) == Service(r) \in ToSet(Migrations)

\* The engine has created and attached the container; readiness is awaited.
CreateContainer(r) ==
    /\ Move(r, "start", "await")
    /\ next[r] \in DOMAIN Plan
    /\ containers' = containers \cup {Current(r)}
    /\ UNCHANGED <<networks, memory, pruning, ghosts>>

\* No container at all: no image, a bad bind, no answer from the engine.
CreateFails(r) ==
    /\ Move(r, "start", "close")
    /\ next[r] \in DOMAIN Plan
    /\ UNCHANGED <<engine, memory, pruning, ghosts>>

\* Seeded fault: the handle is not recorded.
StartUnrecorded(r) ==
    /\ Move(r, "await", "configure")
    /\ ~Ephemeral(r)
    /\ Current(r) \in containers
    /\ UNCHANGED <<engine, memory, pruning, ghosts>>

\* Started and ready: only now does the Environment get its handle.
StartSucceeds(r) ==
    /\ Move(r, "await", "configure")
    /\ ~Ephemeral(r)
    /\ Current(r) \in containers
    /\ handles' = handles \cup {Current(r)}
    /\ UNCHANGED <<engine, next, pools, pruning, ghosts>>

\* Started but never ready: GenericContainer returns an error, the caller
\* drops the container it also returns, and no handle is recorded.
StartFails(r) ==
    /\ Move(r, "await", "close")
    /\ strays' = IF Current(r) \in containers THEN strays \cup {r} ELSE strays
    /\ UNCHANGED <<engine, memory, pruning, refused>>

\* runFlywayMigration: the container exited; whatever its exit code, the
\* deferred Terminate runs first, and its error is dropped.
Migrate(r) ==
    /\ pc[r] = "await"
    /\ Ephemeral(r)
    /\ Current(r) \in containers
    /\ \/ containers' = containers \ {Current(r)} /\ UNCHANGED strays
       \/ strays' = strays \cup {r} /\ UNCHANGED containers
    /\ \/ Move(r, "await", "start") /\ next' = [next EXCEPT ![r] = @ + 1]
       \/ Move(r, "await", "close") /\ UNCHANGED next
    /\ UNCHANGED <<networks, handles, pools, pruning, refused>>

\* Mapped port, client pool (MySQL and Redis), databases, topics, stubs.
Configure(r) ==
    /\ Move(r, "configure", "start")
    /\ Current(r) \in containers
    /\ next' = [next EXCEPT ![r] = @ + 1]
    /\ pools' = IF Service(r) \in {"mysql"} \cup ToSet(RedisInstances)
                THEN pools \cup {Current(r)} ELSE pools
    /\ UNCHANGED <<engine, handles, pruning, ghosts>>

\* A later database or topic may fail with the pool already recorded.
ConfigureFails(r) ==
    /\ Move(r, "configure", "close")
    /\ \/ UNCHANGED pools
       \/ Service(r) = "mysql" /\ pools' = pools \cup {Current(r)}
    /\ UNCHANGED <<engine, next, handles, pruning, ghosts>>

\* Seeded fault: the environment is handed out before all has started.
ReadyTooEarly(r) ==
    /\ Move(r, "start", "ready")
    /\ UNCHANGED <<engine, memory, pruning, ghosts>>

\* Build has returned and Setup has started every catalog service.
BecomeReady(r) ==
    /\ Move(r, "start", "ready")
    /\ next[r] \notin DOMAIN Plan
    /\ UNCHANGED <<engine, memory, pruning, ghosts>>

\* The test that owns the environment ends and its t.Cleanup calls Teardown.
Release(r) ==
    /\ Move(r, "ready", "close")
    /\ UNCHANGED <<engine, memory, pruning, ghosts>>

-----------------------------------------------------------------------------
(* Teardown: pools, handles class by class, the network, the safety net    *)

Recorded(r) == handles \cap Own(r)

CloseClients(r) ==
    /\ Move(r, "close", "terminate")
    /\ pools' = pools \ Own(r)
    /\ UNCHANGED <<engine, next, handles, pruning, ghosts>>

\* A refused Terminate is noted in errs and Teardown goes on.
Terminate(r) ==
    /\ pc[r] = "terminate"
    /\ \E c \in Recorded(r) :
          /\ \A d \in Recorded(r) : ~Before(d[2], c[2])
          /\ handles' = handles \ {c}
          /\ \/ containers' = containers \ {c} /\ UNCHANGED refused
             \/ refused' = refused \cup {r} /\ UNCHANGED containers
    /\ UNCHANGED <<networks, pc, next, pools, pruning, strays>>

TerminateEnds(r) ==
    /\ Move(r, "terminate", "unlink")
    /\ Recorded(r) = {}
    /\ UNCHANGED <<engine, memory, pruning, ghosts>>

\* The engine does not remove a network that still has a container.
Attached(r) == containers \cap Own(r)

\* Seeded fault: Teardown ends with the network, without the safety net.
RemoveNetworkLast(r) ==
    /\ Move(r, "unlink", "done")
    /\ networks' = IF Attached(r) = {} THEN networks \ {r} ELSE networks
    /\ UNCHANGED <<containers, memory, pruning, ghosts>>

RemoveNetwork(r) ==
    /\ Move(r, "unlink", "relist")
    /\ \/ Attached(r) = {} /\ networks' = networks \ {r} /\ UNCHANGED refused
       \/ Attached(r) # {} /\ UNCHANGED <<networks, refused>>
       \/ refused' = refused \cup {r} /\ UNCHANGED networks
    /\ UNCHANGED <<containers, memory, pruning, strays>>

-----------------------------------------------------------------------------

\* The process is gone, with everything it remembered; the engine is not.
Crash(r) ==
    /\ pc[r] \in Live
    /\ pc' = [pc EXCEPT ![r] = "dead"]
    /\ handles' = handles \ Own(r)
    /\ pools' = pools \ Own(r)
    /\ listed' = [listed EXCEPT ![r] = {}]
    /\ UNCHANGED <<engine, next, spared, ghosts>>

Step(r) ==
    \/ Begin(r)
    \/ ListManaged(r) \/ ListFails(r) \/ RemoveListed(r) \/ PruneEnds(r)
    \/ BuildAborts(r) \/ CreateNetwork(r)
    \/ CreateContainer(r) \/ CreateFails(r)
    \/ StartSucceeds(r) \/ StartFails(r) \/ Migrate(r)
    \/ Configure(r) \/ ConfigureFails(r) \/ BecomeReady(r) \/ Release(r)
    \/ CloseClients(r) \/ Terminate(r) \/ TerminateEnds(r) \/ RemoveNetwork(r)

AllFinished == (\A r \in Runs : pc[r] \in Finished) /\ UNCHANGED vars

Next == (\E r \in Runs : Step(r) \/ Crash(r)) \/ AllFinished

Spec == Init /\ [][Next]_vars

\* A run takes its next step or dies: nearly every engine call has a deadline,
\* and go test -timeout, a Crash, ends the others and the test itself.
FairSpec == Spec /\ \A r \in Runs : WF_vars(Step(r))
-----------------------------------------------------------------------------
(* Safety *)

\* What Teardown promises (environment.go:47, 104): a run that ended leaves
\* none of its containers, recorded or not, except those whose removal the
\* engine refused to its last prune; and it holds no client pool any more.
EndedRunLeavesNothing ==
    \A r \in Runs : pc[r] = "done" =>
        /\ containers \cap Own(r) \subseteq spared[r]
        /\ pools \cap Own(r) = {}

\* A run that never lost track of a container, and to which the engine never
\* refused anything in Teardown, also leaves no network and had nothing for
\* its last prune to find (the errors Teardown collects, environment.go:49).
CleanRunLeavesNoNetwork ==
    \A r \in Runs : pc[r] = "done" /\ r \notin strays \cup refused =>
        r \notin networks /\ containers \cap Own(r) = {}

\* Build starts from a clean slate (README "Startup Pruning"): with runs one
\* after another, whatever crashed or left strays before, a building or
\* ready run shares the engine only with what its own prune was refused.
CleanSlate ==
    \A r \in Runs : pc[r] \in Building \cup {"ready"} =>
        Labelled \subseteq Own(r) \cup spared[r]

\* No prune, of this run or of another, takes away what a test is using: the
\* recorded containers and the network of a building or ready run exist.
LiveEnvironmentIntact ==
    \A r \in Runs : pc[r] \in Building \cup {"ready"} =>
        Recorded(r) \subseteq containers /\ r \in networks

\* An application never outlives what it was built on: while an app exists
\* in a run that lost and was refused nothing, so does every backing service
\* (start order of Build and Setup, end order of Teardown).
Backing == Services \ (ToSet(Apps) \cup ToSet(Migrations))

AppsHaveTheirBackings ==
    \A r \in Runs :
        /\ pc[r] \in Building \cup {"ready", "close", "terminate"}
        /\ r \notin strays \cup refused
        /\ \E a \in ToSet(Apps) : <<r, a>> \in containers
        => {r} \X Backing \subseteq containers

\* Neither prune nor Teardown ever removes a developer's container, which
\* does not carry the label (prune.go:33, README "Safe Pruning").
ForeignUntouched == [][Foreign \subseteq containers']_vars

\* What the comment on Teardown (environment.go:47) says: it terminates all
\* containers, prunes dangling ones and removes the network.
TeardownRemovesNetwork ==
    \A r \in Runs : pc[r] = "done" /\ r \notin refused => r \notin networks

(* Refinement *)

PhaseOf(l) ==
    CASE l = "idle" -> "idle"
      [] l \in Pruning \cup Building -> "provisioning"
      [] l = "ready" -> "available"
      [] l \in Closing -> "releasing"
      [] l = "done" -> "ended"
      [] l = "dead" -> "dead"

Holding(r) ==
    {s \in Services : <<r, s>> \in containers}
    \cup (IF r \in networks THEN {Bridge} ELSE {})

Lent == INSTANCE Lease WITH
    Resources <- Services \cup {Bridge},
    Required <- (Services \ ToSet(Migrations)) \cup {Bridge},
    phase <- [r \in Runs |-> PhaseOf(pc[r])],
    held <- [r \in Runs |-> Holding(r)]

\* With runs one after another, the engine calls of Build, Setup and Teardown
\* implement the lease: a test gets every container and the network it asked
\* for, nothing is taken from it before it ends, and only leftovers of ended
\* or dead runs are reclaimed by the prunes of others.
ImplementsLease == Lent!Spec

(* Liveness *)

\* Every run gets its turn and ends, torn down or dead: neither a prune nor
\* a Teardown loops, and no run waits forever for the one before it.
EveryRunFinishes == \A r \in Runs : <>(pc[r] \in Finished)
=============================================================================
