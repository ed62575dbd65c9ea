----------------------- MODULE EnvironmentLeaseProofs -----------------------
(***************************************************************************)
(* With one run at a time, Environment implements Lease: every step of the *)
(* engine calls is a step of the lease or leaves it as it is.              *)
(***************************************************************************)
EXTENDS EnvironmentProofs, SequenceTheorems

Phase == [r \in Runs |-> PhaseOf(pc[r])]
Held == [r \in Runs |-> Holding(r)]

\* What a building run has recorded so far is everything in its plan before
\* `next' but the migrations, which are used up.
Complete(r) ==
    /\ pc[r] \in {"ready"} \cup Building =>
          \A i \in DOMAIN Plan :
              i < next[r] /\ Plan[i] \notin ToSet(Migrations) =>
                  <<r, Plan[i]>> \in handles
    /\ pc[r] = "configure" => Current(r) \in handles
    /\ pc[r] = "ready" => next[r] \notin DOMAIN Plan
    /\ pc[r] \in {"idle"} \cup Pruning => next[r] = 1

LEMMA Singleton == ASSUME NEW S, NEW x \in S PROVE <<x>> \in Seq(S)
OBVIOUS

LEMMA PlanIsSeq == DOMAIN Plan = 1..Len(Plan) /\ Len(Plan) \in Nat
<1> DEFINE M == IF WithMySQL THEN <<"mysql">> \o Migrations ELSE << >>
           K == IF WithKafka THEN <<"kafka">> ELSE << >>
           W == IF WithWireMock THEN <<"wiremock">> ELSE << >>
<1>1. M \in Seq(Names) /\ K \in Seq(Names) /\ W \in Seq(Names)
  <2>1. /\ <<"mysql">> \in Seq(Names)
        /\ <<"kafka">> \in Seq(Names)
        /\ <<"wiremock">> \in Seq(Names)
    BY Singleton DEF Names
  <2>2. << >> \in Seq(Names)
    OBVIOUS
  <2>3. <<"mysql">> \o Migrations \in Seq(Names)
    BY <2>1, NamesAssumption, ConcatProperties, Zenon
  <2> QED BY <2>1, <2>2, <2>3, Zenon
<1>2. Plan = M \o RedisInstances \o K \o W \o Apps
  BY DEF Plan
<1> HIDE DEF M, K, W
<1>3. Plan \in Seq(Names)
  BY <1>1, <1>2, NamesAssumption
<1> QED BY <1>3

LEMMA CompleteStep ==
    ASSUME TypeOK, \A r \in Runs : Tidy(r), \A r \in Runs : Complete(r), TypeOK',
           [Next]_vars
    PROVE  \A q \in Runs : Complete(q)'
<1> SUFFICES ASSUME NEW q \in Runs PROVE Complete(q)'
  OBVIOUS
<1> USE PlanIsSeq DEF TypeOK, Complete, Move, engine, memory, ghosts, pruning,
            Pruning, Building, Current, Service
<1>1. ASSUME NEW r \in Runs, Begin(r) PROVE Complete(q)'
  BY <1>1 DEF Begin
<1>2. ASSUME NEW r \in Runs, ListManaged(r) PROVE Complete(q)'
  BY <1>2 DEF ListManaged
<1>3. ASSUME NEW r \in Runs, ListFails(r) PROVE Complete(q)'
  BY <1>3 DEF ListFails
<1>4. ASSUME NEW r \in Runs, RemoveListed(r) PROVE Complete(q)'
  BY <1>4 DEF RemoveListed
<1>5. ASSUME NEW r \in Runs, PruneEnds(r) PROVE Complete(q)'
  BY <1>5 DEF PruneEnds
<1>6. ASSUME NEW r \in Runs, BuildAborts(r) PROVE Complete(q)'
  BY <1>6 DEF BuildAborts
<1>7. ASSUME NEW r \in Runs, CreateNetwork(r) PROVE Complete(q)'
  BY <1>7 DEF CreateNetwork
<1>8. ASSUME NEW r \in Runs, CreateContainer(r) PROVE Complete(q)'
  BY <1>8 DEF CreateContainer
<1>9. ASSUME NEW r \in Runs, CreateFails(r) PROVE Complete(q)'
  BY <1>9 DEF CreateFails
<1>10. ASSUME NEW r \in Runs, StartSucceeds(r) PROVE Complete(q)'
  BY <1>10 DEF StartSucceeds, Ephemeral
<1>11. ASSUME NEW r \in Runs, StartFails(r) PROVE Complete(q)'
  BY <1>11 DEF StartFails
<1>12. ASSUME NEW r \in Runs, Migrate(r) PROVE Complete(q)'
  BY <1>12 DEF Migrate, Ephemeral
<1>13. ASSUME NEW r \in Runs, Configure(r) PROVE Complete(q)'
  BY <1>13 DEF Configure
<1>14. ASSUME NEW r \in Runs, ConfigureFails(r) PROVE Complete(q)'
  BY <1>14 DEF ConfigureFails
<1>15. ASSUME NEW r \in Runs, BecomeReady(r) PROVE Complete(q)'
  BY <1>15 DEF BecomeReady
<1>16. ASSUME NEW r \in Runs, Release(r) PROVE Complete(q)'
  BY <1>16 DEF Release
<1>17. ASSUME NEW r \in Runs, CloseClients(r) PROVE Complete(q)'
  BY <1>17 DEF CloseClients
<1>18. ASSUME NEW r \in Runs, Terminate(r) PROVE Complete(q)'
  BY <1>18 DEF Terminate, Recorded, Own
<1>19. ASSUME NEW r \in Runs, TerminateEnds(r) PROVE Complete(q)'
  BY <1>19 DEF TerminateEnds
<1>20. ASSUME NEW r \in Runs, RemoveNetwork(r) PROVE Complete(q)'
  BY <1>20 DEF RemoveNetwork
<1>21. ASSUME NEW r \in Runs, Crash(r) PROVE Complete(q)'
  BY <1>21 DEF Crash, Own
<1>22. CASE UNCHANGED vars
  BY <1>22 DEF vars
<1> QED
  BY <1>1, <1>2, <1>3, <1>4, <1>5, <1>6, <1>7, <1>8, <1>9, <1>10, <1>11,
     <1>12, <1>13, <1>14, <1>15, <1>16, <1>17, <1>18, <1>19, <1>20, <1>21,
     <1>22 DEF Next, Step, AllFinished

-----------------------------------------------------------------------------
(* What a step does to the holding of a run *)

LEMMA HeldType == ASSUME TypeOK PROVE Held \in [Runs -> SUBSET (Services \cup {Bridge})]
BY DEF Held, Holding, TypeOK

LEMMA PhaseMoves ==
    ASSUME TypeOK, NEW r \in Runs, NEW l, pc' = [pc EXCEPT ![r] = l]
    PROVE  Phase' = [Phase EXCEPT ![r] = PhaseOf(l)]
BY DEF TypeOK, Phase

LEMMA HeldUnchanged ==
    ASSUME containers' \cap Managed = containers \cap Managed, networks' = networks
    PROVE  Held' = Held
<1> SUFFICES ASSUME NEW r \in Runs PROVE Holding(r)' = Holding(r)
  BY DEF Held
<1>1. ASSUME NEW s \in Services
      PROVE  <<r, s>> \in containers' <=> <<r, s>> \in containers
  BY DEF Managed
<1> QED BY <1>1 DEF Holding

LEMMA ContainerGained ==
    ASSUME TypeOK, NEW r \in Runs, NEW s \in Services,
           containers' = containers \cup {<<r, s>>}, networks' = networks
    PROVE  Held' = [Held EXCEPT ![r] = @ \cup {s}]
<1>1. ASSUME NEW q \in Runs
      PROVE  Holding(q)' = IF q = r THEN Holding(q) \cup {s} ELSE Holding(q)
  BY DEF Holding
<1> QED BY <1>1 DEF Held

LEMMA ContainerLost ==
    ASSUME TypeOK, NEW r \in Runs, NEW s \in Services,
           containers' = containers \ {<<r, s>>}, networks' = networks
    PROVE  Held' = [Held EXCEPT ![r] = @ \ {s}]
<1>1. ASSUME NEW q \in Runs
      PROVE  Holding(q)' = IF q = r THEN Holding(q) \ {s} ELSE Holding(q)
  BY BridgeAssumption DEF Holding
<1> QED BY <1>1 DEF Held

LEMMA NetworkGained ==
    ASSUME TypeOK, NEW r \in Runs,
           containers' = containers, networks' = networks \cup {r}
    PROVE  Held' = [Held EXCEPT ![r] = @ \cup {Bridge}]
<1>1. ASSUME NEW q \in Runs
      PROVE  Holding(q)' = IF q = r THEN Holding(q) \cup {Bridge} ELSE Holding(q)
  BY DEF Holding
<1> QED BY <1>1 DEF Held

LEMMA NetworkLost ==
    ASSUME TypeOK, NEW r \in Runs,
           containers' = containers, networks' = networks \ {r}
    PROVE  Held' = [Held EXCEPT ![r] = @ \ {Bridge}]
<1>1. ASSUME NEW q \in Runs
      PROVE  Holding(q)' = IF q = r THEN Holding(q) \ {Bridge} ELSE Holding(q)
  BY BridgeAssumption DEF Holding
<1> QED BY <1>1 DEF Held

-----------------------------------------------------------------------------
(* Every step implements the lease *)

LeaseInv ==
    \A r \in Runs : Tidy(r) /\ Accounted(r) /\ Undisturbed(r) /\ Complete(r)

LEMMA PhaseIs ==
    ASSUME NEW r \in Runs
    PROVE  Phase[r] = PhaseOf(pc[r]) /\ Held[r] = Holding(r)
BY DEF Phase, Held

LEMMA StepImplementsLease ==
    ASSUME Serial, TypeOK, LeaseInv, TypeOK', [Next]_vars
    PROVE  [Lent!Next]_(Lent!vars)
<1> DEFINE Goal == Lent!Next \/ (Phase' = Phase /\ Held' = Held)
<1> SUFFICES Goal
  BY DEF Lent!vars, Phase, Held
<1>a. ASSUME NEW r \in Runs, NEW l, pc' = [pc EXCEPT ![r] = l],
             PhaseOf(l) = PhaseOf(pc[r])
      PROVE  Phase' = Phase
  <2>1. Phase' = [Phase EXCEPT ![r] = Phase[r]]
    BY <1>a, PhaseMoves, PhaseIs
  <2> QED BY <2>1 DEF Phase
<1> USE DEF TypeOK, LeaseInv, Move, engine, memory, ghosts, pruning, PhaseOf,
            Pruning, Building, Closing, Live
<1>b. ASSUME NEW r \in Runs, Phase[r] \in {"provisioning", "available"},
             Phase' = [Phase EXCEPT ![r] = "releasing"], Held' = Held
      PROVE  Goal
  <2>1. Lent!Close(r)
    BY <1>b DEF Lent!Close, Lent!Become, Phase, Held
  <2> QED BY <2>1 DEF Lent!Next
<1>1. ASSUME NEW r \in Runs, Begin(r) PROVE Goal
  <2>1. Held' = Held
    BY <1>1, HeldUnchanged DEF Begin
  <2>2. Phase[r] = "idle" /\ Phase' = [Phase EXCEPT ![r] = "provisioning"]
    BY <1>1, PhaseMoves, PhaseIs DEF Begin
  <2>3. Lent!Open(r)
    BY <2>1, <2>2 DEF Lent!Open, Lent!Become, Phase, Held
  <2> QED BY <2>3 DEF Lent!Next
<1>2. ASSUME NEW r \in Runs, ListManaged(r) PROVE Goal
  <2>1. Held' = Held
    BY <1>2, HeldUnchanged DEF ListManaged
  <2>2. CASE Move(r, "list", "prune")
    BY <2>1, <2>2, <1>a
  <2>3. CASE Move(r, "relist", "reprune")
    BY <2>1, <2>3, <1>a
  <2> QED BY <1>2, <2>2, <2>3 DEF ListManaged
<1>e. ASSUME NEW r \in Runs, Phase[r] = "releasing",
             Phase' = [Phase EXCEPT ![r] = "ended"], Held' = Held
      PROVE  Goal
  <2>1. Lent!End(r)
    BY <1>e DEF Lent!End, Lent!Become, Phase, Held
  <2> QED BY <2>1 DEF Lent!Next
<1>3. ASSUME NEW r \in Runs, ListFails(r) PROVE Goal
  <2>1. Held' = Held
    BY <1>3, HeldUnchanged DEF ListFails
  <2>2. CASE Move(r, "list", "network")
    BY <2>1, <2>2, <1>a
  <2>3. CASE Move(r, "relist", "done")
    BY <2>1, <2>3, <1>e, PhaseMoves, PhaseIs
  <2> QED BY <1>3, <2>2, <2>3 DEF ListFails
<1>4. ASSUME NEW r \in Runs, RemoveListed(r) PROVE Goal
  <2>0. Phase' = Phase
    BY <1>4 DEF RemoveListed, Phase
  <2>1. PICK c \in listed[r] : containers' \in {containers, containers \ {c}}
    BY <1>4 DEF RemoveListed
  <2>2. networks' = networks
    BY <1>4 DEF RemoveListed
  <2>3. CASE containers' = containers
    BY <2>0, <2>2, <2>3, HeldUnchanged
  <2>4. CASE containers' = containers \ {c} /\ c \in containers
    <3>1. PICK q \in Runs, x \in Services : c = <<q, x>>
      BY <2>1 DEF Managed
    <3>2. c \in Own(q)
      BY <3>1 DEF Own, Managed
    <3>3. Held' = [Held EXCEPT ![q] = @ \ {x}] /\ x \in Held[q]
      BY <2>2, <2>4, <3>1, ContainerLost, PhaseIs DEF Holding
    <3>4. CASE q = r
      <4>1. Phase[q] = "releasing"
        BY <1>4, <2>4, <3>2, <3>4, PhaseIs DEF Tidy, RemoveListed
      <4>2. Lent!GiveBack(q)
        BY <2>0, <3>3, <4>1 DEF Lent!GiveBack, Lent!Lose, Phase, Held
      <4> QED BY <4>2 DEF Lent!Next
    <3>5. CASE q # r
      <4>1. Phase[q] \in {"ended", "dead"}
        <5>1. pc[q] \notin Live
          BY <1>4, <3>5 DEF Undisturbed, RemoveListed
        <5>2. pc[q] # "idle"
          BY <2>4, <3>2 DEF Tidy
        <5> QED BY <5>1, <5>2, PhaseIs DEF Finished
      <4>2. Lent!Reclaim(q)
        BY <2>0, <3>3, <4>1 DEF Lent!Reclaim, Lent!Lose, Phase, Held
      <4> QED BY <4>2 DEF Lent!Next
    <3> QED BY <3>4, <3>5
  <2>5. CASE containers' = containers \ {c} /\ c \notin containers
    BY <2>0, <2>2, <2>5, HeldUnchanged
  <2> QED BY <2>1, <2>3, <2>4, <2>5
<1>5. ASSUME NEW r \in Runs, PruneEnds(r) PROVE Goal
  <2>1. Held' = Held
    BY <1>5, HeldUnchanged DEF PruneEnds
  <2>2. CASE Move(r, "prune", "network")
    BY <2>1, <2>2, <1>a
  <2>3. CASE Move(r, "reprune", "done")
    BY <2>1, <2>3, <1>e, PhaseMoves, PhaseIs
  <2> QED BY <1>5, <2>2, <2>3 DEF PruneEnds
<1>6. ASSUME NEW r \in Runs, BuildAborts(r) PROVE Goal
  <2>1. Held' = Held
    BY <1>6, HeldUnchanged DEF BuildAborts
  <2>2. Phase[r] = "provisioning" /\ Phase' = [Phase EXCEPT ![r] = "ended"]
    BY <1>6, PhaseMoves, PhaseIs DEF BuildAborts
  <2>3. r \notin networks /\ containers \cap Own(r) = {}
    BY <1>6 DEF BuildAborts, Tidy, Accounted
  <2>4. Held[r] = {}
    <3> HIDE DEF TypeOK, LeaseInv, PhaseOf
    <3>1. \A x \in Services : <<r, x>> \notin containers
      BY <2>3 DEF Own, Managed
    <3> QED BY <2>3, <3>1, PhaseIs DEF Holding
  <2>5. Lent!End(r)
    BY <2>1, <2>2, <2>4 DEF Lent!End, Lent!Become, Phase, Held
  <2> QED BY <2>5 DEF Lent!Next
<1>7. ASSUME NEW r \in Runs, CreateNetwork(r) PROVE Goal
  <2>1. Held' = [Held EXCEPT ![r] = @ \cup {Bridge}]
    BY <1>7, NetworkGained DEF CreateNetwork
  <2>2. Phase[r] = "provisioning" /\ Phase' = [Phase EXCEPT ![r] = "provisioning"]
    BY <1>7, PhaseMoves, PhaseIs DEF CreateNetwork
  <2>3. Phase' = Phase
    BY <2>2 DEF Phase
  <2>4. Lent!Acquire(r)
    BY <2>1, <2>2, <2>3 DEF Lent!Acquire, Lent!Gain, Phase, Held
  <2> QED BY <2>4 DEF Lent!Next
<1>8. ASSUME NEW r \in Runs, CreateContainer(r) PROVE Goal
  <2>1. Service(r) \in Services
    BY <1>8 DEF CreateContainer, Service, Services, ToSet
  <2>2. Held' = [Held EXCEPT ![r] = @ \cup {Service(r)}]
    BY <1>8, <2>1, ContainerGained DEF CreateContainer, Current
  <2>3. Phase[r] = "provisioning" /\ Phase' = [Phase EXCEPT ![r] = "provisioning"]
    BY <1>8, PhaseMoves, PhaseIs DEF CreateContainer
  <2>4. Phase' = Phase
    BY <2>3 DEF Phase
  <2>5. Lent!Acquire(r)
    BY <2>1, <2>2, <2>3, <2>4 DEF Lent!Acquire, Lent!Gain, Phase, Held
  <2> QED BY <2>5 DEF Lent!Next
<1>9. ASSUME NEW r \in Runs,
             CreateFails(r) \/ StartFails(r) \/ ConfigureFails(r) \/ Release(r)
      PROVE  Goal
  <2>1. Held' = Held
    BY <1>9, HeldUnchanged
       DEF CreateFails, StartFails, ConfigureFails, Release
  <2>2. pc[r] \in {"start", "await", "configure", "ready"}
        /\ pc' = [pc EXCEPT ![r] = "close"]
    BY <1>9 DEF CreateFails, StartFails, ConfigureFails, Release
  <2>3. Phase' = [Phase EXCEPT ![r] = "releasing"]
    BY <2>2, PhaseMoves
  <2> QED BY <2>1, <2>2, <2>3, <1>b, PhaseIs
<1>10. ASSUME NEW r \in Runs,
              \/ StartSucceeds(r) \/ Configure(r) \/ CloseClients(r)
              \/ TerminateEnds(r)
       PROVE  Goal
  <2>1. Held' = Held
    BY <1>10, HeldUnchanged
       DEF StartSucceeds, Configure, CloseClients, TerminateEnds
  <2>2. Phase' = Phase
    BY <1>10, <1>a DEF StartSucceeds, Configure, CloseClients, TerminateEnds
  <2> QED BY <2>1, <2>2
<1>11. ASSUME NEW r \in Runs, Migrate(r) PROVE Goal
  <2>1. Service(r) \in Services \cap ToSet(Migrations)
    BY <1>11 DEF Migrate, Ephemeral, Service, Services, ToSet
  <2>2. Phase[r] = "provisioning"
    BY <1>11, PhaseIs DEF Migrate
  <2>3. \/ Phase' = Phase
        \/ Phase' = [Phase EXCEPT ![r] = "releasing"]
    <3>1. CASE Move(r, "await", "start")
      BY <3>1, <1>a
    <3>2. CASE Move(r, "await", "close")
      BY <3>2, PhaseMoves
    <3> QED BY <1>11, <3>1, <3>2 DEF Migrate
  <2>4. CASE containers' = containers
    <3>1. Held' = Held
      BY <1>11, <2>4, HeldUnchanged DEF Migrate
    <3> QED BY <2>2, <2>3, <3>1, <1>b
  <2>5. CASE containers' = containers \ {Current(r)}
    <3>1. Held' = [Held EXCEPT ![r] = @ \ {Service(r)}]
      BY <1>11, <2>1, <2>5, ContainerLost DEF Migrate, Current
    <3>2. Service(r) \in Held[r]
      BY <1>11, <2>1, PhaseIs DEF Migrate, Current, Holding
    <3>3. Service(r) \notin (Services \ ToSet(Migrations)) \cup {Bridge}
      BY <2>1, BridgeAssumption
    <3>4. Lent!Consume(r)
      BY <2>2, <2>3, <3>1, <3>2, <3>3 DEF Lent!Consume, Phase, Held
    <3> QED BY <3>4 DEF Lent!Next
  <2> QED BY <1>11, <2>4, <2>5 DEF Migrate
<1>12. ASSUME NEW r \in Runs, BecomeReady(r) PROVE Goal
  <2>1. Held' = Held
    BY <1>12, HeldUnchanged DEF BecomeReady
  <2>2. Phase[r] = "provisioning" /\ Phase' = [Phase EXCEPT ![r] = "available"]
    BY <1>12, PhaseMoves, PhaseIs DEF BecomeReady
  <2>3. ASSUME NEW x \in Services \ ToSet(Migrations) PROVE x \in Held[r]
    <3>1. PICK i \in DOMAIN Plan : x = Plan[i]
      BY <2>3 DEF Services, ToSet
    <3>2. i < next[r]
      BY <1>12, PlanIsSeq DEF BecomeReady
    <3>3. <<r, x>> \in Recorded(r)
      BY <1>12, <2>3, <3>1, <3>2 DEF BecomeReady, Complete, Recorded, Own, Managed
    <3> QED BY <1>12, <2>3, <3>3, PhaseIs DEF BecomeReady, Undisturbed, Holding
  <2>4. Bridge \in Held[r]
    <3>1. r \in networks
      BY <1>12 DEF BecomeReady, Undisturbed
    <3> HIDE DEF TypeOK, LeaseInv, PhaseOf
    <3> QED BY <3>1, PhaseIs DEF Holding
  <2>5. Lent!Offer(r)
    BY <2>1, <2>2, <2>3, <2>4 DEF Lent!Offer, Lent!Become, Phase, Held
  <2> QED BY <2>5 DEF Lent!Next
<1>13. ASSUME NEW r \in Runs, Terminate(r) PROVE Goal
  <2>0. Phase' = Phase /\ Phase[r] = "releasing" /\ networks' = networks
    BY <1>13, PhaseIs DEF Terminate, Phase
  <2>1. PICK c \in Recorded(r) : containers' \in {containers, containers \ {c}}
    BY <1>13 DEF Terminate
  <2>2. PICK x \in Services : c = <<r, x>>
    BY <2>1 DEF Recorded, Own, Managed
  <2>3. CASE containers' = containers \ {c} /\ c \in containers
    <3>1. Held' = [Held EXCEPT ![r] = @ \ {x}] /\ x \in Held[r]
      BY <2>0, <2>2, <2>3, ContainerLost, PhaseIs DEF Holding
    <3>2. Lent!GiveBack(r)
      BY <2>0, <3>1 DEF Lent!GiveBack, Lent!Lose, Phase, Held
    <3> QED BY <3>2 DEF Lent!Next
  <2>4. CASE containers' = containers
    BY <2>0, <2>4, HeldUnchanged
  <2> QED BY <2>1, <2>3, <2>4
<1>14. ASSUME NEW r \in Runs, RemoveNetwork(r) PROVE Goal
  <2>0. Phase[r] = "releasing"
    BY <1>14, PhaseIs DEF RemoveNetwork
  <2>1. Phase' = Phase
    BY <1>14, <1>a DEF RemoveNetwork
  <2>2. CASE networks' = networks
    BY <1>14, <2>1, <2>2, HeldUnchanged DEF RemoveNetwork
  <2>3. CASE networks' = networks \ {r} /\ r \in networks
    <3>1. Held' = [Held EXCEPT ![r] = @ \ {Bridge}] /\ Bridge \in Held[r]
      BY <1>14, <2>3, NetworkLost, PhaseIs DEF RemoveNetwork, Holding
    <3>2. Lent!GiveBack(r)
      BY <2>0, <2>1, <3>1 DEF Lent!GiveBack, Lent!Lose, Phase, Held
    <3> QED BY <3>2 DEF Lent!Next
  <2> QED BY <1>14, <2>2, <2>3 DEF RemoveNetwork
<1>15. ASSUME NEW r \in Runs, Crash(r) PROVE Goal
  <2>1. Held' = Held
    BY <1>15, HeldUnchanged DEF Crash
  <2>2. Phase[r] \in {"provisioning", "available", "releasing"}
        /\ Phase' = [Phase EXCEPT ![r] = "dead"]
    BY <1>15, PhaseMoves, PhaseIs DEF Crash
  <2>3. Lent!Die(r)
    BY <2>1, <2>2 DEF Lent!Die, Lent!Become, Phase, Held
  <2> QED BY <2>3 DEF Lent!Next
<1>16. CASE UNCHANGED vars
  BY <1>16, HeldUnchanged DEF vars, Phase
<1> QED
  BY <1>1, <1>2, <1>3, <1>4, <1>5, <1>6, <1>7, <1>8, <1>9, <1>10, <1>11,
     <1>12, <1>13, <1>14, <1>15, <1>16 DEF Next, Step, AllFinished

\* One run at a time: an environment is a lease.  It is offered complete, it
\* is not taken away while in use, and others only reclaim leftovers.
THEOREM SerialRunsImplementLease == Serial /\ Spec => ImplementsLease
<1>1. Init => Lent!Init
  <2> SUFFICES ASSUME Init PROVE Lent!Init
    OBVIOUS
  <2>1. \A r \in Runs : PhaseOf(pc[r]) = "idle"
    BY DEF Init, PhaseOf, Pruning, Building, Closing
  <2>2. \A r \in Runs : \A s \in Services : <<r, s>> \notin containers
    BY ForeignAssumption DEF Init, Managed
  <2>3. \A r \in Runs : Holding(r) = {}
    BY <2>2 DEF Init, Holding
  <2> QED BY <2>1, <2>3 DEF Lent!Init
<1>2. Serial /\ Init => LeaseInv
  BY TidyInit DEF Init, LeaseInv, Accounted, Undisturbed, Complete, Live,
     Building, Closing, Pruning, Recorded
<1>3. Serial /\ TypeOK /\ TypeOK' /\ LeaseInv /\ [Next]_vars => LeaseInv'
  BY TidyStep, AccountedStep, UndisturbedStep, CompleteStep
     DEF LeaseInv, TidyInv, AccountedInv, UndisturbedInv
<1>4. Serial /\ TypeOK /\ TypeOK' /\ LeaseInv /\ [Next]_vars
      => [Lent!Next]_(Lent!vars)
  BY StepImplementsLease
<1>5. CASE Serial
  BY <1>1, <1>2, <1>3, <1>4, <1>5, TypeCorrect, PTL
     DEF Spec, ImplementsLease, Lent!Spec
<1> QED BY <1>5
-----------------------------------------------------------------------------
(* Applications and what they were built on *)

LEMMA ElementsOfConcat ==
    ASSUME NEW s \in Seq(Names), NEW t \in Seq(Names)
    PROVE  ToSet(s \o t) = ToSet(s) \cup ToSet(t)
<1>1. /\ Len(s \o t) = Len(s) + Len(t) /\ Len(s) \in Nat /\ Len(t) \in Nat
      /\ \A k \in 1 .. Len(s) + Len(t) :
             (s \o t)[k] = IF k <= Len(s) THEN s[k] ELSE t[k - Len(s)]
  OBVIOUS
<1>2. /\ ToSet(s) = {s[k] : k \in 1 .. Len(s)} /\ ToSet(t) = {t[k] : k \in 1 .. Len(t)}
      /\ ToSet(s \o t) = {(s \o t)[k] : k \in 1 .. Len(s) + Len(t)}
  BY <1>1 DEF ToSet
<1>3. ToSet(s \o t) \subseteq ToSet(s) \cup ToSet(t)
  <2> SUFFICES ASSUME NEW k \in 1 .. Len(s) + Len(t)
               PROVE  (s \o t)[k] \in ToSet(s) \cup ToSet(t)
    BY <1>2
  <2>1. CASE k <= Len(s)
    BY <1>1, <1>2, <2>1
  <2>2. CASE k > Len(s)
    <3>1. k - Len(s) \in 1 .. Len(t) /\ (s \o t)[k] = t[k - Len(s)]
      BY <1>1, <2>2
    <3> QED BY <1>2, <3>1
  <2> QED BY <1>1, <2>1, <2>2
<1>4. ToSet(s) \subseteq ToSet(s \o t)
  <2>1. \A k \in 1 .. Len(s) : k \in 1 .. Len(s) + Len(t) /\ (s \o t)[k] = s[k]
    BY <1>1
  <2> QED BY <1>2, <2>1
<1>5. ToSet(t) \subseteq ToSet(s \o t)
  <2>1. \A k \in 1 .. Len(t) :
            Len(s) + k \in 1 .. Len(s) + Len(t) /\ (s \o t)[Len(s) + k] = t[k]
    BY <1>1
  <2> QED BY <1>2, <2>1
<1> QED BY <1>3, <1>4, <1>5

\* The plan starts the applications last.
LEMMA AppsComeLast ==
    \E before \in Seq(Names) :
        /\ Plan = before \o Apps
        /\ ToSet(before) \subseteq {"mysql", "kafka", "wiremock"}
               \cup ToSet(Migrations) \cup ToSet(RedisInstances)
<1> DEFINE M == IF WithMySQL THEN <<"mysql">> \o Migrations ELSE << >>
           K == IF WithKafka THEN <<"kafka">> ELSE << >>
           W == IF WithWireMock THEN <<"wiremock">> ELSE << >>
<1>1. /\ <<"mysql">> \in Seq(Names) /\ <<"kafka">> \in Seq(Names)
      /\ <<"wiremock">> \in Seq(Names) /\ << >> \in Seq(Names)
  BY Singleton DEF Names
<1>2. /\ ToSet(<<"mysql">>) = {"mysql"} /\ ToSet(<<"kafka">>) = {"kafka"}
      /\ ToSet(<<"wiremock">>) = {"wiremock"} /\ ToSet(<< >>) = {}
  BY DEF ToSet
<1>3. /\ <<"mysql">> \o Migrations \in Seq(Names)
      /\ ToSet(<<"mysql">> \o Migrations) = {"mysql"} \cup ToSet(Migrations)
  BY <1>1, <1>2, NamesAssumption, ConcatProperties, ElementsOfConcat, Zenon
<1>4. /\ M \in Seq(Names) /\ ToSet(M) \subseteq {"mysql"} \cup ToSet(Migrations)
      /\ K \in Seq(Names) /\ ToSet(K) \subseteq {"kafka"}
      /\ W \in Seq(Names) /\ ToSet(W) \subseteq {"wiremock"}
  BY <1>1, <1>2, <1>3
<1>5. Plan = M \o RedisInstances \o K \o W \o Apps
  BY DEF Plan
<1> HIDE DEF M, K, W
<1>6. /\ M \o RedisInstances \in Seq(Names)
      /\ ToSet(M \o RedisInstances) = ToSet(M) \cup ToSet(RedisInstances)
  BY <1>4, NamesAssumption, ConcatProperties, ElementsOfConcat, Zenon
<1>7. /\ M \o RedisInstances \o K \in Seq(Names)
      /\ ToSet(M \o RedisInstances \o K) = ToSet(M) \cup ToSet(RedisInstances) \cup ToSet(K)
  BY <1>4, <1>6, ConcatProperties, ElementsOfConcat, Zenon
<1>8. /\ M \o RedisInstances \o K \o W \in Seq(Names)
      /\ ToSet(M \o RedisInstances \o K \o W)
             = ToSet(M) \cup ToSet(RedisInstances) \cup ToSet(K) \cup ToSet(W)
  BY <1>4, <1>7, ConcatProperties, ElementsOfConcat, Zenon
<1> DEFINE before == M \o RedisInstances \o K \o W
<1>9. before \in Seq(Names) /\ Plan = before \o Apps
  BY <1>5, <1>8
<1>10. ToSet(before) \subseteq {"mysql", "kafka", "wiremock"}
          \cup ToSet(Migrations) \cup ToSet(RedisInstances)
  BY <1>4, <1>8
<1> HIDE DEF before
<1> QED BY <1>9, <1>10

LEMMA BackingsFirst ==
    ASSUME NEW i \in DOMAIN Plan, NEW j \in DOMAIN Plan,
           Plan[i] \in ToSet(Apps), Plan[j] \in Backing
    PROVE  j < i
<1>1. PICK before \in Seq(Names) : Plan = before \o Apps
  BY AppsComeLast
<1>2. /\ Len(Plan) = Len(before) + Len(Apps) /\ DOMAIN Plan = 1 .. Len(Plan)
      /\ \A k \in 1 .. Len(Apps) : Plan[Len(before) + k] = Apps[k]
  BY <1>1, NamesAssumption
<1>3. /\ ToSet(Apps) = {Apps[k] : k \in 1 .. Len(Apps)}
      /\ Len(Apps) \in Nat /\ Len(before) \in Nat
  BY NamesAssumption DEF ToSet
<1>4. i > Len(before)
  <2>1. PICK k \in 1 .. Len(Apps) : Plan[i] = Apps[k]
    BY <1>3
  <2>2. Len(before) + k \in DOMAIN Plan /\ Plan[Len(before) + k] = Plan[i]
    BY <1>2, <1>3, <2>1
  <2>3. i = Len(before) + k
    BY <2>2, PlanAssumption
  <2> QED BY <1>3, <2>3
<1>5. j <= Len(before)
  <2> SUFFICES ASSUME j > Len(before) PROVE FALSE
    BY <1>2, <1>3
  <2>1. j - Len(before) \in 1 .. Len(Apps) /\ Len(before) + (j - Len(before)) = j
    BY <1>2, <1>3
  <2>2. Plan[j] = Apps[j - Len(before)]
    BY <1>2, <2>1
  <2>3. Plan[j] \in ToSet(Apps)
    BY <1>3, <2>1, <2>2
  <2> QED BY <2>3 DEF Backing
<1> QED BY <1>2, <1>3, <1>4, <1>5

\* Teardown ends the applications before any backing service.
LEMMA AppsEndFirst ==
    ASSUME NEW a \in ToSet(Apps), NEW s \in Backing
    PROVE  Before(a, s)
<1>1. s \in {"mysql", "kafka", "wiremock"} \cup ToSet(RedisInstances)
  <2>1. PICK before \in Seq(Names) :
            /\ Plan = before \o Apps
            /\ ToSet(before) \subseteq {"mysql", "kafka", "wiremock"}
                   \cup ToSet(Migrations) \cup ToSet(RedisInstances)
    BY AppsComeLast
  <2>2. Services = ToSet(before) \cup ToSet(Apps)
    BY <2>1, NamesAssumption, ElementsOfConcat DEF Services
  <2> QED BY <2>1, <2>2 DEF Backing
<1>2. DOMAIN TerminationOrder = 1 .. 5
  BY DEF TerminationOrder
<1>3. /\ TerminationOrder[1] = ToSet(Apps) /\ TerminationOrder[2] = ToSet(RedisInstances)
      /\ TerminationOrder[3] = {"mysql"} /\ TerminationOrder[4] = {"kafka"}
      /\ TerminationOrder[5] = {"wiremock"}
  BY DEF TerminationOrder
<1>4. PICK j \in {2, 3, 4, 5} : s \in TerminationOrder[j]
  BY <1>1, <1>3
<1>5. 1 < j /\ 1 \in DOMAIN TerminationOrder /\ j \in DOMAIN TerminationOrder
  BY <1>2
<1> QED BY <1>3, <1>4, <1>5 DEF Before

\* A run that lost and was refused nothing, and has an application, has
\* recorded every backing service, and each of them exists.
Upheld(r) ==
    /\ pc[r] \in Building \cup {"ready", "close", "terminate"}
    /\ r \notin strays \cup refused
    /\ \E a \in ToSet(Apps) : <<r, a>> \in containers
    => {r} \X Backing \subseteq containers \cap handles

LEMMA UpheldStep ==
    ASSUME Serial, TypeOK, LeaseInv, \A r \in Runs : Upheld(r), TypeOK', [Next]_vars
    PROVE  \A q \in Runs : Upheld(q)'
<1> SUFFICES ASSUME NEW q \in Runs,
                    pc'[q] \in Building \cup {"ready", "close", "terminate"},
                    q \notin strays' \cup refused',
                    NEW a \in ToSet(Apps), <<q, a>> \in containers',
                    NEW s \in Backing
             PROVE  <<q, s>> \in containers' \cap handles'
  BY DEF Upheld
<1> USE DEF TypeOK, Move, engine, memory, ghosts, pruning, Building
<1>1. ASSUME pc[q] \in Building \cup {"ready", "close", "terminate"},
             q \notin strays \cup refused, <<q, a>> \in containers
      PROVE  <<q, s>> \in containers /\ <<q, s>> \in handles
  BY <1>1 DEF Upheld
<1>2. /\ <<q, a>> \in Own(q) /\ <<q, s>> \in Own(q)
      /\ s # a /\ s \notin ToSet(Migrations) /\ s \in Services
  <2>1. a \in Services
    BY AppsComeLast, ElementsOfConcat, NamesAssumption DEF Services
  <2>2. s # a /\ s \notin ToSet(Migrations) /\ s \in Services
    BY DEF Backing
  <2> QED BY <2>1, <2>2 DEF Own, Managed
<1>3. ASSUME NEW r \in Runs, CreateContainer(r) PROVE <<q, s>> \in containers' \cap handles'
  <2>1. Current(r) \in Own(r) /\ containers' = containers \cup {Current(r)}
        /\ pc[r] = "start" /\ handles' = handles /\ strays' = strays /\ refused' = refused
        /\ \A p \in Runs : p # r => pc'[p] = pc[p]
    BY <1>3, CurrentManaged DEF CreateContainer
  <2>2. CASE <<q, a>> \in containers
    BY <1>1, <2>1, <2>2
  <2>3. CASE <<q, a>> \notin containers
    <3>1. q = r /\ Plan[next[r]] = a /\ next[r] \in DOMAIN Plan
      BY <1>3, <2>1, <2>3 DEF CreateContainer, Current, Service
    <3>2. PICK j \in DOMAIN Plan : Plan[j] = s
      BY <1>2 DEF Services, ToSet
    <3>3. j < next[r]
      BY <3>1, <3>2, BackingsFirst
    <3>4. <<q, s>> \in handles
      BY <1>2, <2>1, <3>1, <3>2, <3>3 DEF LeaseInv, Complete
    <3>5. <<q, s>> \in containers
      BY <1>2, <2>1, <3>1, <3>4 DEF LeaseInv, Undisturbed, Recorded
    <3> QED BY <2>1, <3>4, <3>5
  <2> QED BY <2>2, <2>3
<1>4. ASSUME NEW r \in Runs, Terminate(r) PROVE <<q, s>> \in containers' \cap handles'
  <2>1. PICK c \in Recorded(r) :
            /\ pc[r] = "terminate" /\ pc' = pc
            /\ \A d \in Recorded(r) : ~Before(d[2], c[2])
            /\ handles' = handles \ {c}
            /\ \/ containers' = containers \ {c} /\ refused' = refused
               \/ refused' = refused \cup {r} /\ containers' = containers
            /\ strays' = strays
    BY <1>4 DEF Terminate
  <2>2. <<q, a>> \in containers /\ <<q, s>> \in containers /\ <<q, s>> \in handles
    BY <1>1, <2>1
  <2>3. c # <<q, s>>
    <3> SUFFICES ASSUME c = <<q, s>> PROVE FALSE
      OBVIOUS
    <3>1. q = r
      BY <2>1 DEF Recorded, Own
    <3>2. <<q, a>> \in Recorded(r)
      BY <1>2, <2>1, <2>2, <3>1 DEF LeaseInv, Accounted, Recorded
    <3>3. ~Before(a, s)
      BY <2>1, <3>2
    <3> QED BY <3>3, AppsEndFirst
  <2> QED BY <2>1, <2>2, <2>3
<1>5. ASSUME NEW r \in Runs, RemoveListed(r) PROVE <<q, s>> \in containers' \cap handles'
  <2>1. pc[r] \in {"prune", "reprune"} /\ pc' = pc
    BY <1>5 DEF RemoveListed
  <2>2. pc[r] \in Live /\ pc[q] \in Live
    BY <2>1 DEF Live, Pruning, Closing
  <2>3. q = r
    BY <2>2 DEF LeaseInv, Undisturbed
  <2> QED BY <2>1, <2>3
<1>6. ASSUME NEW r \in Runs, Migrate(r) PROVE <<q, s>> \in containers' \cap handles'
  <2>1. /\ pc[r] = "await" /\ strays \subseteq strays' /\ refused' = refused
        /\ handles' = handles /\ containers' \subseteq containers
        /\ Current(r) \in {<<r, m>> : m \in ToSet(Migrations)}
        /\ containers \ {Current(r)} \subseteq containers'
        /\ \A p \in Runs : p # r => pc'[p] = pc[p]
    BY <1>6 DEF Migrate, Ephemeral, Current
  <2>2. <<q, a>> \in containers /\ <<q, s>> \in containers /\ <<q, s>> \in handles
    BY <1>1, <2>1
  <2>3. <<q, s>> # Current(r)
    BY <1>2, <2>1
  <2> QED BY <2>1, <2>2, <2>3
<1>7. ASSUME NEW r \in Runs, CreateNetwork(r) PROVE <<q, s>> \in containers' \cap handles'
  <2>1. /\ pc[r] = "network" /\ containers' = containers /\ handles' = handles
        /\ strays' = strays /\ refused' = refused
        /\ \A p \in Runs : p # r => pc'[p] = pc[p]
    BY <1>7 DEF CreateNetwork
  <2>2. q # r
    BY <1>2, <2>1 DEF LeaseInv, Tidy, Pruning
  <2> QED BY <1>1, <2>1, <2>2
<1>8. ASSUME NEW r \in Runs, Crash(r) PROVE <<q, s>> \in containers' \cap handles'
  <2>1. q # r /\ containers' = containers /\ handles' = handles \ Own(r)
        /\ strays' = strays /\ refused' = refused /\ pc'[q] = pc[q]
    BY <1>8 DEF Crash
  <2>2. <<q, s>> \notin Own(r)
    BY <1>2, <2>1, OwnDisjoint
  <2> QED BY <1>1, <2>1, <2>2
<1>9. ASSUME NEW r \in Runs, containers' = containers, handles \subseteq handles',
             strays \subseteq strays', refused \subseteq refused',
             \A p \in Runs : p # r => pc'[p] = pc[p],
             pc'[r] \in Building \cup {"ready", "close", "terminate"} =>
                 pc[r] \in Building \cup {"ready", "close", "terminate"}
      PROVE  <<q, s>> \in containers' \cap handles'
  BY <1>1, <1>9
<1>10. ASSUME NEW r \in Runs,
              \/ Begin(r) \/ ListManaged(r) \/ ListFails(r) \/ PruneEnds(r)
              \/ BuildAborts(r) \/ CreateFails(r) \/ StartSucceeds(r) \/ StartFails(r)
              \/ Configure(r) \/ ConfigureFails(r) \/ BecomeReady(r) \/ Release(r)
              \/ CloseClients(r) \/ TerminateEnds(r) \/ RemoveNetwork(r)
       PROVE  <<q, s>> \in containers' \cap handles'
  <2>1. /\ containers' = containers /\ handles \subseteq handles'
        /\ strays \subseteq strays' /\ refused \subseteq refused'
        /\ \A p \in Runs : p # r => pc'[p] = pc[p]
        /\ pc'[r] \in Building \cup {"ready", "close", "terminate"} =>
               pc[r] \in Building \cup {"ready", "close", "terminate"}
    BY <1>10
    DEF Begin, ListManaged, ListFails, PruneEnds, BuildAborts, CreateFails, StartSucceeds,
        StartFails, Configure, ConfigureFails, BecomeReady, Release, CloseClients,
        TerminateEnds, RemoveNetwork
  <2> QED BY <1>9, <2>1
<1>11. CASE UNCHANGED vars
  BY <1>1, <1>11 DEF vars
<1> QED
  BY <1>3, <1>4, <1>5, <1>6, <1>7, <1>8, <1>10, <1>11 DEF Next, Step, AllFinished

\* One run at a time: while an application exists, unless its run lost or was
\* refused a container, so does everything it was built on; from its creation,
\* after all of that, to its end, before any of that.
THEOREM AppsStandOnTheirBackings == Serial /\ Spec => []AppsHaveTheirBackings
<1>1. Serial /\ Init => LeaseInv /\ \A r \in Runs : Upheld(r)
  BY TidyInit DEF Init, LeaseInv, Accounted, Undisturbed, Complete, Upheld, Live,
     Building, Closing, Pruning, Recorded
<1>2. Serial /\ TypeOK /\ TypeOK' /\ LeaseInv /\ (\A r \in Runs : Upheld(r)) /\ [Next]_vars
      => LeaseInv' /\ (\A r \in Runs : Upheld(r))'
  BY TidyStep, AccountedStep, UndisturbedStep, CompleteStep, UpheldStep
     DEF LeaseInv, TidyInv, AccountedInv, UndisturbedInv
<1>3. (\A r \in Runs : Upheld(r)) => AppsHaveTheirBackings
  BY DEF Upheld, AppsHaveTheirBackings
<1>4. CASE Serial
  BY <1>1, <1>2, <1>3, <1>4, TypeCorrect, PTL DEF Spec
<1> QED BY <1>4

=============================================================================
