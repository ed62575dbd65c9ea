---------------------------- MODULE HarnessProofs ----------------------------
(***************************************************************************)
(* What scenarioMu and activeScenario guarantee for every set of tests and *)
(* every assignment of scenario names, by induction on the steps.          *)
(***************************************************************************)
EXTENDS Harness, TLAPS

\* Past the point where Setup has recorded the scenario.
Has == {"connect", "body", "cleanup", "teardown", "clear"}

\* Where a test may have containers that no prune has come across yet.
Tended == {"build", "abandon", "launch", "connect", "body", "cleanup", "teardown"}

\* scenarioMu is held exactly inside Setup and the cleanup; only a test that
\* has its scenario and is not over can be active, only one that has begun to
\* build has containers, and a Teardown is still to come for the new ones.
Guarded(t) ==
    /\ mu = t <=> pc[t] \in InSetup \cup InCleanup
    /\ active = t => pc[t] \in Has
    /\ t \in remains => pc[t] \notin {"waiting", "lock", "setup", "prune"}
    /\ t \in remains \ spared => pc[t] \in Tended
    /\ pc[t] = "launch" \/ (pc[t] = "connect" /\ scenario[t] = t) => t \in up

\* In sequence, one test at a time is under way, with a scenario of its own.
Alone(t) ==
    ~parallel =>
        /\ \A u \in Tests : pc[t] \notin {"waiting", "over"}
                           /\ pc[u] \notin {"waiting", "over"} => t = u
        /\ pc[t] \in {"connect", "body", "cleanup"} => scenario[t] = t /\ t \in up

HarnessInv == TypeOK /\ \A t \in Tests : Guarded(t) /\ Alone(t)

LEMMA HarnessInit == Init => HarnessInv
BY NoneAssumption DEF Init, HarnessInv, TypeOK, Guarded, Alone, InSetup, InCleanup,
   Outside, Has, Tended

LEMMA HarnessStep == HarnessInv /\ [Next]_vars => HarnessInv'
<1> SUFFICES ASSUME HarnessInv, [Next]_vars PROVE HarnessInv'
  OBVIOUS
<1> USE NoneAssumption DEF HarnessInv, TypeOK, Guarded, Alone, InSetup, InCleanup,
        Outside, Has, Tended, Move, engine
<1>1. ASSUME NEW t \in Tests, Start(t) PROVE HarnessInv'
  BY <1>1 DEF Start
<1>2. ASSUME NEW t \in Tests, LockSetup(t) PROVE HarnessInv'
  BY <1>2 DEF LockSetup
<1>3. ASSUME NEW t \in Tests, ReuseScenario(t) PROVE HarnessInv'
  BY <1>3 DEF ReuseScenario, Reusable
<1>4. ASSUME NEW t \in Tests, BeginBuild(t) PROVE HarnessInv'
  BY <1>4 DEF BeginBuild
<1>5. ASSUME NEW t \in Tests, Remove(t) PROVE HarnessInv'
  BY <1>5 DEF Remove, Removing
<1>6. ASSUME NEW t \in Tests, PruneEnds(t) PROVE HarnessInv'
  BY <1>6 DEF PruneEnds
<1>7. ASSUME NEW t \in Tests, CreateContainer(t) PROVE HarnessInv'
  BY <1>7 DEF CreateContainer
<1>8. ASSUME NEW t \in Tests, BuildSucceeds(t) PROVE HarnessInv'
  BY <1>8 DEF BuildSucceeds
<1>9. ASSUME NEW t \in Tests, BuildFails(t) PROVE HarnessInv'
  BY <1>9 DEF BuildFails
<1>10. ASSUME NEW t \in Tests, BuildAborts(t) PROVE HarnessInv'
  BY <1>10 DEF BuildAborts
<1>11. ASSUME NEW t \in Tests, LaunchServices(t) PROVE HarnessInv'
  BY <1>11 DEF LaunchServices
<1>12. ASSUME NEW t \in Tests, LaunchFails(t) PROVE HarnessInv'
  BY <1>12 DEF LaunchFails
<1>13. ASSUME NEW t \in Tests, Exit(t) PROVE HarnessInv'
  BY <1>13 DEF Exit
<1>14. ASSUME NEW t \in Tests, Connect(t) PROVE HarnessInv'
  BY <1>14 DEF Connect
<1>15. ASSUME NEW t \in Tests, Body(t) PROVE HarnessInv'
  BY <1>15 DEF Body
<1>16. ASSUME NEW t \in Tests, LockCleanup(t) PROVE HarnessInv'
  BY <1>16 DEF LockCleanup
<1>17. ASSUME NEW t \in Tests, ClearActive(t) PROVE HarnessInv'
  BY <1>17 DEF ClearActive
<1>18. CASE UNCHANGED vars
  BY <1>18 DEF vars
<1> QED
  BY <1>1, <1>2, <1>3, <1>4, <1>5, <1>6, <1>7, <1>8, <1>9,
     <1>10, <1>11, <1>12, <1>13, <1>14, <1>15, <1>16, <1>17, <1>18 DEF Next, Step, AllOver

LEMMA HarnessInvariant == Spec => []HarnessInv
BY HarnessInit, HarnessStep, PTL DEF Spec

\* Every variable of the harness stays in its type.
THEOREM HarnessTypes == Spec => []TypeOK
<1>1. HarnessInv => TypeOK
  BY DEF HarnessInv
<1> QED BY <1>1, HarnessInvariant, PTL

\* scenarioMu protects a scenario that was just built until its connectivity
\* checks are over, even among parallel tests.
THEOREM FreshScenariosAreUp == Spec => []FreshScenarioIsUp
<1>1. HarnessInv => FreshScenarioIsUp
  BY DEF HarnessInv, Guarded, FreshScenarioIsUp
<1> QED BY <1>1, HarnessInvariant, PTL

\* Tests in sequence never share a scenario and never lose theirs.
THEOREM SequentialTestsIsolated == Spec => []SequentialTestsOwnTheirScenario
<1>1. HarnessInv => SequentialTestsOwnTheirScenario
  BY DEF HarnessInv, Alone, SequentialTestsOwnTheirScenario
<1> QED BY <1>1, HarnessInvariant, PTL

\* When every test is over, what is left is what the last prune was refused;
\* no scenario is active and the mutex is free.
THEOREM TestsLeaveNothing == Spec => []NothingOutlivesTheTests
<1>1. HarnessInv => NothingOutlivesTheTests
  BY DEF HarnessInv, TypeOK, Guarded, NothingOutlivesTheTests, InSetup, InCleanup, Has,
     Tended
<1> QED BY <1>1, HarnessInvariant, PTL

-----------------------------------------------------------------------------
(* Tests in sequence implement the lease *)

Phase == [t \in Tests |-> IF parallel THEN "idle" ELSE PhaseOf(pc[t])]
Held == [t \in Tests |-> IF parallel THEN {} ELSE HeldBy(t)]

\* With tests in sequence, a test that removes containers removes its own or
\* those of tests that are over, and no scenario is left to be reused.
LEMMA OthersAreOver ==
    ASSUME HarnessInv, ~parallel, NEW t \in Tests, pc[t] \notin {"waiting", "over"}
    PROVE  /\ \A u \in remains : u # t => pc[u] = "over"
           /\ active \in {t, None}
           /\ pc[t] \in {"setup", "prune"} => active = None /\ t \notin remains
BY NoneAssumption DEF HarnessInv, TypeOK, Guarded, Alone, InSetup, InCleanup, Outside, Has

LEMMA PhaseMoves ==
    ASSUME HarnessInv, ~parallel, NEW t \in Tests, NEW l, pc' = [pc EXCEPT ![t] = l],
           parallel' = parallel
    PROVE  Phase' = [Phase EXCEPT ![t] = PhaseOf(l)] /\ Phase[t] = PhaseOf(pc[t])
BY DEF HarnessInv, TypeOK, Phase

\* What changes in the lease is what changes for one scenario u.
LEMMA HeldMoves ==
    ASSUME HarnessInv, ~parallel, NEW u \in Tests, parallel' = parallel,
           \A t \in Tests : t # u => (t \in remains' <=> t \in remains)
                                   /\ (t \in up' <=> t \in up)
    PROVE  Held' = [Held EXCEPT ![u] = HeldBy(u)'] /\ Held[u] = HeldBy(u)
<1>1. \A t \in Tests : t # u => HeldBy(t)' = HeldBy(t)
  BY DEF HeldBy
<1>2. Held = [t \in Tests |-> HeldBy(t)] /\ Held' = [t \in Tests |-> HeldBy(t)']
  BY DEF Held
<1> QED BY <1>1, <1>2

LEMMA StepImplementsLease ==
    ASSUME HarnessInv, [Next]_vars
    PROVE  [Lent!Next]_(Lent!vars)
<1> DEFINE Goal == Lent!Next \/ (Phase' = Phase /\ Held' = Held)
<1> SUFFICES Goal
  BY DEF Lent!vars, Phase, Held
<1>1. CASE parallel
  <2>1. parallel'
    BY <1>1 DEF Next, Step, AllOver, vars, Start, LockSetup, ReuseScenario, BeginBuild,
       Remove, PruneEnds, CreateContainer, BuildSucceeds, BuildFails, BuildAborts,
       LaunchServices, LaunchFails, Exit, Connect, Body, LockCleanup, ClearActive
  <2> QED BY <1>1, <2>1 DEF Phase, Held
<1>2. CASE ~parallel
  <2>a. ASSUME NEW t \in Tests, NEW l, pc' = [pc EXCEPT ![t] = l], parallel' = parallel,
               UNCHANGED <<remains, up>>
        PROVE  /\ Phase' = [Phase EXCEPT ![t] = PhaseOf(l)]
               /\ Phase[t] = PhaseOf(pc[t])
               /\ Held' = Held
    BY <1>2, <2>a, PhaseMoves DEF Held, HeldBy
  <2>b. ASSUME NEW t \in Tests, NEW l, pc' = [pc EXCEPT ![t] = l], parallel' = parallel,
               UNCHANGED <<remains, up>>, PhaseOf(l) = PhaseOf(pc[t])
        PROVE  Goal
    <3>1. Phase' = [Phase EXCEPT ![t] = Phase[t]] /\ Held' = Held
      BY <2>a, <2>b
    <3>2. Phase' = Phase
      BY <3>1 DEF Phase
    <3> QED BY <3>1, <3>2
  <2> USE <1>2 DEF HarnessInv, TypeOK, Move, engine
  <2>1. ASSUME NEW t \in Tests,
               Start(t) \/ BeginBuild(t) \/ Connect(t) \/ Body(t)
        PROVE  Goal
    BY <2>1, <2>b DEF Start, BeginBuild, Connect, Body, PhaseOf
  <2>2. ASSUME NEW t \in Tests, PruneEnds(t) PROVE Goal
    BY <2>2, <2>b DEF PruneEnds, PhaseOf
  <2>3. ASSUME NEW t \in Tests, ReuseScenario(t) PROVE Goal
    BY <2>3, OthersAreOver DEF ReuseScenario, Reusable
  <2>4. ASSUME NEW t \in Tests, LockSetup(t) PROVE Goal
    <3>1. Phase[t] = "idle" /\ Phase' = [Phase EXCEPT ![t] = "provisioning"] /\ Held' = Held
      BY <2>4, <2>a DEF LockSetup, PhaseOf
    <3>2. Lent!Open(t)
      BY <3>1 DEF Lent!Open, Lent!Become, Phase, Held
    <3> QED BY <3>2 DEF Lent!Next
  <2>5. ASSUME NEW t \in Tests, CreateContainer(t) PROVE Goal
    <3>1. HeldBy(t)' = HeldBy(t) \cup {"some"} /\ t \notin up
      BY <2>5 DEF CreateContainer, HeldBy
    <3>2. Held' = [Held EXCEPT ![t] = @ \cup {"some"}]
      BY <2>5, <3>1, HeldMoves DEF CreateContainer
    <3>3. Phase[t] = "provisioning" /\ Phase' = Phase
      BY <2>5 DEF CreateContainer, Phase, PhaseOf
    <3>4. Lent!Acquire(t)
      BY <3>2, <3>3 DEF Lent!Acquire, Lent!Gain, Phase, Held
    <3> QED BY <3>4 DEF Lent!Next
  <2>6. ASSUME NEW t \in Tests, BuildSucceeds(t) PROVE Goal
    <3>1. HeldBy(t)' = HeldBy(t) \cup {"whole"}
      BY <2>6 DEF BuildSucceeds, HeldBy
    <3>2. Held' = [Held EXCEPT ![t] = @ \cup {"whole"}]
      BY <2>6, <3>1, HeldMoves DEF BuildSucceeds
    <3>3. Phase[t] = "provisioning" /\ Phase' = [Phase EXCEPT ![t] = "provisioning"]
      BY <2>6, PhaseMoves DEF BuildSucceeds, PhaseOf
    <3>4. Phase' = Phase
      BY <3>3 DEF Phase
    <3>5. Lent!Acquire(t)
      BY <3>2, <3>3, <3>4 DEF Lent!Acquire, Lent!Gain, Phase, Held
    <3> QED BY <3>5 DEF Lent!Next
  <2>7. ASSUME NEW t \in Tests, LaunchServices(t) PROVE Goal
    <3>1. t \in up /\ t \in remains
      BY <2>7 DEF LaunchServices, Guarded
    <3>2. Phase[t] = "provisioning" /\ Phase' = [Phase EXCEPT ![t] = "available"]
          /\ Held' = Held
      BY <2>7, <2>a DEF LaunchServices, PhaseOf
    <3>3. Held[t] = {"some", "whole"}
      BY <3>1 DEF Held, HeldBy
    <3>4. Lent!Offer(t)
      BY <3>2, <3>3 DEF Lent!Offer, Lent!Become, Phase, Held
    <3> QED BY <3>4 DEF Lent!Next
  <2>8. ASSUME NEW t \in Tests,
               BuildFails(t) \/ BuildAborts(t) \/ LaunchFails(t) \/ LockCleanup(t)
        PROVE  Goal
    <3>1. Phase[t] \in {"provisioning", "available"}
          /\ Phase' = [Phase EXCEPT ![t] = "releasing"] /\ Held' = Held
      BY <2>8, <2>a DEF BuildFails, BuildAborts, LaunchFails, LockCleanup, PhaseOf
    <3>2. Lent!Close(t)
      BY <3>1 DEF Lent!Close, Lent!Become, Phase, Held
    <3> QED BY <3>2 DEF Lent!Next
  <2>9. ASSUME NEW t \in Tests, Exit(t) \/ ClearActive(t) PROVE Goal
    <3>1. Phase[t] = "releasing" /\ Phase' = [Phase EXCEPT ![t] = "ended"]
          /\ Held' = Held
      BY <2>9, <2>a DEF Exit, ClearActive, PhaseOf
    <3>2. Lent!End(t)
      BY <3>1 DEF Lent!End, Lent!Become, Phase, Held
    <3> QED BY <3>2 DEF Lent!Next
  <2>10. ASSUME NEW t \in Tests, Remove(t) PROVE Goal
    <3>1. PICK u \in remains :
            IF u \in up THEN up' = up \ {u} /\ remains' = remains
                        ELSE remains' = remains \ {u} /\ up' = up
      BY <2>10 DEF Remove
    <3>2. u \in Tests /\ Phase' = Phase
      BY <2>10 DEF Remove, Phase
    <3>3. \E x \in HeldBy(u) : HeldBy(u)' = HeldBy(u) \ {x}
      <4>1. CASE u \in up
        BY <3>1, <4>1 DEF HeldBy
      <4>2. CASE u \notin up
        BY <3>1, <4>2 DEF HeldBy
      <4> QED BY <4>1, <4>2
    <3>4. Held' = [Held EXCEPT ![u] = HeldBy(u)'] /\ Held[u] = HeldBy(u)
      BY <2>10, <3>1, <3>2, HeldMoves DEF Remove
    <3>5. Lent!Lose(u)
      BY <3>3, <3>4 DEF Lent!Lose, Held
    <3>6. pc[u] = "over" \/ (u = t /\ pc[t] \in {"teardown", "abandon"})
      BY <2>10, <3>1, OthersAreOver DEF Remove, Removing
    <3>7. Phase[u] \in {"ended", "releasing"}
      BY <3>2, <3>6 DEF Phase, PhaseOf
    <3>8. CASE Phase[u] = "ended"
      <4>1. Lent!Reclaim(u)
        BY <3>2, <3>5, <3>8 DEF Lent!Reclaim, Phase
      <4> QED BY <3>2, <4>1 DEF Lent!Next
    <3>9. CASE Phase[u] = "releasing"
      <4>1. Lent!GiveBack(u)
        BY <3>2, <3>5, <3>9 DEF Lent!GiveBack, Phase
      <4> QED BY <3>2, <4>1 DEF Lent!Next
    <3> QED BY <3>7, <3>8, <3>9
  <2>11. CASE UNCHANGED vars
    BY <2>11 DEF vars, Phase, Held, HeldBy
  <2> QED
    BY <2>1, <2>2, <2>3, <2>4, <2>5, <2>6, <2>7, <2>8, <2>9, <2>10, <2>11
       DEF Next, Step, AllOver
<1> QED BY <1>1, <1>2

\* To tests in sequence a scenario is a lease: complete before they have it,
\* theirs until their cleanup, and reclaimed by others only when they are over.
THEOREM SequentialTestsLease == Spec => TestsImplementLease
<1>1. Init => Lent!Init
  <2> SUFFICES ASSUME Init PROVE Lent!Init
    OBVIOUS
  <2>1. \A t \in Tests : PhaseOf(pc[t]) = "idle" /\ HeldBy(t) = {}
    BY DEF Init, PhaseOf, HeldBy
  <2> QED BY <2>1 DEF Init, Lent!Init
<1>2. HarnessInv /\ [Next]_vars => [Lent!Next]_(Lent!vars)
  BY StepImplementsLease
<1> QED BY <1>1, <1>2, HarnessInvariant, PTL DEF Spec, TestsImplementLease, Lent!Spec
=============================================================================
