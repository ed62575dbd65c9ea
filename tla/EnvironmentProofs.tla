------------------------- MODULE EnvironmentProofs -------------------------
(***************************************************************************)
(* What holds of Environment for every set of runs, every scenario and     *)
(* every set of foreign containers, by induction on the steps.             *)
(***************************************************************************)
EXTENDS Environment, TLAPS

-----------------------------------------------------------------------------
(* Types *)

\* A run that awaits or configures a container is inside its plan.
LEMMA CurrentManaged ==
    ASSUME TypeOK, NEW r \in Runs, next[r] \in DOMAIN Plan
    PROVE  Current(r) \in Managed /\ Current(r) \in Own(r)
BY DEF Current, Service, Managed, Services, ToSet, Own

\* Every variable stays in its type, whatever the runs and the engine do.
THEOREM TypeCorrect == Spec => []TypeOK
<1>1. Init => TypeOK
  BY DEF Init, TypeOK, Live, Finished, Pruning, Building, Closing
<1>2. TypeOK /\ [Next]_vars => TypeOK'
  <2> SUFFICES ASSUME TypeOK, [Next]_vars PROVE TypeOK'
    OBVIOUS
  <2> USE DEF TypeOK, Move, engine, memory, ghosts, pruning, Live, Finished,
              Pruning, Building, Closing
  <2>1. ASSUME NEW r \in Runs, Begin(r) PROVE TypeOK'
    BY <2>1 DEF Begin
  <2>2. ASSUME NEW r \in Runs, ListManaged(r) PROVE TypeOK'
    BY <2>2 DEF ListManaged, Labelled
  <2>3. ASSUME NEW r \in Runs, ListFails(r) PROVE TypeOK'
    BY <2>3 DEF ListFails, Labelled
  <2>4. ASSUME NEW r \in Runs, RemoveListed(r) PROVE TypeOK'
    BY <2>4 DEF RemoveListed
  <2>5. ASSUME NEW r \in Runs, PruneEnds(r) PROVE TypeOK'
    BY <2>5 DEF PruneEnds
  <2>6. ASSUME NEW r \in Runs, BuildAborts(r) PROVE TypeOK'
    BY <2>6 DEF BuildAborts
  <2>7. ASSUME NEW r \in Runs, CreateNetwork(r) PROVE TypeOK'
    BY <2>7 DEF CreateNetwork
  <2>8. ASSUME NEW r \in Runs, CreateContainer(r) PROVE TypeOK'
    <3>1. Current(r) \in Managed
      BY <2>8, CurrentManaged DEF CreateContainer
    <3> QED BY <2>8, <3>1 DEF CreateContainer
  <2>9. ASSUME NEW r \in Runs, CreateFails(r) PROVE TypeOK'
    BY <2>9 DEF CreateFails
  <2>10. ASSUME NEW r \in Runs, StartSucceeds(r) PROVE TypeOK'
    <3>1. Current(r) \in Managed
      BY <2>10, CurrentManaged DEF StartSucceeds
    <3> QED BY <2>10, <3>1 DEF StartSucceeds
  <2>11. ASSUME NEW r \in Runs, StartFails(r) PROVE TypeOK'
    BY <2>11 DEF StartFails
  <2>12. ASSUME NEW r \in Runs, Migrate(r) PROVE TypeOK'
    BY <2>12 DEF Migrate
  <2>13. ASSUME NEW r \in Runs, Configure(r) PROVE TypeOK'
    <3>1. Current(r) \in Managed
      BY <2>13, CurrentManaged DEF Configure
    <3> QED BY <2>13, <3>1 DEF Configure
  <2>14. ASSUME NEW r \in Runs, ConfigureFails(r) PROVE TypeOK'
    <3>1. Current(r) \in Managed
      BY <2>14, CurrentManaged DEF ConfigureFails
    <3> QED BY <2>14, <3>1 DEF ConfigureFails
  <2>15. ASSUME NEW r \in Runs, BecomeReady(r) PROVE TypeOK'
    BY <2>15 DEF BecomeReady
  <2>16. ASSUME NEW r \in Runs, Release(r) PROVE TypeOK'
    BY <2>16 DEF Release
  <2>17. ASSUME NEW r \in Runs, CloseClients(r) PROVE TypeOK'
    BY <2>17 DEF CloseClients
  <2>18. ASSUME NEW r \in Runs, Terminate(r) PROVE TypeOK'
    BY <2>18 DEF Terminate
  <2>19. ASSUME NEW r \in Runs, TerminateEnds(r) PROVE TypeOK'
    BY <2>19 DEF TerminateEnds
  <2>20. ASSUME NEW r \in Runs, RemoveNetwork(r) PROVE TypeOK'
    BY <2>20 DEF RemoveNetwork
  <2>21. ASSUME NEW r \in Runs, Crash(r) PROVE TypeOK'
    BY <2>21 DEF Crash
  <2>22. CASE UNCHANGED vars
    BY <2>22 DEF vars
  <2> QED
    BY <2>1, <2>2, <2>3, <2>4, <2>5, <2>6, <2>7, <2>8, <2>9, <2>10, <2>11,
       <2>12, <2>13, <2>14, <2>15, <2>16, <2>17, <2>18, <2>19, <2>20, <2>21,
       <2>22 DEF Next, Step, AllFinished
<1> QED BY <1>1, <1>2, PTL DEF Spec

-----------------------------------------------------------------------------
(* Nothing of a run is left once it has ended *)

\* From the last list on, a run's containers are among those listed and those
\* spared; before the network exists it has none; Teardown closes its pools.
Tidy(r) ==
    /\ pc[r] \in {"idle"} \cup Pruning =>
          (containers \cup pools) \cap Own(r) = {}
    /\ pc[r] = "reprune" =>
          containers \cap Own(r) \subseteq listed[r] \cup spared[r]
    /\ pc[r] = "done" => containers \cap Own(r) \subseteq spared[r]
    /\ pc[r] \in {"terminate", "unlink", "relist", "reprune", "done"} =>
          pools \cap Own(r) = {}

TidyInv == TypeOK /\ \A r \in Runs : Tidy(r)

\* Containers and pools of different runs are different.
LEMMA OwnDisjoint ==
    ASSUME NEW q \in Runs, NEW r \in Runs, q # r
    PROVE  Own(q) \cap Own(r) = {}
BY DEF Own

LEMMA TidyInit == Init => \A r \in Runs : Tidy(r)
BY ForeignAssumption DEF Init, Tidy, Own, Pruning

LEMMA TidyStep ==
    ASSUME TidyInv, TypeOK', [Next]_vars
    PROVE  \A q \in Runs : Tidy(q)'
<1> SUFFICES ASSUME NEW q \in Runs PROVE Tidy(q)'
  OBVIOUS
<1> USE DEF TidyInv, TypeOK, Tidy, Move, engine, memory, ghosts, pruning,
            Pruning
<1>1. ASSUME NEW r \in Runs, Begin(r) PROVE Tidy(q)'
  BY <1>1 DEF Begin
<1>2. ASSUME NEW r \in Runs, ListManaged(r) PROVE Tidy(q)'
  BY <1>2 DEF ListManaged, Labelled, Own
<1>3. ASSUME NEW r \in Runs, ListFails(r) PROVE Tidy(q)'
  BY <1>3 DEF ListFails, Labelled, Own
<1>4. ASSUME NEW r \in Runs, RemoveListed(r) PROVE Tidy(q)'
  BY <1>4 DEF RemoveListed
<1>5. ASSUME NEW r \in Runs, PruneEnds(r) PROVE Tidy(q)'
  BY <1>5 DEF PruneEnds
<1>6. ASSUME NEW r \in Runs, BuildAborts(r) PROVE Tidy(q)'
  BY <1>6 DEF BuildAborts
<1>7. ASSUME NEW r \in Runs, CreateNetwork(r) PROVE Tidy(q)'
  BY <1>7 DEF CreateNetwork
<1>8. ASSUME NEW r \in Runs, CreateContainer(r) PROVE Tidy(q)'
  <2>1. Current(r) \in Own(r)
    BY <1>8, CurrentManaged DEF CreateContainer
  <2> QED BY <1>8, <2>1, OwnDisjoint DEF CreateContainer
<1>9. ASSUME NEW r \in Runs, CreateFails(r) PROVE Tidy(q)'
  BY <1>9 DEF CreateFails
<1>10. ASSUME NEW r \in Runs, StartSucceeds(r) PROVE Tidy(q)'
  BY <1>10 DEF StartSucceeds
<1>11. ASSUME NEW r \in Runs, StartFails(r) PROVE Tidy(q)'
  BY <1>11 DEF StartFails
<1>12. ASSUME NEW r \in Runs, Migrate(r) PROVE Tidy(q)'
  BY <1>12 DEF Migrate
<1>13. ASSUME NEW r \in Runs, Configure(r) PROVE Tidy(q)'
  <2>1. Current(r) \in Own(r)
    BY <1>13, CurrentManaged DEF Configure
  <2> QED BY <1>13, <2>1, OwnDisjoint DEF Configure
<1>14. ASSUME NEW r \in Runs, ConfigureFails(r) PROVE Tidy(q)'
  <2>1. Current(r) \in Own(r)
    BY <1>14, CurrentManaged DEF ConfigureFails
  <2> QED BY <1>14, <2>1, OwnDisjoint DEF ConfigureFails
<1>15. ASSUME NEW r \in Runs, BecomeReady(r) PROVE Tidy(q)'
  BY <1>15 DEF BecomeReady
<1>16. ASSUME NEW r \in Runs, Release(r) PROVE Tidy(q)'
  BY <1>16 DEF Release
<1>17. ASSUME NEW r \in Runs, CloseClients(r) PROVE Tidy(q)'
  BY <1>17 DEF CloseClients
<1>18. ASSUME NEW r \in Runs, Terminate(r) PROVE Tidy(q)'
  BY <1>18 DEF Terminate
<1>19. ASSUME NEW r \in Runs, TerminateEnds(r) PROVE Tidy(q)'
  BY <1>19 DEF TerminateEnds
<1>20. ASSUME NEW r \in Runs, RemoveNetwork(r) PROVE Tidy(q)'
  BY <1>20 DEF RemoveNetwork
<1>21. ASSUME NEW r \in Runs, Crash(r) PROVE Tidy(q)'
  BY <1>21 DEF Crash
<1>22. CASE UNCHANGED vars
  BY <1>22 DEF vars
<1> QED
  BY <1>1, <1>2, <1>3, <1>4, <1>5, <1>6, <1>7, <1>8, <1>9, <1>10, <1>11,
     <1>12, <1>13, <1>14, <1>15, <1>16, <1>17, <1>18, <1>19, <1>20, <1>21,
     <1>22 DEF Next, Step, AllFinished

\* Whatever failed on the way, and however many runs share the engine, a run
\* that ended has left no container its last prune was not refused, and no
\* client pool.
THEOREM EndedRunsLeaveNothing == Spec => []EndedRunLeavesNothing
<1>1. Spec => []TypeOK
  BY TypeCorrect
<1>2. Init => \A r \in Runs : Tidy(r)
  BY TidyInit
<1>3. TypeOK /\ TypeOK' /\ (\A r \in Runs : Tidy(r)) /\ [Next]_vars
      => (\A r \in Runs : Tidy(r))'
  BY TidyStep DEF TidyInv
<1>4. (\A r \in Runs : Tidy(r)) => EndedRunLeavesNothing
  BY DEF Tidy, EndedRunLeavesNothing
<1> QED BY <1>1, <1>2, <1>3, <1>4, PTL DEF Spec

-----------------------------------------------------------------------------
(* A run that lost nothing and was refused nothing leaves no network *)

\* Unless a container was left without a handle, everything a run created is
\* in the Environment's handles, but for the container being awaited.
Accounted(r) ==
    /\ pc[r] \in {"idle"} \cup Pruning => r \notin networks
    /\ r \notin strays \cup refused =>
        /\ pc[r] \in {"start", "configure", "ready", "close", "terminate"} =>
              containers \cap Own(r) \subseteq handles
        /\ pc[r] = "await" =>
              containers \cap Own(r) \subseteq handles \cup {Current(r)}
        /\ pc[r] \in {"unlink", "relist", "reprune", "done"} =>
              containers \cap Own(r) = {}
        /\ pc[r] \in {"relist", "reprune", "done"} => r \notin networks

AccountedInv == TidyInv /\ \A r \in Runs : Accounted(r)

LEMMA AccountedStep ==
    ASSUME AccountedInv, TypeOK', [Next]_vars
    PROVE  \A q \in Runs : Accounted(q)'
<1> SUFFICES ASSUME NEW q \in Runs PROVE Accounted(q)'
  OBVIOUS
<1> USE DEF AccountedInv, TidyInv, Tidy, TypeOK, Accounted, Move, engine, memory, ghosts, pruning,
            Pruning
<1>1. ASSUME NEW r \in Runs, Begin(r) PROVE Accounted(q)'
  BY <1>1 DEF Begin, Current, Service
<1>2. ASSUME NEW r \in Runs, ListManaged(r) PROVE Accounted(q)'
  BY <1>2 DEF ListManaged, Current, Service
<1>3. ASSUME NEW r \in Runs, ListFails(r) PROVE Accounted(q)'
  BY <1>3 DEF ListFails, Current, Service
<1>4. ASSUME NEW r \in Runs, RemoveListed(r) PROVE Accounted(q)'
  BY <1>4 DEF RemoveListed, Current, Service
<1>5. ASSUME NEW r \in Runs, PruneEnds(r) PROVE Accounted(q)'
  BY <1>5 DEF PruneEnds, Current, Service
<1>6. ASSUME NEW r \in Runs, BuildAborts(r) PROVE Accounted(q)'
  BY <1>6 DEF BuildAborts, Current, Service
<1>7. ASSUME NEW r \in Runs, CreateNetwork(r) PROVE Accounted(q)'
  BY <1>7 DEF CreateNetwork, Current, Service
<1>8. ASSUME NEW r \in Runs, CreateContainer(r) PROVE Accounted(q)'
  <2>1. Current(r) \in Own(r)
    BY <1>8, CurrentManaged DEF CreateContainer
  <2> QED BY <1>8, <2>1, OwnDisjoint DEF CreateContainer, Current, Service
<1>9. ASSUME NEW r \in Runs, CreateFails(r) PROVE Accounted(q)'
  BY <1>9 DEF CreateFails, Current, Service
<1>10. ASSUME NEW r \in Runs, StartSucceeds(r) PROVE Accounted(q)'
  <2>1. Current(r) \in Own(r)
    BY <1>10, CurrentManaged DEF StartSucceeds
  <2> QED BY <1>10, <2>1, OwnDisjoint DEF StartSucceeds, Current, Service, Ephemeral
<1>11. ASSUME NEW r \in Runs, StartFails(r) PROVE Accounted(q)'
  <2>1. Current(r) \in Own(r)
    BY <1>11, CurrentManaged DEF StartFails
  <2> QED BY <1>11, <2>1, OwnDisjoint DEF StartFails, Current, Service
<1>12. ASSUME NEW r \in Runs, Migrate(r) PROVE Accounted(q)'
  BY <1>12 DEF Migrate, Current, Service, Ephemeral
<1>13. ASSUME NEW r \in Runs, Configure(r) PROVE Accounted(q)'
  <2>1. Current(r) \in Own(r)
    BY <1>13, CurrentManaged DEF Configure
  <2> QED BY <1>13, <2>1, OwnDisjoint DEF Configure, Current, Service
<1>14. ASSUME NEW r \in Runs, ConfigureFails(r) PROVE Accounted(q)'
  <2>1. Current(r) \in Own(r)
    BY <1>14, CurrentManaged DEF ConfigureFails
  <2> QED BY <1>14, <2>1, OwnDisjoint DEF ConfigureFails, Current, Service
<1>15. ASSUME NEW r \in Runs, BecomeReady(r) PROVE Accounted(q)'
  BY <1>15 DEF BecomeReady, Current, Service
<1>16. ASSUME NEW r \in Runs, Release(r) PROVE Accounted(q)'
  BY <1>16 DEF Release, Current, Service
<1>17. ASSUME NEW r \in Runs, CloseClients(r) PROVE Accounted(q)'
  BY <1>17 DEF CloseClients, Current, Service
<1>18. ASSUME NEW r \in Runs, Terminate(r) PROVE Accounted(q)'
  BY <1>18, OwnDisjoint DEF Terminate, Current, Service, Recorded
<1>19. ASSUME NEW r \in Runs, TerminateEnds(r) PROVE Accounted(q)'
  BY <1>19 DEF TerminateEnds, Current, Service, Recorded
<1>20. ASSUME NEW r \in Runs, RemoveNetwork(r) PROVE Accounted(q)'
  BY <1>20 DEF RemoveNetwork, Current, Service, Attached
<1>21. ASSUME NEW r \in Runs, Crash(r) PROVE Accounted(q)'
  BY <1>21, OwnDisjoint DEF Crash, Current, Service
<1>22. CASE UNCHANGED vars
  BY <1>22 DEF vars, Current, Service
<1> QED
  BY <1>1, <1>2, <1>3, <1>4, <1>5, <1>6, <1>7, <1>8, <1>9, <1>10, <1>11,
     <1>12, <1>13, <1>14, <1>15, <1>16, <1>17, <1>18, <1>19, <1>20, <1>21,
     <1>22 DEF Next, Step, AllFinished

\* The errors Teardown collects are the only trace of a network that stays
\* behind, and a start that failed halfway the only way to have none.
THEOREM CleanRunsLeaveNoNetwork == Spec => []CleanRunLeavesNoNetwork
<1>1. Spec => []TypeOK
  BY TypeCorrect
<1>2. Init => \A r \in Runs : Tidy(r) /\ Accounted(r)
  BY TidyInit DEF Init, Accounted
<1>3. TypeOK /\ TypeOK' /\ (\A r \in Runs : Tidy(r) /\ Accounted(r)) /\ [Next]_vars
      => (\A r \in Runs : Tidy(r) /\ Accounted(r))'
  BY TidyStep, AccountedStep DEF TidyInv, AccountedInv
<1>4. (\A r \in Runs : Tidy(r) /\ Accounted(r)) => CleanRunLeavesNoNetwork
  BY DEF Accounted, CleanRunLeavesNoNetwork
<1> QED BY <1>1, <1>2, <1>3, <1>4, PTL DEF Spec

-----------------------------------------------------------------------------
(* Runs that follow each other do not disturb each other *)

\* With one live run at a time, what its prune has not listed or spared is
\* its own, and nobody takes a recorded container or its network away.
Undisturbed(r) ==
    /\ \A q \in Runs : pc[q] \in Live /\ pc[r] \in Live => q = r
    /\ pc[r] \in {"idle"} \cup Pruning => Recorded(r) = {}
    /\ \A c \in Recorded(r) : c[2] \notin ToSet(Migrations)
    /\ pc[r] = "prune" => Labelled \subseteq Own(r) \cup listed[r] \cup spared[r]
    /\ pc[r] \in {"network", "ready"} \cup Building =>
          Labelled \subseteq Own(r) \cup spared[r]
    /\ pc[r] \in {"ready"} \cup Building =>
          Recorded(r) \subseteq containers /\ r \in networks

UndisturbedInv == Serial /\ TidyInv /\ \A r \in Runs : Undisturbed(r)

LEMMA UndisturbedStep ==
    ASSUME UndisturbedInv, TypeOK', [Next]_vars
    PROVE  \A q \in Runs : Undisturbed(q)'
<1> SUFFICES ASSUME NEW q \in Runs PROVE Undisturbed(q)'
  OBVIOUS
<1> USE DEF UndisturbedInv, TidyInv, Tidy, TypeOK, Undisturbed, Move, engine, memory, ghosts, pruning,
            Pruning,
            Building, Closing, Live
<1>1. ASSUME NEW r \in Runs, Begin(r) PROVE Undisturbed(q)'
  BY <1>1 DEF Begin, Recorded, Labelled, MayBegin
<1>2. ASSUME NEW r \in Runs, ListManaged(r) PROVE Undisturbed(q)'
  BY <1>2 DEF ListManaged, Recorded, Labelled
<1>3. ASSUME NEW r \in Runs, ListFails(r) PROVE Undisturbed(q)'
  BY <1>3 DEF ListFails, Recorded, Labelled
<1>4. ASSUME NEW r \in Runs, RemoveListed(r) PROVE Undisturbed(q)'
  BY <1>4 DEF RemoveListed, Recorded, Labelled
<1>5. ASSUME NEW r \in Runs, PruneEnds(r) PROVE Undisturbed(q)'
  BY <1>5 DEF PruneEnds, Recorded, Labelled
<1>6. ASSUME NEW r \in Runs, BuildAborts(r) PROVE Undisturbed(q)'
  BY <1>6 DEF BuildAborts, Recorded, Labelled
<1>7. ASSUME NEW r \in Runs, CreateNetwork(r) PROVE Undisturbed(q)'
  BY <1>7 DEF CreateNetwork, Recorded, Labelled
<1>8. ASSUME NEW r \in Runs, CreateContainer(r) PROVE Undisturbed(q)'
  <2>1. Current(r) \in Own(r)
    BY <1>8, CurrentManaged DEF CreateContainer
  <2> QED BY <1>8, <2>1, OwnDisjoint DEF CreateContainer, Recorded, Labelled
<1>9. ASSUME NEW r \in Runs, CreateFails(r) PROVE Undisturbed(q)'
  BY <1>9 DEF CreateFails, Recorded, Labelled
<1>10. ASSUME NEW r \in Runs, StartSucceeds(r) PROVE Undisturbed(q)'
  <2>1. Current(r) \in Own(r)
    BY <1>10, CurrentManaged DEF StartSucceeds
  <2> QED BY <1>10, <2>1, OwnDisjoint DEF StartSucceeds, Recorded, Labelled,
       Ephemeral, Current, Service
<1>11. ASSUME NEW r \in Runs, StartFails(r) PROVE Undisturbed(q)'
  <2>1. Current(r) \in Own(r)
    BY <1>11, CurrentManaged DEF StartFails
  <2> QED BY <1>11, <2>1, OwnDisjoint DEF StartFails, Recorded, Labelled
<1>12. ASSUME NEW r \in Runs, Migrate(r) PROVE Undisturbed(q)'
  BY <1>12 DEF Migrate, Recorded, Labelled, Ephemeral, Current, Service
<1>13. ASSUME NEW r \in Runs, Configure(r) PROVE Undisturbed(q)'
  <2>1. Current(r) \in Own(r)
    BY <1>13, CurrentManaged DEF Configure
  <2> QED BY <1>13, <2>1, OwnDisjoint DEF Configure, Recorded, Labelled
<1>14. ASSUME NEW r \in Runs, ConfigureFails(r) PROVE Undisturbed(q)'
  <2>1. Current(r) \in Own(r)
    BY <1>14, CurrentManaged DEF ConfigureFails
  <2> QED BY <1>14, <2>1, OwnDisjoint DEF ConfigureFails, Recorded, Labelled
<1>15. ASSUME NEW r \in Runs, BecomeReady(r) PROVE Undisturbed(q)'
  BY <1>15 DEF BecomeReady, Recorded, Labelled
<1>16. ASSUME NEW r \in Runs, Release(r) PROVE Undisturbed(q)'
  BY <1>16 DEF Release, Recorded, Labelled
<1>17. ASSUME NEW r \in Runs, CloseClients(r) PROVE Undisturbed(q)'
  BY <1>17 DEF CloseClients, Recorded, Labelled
<1>18. ASSUME NEW r \in Runs, Terminate(r) PROVE Undisturbed(q)'
  BY <1>18 DEF Terminate, Recorded, Labelled
<1>19. ASSUME NEW r \in Runs, TerminateEnds(r) PROVE Undisturbed(q)'
  BY <1>19 DEF TerminateEnds, Recorded, Labelled
<1>20. ASSUME NEW r \in Runs, RemoveNetwork(r) PROVE Undisturbed(q)'
  BY <1>20 DEF RemoveNetwork, Recorded, Labelled
<1>21. ASSUME NEW r \in Runs, Crash(r) PROVE Undisturbed(q)'
  BY <1>21 DEF Crash, Recorded, Labelled
<1>22. CASE UNCHANGED vars
  BY <1>22 DEF vars, Recorded, Labelled
<1> QED
  BY <1>1, <1>2, <1>3, <1>4, <1>5, <1>6, <1>7, <1>8, <1>9, <1>10, <1>11,
     <1>12, <1>13, <1>14, <1>15, <1>16, <1>17, <1>18, <1>19, <1>20, <1>21,
     <1>22 DEF Next, Step, AllFinished

LEMMA SerialInvariant ==
    Serial /\ Spec => [](TypeOK /\ \A r \in Runs : Tidy(r) /\ Undisturbed(r))
<1>1. Spec => []TypeOK
  BY TypeCorrect
<1>2. Serial /\ Init => \A r \in Runs : Tidy(r) /\ Undisturbed(r)
  BY TidyInit DEF Init, Undisturbed, Live, Building, Closing, Pruning, Recorded
<1>3. Serial /\ TypeOK /\ TypeOK' /\ (\A r \in Runs : Tidy(r) /\ Undisturbed(r))
        /\ [Next]_vars
      => (\A r \in Runs : Tidy(r) /\ Undisturbed(r))'
  BY TidyStep, UndisturbedStep DEF TidyInv, UndisturbedInv
<1>4. CASE Serial
  BY <1>1, <1>2, <1>3, <1>4, PTL DEF Spec
<1> QED BY <1>4

\* One run at a time: a building or ready run keeps what it recorded.
THEOREM SerialEnvironmentsIntact == Serial /\ Spec => []LiveEnvironmentIntact
<1>1. (\A r \in Runs : Tidy(r) /\ Undisturbed(r)) => LiveEnvironmentIntact
  BY DEF Undisturbed, LiveEnvironmentIntact
<1> QED BY <1>1, SerialInvariant, PTL

\* One run at a time: a building or ready run shares the engine only with
\* leftovers that its startup prune was refused.
THEOREM SerialRunsStartClean == Serial /\ Spec => []CleanSlate
<1>1. (\A r \in Runs : Tidy(r) /\ Undisturbed(r)) => CleanSlate
  BY DEF Undisturbed, CleanSlate
<1> QED BY <1>1, SerialInvariant, PTL

-----------------------------------------------------------------------------
(* Containers without the label *)

\* No step of any run or prune removes a container that is not labelled.
THEOREM ForeignContainersUntouched == Spec => ForeignUntouched
<1>1. Init => Foreign \subseteq containers
  BY DEF Init
<1>2. TypeOK /\ Foreign \subseteq containers /\ [Next]_vars
      => Foreign \subseteq containers'
  <2> SUFFICES ASSUME TypeOK, Foreign \subseteq containers, [Next]_vars
               PROVE  Foreign \subseteq containers'
    OBVIOUS
  <2> USE DEF engine
  <2>1. ASSUME NEW r \in Runs, RemoveListed(r) PROVE Foreign \subseteq containers'
    BY <2>1, ForeignAssumption DEF RemoveListed, TypeOK
  <2>2. ASSUME NEW r \in Runs, CreateContainer(r) PROVE Foreign \subseteq containers'
    BY <2>2 DEF CreateContainer
  <2>3. ASSUME NEW r \in Runs, Migrate(r) PROVE Foreign \subseteq containers'
    <3>1. Current(r) \in Managed
      BY <2>3, CurrentManaged DEF Migrate, TypeOK
    <3> QED BY <2>3, <3>1, ForeignAssumption DEF Migrate
  <2>4. ASSUME NEW r \in Runs, Terminate(r) PROVE Foreign \subseteq containers'
    BY <2>4, ForeignAssumption DEF Terminate, TypeOK, Recorded
  <2>5. ASSUME NEW r \in Runs, Step(r) \/ Crash(r),
               ~RemoveListed(r), ~CreateContainer(r), ~Migrate(r), ~Terminate(r)
        PROVE  containers' = containers
    BY <2>5 DEF Step, Begin, ListManaged, ListFails, PruneEnds, BuildAborts,
       CreateNetwork, CreateFails, StartSucceeds, StartFails, Configure,
       ConfigureFails, BecomeReady, Release, CloseClients, TerminateEnds,
       RemoveNetwork, Crash
  <2> QED
    BY <2>1, <2>2, <2>3, <2>4, <2>5 DEF Next, AllFinished, vars
<1>3. TypeOK /\ Foreign \subseteq containers /\ [Next]_vars
      => (Foreign \subseteq containers)'
  BY <1>2
<1>4. Spec => [](Foreign \subseteq containers)
  BY <1>1, <1>3, TypeCorrect, PTL DEF Spec
<1> QED BY <1>2, <1>4, TypeCorrect, PTL DEF Spec, ForeignUntouched
=============================================================================
