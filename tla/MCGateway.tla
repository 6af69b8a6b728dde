------------------------------- MODULE MCGateway -------------------------------
(* The components that share no variable with another, for TLC.  A         *)
(* behaviour of all is an interleaving of a behaviour of each, so one run  *)
(* checks them side by side: the part that moves is chosen at the start    *)
(* and the others stay as they began.                                      *)
EXTENDS Lifecycle, DlqInspector, CircuitBreaker, MCRateLimit, MCReplayLoop,
        MCRouteAdmin, MCSettings

CONSTANTS i1, i2, s1, s2, c1, c2, c3

MCProbes == {i1, i2}
MCSignals == {s1, s2}
MCCallers == {c1, c2, c3}

Parts == {"lifecycle", "inspector", "breaker", "bucket", "loop", "routes", "settings"}

VARIABLE part

configurationVars == <<routesVars, settingsVars>>
replayVars == <<inspectorVars, bucketVars, loopVars>>
MCVars == <<part, lifecycleVars, vars, replayVars, configurationVars>>

\* A part that does not move begins in one way.
MCInit ==
  /\ part \in Parts
  /\ LifecycleInit /\ (part # "lifecycle" => checked)
  /\ InspectorInit /\ ~ exists
  /\ Init
  /\ BucketInit /\ (part # "bucket" => perSec = 10)
  /\ LoopInit /\ (part # "loop" => headers = Headers(<< >>, << >>))
  /\ RoutesInit
  /\ SettingsInit /\ (part # "settings" => env = Empty /\ onDisk = "file")

LifecycleMoves(Step) ==
  /\ part = "lifecycle" /\ Step
  /\ UNCHANGED <<part, vars, replayVars, configurationVars>>

InspectorMoves(Step) ==
  /\ part = "inspector" /\ Step
  /\ UNCHANGED <<part, lifecycleVars, vars, bucketVars, loopVars, configurationVars>>

BreakerMoves(Step) ==
  /\ part = "breaker" /\ Step
  /\ UNCHANGED <<part, lifecycleVars, replayVars, configurationVars>>

BucketMoves(Step) ==
  /\ part = "bucket" /\ Step
  /\ UNCHANGED <<part, lifecycleVars, vars, inspectorVars, loopVars, configurationVars>>

LoopMoves(Step) ==
  /\ part = "loop" /\ Step
  /\ UNCHANGED <<part, lifecycleVars, vars, inspectorVars, bucketVars, configurationVars>>

RoutesMove(Step) ==
  /\ part = "routes" /\ Step
  /\ UNCHANGED <<part, lifecycleVars, vars, replayVars, settingsVars>>

SettingsMove(Step) ==
  /\ part = "settings" /\ Step
  /\ UNCHANGED <<part, lifecycleVars, vars, replayVars, routesVars>>

\* To keep the run small, retention removes one record at most.
OneRemoval == earliest' <= 1

MCNext ==
  \/ LifecycleMoves(LifecycleNext) \/ InspectorMoves(InspectorNext /\ OneRemoval)
  \/ BreakerMoves(Next) \/ BucketMoves(BucketNext) \/ LoopMoves(LoopNext)
  \/ RoutesMove(RoutesNext) \/ SettingsMove(SettingsNext)

\* The fairness of each component, where it is the one that moves:
\* LifecycleFairness, InspectorFairness and the breaker's Fairness.
MCFairness ==
  /\ WF_lifecycleVars(part = "lifecycle" /\ Serve)
  /\ WF_lifecycleVars(part = "lifecycle" /\ TimePasses)
  /\ WF_lifecycleVars(part = "lifecycle" /\ TimersFire)
  /\ WF_lifecycleVars(part = "lifecycle" /\ DrainerEnds)
  /\ WF_lifecycleVars(part = "lifecycle" /\ AutoGoesOn)
  /\ \A s \in Signals : WF_lifecycleVars(part = "lifecycle" /\ ShutdownGoesOn(s))
  /\ \A p \in Probes : /\ WF_inspectorVars(part = "inspector" /\ StartProbe(p))
                       /\ WF_inspectorVars(part = "inspector" /\ ProbeGoesOn(p))
  /\ WF_vars(part = "breaker" /\ Tick)
  /\ \A c \in Callers : /\ WF_vars(part = "breaker" /\ Start(c))
                        /\ WF_vars(part = "breaker" /\ Land(c))

MCSpec == MCInit /\ [][MCNext]_MCVars /\ MCFairness

=============================================================================
