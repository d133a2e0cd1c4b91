------------------------------ MODULE Bootstrap ------------------------------
(***************************************************************************)
(* One run of the command line (packages/iyon-cli): runBootstrap takes its *)
(* stages in order over the plugin loader of Plugins, runSelectedApp runs  *)
(* the app and takes it down, and the cleanup releases what the stages     *)
(* made.  The app (plugins/app/iyon/src/app.ts) is modelled as far as its  *)
(* life goes: its event loop, its shutdown, its agent run, its bridge to   *)
(* the session's events, and the approval it may be asked for.             *)
(***************************************************************************)
EXTENDS Plugins

CONSTANTS Candidates,                 \* the packages, in the order found
          ProviderId, AgentId, AppId  \* the ids the stages look up

(* bundledRoots (iyon-cli/src/bootstrap.ts:16) names each package once.    *)
(* The record of one loaded again would replace the first (loader.ts:52).  *)
ASSUME CandidatesAssumption ==
  /\ Candidates \in Seq(Packages)
  /\ \A i, j \in DOMAIN Candidates :
       Candidates[i] = Candidates[j] => i = j

VARIABLES
  command,     \* "run" or "auth"
  stage,       \* the stage runBootstrap is in
  queue,       \* loadAll: the packages not loaded yet
  context,     \* runBootstrap's context is set
  session,     \* the AgentSession
  agent,       \* the selected agent, and its run: "running", or "cancelled"
               \* when it has been told to end and is still going
  approval,    \* the approval broker's request
  app,         \* the app's event loop
  bridge,      \* the app's bridge to the session's events
  signal,      \* what the app was doing when a process signal came
  unloads,     \* cleanup: the extensions left to unload
  failed       \* something was thrown: the exit code is 1

runVars ==
  <<command, stage, queue, context, session, agent, approval, app, bridge,
    signal, unloads, failed>>

vars == <<pluginVars, runVars>>

Init ==
  /\ PluginInit
  /\ command \in {"run", "auth"} /\ stage = "start" /\ queue = Candidates
  /\ context = FALSE /\ session = "none" /\ agent = "none"
  /\ approval = "none" /\ app = "off" /\ bridge = "none"
  /\ signal = "none" /\ unloads = <<>> /\ failed = FALSE

(* An error on the way leaves for the cleanup.                             *)
Fails ==
  /\ stage' = "closing"
  /\ failed' = TRUE

-----------------------------------------------------------------------------
(* The stages before the app runs *)

(* Configuration, native addon, virtual modules and discovery.             *)
StartUp ==
  /\ stage = "start"
  /\ \/ stage' = "activate" /\ UNCHANGED failed
     \/ Fails
  /\ UNCHANGED <<pluginVars, command, queue, context, session, agent,
                 approval, app, bridge, signal, unloads>>

(* loadAll goes on after a package that fails.                             *)
LoadNext ==
  /\ stage = "activate" /\ queue # <<>>
  /\ BeginActivation(Head(queue))
  /\ queue' = Tail(queue)
  /\ UNCHANGED <<command, stage, context, session, agent, approval, app,
                 bridge, signal, unloads, failed>>

ActivationDone ==
  /\ stage = "activate" /\ queue = <<>> /\ Idle
  /\ IF failures # {} THEN Fails /\ UNCHANGED context
     ELSE /\ stage' = IF command = "auth" THEN "auth" ELSE "provider"
          /\ context' = (command = "auth")
          /\ UNCHANGED failed
  /\ UNCHANGED <<pluginVars, command, queue, session, agent, approval, app,
                 bridge, signal, unloads>>

RunAuth ==
  /\ stage = "auth"
  /\ \/ Fails
     \/ stage' = "closing" /\ UNCHANGED failed
  /\ UNCHANGED <<pluginVars, command, queue, context, session, agent,
                 approval, app, bridge, signal, unloads>>

(* selectProvider falls back to a registered provider; it throws when none *)
(* can be created.                                                         *)
SelectProvider ==
  /\ stage = "provider"
  /\ \/ Lookup(ProviderId) # 0 /\ stage' = "agent" /\ UNCHANGED failed
     \/ Fails
  /\ UNCHANGED <<pluginVars, command, queue, context, session, agent,
                 approval, app, bridge, signal, unloads>>

(* The session, the lifetime and the broker are there before the agent is  *)
(* looked up.                                                              *)
SelectAgent ==
  /\ stage = "agent"
  /\ session' = "open"
  /\ \/ /\ Lookup(AgentId) # 0
        /\ stage' = "app" /\ agent' = "idle" /\ UNCHANGED failed
     \/ Fails /\ UNCHANGED agent
  /\ UNCHANGED <<pluginVars, command, queue, context, approval, app, bridge,
                 signal, unloads>>

SelectApp ==
  /\ stage = "app"
  /\ \/ /\ Lookup(AppId) # 0
        /\ stage' = "run" /\ context' = TRUE /\ UNCHANGED failed
     \/ Fails /\ UNCHANGED context
  /\ UNCHANGED <<pluginVars, command, queue, session, agent, approval, app,
                 bridge, signal, unloads>>

-----------------------------------------------------------------------------
(* runSelectedApp *)

(* The bridge is opened, then the app's event loop; start may throw.       *)
RunApp ==
  /\ stage = "run" /\ app = "off"
  /\ bridge' = "open"
  /\ \/ app' = "loop" /\ UNCHANGED failed
     \/ app' = "returned" /\ failed' = TRUE
  /\ UNCHANGED <<pluginVars, command, stage, queue, context, session, agent,
                 approval, signal, unloads>>

(* A submission starts the agent, when the app has no run of its own still *)
(* going (startAgentRun).                                                  *)
StartAgent ==
  /\ app = "loop" /\ agent = "idle" /\ approval = "none"
  /\ agent' = "running"
  /\ UNCHANGED <<pluginVars, command, stage, queue, context, session,
                 approval, app, bridge, signal, unloads, failed>>

(* One of the run's tools asks for approval, and a run that has been told  *)
(* to end may do so too: nothing looks at its signal between the start of  *)
(* the tool's call and the request (executeTool).  Once the lifetime has   *)
(* been aborted the broker rejects a request at once.                      *)
AskApproval ==
  /\ stage \in {"run", "closing"}
  /\ agent \in {"running", "cancelled"} /\ approval = "none"
  /\ approval' = "pending"
  /\ UNCHANGED <<pluginVars, command, stage, queue, context, session, agent,
                 app, bridge, signal, unloads, failed>>

(* The run ends, by itself or because it was told to, whatever the app or  *)
(* the command do meanwhile; not while its tool waits for an approval.     *)
AgentEnds ==
  /\ agent \in {"running", "cancelled"} /\ approval # "pending"
  /\ agent' = "idle"
  /\ UNCHANGED <<pluginVars, command, stage, queue, context, session,
                 approval, app, bridge, signal, unloads, failed>>

NoController == agent

(* IyonAgent.cancel aborts the run's signal, when there is a run, and does *)
(* not wait for its end.                                                   *)
Cancelled == IF agent = "running" THEN "cancelled" ELSE agent

(* Escape or Ctrl+C while the run goes on.                                 *)
CancelRun ==
  /\ app = "loop" /\ agent = "running"
  /\ agent' = Cancelled
  /\ UNCHANGED <<pluginVars, command, stage, queue, context, session,
                 approval, app, bridge, signal, unloads, failed>>

(* hasActiveWork, or a run that is still going and was not cancelled.      *)
ActiveWork == agent = "running" \/ approval = "pending"

(* Ctrl+C on an idle app, the terminal's end or an event loop that fails:  *)
(* performShutdown first cancels the agent.                                *)
BeginShutdown ==
  /\ app = "loop"
  /\ app' = "shutting down" /\ agent' = Cancelled
  /\ UNCHANGED <<pluginVars, command, stage, queue, context, session,
                 approval, bridge, signal, unloads, failed>>

(* The loop ends without a shutdown: handling an error has thrown, or what *)
(* threw was the last Ctrl+C, after it had said goodbye.                   *)
LoopLeaves ==
  /\ app = "loop"
  /\ app' = "returned" /\ failed' \in {failed, TRUE}
  /\ UNCHANGED <<pluginVars, command, stage, queue, context, session, agent,
                 approval, bridge, signal, unloads>>

(* performShutdown rejects the approval when the app has been told of it,  *)
(* and the loop returns once the terminal is left, or throws on the way.   *)
FinishShutdown ==
  /\ app = "shutting down"
  /\ app' = "returned"
  /\ approval' \in {approval, IF approval = "pending" THEN "settled"
                               ELSE approval}
  /\ failed' \in {failed, TRUE}
  /\ UNCHANGED <<pluginVars, command, stage, queue, context, session, agent,
                 bridge, signal, unloads>>

(* requestProcessSignal calls the app's handleAction as a bare function:   *)
(* the method has no receiver, throws, and the error is kept for the end.  *)
Signal ==
  /\ stage = "run" /\ app # "off" /\ signal = "none"
  /\ signal' = IF app = "loop" /\ ~ActiveWork THEN "idle" ELSE "busy"
  /\ failed' = TRUE
  /\ UNCHANGED <<pluginVars, command, stage, queue, context, session, agent,
                 approval, app, bridge, unloads>>

(* Closing the bridge aborts its reader and closes the session, its event  *)
(* source: the read it waits in returns.                                   *)
CloseBridge ==
  /\ stage = "run" /\ app = "returned" /\ bridge = "open"
  /\ bridge' = "closing" /\ session' = "closed"
  /\ UNCHANGED <<pluginVars, command, stage, queue, context, agent, approval,
                 app, signal, unloads, failed>>

BridgeReadsOn ==
  /\ bridge = "closing" /\ session = "closed"
  /\ UNCHANGED vars

BridgeReads ==
  /\ bridge = "closing" /\ session = "closed"
  /\ bridge' = "done"
  /\ UNCHANGED <<pluginVars, command, stage, queue, context, session, agent,
                 approval, app, signal, unloads, failed>>

(* app.stop; one that throws leaves the finally block at once, and the     *)
(* runner's cancellation of the agent with it.                             *)
StopApp ==
  /\ stage = "run" /\ app = "returned" /\ bridge = "done"
  /\ app' = "stopped" /\ stage' = "closing"
  /\ \/ failed' = TRUE /\ UNCHANGED agent
     \/ agent' = Cancelled /\ UNCHANGED failed
  /\ UNCHANGED <<pluginVars, command, queue, context, session, approval,
                 bridge, signal, unloads>>

-----------------------------------------------------------------------------
(* The cleanup of runBootstrap and of the production stages *)

ReversedActive ==
  Reverse([i \in DOMAIN active |-> active[i].package])

(* Without a context the registered task does nothing.  With one, the      *)
(* lifetime's abort settles the approvals, the agent is told to end and    *)
(* the session closed before the extensions are unloaded, newest first.    *)
(* Nothing waits for the agent's run.                                      *)
Cleanup ==
  /\ stage = "closing"
  /\ IF context
     THEN /\ stage' = "cleanup" /\ unloads' = ReversedActive
          /\ approval' = IF approval = "pending" THEN "settled" ELSE approval
          /\ agent' = Cancelled
          /\ session' = IF session = "open" THEN "closed" ELSE session
     ELSE /\ stage' = "exited"
          /\ UNCHANGED <<unloads, approval, agent, session>>
  /\ UNCHANGED <<pluginVars, command, queue, context, app, bridge, signal,
                 failed>>

UnloadNext ==
  /\ stage = "cleanup" /\ unloads # <<>>
  /\ BeginUnload(Head(unloads))
  /\ unloads' = Tail(unloads)
  /\ UNCHANGED <<command, stage, queue, context, session, agent, approval,
                 app, bridge, signal, failed>>

(* An unload that throws is reported at the end and keeps no other from    *)
(* being tried.                                                            *)
UnloadFailsForAll ==
  /\ UnloadThrows
  /\ failed' = TRUE /\ unloads' = <<>>
  /\ UNCHANGED <<command, stage, queue, context, session, agent, approval,
                 app, bridge, signal>>

UnloadFails ==
  /\ UnloadThrows
  /\ failed' = TRUE
  /\ UNCHANGED <<command, stage, queue, context, session, agent, approval,
                 app, bridge, signal, unloads>>

CleanupDone ==
  /\ stage = "cleanup" /\ unloads = <<>> /\ Idle
  /\ stage' = "exited"
  /\ UNCHANGED <<pluginVars, command, queue, context, session, agent,
                 approval, app, bridge, signal, unloads, failed>>

LoaderRuns == (DisposeNext \/ RolledBack \/ UnloadReturns)
                /\ UNCHANGED runVars

ExtensionRuns == stage # "exited" /\ ExtensionStep /\ UNCHANGED runVars

Stopped == stage = "exited" /\ UNCHANGED vars

-----------------------------------------------------------------------------

Starting ==
  \/ StartUp \/ LoadNext \/ ActivationDone \/ RunAuth \/ SelectProvider
  \/ SelectAgent \/ SelectApp

Running ==
  \/ RunApp \/ StartAgent \/ CancelRun \/ AskApproval \/ AgentEnds
  \/ BeginShutdown \/ LoopLeaves \/ Signal

(* The steps the program takes by itself once the app has returned.        *)
Ending ==
  \/ FinishShutdown \/ CloseBridge \/ BridgeReads \/ StopApp
  \/ Cleanup \/ UnloadNext \/ UnloadFails \/ CleanupDone \/ LoaderRuns

Next == Starting \/ Running \/ Ending \/ ExtensionRuns \/ Stopped

(* An extension may never return and a user may never quit, but what the   *)
(* program awaits on its way out are its own promises.                     *)
Spec == Init /\ [][Next]_vars /\ WF_vars(Ending)

-----------------------------------------------------------------------------

(* A command that got as far as its context exits with every contribution  *)
(* of an activation disposed although unloads may throw, the session       *)
(* closed and no approval pending; and a run of the agent that is still    *)
(* going has been told to end (runBootstrap's finally and the production   *)
(* stages' cleanup, bootstrap.ts:113-142, 191).  It is not claimed that no *)
(* such run goes on: nothing awaits it, and it may see the extensions      *)
(* unloaded whose tools it uses.                                           *)
EverythingReleased ==
  (stage = "exited" /\ context) =>
    /\ \A u \in Registrations : u \in disposed \/ made[u].late
    /\ session # "open" /\ agent # "running" /\ approval # "pending"

(* Once the app's loop has returned, however it did and whatever throws on *)
(* the way, the bridge's reader is woken, the app stopped, the cleanup run *)
(* and the command over (runner.ts:53-66).                                 *)
ReturnedAppExits == app = "returned" ~> stage = "exited"

=============================================================================
