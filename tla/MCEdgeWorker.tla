----------------------------- MODULE MCEdgeWorker -----------------------------
(***************************************************************************)
(* Instances for TLC of what the edge worker does for the panel and for    *)
(* other workers, and of the panel itself: the owner's requests, the       *)
(* legacy login, the cron passes and the browser.  They share no state the *)
(* models keep, so each behaviour runs one of them.  (The webhook of the   *)
(* module with the cron passes runs in MCMetaPublisher.)                   *)
(***************************************************************************)
EXTENDS EdgeRequests, PinLogin, MetaWebhook, AdminPanel

\* Nobody writes to the robot here.
NoAuthor == <<>>

VARIABLE scenario

EdgeWorkerInit ==
  /\ scenario \in {"requests", "login", "cron", "panel"}
  /\ EdgeInit /\ PinInit /\ HookInit
  /\ PanelInit /\ (scenario # "panel" => auth = "signedout")

EdgeWorkerNext ==
  /\ UNCHANGED scenario
  /\ \/ scenario = "requests" /\ EdgeNext /\ UNCHANGED <<pinVars, hookVars, panelVars>>
     \/ scenario = "login" /\ PinNext /\ UNCHANGED <<edgeVars, hookVars, panelVars>>
     \/ scenario = "cron" /\ BridgeNext /\ UNCHANGED <<edgeVars, pinVars, panelVars>>
     \/ scenario = "panel" /\ PanelNext /\ UNCHANGED <<edgeVars, pinVars, hookVars>>

edgeWorkerVars == <<edgeVars, pinVars, hookVars, panelVars, scenario>>

EdgeWorkerSpec ==
  /\ EdgeWorkerInit /\ [][EdgeWorkerNext]_edgeWorkerVars
  /\ HookFairness /\ PanelFairness
=============================================================================
