---------------------------- MODULE PlanningViews ----------------------------
(***************************************************************************)
(* The planning commands in the order the renderer's views issue them:     *)
(* MappingView stores the mapping of every selected repository and asks    *)
(* for a preview; PreflightView, which shows the latest preview, probes    *)
(* the targets that preview calls unknown, freezes it and starts the plan. *)
(* No view asks for a preview in any other way.                            *)
(***************************************************************************)
EXTENDS Planning

CONSTANT Naming   \* the target URL of each repository: name template and namespace

VARIABLES
  todo,   \* MappingView: repositories whose mapping is still to be stored
  asking, \* MappingView is between "save and preflight" and its preview
  shown   \* snapshot.active_preview, or NONE

views == <<todo, asking, shown>>
allVars == <<vars, views>>

Everything == {r \in Repo : Known(r)}
Default == CHOOSE policy \in Policy : policy.skip

\* Everything is listed and connected, and nothing is mapped yet.
InitViews ==
  /\ Init
  /\ target # NONE
  /\ \A r \in Repo : Known(r) /\ candidate[r].permission # "insufficient"
  /\ todo = {} /\ asking = FALSE /\ shown = NONE

\* The operator presses "save mapping and run preflight".
RunPreflight ==
  /\ ~asking /\ Everything # {}
  /\ asking' = TRUE /\ todo' = Everything
  /\ UNCHANGED <<vars, shown>>

StoreMapping(r) ==
  /\ asking /\ r \in todo
  /\ SetMapping(r, Naming[r])
  /\ todo' = todo \ {r} /\ UNCHANGED <<asking, shown>>

AskForPreview ==
  /\ asking /\ todo = {}
  /\ \E modules \in Choice, archived \in Archive :
       /\ PreviewPlan(Everything, [r \in Repo |-> Naming[r]], Default, modules, archived)
       /\ shown' = PreviewOf(Everything, [r \in Repo |-> Naming[r]], Default,
                             modules, archived)
  /\ asking' = FALSE /\ UNCHANGED todo

\* "Probe the targets" is offered while a row of the preview on the screen is
\* unknown or inaccessible; the rows of that preview stay as they are.
ProbeShown(r) ==
  /\ ~asking /\ shown # NONE /\ r \in shown.selected
  /\ r \notin DOMAIN shown.action
  /\ ProbeTarget(r, Naming[r])
  /\ UNCHANGED views

FreezeAndStart ==
  /\ ~asking /\ shown # NONE
  /\ FreezePlan(shown, shown.phrase, shown.degraded)
  /\ UNCHANGED views

StartShown(i) ==
  /\ ~asking /\ batches = <<>> /\ StartBatch(i) /\ UNCHANGED views

NextViews ==
  \/ RunPreflight \/ AskForPreview \/ FreezeAndStart
  \/ \E r \in Repo : StoreMapping(r) \/ ProbeShown(r)
  \/ \E i \in DOMAIN plans : StartShown(i)

\* An operator who never gives up: whatever the views keep offering gets done.
\* A probe that keeps answering in the end answers what is there.
Persistent ==
  /\ SF_allVars(RunPreflight) /\ SF_allVars(AskForPreview)
  /\ SF_allVars(FreezeAndStart)
  /\ \A r \in Repo :
       /\ SF_allVars(StoreMapping(r))
       /\ SF_allVars(ProbeShown(r) /\ candidate'[r].state # "unknown")
  /\ \A i \in 1..Budget["start"] : SF_allVars(i \in DOMAIN plans /\ StartShown(i))

SpecViews == InitViews /\ [][NextViews]_allVars /\ Persistent

\* state.rs:2293-2294 answers a preview of an unprobed target with the advice
\* to press "probe target"; state.rs:572-573 says that setting a target forgets
\* the probed state and "a fresh probe is required before the plan can be
\* executed". An operator who does both over and over, with
\* targets that exist, are empty and answer, gets a batch.
PreflightLeadsToABatch == <>(batches # <<>>)
=============================================================================
