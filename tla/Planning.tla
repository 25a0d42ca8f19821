------------------------------ MODULE Planning ------------------------------
(***************************************************************************)
(* The planning commands of AppState: discover and import candidates, map  *)
(* and probe their targets, preview a plan, freeze it, start a batch.      *)
(*                                                                         *)
(* A synchronous Tauri command runs on the main thread, so two commands    *)
(* never overlap and each is one action here; what changes between them is *)
(* the remote, the saved target connection, and the operator's mind.       *)
(* Names, endpoints and phrases are abstracted: a target is its URL, the   *)
(* saved connection is the fingerprint of it, and a confirmation phrase is *)
(* known by the targets it was issued for.                                 *)
(***************************************************************************)
EXTENDS Naturals, Sequences, FiniteSets

CONSTANTS
  Repo,       \* ids of the repositories an API or the operator may list
  Imported,   \* those of them that come from manual URLs
  Granted,    \* permissions a source platform reports
  Born,       \* states a target may be in when the program starts
  Url,        \* target URLs
  Endpoint,   \* target connections that can be saved, by their fingerprint
  Selection,  \* selections sent with a preview, exclusions taken out
  Archive,    \* choices of include_archived_refs
  Policy,     \* conflict policies offered: [reuse, skip, overwrite: BOOLEAN]
  Choice,     \* choices of optional modules offered, sets of Module
  Budget,     \* how often each kind of event may happen: [Kind -> Nat];
  Unbounded,  \* the kinds that are not counted, where the states stay finite
  NONE

Kind == {"discover", "connect", "map", "probe", "preview", "freeze", "start",
         "remote", "restart"}
RemoteState == {"missing", "empty", "non_empty", "inaccessible"}
TargetState == RemoteState \cup {"unknown"}
Action == {"create", "reuse_empty", "skip_non_empty", "overwrite", "blocked"}
Module == {"lfs", "metadata", "issues", "pull_requests", "wiki", "releases"}
Permission == {"full_migration", "git_only", "insufficient"}

ASSUME PlanningAssumption ==
  /\ IsFiniteSet(Repo) /\ Imported \subseteq Repo
  /\ Selection \subseteq SUBSET Repo /\ Archive \subseteq BOOLEAN
  /\ Granted \subseteq Permission /\ Born \subseteq RemoteState
  /\ Choice \subseteq SUBSET Module
  /\ NONE \notin Url \cup Endpoint
  /\ Policy \subseteq [reuse: BOOLEAN, skip: BOOLEAN, overwrite: BOOLEAN]
  /\ Budget \in [Kind -> Nat] /\ Unbounded \subseteq Kind

VARIABLES
  remote,    \* external: what each URL really is
  target,    \* the saved target connection, or NONE
  candidate, \* table repository_candidate; NONE where there is no row
  previews,  \* Inner.previews: in memory, lost with the process
  plans,     \* table plan, in order of insertion
  batches,   \* table batch with its repository_task rows
  answers,   \* history: every <<url, state>> a probe has answered
  agreed,    \* history: the targets in the phrases the operator has typed
  left       \* what is left of the budget

vars == <<remote, target, candidate, previews, plans, batches, answers,
          agreed, left>>

Row == [permission: Permission, url: Url \cup {NONE}, state: TargetState]
Known(r) == candidate[r] # NONE

Spend(k) ==
  \/ k \in Unbounded /\ left' = left
  \/ k \notin Unbounded /\ left[k] > 0 /\ left' = [left EXCEPT ![k] = @ - 1]

\* A process over the database of an earlier one that listed and mapped, but
\* probed and planned nothing.
Init ==
  /\ remote \in [Url -> Born]
  /\ target \in Endpoint \cup {NONE}
  /\ candidate \in [Repo -> {NONE} \cup
       [permission: Granted, url: Url \cup {NONE}, state: {"unknown"}]]
  /\ previews = {}
  /\ plans = <<>>
  /\ batches = <<>>
  /\ answers = {}
  /\ agreed = {}
  /\ left = Budget

----------------------------------------------------------------------------
(* The world.                                                              *)

\* Someone creates, fills, removes or closes a target repository.
RemoteChanges(u, s) ==
  /\ Spend("remote") /\ remote[u] # s
  /\ remote' = [remote EXCEPT ![u] = s]
  /\ UNCHANGED <<target, candidate, previews, plans, batches, answers, agreed>>

\* A new process over the same database.
Restart ==
  /\ Spend("restart") /\ previews # {}
  /\ previews' = {}
  /\ UNCHANGED <<remote, target, candidate, plans, batches, answers, agreed>>

----------------------------------------------------------------------------
(* Connections and candidates.                                             *)

\* capabilities_for: a connection is saved with the same rows whatever its
\* platform; what they permit is Git and LFS.
Permitted(e) == IF e = NONE THEN {} ELSE {"git_read", "git_write", "lfs"}

SaveConnection(e) ==
  /\ Spend("connect")
  /\ target' = e
  /\ UNCHANGED <<remote, candidate, previews, plans, batches, answers, agreed>>

\* upsert_candidate: a row that exists keeps its metadata, which holds the
\* mapping and the probed state.
Upsert(r, permission) ==
  IF Known(r) THEN [candidate[r] EXCEPT !.permission = permission]
  ELSE [permission |-> permission, url |-> NONE, state |-> "unknown"]

\* One page of the source platform with what the credential may do there.
Discover(found) ==
  /\ Spend("discover") /\ DOMAIN found # {}
  /\ candidate' = [r \in Repo |->
       IF r \in DOMAIN found THEN Upsert(r, found[r]) ELSE candidate[r]]
  /\ UNCHANGED <<remote, target, previews, plans, batches, answers, agreed>>

\* Manual URLs: Git only.
Import(found) ==
  /\ Spend("discover") /\ found # {}
  /\ candidate' = [r \in Repo |->
       IF r \in found THEN Upsert(r, "git_only") ELSE candidate[r]]
  /\ UNCHANGED <<remote, target, previews, plans, batches, answers, agreed>>

\* Mutant of SetMapping: the state of the former target stays.
SetMappingKeepsState(r, u) ==
  /\ Spend("map") /\ Known(r)
  /\ candidate' = [candidate EXCEPT ![r].url = u]
  /\ UNCHANGED <<remote, target, previews, plans, batches, answers, agreed>>

\* set_mapping forgets the probed state, also when the URL stays the same.
SetMapping(r, u) ==
  /\ Spend("map") /\ Known(r)
  /\ candidate' = [candidate EXCEPT ![r].url = u, ![r].state = "unknown"]
  /\ UNCHANGED <<remote, target, previews, plans, batches, answers, agreed>>

\* What ls-remote can say of a target: any failure that names neither a missing
\* repository nor a lack of rights, and a timeout, is unknown.
ProbeAnswers(u) == {remote[u], "unknown"}

\* probe_target stores the URL it was asked about together with the answer.
\* PreflightView asks about the URL in the preview it shows, which the mapping
\* may have left since.
ProbeTarget(r, u) ==
  /\ Spend("probe") /\ Known(r)
  /\ \/ u = candidate[r].url
     \/ \E p \in previews : <<r, u>> \in p.mapping
  /\ \E s \in ProbeAnswers(u) :
       /\ candidate' = [candidate EXCEPT ![r].url = u, ![r].state = s]
       /\ answers' = answers \cup {<<u, s>>}
  /\ UNCHANGED <<remote, target, previews, plans, batches, agreed>>

----------------------------------------------------------------------------
(* Preview.                                                                *)

\* decide_action.
Decide(u, s, policy, permission, create) ==
  IF u = NONE \/ permission = "insufficient" THEN "blocked"
  ELSE CASE s = "missing" /\ create            -> "create"
         [] s = "empty" /\ policy.reuse         -> "reuse_empty"
         [] s = "non_empty" /\ policy.overwrite -> "overwrite"
         [] s = "non_empty" /\ ~policy.overwrite /\ policy.skip -> "skip_non_empty"
         [] OTHER                              -> "blocked"

\* Optional modules the target cannot rebuild need an acknowledgement.
Degraded(modules) == modules \ Permitted(target)

\* The URL the request names for a repository, else the one of its row.
Mapped(r, overrides) ==
  IF overrides[r] # NONE THEN overrides[r] ELSE candidate[r].url

PreviewOf(selected, overrides, policy, modules, archived) ==
  LET rows == {r \in selected : Known(r)}
      create == "repository_creation" \in Permitted(target)
      url    == [r \in rows |-> Mapped(r, overrides)]
      action == [r \in rows |-> Decide(url[r], candidate[r].state, policy,
                                       candidate[r].permission, create)]
  IN [mapping |-> {<<r, url[r]>> : r \in rows},
      action  |-> [r \in {q \in rows : action[q] # "blocked"} |-> action[r]],
      blocked |-> \/ rows # selected
                  \/ \E r \in rows : action[r] = "blocked"
                  \/ \E r, q \in rows : r # q /\ url[r] = url[q],
      phrase  |-> {url[r] : r \in {q \in rows : action[q] = "overwrite"}},
      degraded |-> IF rows = {} THEN {} ELSE Degraded(modules),
      capabilities |-> target, policy |-> policy, modules |-> modules,
      archived |-> archived, selected |-> selected]

PreviewPlan(selected, overrides, policy, modules, archived) ==
  /\ Spend("preview")
  /\ previews' = previews \cup
       {PreviewOf(selected, overrides, policy, modules, archived)}
  /\ UNCHANGED <<remote, target, candidate, plans, batches, answers, agreed>>

----------------------------------------------------------------------------
(* Freeze and start.                                                       *)

\* What the plan hash covers.
HashOf(p) == <<p.mapping, p.modules, p.policy>>

\* The row a preview would insert.
PlanOf(p, acknowledged) ==
  [mapping |-> p.mapping, modules |-> p.modules, policy |-> p.policy,
   archived |-> p.archived, selected |-> p.selected, action |-> p.action,
   capabilities |-> p.capabilities, confirmed |-> p.phrase,
   acknowledged |-> acknowledged]

\* Mutant of FreezePlan: any text passes for the confirmation.
FreezePlanAnyText(p, typed, acknowledged) ==
  LET same == {i \in DOMAIN plans : HashOf(plans[i]) = HashOf(p)}
      row  == PlanOf(p, acknowledged)
  IN /\ Spend("freeze")
     /\ ~p.blocked
     /\ p.degraded \subseteq acknowledged
     /\ plans' = IF same = {} THEN Append(plans, row) ELSE plans
     /\ agreed' = agreed \cup typed
     /\ UNCHANGED <<remote, target, candidate, previews, batches, answers>>

\* Mutant of FreezePlan: nobody looks at the acknowledged modules.
FreezePlanUnacknowledged(p, typed, acknowledged) ==
  LET same == {i \in DOMAIN plans : HashOf(plans[i]) = HashOf(p)}
      row  == PlanOf(p, acknowledged)
  IN /\ Spend("freeze")
     /\ ~p.blocked
     /\ p.phrase # {} => typed = p.phrase
     /\ plans' = IF same = {} THEN Append(plans, row) ELSE plans
     /\ agreed' = agreed \cup typed
     /\ UNCHANGED <<remote, target, candidate, previews, batches, answers>>

\* freeze_plan, with the phrase the operator typed and the modules they
\* acknowledged. A plan with the same hash is given back instead.
FreezePlan(p, typed, acknowledged) ==
  LET same == {i \in DOMAIN plans : HashOf(plans[i]) = HashOf(p)}
      row  == PlanOf(p, acknowledged)
  IN /\ Spend("freeze")
     /\ ~p.blocked
     /\ p.phrase # {} => typed = p.phrase
     /\ p.degraded \subseteq acknowledged
     /\ plans' = IF same = {} THEN Append(plans, row) ELSE plans
     /\ agreed' = agreed \cup typed
     /\ UNCHANGED <<remote, target, candidate, previews, batches, answers>>

\* The checks of start_batch. The plan row does not change, so the recomputed
\* hash agrees; the overwrite guard asks for a confirmation as soon as the
\* policy allows overwriting.
Startable(i) ==
  LET plan == plans[i]
  IN /\ plan.policy.overwrite => plan.confirmed # {}
     /\ plan.capabilities = target
     /\ \A r \in DOMAIN plan.action :
          Known(r) /\ candidate[r].state \notin {"unknown", "inaccessible"}

\* The task rows come from the candidate rows of now and the actions of then.
\* A missing URL would end the insertion; the rows the loop gets to are a subset
\* of those with a URL.
TaskRows(i) ==
  LET action == plans[i].action
  IN {[repo |-> r, url |-> candidate[r].url, state |-> candidate[r].state,
       action |-> action[r]] : r \in {q \in DOMAIN action : candidate[q].url # NONE}}

InsertBatch(i, tasks, cut) ==
  batches' = Append(batches, [plan |-> i, total |-> Cardinality(DOMAIN plans[i].action),
                              tasks |-> tasks, cut |-> cut])

\* Mutant of StartBatch: repositories with nothing to write get no task row.
StartBatchWritesOnly(i) ==
  /\ Spend("start") /\ Startable(i)
  /\ InsertBatch(i, {t \in TaskRows(i) : t.action # "skip_non_empty"}, FALSE)
  /\ UNCHANGED <<remote, target, candidate, previews, plans, answers, agreed>>

\* start_batch writes the batch row and its task rows.
StartBatch(i) ==
  /\ Spend("start") /\ Startable(i)
  /\ InsertBatch(i, TaskRows(i), FALSE)
  /\ UNCHANGED <<remote, target, candidate, previews, plans, answers, agreed>>

\* The rows are statements of their own, without a transaction: a process that
\* dies between two of them, or a store that refuses one, leaves a running batch
\* with fewer.  After a death comes Restart.
StartBatchCut(i, written) ==
  /\ Spend("start") /\ Startable(i)
  /\ written \subseteq TaskRows(i) /\ written # TaskRows(i)
  /\ InsertBatch(i, written, TRUE)
  /\ UNCHANGED <<remote, target, candidate, previews, plans, answers, agreed>>

----------------------------------------------------------------------------
Discovery ==
  \E found \in UNION {[rs -> Granted] : rs \in SUBSET (Repo \ Imported)} :
    Discover(found)

\* MappingView, the one client of plan_preview, stores each mapping before it
\* sends it along, so a request never names another URL than the row does.
Preview ==
  \E selected \in Selection, policy \in Policy, modules \in Choice,
     archived \in Archive :
    LET sent == [r \in Repo |-> IF Known(r) THEN candidate[r].url ELSE NONE]
    IN PreviewPlan(selected, sent, policy, modules, archived)

\* A text is asked for only when the preview issued a phrase.
Freeze ==
  \E p \in previews, acknowledged \in {{}, UNION Choice} :
    \E typed \in IF p.phrase = {} THEN {{}} ELSE SUBSET Url :
      FreezePlan(p, typed, acknowledged)

Next ==
  \/ \E u \in Url, s \in RemoteState : RemoteChanges(u, s)
  \/ Restart
  \/ \E e \in Endpoint : SaveConnection(e)
  \/ Discovery
  \/ \E found \in SUBSET Imported : Import(found)
  \/ \E r \in Repo, u \in Url : SetMapping(r, u) \/ ProbeTarget(r, u)
  \/ Preview
  \/ Freeze
  \/ \E i \in DOMAIN plans :
       StartBatch(i) \/ \E written \in SUBSET TaskRows(i) : StartBatchCut(i, written)

Spec == Init /\ [][Next]_vars

----------------------------------------------------------------------------
(* Properties.                                                             *)

PlanRow ==
  [mapping: SUBSET (Repo \X Url), modules: Choice, policy: Policy,
   archived: BOOLEAN, selected: SUBSET Repo,
   action: UNION {[rs -> Action \ {"blocked"}] : rs \in SUBSET Repo},
   capabilities: Endpoint \cup {NONE}, confirmed: SUBSET Url,
   acknowledged: SUBSET Module]
TaskRow == [repo: Repo, url: Url, state: TargetState, action: Action]

\* Type correctness of the tables (state.rs: what the JSON columns hold).
TypeOK ==
  /\ remote \in [Url -> RemoteState]
  /\ target \in Endpoint \cup {NONE}
  /\ candidate \in [Repo -> Row \cup {NONE}]
  /\ \A i \in DOMAIN plans : plans[i] \in PlanRow
  /\ \A j \in DOMAIN batches :
       /\ batches[j].plan \in DOMAIN plans
       /\ batches[j].tasks \subseteq TaskRow /\ batches[j].cut \in BOOLEAN
  /\ answers \subseteq Url \X TargetState
  /\ agreed \subseteq Url
  /\ left \in [Kind -> Nat]

\* The state a candidate row carries was answered for the very URL in that row:
\* no order of mapping, probing, rediscovering and importing attaches the answer
\* for one target to another (probe_target, set_mapping, upsert_candidate).
StateIsOfItsUrl ==
  \A r \in Repo : Known(r) /\ candidate[r].state # "unknown" =>
    <<candidate[r].url, candidate[r].state>> \in answers

\* Nothing but a death or a refusing store between two of its statements keeps
\* start_batch from writing one task row for each repository of the plan: the
\* loop's own early return, on a repository without a URL, is never taken, because
\* the check of the states before it implies that there is one.  A batch cut off
\* so has rows of its plan, each repository once, and fewer than its total.
BatchIsComplete ==
  \A j \in DOMAIN batches :
    LET batch == batches[j]
        repos == {t.repo : t \in batch.tasks}
    IN /\ Cardinality(batch.tasks) = Cardinality(repos)
       /\ IF batch.cut
          THEN repos \subseteq DOMAIN plans[batch.plan].action /\ Cardinality(repos) < batch.total
          ELSE repos = DOMAIN plans[batch.plan].action /\ Cardinality(repos) = batch.total

\* A task overwrites only if the operator typed a phrase that named the target
\* its repository has in the plan, also when a freeze was answered with an older
\* plan of the same hash, or a phrase was typed for another preview (freeze_plan,
\* start_batch). The target of the task is the one mapped now: see the README.
OverwriteIsConfirmed ==
  \A j \in DOMAIN batches : \A t \in batches[j].tasks :
    t.action = "overwrite" =>
      \E m \in plans[batches[j].plan].mapping : m[1] = t.repo /\ m[2] \in agreed

\* No batch starts whose plan drops a module that the target of now cannot
\* rebuild and that nobody acknowledged: the target may have been saved anew
\* between preview, freeze and start (freeze_plan, start_batch).
DegradedIsAcknowledged ==
  [][\A i \in DOMAIN plans :
       Len(batches') > Len(batches) /\ batches'[Len(batches')].plan = i
       /\ batches'[Len(batches')].tasks # {}
         => Degraded(plans[i].modules) \subseteq plans[i].acknowledged]_vars
=============================================================================
