--------------------------- MODULE Planning_proofs ---------------------------
(***************************************************************************)
(* The properties of Planning, for every number of repositories, targets,  *)
(* connections and rounds.  What holds of a batch holds because of the     *)
(* plan it was started from, and what holds of a plan because of the       *)
(* preview it was frozen from; the invariant says at each of these three   *)
(* places what the next one needs.                                         *)
(***************************************************************************)
EXTENDS Planning, FiniteSetTheorems, TLAPS

ActionMap == UNION {[rs -> Action \ {"blocked"}] : rs \in SUBSET Repo}

BatchRow == [plan: Nat, total: Nat, tasks: SUBSET TaskRow, cut: BOOLEAN]

GoodPreview(p) ==
  /\ p.mapping \subseteq Repo \X (Url \cup {NONE})
  /\ ~p.blocked => p.mapping \subseteq Repo \X Url
  /\ p.modules \in Choice /\ p.policy \in Policy /\ p.archived \in BOOLEAN
  /\ p.selected \in SUBSET Repo /\ p.action \in ActionMap
  /\ p.capabilities \in Endpoint \cup {NONE}
  /\ p.phrase \subseteq Url
  /\ \A r \in DOMAIN p.action : p.action[r] = "overwrite" =>
       \E m \in p.mapping : m[1] = r /\ m[2] \in p.phrase
  /\ DOMAIN p.action # {} => p.modules \ Permitted(p.capabilities) \subseteq p.degraded

Agreed(plan, texts) ==
  \A r \in DOMAIN plan.action : plan.action[r] = "overwrite" =>
    \E m \in plan.mapping : m[1] = r /\ m[2] \in texts

Acknowledged(plan) ==
  DOMAIN plan.action # {} =>
    plan.modules \ Permitted(plan.capabilities) \subseteq plan.acknowledged

Repos(tasks) == {t.repo : t \in tasks}

OfPlan(b, plan) ==
  /\ \A t \in b.tasks : t.action = plan.action[t.repo]
  /\ Cardinality(b.tasks) = Cardinality(Repos(b.tasks))
  /\ Repos(b.tasks) \subseteq DOMAIN plan.action
  /\ b.cut => Cardinality(Repos(b.tasks)) < b.total
  /\ ~ b.cut => Repos(b.tasks) = DOMAIN plan.action /\ Cardinality(Repos(b.tasks)) = b.total

Tables ==
  /\ remote \in [Url -> RemoteState]
  /\ target \in Endpoint \cup {NONE}
  /\ candidate \in [Repo -> Row \cup {NONE}]
  /\ plans \in Seq(PlanRow)
  /\ batches \in Seq(BatchRow)
  /\ answers \subseteq Url \X TargetState
  /\ agreed \subseteq Url
  /\ left \in [Kind -> Nat]

Frozen == \A i \in DOMAIN plans : Agreed(plans[i], agreed) /\ Acknowledged(plans[i])

Started ==
  \A j \in DOMAIN batches :
    batches[j].plan \in DOMAIN plans /\ OfPlan(batches[j], plans[batches[j].plan])

IInv ==
  /\ Tables
  /\ StateIsOfItsUrl
  /\ \A p \in previews : GoodPreview(p)
  /\ Frozen
  /\ Started

(* Spending leaves a number of events of each kind. *)
LEMMA SpendTypes ==
  ASSUME left \in [Kind -> Nat], NEW k \in Kind, Spend(k)
  PROVE  left' \in [Kind -> Nat]
BY DEF Spend

(* What is decided for a repository is an action, and anything but         *)
(* "blocked" needs a URL (decide_action).                                  *)
LEMMA DecideActs ==
  ASSUME NEW u, NEW s, NEW policy, NEW permission, NEW create
  PROVE  /\ Decide(u, s, policy, permission, create) \in Action
         /\ Decide(u, s, policy, permission, create) # "blocked" => u # NONE
BY DEF Decide, Action

(* What a preview is built of fits its request and the tables (plan_preview). *)
LEMMA PreviewIsGood ==
  ASSUME Tables, NEW selected \in SUBSET Repo, NEW overrides \in [Repo -> Url \cup {NONE}],
         NEW policy \in Policy, NEW modules \in Choice, NEW archived \in BOOLEAN
  PROVE  GoodPreview(PreviewOf(selected, overrides, policy, modules, archived))
<1> DEFINE rows   == {r \in selected : Known(r)}
           create == "repository_creation" \in Permitted(target)
           url    == [r \in rows |-> Mapped(r, overrides)]
           action == [r \in rows |-> Decide(url[r], candidate[r].state, policy,
                                            candidate[r].permission, create)]
           p == PreviewOf(selected, overrides, policy, modules, archived)
<1>1. \A r \in rows : url[r] \in Url \cup {NONE}
  BY DEF Tables, Row, Known, Mapped
<1>2. \A r \in rows : action[r] \in Action /\ (action[r] # "blocked" => url[r] # NONE)
  BY DecideActs
<1>3. /\ p.mapping = {<<r, url[r]>> : r \in rows}
      /\ p.action = [r \in {q \in rows : action[q] # "blocked"} |-> action[r]]
      /\ p.phrase = {url[r] : r \in {q \in rows : action[q] = "overwrite"}}
      /\ p.degraded = IF rows = {} THEN {} ELSE modules \ Permitted(target)
      /\ p.capabilities = target /\ p.policy = policy /\ p.modules = modules
      /\ p.archived = archived /\ p.selected = selected
      /\ ~p.blocked => \A r \in rows : action[r] # "blocked"
  BY DEF PreviewOf, Degraded
<1> HIDE DEF url, action, p
<1>4. p.mapping \subseteq Repo \X (Url \cup {NONE})
  BY <1>1, <1>3
<1>5. ~p.blocked => p.mapping \subseteq Repo \X Url
  BY <1>1, <1>2, <1>3
<1>6. p.action \in ActionMap
  <2> DEFINE acting == {q \in rows : action[q] # "blocked"}
  <2>1. acting \in SUBSET Repo
    OBVIOUS
  <2>2. p.action \in [acting -> Action \ {"blocked"}]
    BY <1>2, <1>3
  <2> QED
    BY <2>1, <2>2 DEF ActionMap
<1>7. p.phrase \subseteq Url
  BY <1>1, <1>2, <1>3
<1>8. ASSUME NEW r \in DOMAIN p.action, p.action[r] = "overwrite"
      PROVE  \E m \in p.mapping : m[1] = r /\ m[2] \in p.phrase
  <2>1. r \in rows /\ action[r] = "overwrite"
    BY <1>3, <1>8
  <2>2. <<r, url[r]>> \in p.mapping /\ url[r] \in p.phrase
    BY <1>3, <2>1
  <2> QED
    BY <2>2
<1>9. DOMAIN p.action # {} => p.modules \ Permitted(p.capabilities) \subseteq p.degraded
  BY <1>3
<1> QED
  BY <1>3, <1>4, <1>5, <1>6, <1>7, <1>8, <1>9 DEF GoodPreview, Tables, p

(* What a preview that may be frozen becomes is a plan (freeze_plan). *)
LEMMA FrozenIsGood ==
  ASSUME NEW p, GoodPreview(p), ~p.blocked, NEW typed, p.phrase # {} => typed = p.phrase,
         NEW acknowledged \in SUBSET Module, p.degraded \subseteq acknowledged
  PROVE  /\ PlanOf(p, acknowledged) \in PlanRow
         /\ Agreed(PlanOf(p, acknowledged), agreed \cup typed)
         /\ Acknowledged(PlanOf(p, acknowledged))
<1> DEFINE plan == PlanOf(p, acknowledged)
<1>1. plan \in PlanRow
  BY DEF GoodPreview, PlanOf, PlanRow, ActionMap
<1>2. /\ plan.action = p.action /\ plan.mapping = p.mapping /\ plan.modules = p.modules
      /\ plan.capabilities = p.capabilities /\ plan.acknowledged = acknowledged
  BY DEF PlanOf
<1> HIDE DEF plan
<1>3. Agreed(plan, agreed \cup typed)
  <2> SUFFICES ASSUME NEW r \in DOMAIN p.action, p.action[r] = "overwrite"
               PROVE  \E m \in p.mapping : m[1] = r /\ m[2] \in agreed \cup typed
    BY <1>2 DEF Agreed
  <2>1. PICK m \in p.mapping : m[1] = r /\ m[2] \in p.phrase
    BY DEF GoodPreview
  <2> QED
    BY <2>1
<1>4. Acknowledged(plan)
  BY <1>2 DEF Acknowledged, GoodPreview
<1> QED
  BY <1>1, <1>3, <1>4 DEF plan

(* The checks of start_batch give every repository of the plan a URL, and so a *)
(* task row; no two of them have the same one, and fewer rows are of fewer     *)
(* repositories.                                                               *)
LEMMA TaskRowsAreGood ==
  ASSUME Tables, StateIsOfItsUrl, NEW i \in DOMAIN plans, Startable(i),
         NEW tasks \in SUBSET TaskRows(i)
  PROVE  /\ tasks \in SUBSET TaskRow
         /\ \A t \in tasks : t.action = plans[i].action[t.repo]
         /\ Cardinality(tasks) = Cardinality(Repos(tasks))
         /\ Repos(tasks) \subseteq DOMAIN plans[i].action
         /\ Cardinality(DOMAIN plans[i].action) \in Nat
         /\ tasks = TaskRows(i) => Repos(tasks) = DOMAIN plans[i].action
         /\ tasks # TaskRows(i) =>
              Cardinality(Repos(tasks)) < Cardinality(DOMAIN plans[i].action)
<1> DEFINE action == plans[i].action
           D == DOMAIN action
           named == {q \in D : candidate[q].url # NONE}
           row(r) == [repo |-> r, url |-> candidate[r].url,
                      state |-> candidate[r].state, action |-> action[r]]
<1>1. D \in SUBSET Repo /\ action \in [D -> Action]
  <2>1. plans[i] \in PlanRow
    BY DEF Tables
  <2>2. PICK rs \in SUBSET Repo : action \in [rs -> Action \ {"blocked"}]
    BY <2>1 DEF PlanRow
  <2> QED
    BY <2>2
<1>2. ASSUME NEW r \in D
      PROVE  candidate[r].url \in Url /\ candidate[r].state \in TargetState
  <2>1. r \in Repo /\ Known(r) /\ candidate[r].state # "unknown"
    BY <1>1 DEF Startable
  <2>2. <<candidate[r].url, candidate[r].state>> \in answers
    BY <2>1 DEF StateIsOfItsUrl
  <2> QED
    BY <2>2 DEF Tables
<1>3. named = D
  BY <1>2, PlanningAssumption DEF PlanningAssumption
<1>4. TaskRows(i) = {row(r) : r \in D}
  BY <1>3 DEF TaskRows
<1>5. tasks \in SUBSET TaskRow
  BY <1>1, <1>2, <1>4 DEF TaskRow
<1>6. /\ \A r \in D : row(r) \in TaskRows(i) /\ row(r).repo = r
      /\ \A t \in TaskRows(i) : t.repo \in D /\ t = row(t.repo) /\ t.action = action[t.repo]
  BY <1>4
<1>7. Repos(tasks) \subseteq D /\ IsFiniteSet(D)
  BY <1>1, <1>6, PlanningAssumption, FS_Subset DEF PlanningAssumption, Repos
<1>8. ExistsBijection(Repos(tasks), tasks)
  <2> DEFINE f == [r \in Repos(tasks) |-> row(r)]
  <2> HIDE DEF row, D
  <2>1. f \in [Repos(tasks) -> tasks] /\ \A r \in Repos(tasks) : f[r].repo = r
    BY <1>6 DEF Repos
  <2>2. IsInjective(f)
    BY <2>1 DEF IsInjective
  <2>3. \A t \in tasks : \E r \in Repos(tasks) : f[r] = t
    BY <1>6 DEF Repos
  <2> QED
    BY <2>1, <2>2, <2>3 DEF ExistsBijection, Bijection, Injection, Surjection
<1>9. Cardinality(tasks) = Cardinality(Repos(tasks)) /\ Cardinality(D) \in Nat
  <2> HIDE DEF D
  <2> QED
    BY <1>7, <1>8, FS_Subset, FS_Bijection, FS_CardinalityType
<1>10. tasks = TaskRows(i) => Repos(tasks) = D
  <2> HIDE DEF row, D
  <2> QED
    BY <1>6, <1>7 DEF Repos
<1>11. tasks # TaskRows(i) => Cardinality(Repos(tasks)) < Cardinality(D)
  <2> SUFFICES ASSUME tasks # TaskRows(i) PROVE Cardinality(Repos(tasks)) < Cardinality(D)
    OBVIOUS
  <2> HIDE DEF row, D
  <2>1. PICK t \in TaskRows(i) : t \notin tasks
    OBVIOUS
  <2>2. t.repo \in D /\ t.repo \notin Repos(tasks)
    BY <1>6, <2>1 DEF Repos
  <2> QED
    BY <1>7, <2>2, FS_Subset, FS_CardinalityType
<1> QED
  BY <1>5, <1>6, <1>7, <1>9, <1>10, <1>11

(* Either way of start_batch ends with a batch of its plan. *)
LEMMA StartedIsGood ==
  ASSUME Tables, StateIsOfItsUrl, NEW i \in DOMAIN plans, Startable(i),
         NEW tasks \in SUBSET TaskRows(i), NEW cut \in BOOLEAN, cut <=> tasks # TaskRows(i)
  PROVE  LET b == [plan |-> i, total |-> Cardinality(DOMAIN plans[i].action),
                   tasks |-> tasks, cut |-> cut]
         IN  b \in BatchRow /\ OfPlan(b, plans[i])
<1>1. i \in Nat
  BY DEF Tables
<1>2. tasks = TaskRows(i) => Cardinality(Repos(tasks)) = Cardinality(DOMAIN plans[i].action)
  BY TaskRowsAreGood
<1> QED
  BY <1>1, <1>2, TaskRowsAreGood DEF BatchRow, OfPlan

(* A process begins without previews, plans and batches. *)
LEMMA InitInv == Init => IInv
<1> SUFFICES ASSUME Init PROVE IInv
  OBVIOUS
<1>1. [permission: Granted, url: Url \cup {NONE}, state: {"unknown"}] \subseteq Row
  BY PlanningAssumption DEF PlanningAssumption, Row, TargetState
<1>2. Tables
  <2>1. candidate \in [Repo -> Row \cup {NONE}]
    BY <1>1, Zenon DEF Init
  <2>2. remote \in [Url -> RemoteState] /\ left \in [Kind -> Nat]
    BY PlanningAssumption DEF Init, PlanningAssumption
  <2>3. plans \in Seq(PlanRow) /\ batches \in Seq(BatchRow)
    BY DEF Init
  <2> QED
    BY <2>1, <2>2, <2>3 DEF Init, Tables
<1>3. StateIsOfItsUrl
  BY DEF Init, StateIsOfItsUrl, Known
<1> QED
  BY <1>2, <1>3 DEF Init, IInv, Frozen, Started

(* Steps that leave plans and batches alone keep what is said of them; the  *)
(* texts the operator has typed only become more.                           *)
LEMMA PlansStay ==
  ASSUME Frozen, Started, plans' = plans, batches' = batches, agreed \subseteq agreed'
  PROVE  Frozen' /\ Started'
BY DEF Frozen, Started, Agreed, Acknowledged, OfPlan

(* Rows of candidates are upserted with a permission the platform reports,  *)
(* and keep URL and state together.                                         *)
LEMMA UpsertKeeps ==
  ASSUME Tables, StateIsOfItsUrl, UNCHANGED <<remote, target, plans, batches, answers, agreed>>,
         left' \in [Kind -> Nat], NEW permission \in [Repo -> Permission], NEW found \in SUBSET Repo,
         candidate' = [r \in Repo |-> IF r \in found THEN Upsert(r, permission[r]) ELSE candidate[r]]
  PROVE  Tables' /\ StateIsOfItsUrl'
<1>1. ASSUME NEW r \in Repo
      PROVE  /\ Upsert(r, permission[r]) \in Row
             /\ Upsert(r, permission[r]).state # "unknown" =>
                  /\ Known(r)
                  /\ Upsert(r, permission[r]).url = candidate[r].url
                  /\ Upsert(r, permission[r]).state = candidate[r].state
  BY DEF Upsert, Known, Tables, Row, TargetState
<1>2. candidate' \in [Repo -> Row \cup {NONE}]
  BY <1>1 DEF Tables
<1>3. StateIsOfItsUrl'
  BY <1>1 DEF StateIsOfItsUrl, Known, Tables
<1> QED
  BY <1>2, <1>3 DEF Tables

(* start_batch inserts all its rows, or some, and does nothing else. *)
LEMMA StartsInsert ==
  ASSUME NEW i \in DOMAIN plans,
         StartBatch(i) \/ \E written \in SUBSET TaskRows(i) : StartBatchCut(i, written)
  PROVE  \E tasks \in SUBSET TaskRows(i), cut \in BOOLEAN :
           /\ cut <=> tasks # TaskRows(i)
           /\ InsertBatch(i, tasks, cut) /\ Startable(i) /\ Spend("start")
           /\ UNCHANGED <<remote, target, candidate, previews, plans, answers, agreed>>
BY DEF StartBatch, StartBatchCut

(* The commands and the world, one by one, keep the invariant. *)
LEMMA NextInv == IInv /\ [Next]_vars => IInv'
<1> SUFFICES ASSUME IInv, [Next]_vars PROVE IInv'
  OBVIOUS
<1> DEFINE Previews == \A p \in previews : GoodPreview(p)
<1>0. Tables /\ StateIsOfItsUrl /\ Previews /\ Frozen /\ Started
  BY DEF IInv
<1>1. ASSUME NEW u \in Url, NEW s \in RemoteState, RemoteChanges(u, s)
      PROVE  IInv'
  <2>1. left' \in [Kind -> Nat]
    BY <1>0, <1>1, SpendTypes DEF RemoteChanges, Kind, Tables
  <2>2. Tables'
    BY <1>0, <1>1, <2>1 DEF RemoteChanges, Tables
  <2>3. StateIsOfItsUrl'
    BY <1>0, <1>1 DEF RemoteChanges, StateIsOfItsUrl, Known
  <2>4. Frozen' /\ Started'
    BY <1>0, <1>1, PlansStay DEF RemoteChanges
  <2> QED
    BY <1>0, <1>1, <2>2, <2>3, <2>4 DEF RemoteChanges, IInv, GoodPreview
<1>2. ASSUME Restart
      PROVE  IInv'
  <2>1. left' \in [Kind -> Nat]
    BY <1>0, <1>2, SpendTypes DEF Restart, Kind, Tables
  <2>2. Tables'
    BY <1>0, <1>2, <2>1 DEF Restart, Tables
  <2>3. StateIsOfItsUrl'
    BY <1>0, <1>2 DEF Restart, StateIsOfItsUrl, Known
  <2>4. Frozen' /\ Started'
    BY <1>0, <1>2, PlansStay DEF Restart
  <2> QED
    BY <1>2, <2>2, <2>3, <2>4 DEF Restart, IInv
<1>3. ASSUME NEW e \in Endpoint, SaveConnection(e)
      PROVE  IInv'
  <2>1. left' \in [Kind -> Nat]
    BY <1>0, <1>3, SpendTypes DEF SaveConnection, Kind, Tables
  <2>2. Tables'
    BY <1>0, <1>3, <2>1 DEF SaveConnection, Tables
  <2>3. StateIsOfItsUrl'
    BY <1>0, <1>3 DEF SaveConnection, StateIsOfItsUrl, Known
  <2>4. Frozen' /\ Started'
    BY <1>0, <1>3, PlansStay DEF SaveConnection
  <2> QED
    BY <1>0, <1>3, <2>2, <2>3, <2>4 DEF SaveConnection, IInv, GoodPreview
<1>4. ASSUME Discovery
      PROVE  IInv'
  <2>1. PICK rs \in SUBSET Repo : \E found \in [rs -> Granted] : Discover(found)
    BY <1>4 DEF Discovery
  <2>2. PICK found \in [rs -> Granted] : Discover(found)
    BY <2>1
  <2>3. left' \in [Kind -> Nat]
    BY <1>0, <2>2, SpendTypes DEF Discover, Kind, Tables
  <2> DEFINE permission == [r \in Repo |-> IF r \in rs THEN found[r] ELSE "git_only"]
  <2>4. permission \in [Repo -> Permission]
    BY PlanningAssumption DEF PlanningAssumption, Permission
  <2>5. candidate' = [r \in Repo |->
                        IF r \in rs THEN Upsert(r, permission[r]) ELSE candidate[r]]
    BY <2>2 DEF Discover
  <2>6. UNCHANGED <<remote, target, previews, plans, batches, answers, agreed>>
    BY <2>2 DEF Discover
  <2> HIDE DEF permission
  <2>7. Tables' /\ StateIsOfItsUrl'
    BY <1>0, <2>3, <2>4, <2>5, <2>6, UpsertKeeps
  <2>8. Frozen' /\ Started'
    BY <1>0, <2>6, PlansStay
  <2> QED
    BY <1>0, <2>6, <2>7, <2>8 DEF IInv, GoodPreview
<1>5. ASSUME NEW found \in SUBSET Imported, Import(found)
      PROVE  IInv'
  <2>1. left' \in [Kind -> Nat]
    BY <1>0, <1>5, SpendTypes DEF Import, Kind, Tables
  <2> DEFINE permission == [r \in Repo |-> "git_only"]
  <2>2. permission \in [Repo -> Permission]
    BY DEF Permission
  <2>3. found \in SUBSET Repo
    BY PlanningAssumption DEF PlanningAssumption
  <2>4. candidate' = [r \in Repo |->
                        IF r \in found THEN Upsert(r, permission[r]) ELSE candidate[r]]
    BY <1>5 DEF Import
  <2>5. UNCHANGED <<remote, target, previews, plans, batches, answers, agreed>>
    BY <1>5 DEF Import
  <2> HIDE DEF permission
  <2>6. Tables' /\ StateIsOfItsUrl'
    BY <1>0, <2>1, <2>2, <2>3, <2>4, <2>5, UpsertKeeps
  <2>7. Frozen' /\ Started'
    BY <1>0, <2>5, PlansStay
  <2> QED
    BY <1>0, <2>5, <2>6, <2>7 DEF IInv, GoodPreview
<1>6. ASSUME NEW r \in Repo, NEW u \in Url, SetMapping(r, u)
      PROVE  IInv'
  <2>1. left' \in [Kind -> Nat]
    BY <1>0, <1>6, SpendTypes DEF SetMapping, Kind, Tables
  <2>2. candidate' = [candidate EXCEPT ![r] = [@ EXCEPT !.url = u, !.state = "unknown"]]
    BY <1>6 DEF SetMapping
  <2>3. [candidate[r] EXCEPT !.url = u, !.state = "unknown"] \in Row
    BY <1>0, <1>6 DEF SetMapping, Known, Tables, Row, TargetState
  <2>4. Tables'
    BY <1>0, <1>6, <2>1, <2>2, <2>3 DEF SetMapping, Tables
  <2>5. StateIsOfItsUrl'
    <3> SUFFICES ASSUME NEW q \in Repo, Known(q)', candidate'[q].state # "unknown"
                 PROVE  <<candidate'[q].url, candidate'[q].state>> \in answers'
      BY DEF StateIsOfItsUrl
    <3>1. q # r
      BY <1>0, <2>2, <2>3 DEF Tables, Row
    <3>2. candidate'[q] = candidate[q]
      BY <1>0, <2>2, <3>1 DEF Tables
    <3> QED
      BY <1>0, <1>6, <3>2 DEF SetMapping, StateIsOfItsUrl, Known
  <2>6. Frozen' /\ Started'
    BY <1>0, <1>6, PlansStay DEF SetMapping
  <2> QED
    BY <1>0, <1>6, <2>4, <2>5, <2>6 DEF SetMapping, IInv, GoodPreview
<1>7. ASSUME NEW r \in Repo, NEW u \in Url, ProbeTarget(r, u)
      PROVE  IInv'
  <2>1. left' \in [Kind -> Nat]
    BY <1>0, <1>7, SpendTypes DEF ProbeTarget, Kind, Tables
  <2>2. PICK s \in ProbeAnswers(u) :
          /\ candidate' = [candidate EXCEPT ![r] = [@ EXCEPT !.url = u, !.state = s]]
          /\ answers' = answers \cup {<<u, s>>}
    BY <1>7 DEF ProbeTarget
  <2>3. s \in TargetState
    BY <1>0 DEF ProbeAnswers, Tables, TargetState
  <2>4. [candidate[r] EXCEPT !.url = u, !.state = s] \in Row
    BY <1>0, <1>7, <2>3 DEF ProbeTarget, Known, Tables, Row
  <2>5. Tables'
    <3>1. candidate' \in [Repo -> Row \cup {NONE}]
      <4> HIDE DEF Row
      <4> QED
        BY <1>0, <2>2, <2>4 DEF Tables
    <3>2. answers' \subseteq Url \X TargetState
      BY <1>0, <2>2, <2>3 DEF Tables
    <3> QED
      BY <1>0, <1>7, <2>1, <3>1, <3>2 DEF ProbeTarget, Tables
  <2>6. StateIsOfItsUrl'
    <3> SUFFICES ASSUME NEW q \in Repo, Known(q)', candidate'[q].state # "unknown"
                 PROVE  <<candidate'[q].url, candidate'[q].state>> \in answers'
      BY DEF StateIsOfItsUrl
    <3>1. CASE q = r
      <4>1. candidate'[q] = [candidate[r] EXCEPT !.url = u, !.state = s]
        BY <1>0, <2>2, <3>1 DEF Tables
      <4>2. candidate[r] \in Row
        BY <1>0, <1>7 DEF ProbeTarget, Known, Tables
      <4>3. candidate'[q].url = u /\ candidate'[q].state = s
        BY <4>1, <4>2 DEF Row
      <4> QED
        BY <2>2, <4>3
    <3>2. CASE q # r
      <4>1. candidate'[q] = candidate[q]
        BY <1>0, <2>2, <3>2 DEF Tables
      <4> QED
        BY <1>0, <2>2, <4>1 DEF StateIsOfItsUrl, Known
    <3> QED
      BY <3>1, <3>2
  <2>7. Frozen' /\ Started'
    BY <1>0, <1>7, PlansStay DEF ProbeTarget
  <2> QED
    BY <1>0, <1>7, <2>5, <2>6, <2>7 DEF ProbeTarget, IInv, GoodPreview
<1>8. ASSUME Preview
      PROVE  IInv'
  <2> DEFINE sent == [r \in Repo |-> IF Known(r) THEN candidate[r].url ELSE NONE]
  <2>1. PICK selected \in Selection, policy \in Policy, modules \in Choice,
             archived \in Archive : PreviewPlan(selected, sent, policy, modules, archived)
    BY <1>8, Zenon DEF Preview
  <2>2. sent \in [Repo -> Url \cup {NONE}]
    BY <1>0 DEF Known, Tables, Row
  <2>3. selected \in SUBSET Repo /\ archived \in BOOLEAN
    BY PlanningAssumption DEF PlanningAssumption
  <2> HIDE DEF sent
  <2>4. left' \in [Kind -> Nat]
    BY <1>0, <2>1, SpendTypes DEF PreviewPlan, Kind, Tables
  <2>5. GoodPreview(PreviewOf(selected, sent, policy, modules, archived))
    BY <1>0, <2>2, <2>3, PreviewIsGood
  <2>6. /\ previews' = previews \cup {PreviewOf(selected, sent, policy, modules, archived)}
        /\ UNCHANGED <<remote, target, candidate, plans, batches, answers, agreed>>
    BY <2>1 DEF PreviewPlan
  <2>7. \A p \in previews' : GoodPreview(p)
    BY <1>0, <2>5, <2>6
  <2>8. Tables' /\ StateIsOfItsUrl'
    BY <1>0, <2>4, <2>6 DEF Tables, StateIsOfItsUrl, Known
  <2>9. Frozen' /\ Started'
    BY <1>0, <2>6, PlansStay
  <2> QED
    BY <2>7, <2>8, <2>9 DEF IInv, GoodPreview
<1>9. ASSUME Freeze
      PROVE  IInv'
  <2>1. PICK p \in previews, acknowledged \in {{}, UNION Choice} :
          \E typed \in IF p.phrase = {} THEN {{}} ELSE SUBSET Url :
            FreezePlan(p, typed, acknowledged)
    BY <1>9 DEF Freeze
  <2>2. PICK typed \in IF p.phrase = {} THEN {{}} ELSE SUBSET Url :
          FreezePlan(p, typed, acknowledged)
    BY <2>1
  <2> DEFINE row == PlanOf(p, acknowledged)
  <2>3. GoodPreview(p) /\ typed \subseteq Url /\ acknowledged \in SUBSET Module
    BY <1>0, PlanningAssumption DEF PlanningAssumption
  <2>4. left' \in [Kind -> Nat]
    BY <1>0, <2>2, SpendTypes DEF FreezePlan, Kind, Tables
  <2>5. /\ plans' = Append(plans, row) \/ plans' = plans
        /\ agreed' = agreed \cup typed
        /\ UNCHANGED <<remote, target, candidate, previews, batches, answers>>
    BY <2>2 DEF FreezePlan
  <2>6. row \in PlanRow /\ Agreed(row, agreed') /\ Acknowledged(row)
    <3>1. /\ ~p.blocked /\ p.degraded \subseteq acknowledged
          /\ p.phrase # {} => typed = p.phrase
      BY <2>2 DEF FreezePlan
    <3>2. row \in PlanRow /\ Agreed(row, agreed \cup typed) /\ Acknowledged(row)
      BY <2>3, <3>1, FrozenIsGood
    <3> QED
      BY <2>5, <3>2
  <2> HIDE DEF row
  <2>7. /\ plans' \in Seq(PlanRow)
        /\ \A i \in DOMAIN plans : i \in DOMAIN plans' /\ plans'[i] = plans[i]
        /\ \A i \in DOMAIN plans' \ DOMAIN plans : plans'[i] = row
    <3>1. plans \in Seq(PlanRow)
      BY <1>0 DEF Tables
    <3>2. CASE plans' = plans
      BY <3>1, <3>2
    <3>3. CASE plans' = Append(plans, row)
      BY <2>6, <3>1, <3>3
    <3> QED
      BY <2>5, <3>2, <3>3
  <2>8. Tables'
    BY <1>0, <2>3, <2>4, <2>5, <2>7 DEF Tables
  <2>9. StateIsOfItsUrl'
    BY <1>0, <2>5 DEF StateIsOfItsUrl, Known
  <2>10. Frozen'
    BY <1>0, <2>5, <2>6, <2>7 DEF Frozen, Agreed, Acknowledged
  <2>11. Started'
    BY <1>0, <2>5, <2>7 DEF Started, OfPlan
  <2> QED
    BY <1>0, <2>5, <2>8, <2>9, <2>10, <2>11 DEF IInv, GoodPreview
<1>10. ASSUME NEW i \in DOMAIN plans,
              StartBatch(i) \/ \E written \in SUBSET TaskRows(i) : StartBatchCut(i, written)
       PROVE  IInv'
  <2>1. PICK tasks \in SUBSET TaskRows(i), cut \in BOOLEAN :
          /\ cut <=> tasks # TaskRows(i)
          /\ InsertBatch(i, tasks, cut) /\ Startable(i) /\ Spend("start")
          /\ UNCHANGED <<remote, target, candidate, previews, plans, answers, agreed>>
    BY <1>10, StartsInsert
  <2> DEFINE b == [plan |-> i, total |-> Cardinality(DOMAIN plans[i].action),
                   tasks |-> tasks, cut |-> cut]
  <2>2. left' \in [Kind -> Nat]
    BY <1>0, <2>1, SpendTypes DEF Kind, Tables
  <2>3. b \in BatchRow /\ OfPlan(b, plans[i]) /\ b.plan = i /\ batches' = Append(batches, b)
    BY <1>0, <2>1, StartedIsGood DEF InsertBatch
  <2> HIDE DEF b
  <2>4. Tables' /\ StateIsOfItsUrl'
    BY <1>0, <2>1, <2>2, <2>3 DEF Tables, StateIsOfItsUrl, Known
  <2>5. \A j \in DOMAIN batches' :
          \/ j \in DOMAIN batches /\ batches'[j] = batches[j]
          \/ batches'[j] = b
    BY <1>0, <2>3 DEF Tables
  <2>6. Started'
    BY <1>0, <2>1, <2>3, <2>5 DEF Started, OfPlan
  <2>7. Frozen'
    BY <1>0, <2>1 DEF Frozen, Agreed, Acknowledged
  <2> QED
    BY <1>0, <2>1, <2>4, <2>6, <2>7 DEF IInv, GoodPreview
<1>11. CASE UNCHANGED vars
  <2>1. Tables' /\ StateIsOfItsUrl'
    BY <1>0, <1>11 DEF vars, Tables, StateIsOfItsUrl, Known
  <2>2. Frozen' /\ Started'
    BY <1>0, <1>11, PlansStay DEF vars
  <2> QED
    BY <1>0, <1>11, <2>1, <2>2 DEF vars, IInv, GoodPreview
<1> QED
  BY <1>1, <1>2, <1>3, <1>4, <1>5, <1>6, <1>7, <1>8, <1>9, <1>10, <1>11 DEF Next

THEOREM PlanningIInv == Spec => []IInv
BY InitInv, NextInv, PTL DEF Spec

(* Every row is well typed: what is frozen has a URL for every repository,  *)
(* and what is started a task with a URL (build_preview, start_batch).      *)
THEOREM PlanningTypes == Spec => []TypeOK
<1>1. IInv => TypeOK
  <2> SUFFICES ASSUME IInv PROVE TypeOK
    OBVIOUS
  <2>1. \A i \in DOMAIN plans : plans[i] \in PlanRow
    BY DEF IInv, Tables
  <2>2. \A j \in DOMAIN batches : batches[j] \in BatchRow
    BY DEF IInv, Tables
  <2> QED
    BY <2>1, <2>2 DEF IInv, Tables, TypeOK, Started, BatchRow
<1> QED
  BY <1>1, PlanningIInv, PTL

(* No order of mapping, probing, discovering and importing gives a row the  *)
(* answer for another target (probe_target, set_mapping, upsert_candidate). *)
THEOREM StateBelongsToUrl == Spec => []StateIsOfItsUrl
<1>1. IInv => StateIsOfItsUrl
  BY DEF IInv
<1> QED
  BY <1>1, PlanningIInv, PTL

(* Unless the process dies or the store refuses a statement between two rows,  *)
(* every repository of the plan gets its task row; a batch cut off so has rows *)
(* of its plan, each repository once (start_batch).                            *)
THEOREM BatchHasItsTasks == Spec => []BatchIsComplete
<1>1. IInv => BatchIsComplete
  BY DEF IInv, Started, OfPlan, BatchIsComplete, Repos
<1> QED
  BY <1>1, PlanningIInv, PTL

(* Any number of previews and freezes lies between the phrase and the task  *)
(* that overwrites (freeze_plan, start_batch).                              *)
THEOREM OverwriteHasItsPhrase == Spec => []OverwriteIsConfirmed
<1>1. IInv => OverwriteIsConfirmed
  <2> SUFFICES ASSUME IInv, NEW j \in DOMAIN batches, NEW t \in batches[j].tasks,
                      t.action = "overwrite"
               PROVE  \E m \in plans[batches[j].plan].mapping : m[1] = t.repo /\ m[2] \in agreed
    BY DEF OverwriteIsConfirmed
  <2> DEFINE plan == plans[batches[j].plan]
  <2>1. batches[j].plan \in DOMAIN plans /\ OfPlan(batches[j], plan)
    BY DEF IInv, Started
  <2>2. t.repo \in DOMAIN plan.action /\ plan.action[t.repo] = "overwrite"
    BY <2>1 DEF OfPlan, Repos
  <2>3. Agreed(plan, agreed)
    BY <2>1 DEF IInv, Frozen
  <2> QED
    BY <2>2, <2>3 DEF Agreed
<1> QED
  BY <1>1, PlanningIInv, PTL

(* A batch starts only under the connection its plan was previewed with,    *)
(* and what that one cannot rebuild was acknowledged (start_batch).         *)
THEOREM DegradationHasItsAcknowledgement == Spec => DegradedIsAcknowledged
<1> DEFINE Step ==
      \A i \in DOMAIN plans :
        Len(batches') > Len(batches) /\ batches'[Len(batches')].plan = i
        /\ batches'[Len(batches')].tasks # {}
          => Degraded(plans[i].modules) \subseteq plans[i].acknowledged
<1>1. IInv /\ [Next]_vars => [Step]_vars
  <2> SUFFICES ASSUME IInv, Next, NEW i \in DOMAIN plans,
                      Len(batches') > Len(batches), batches'[Len(batches')].plan = i,
                      batches'[Len(batches')].tasks # {}
               PROVE  Degraded(plans[i].modules) \subseteq plans[i].acknowledged
    BY DEF vars
  <2>1. batches \in Seq(BatchRow)
    BY DEF IInv, Tables
  <2>2. batches' # batches
    BY <2>1
  <2>3. PICK k \in DOMAIN plans :
          StartBatch(k) \/ \E written \in SUBSET TaskRows(k) : StartBatchCut(k, written)
    BY <2>2 DEF Next, RemoteChanges, Restart, SaveConnection, Discovery, Discover, Import,
                SetMapping, ProbeTarget, Preview, PreviewPlan, Freeze, FreezePlan
  <2>4. PICK tasks \in SUBSET TaskRows(k), cut \in BOOLEAN :
          InsertBatch(k, tasks, cut) /\ Startable(k)
    BY <2>3, StartsInsert
  <2> DEFINE b == [plan |-> k, total |-> Cardinality(DOMAIN plans[k].action),
                   tasks |-> tasks, cut |-> cut]
  <2>5. b.plan = k /\ (b.tasks # {} => DOMAIN plans[k].action # {}) /\ batches' = Append(batches, b)
    BY <2>4 DEF TaskRows, InsertBatch
  <2> HIDE DEF b
  <2>6. batches'[Len(batches')] = b
    BY <2>1, <2>5
  <2>7. k = i /\ DOMAIN plans[i].action # {}
    BY <2>5, <2>6
  <2> QED
    BY <2>4, <2>7 DEF IInv, Frozen, Acknowledged, Startable, Degraded
<1> QED
  BY <1>1, PlanningIInv, PTL DEF Spec, DegradedIsAcknowledged
=============================================================================
