---------------------------- MODULE TargetWrites ----------------------------
(***************************************************************************)
(* What the attempts of one task write to its target repository: the       *)
(* decisions of StageExecutor::prepare_target, the mirror clone, the       *)
(* push of allowlisted refs and the verification (executor.rs, refs.rs),   *)
(* against a source that moves on and strangers who use the target.        *)
(*                                                                         *)
(* The queue around it is reduced to what matters here: one worker at a    *)
(* time (MigrationQueue!ExclusiveJob), an attempt that may be stopped by   *)
(* a guard or abandoned with its process, and a retry of a retryable       *)
(* failure as a new attempt.  Lfs, metadata and platform modules write     *)
(* no refs and are left out.                                               *)
(***************************************************************************)
EXTENDS Integers

CONSTANTS
  Ref,          \* refs the policy allows: branches and tags
  PrivateRef,   \* refs it excludes: pull requests, changes, notes, ...
  Plan,         \* frozen plans: records of an action and the overwrite policy
  Gateway,      \* kinds of target gateway: "contract" is any that does what the
                \* TargetGateway trait asks for, the others are the application's
  Outages,      \* a probe may fail to reach the target or to be let in
  Strangers,    \* when others may write to the target: "between" the attempts,
                \* "always"
  MaxAttempt,   \* bound of the model: retries
  MaxVersion    \* bound of the model: versions of a source ref

AnyRef  == Ref \cup PrivateRef
Absent  == 0            \* content of a ref that does not exist
Foreign == -1           \* content a stranger pushed
Version == 1 .. MaxVersion
Content == {Absent, Foreign} \cup Version

\* The actions decide_action gives ("rename" is declared, and never decided).
Action == {"create", "reuse_empty", "skip_non_empty", "overwrite", "blocked"}

ASSUME TargetAssumption ==
  /\ Ref \cap PrivateRef = {}
  /\ Plan \subseteq [action : Action, overwrite : BOOLEAN]
  /\ \A p \in Plan : p.action = "overwrite" => p.overwrite
  /\ Gateway \subseteq {"contract", "api", "github", "gitee", "generic"}
  /\ Outages \in BOOLEAN
  /\ Strangers \subseteq {"between", "always"}
  /\ MaxAttempt \in Nat /\ MaxVersion \in Nat \ {0}

VARIABLES
  plan, gateway, strangers,   \* fixed for a behaviour
  source,   \* content of the source repository
  exists,   \* the target repository exists
  target,   \* its content
  pc,       \* what the task does, or how it ended
  attempt,  \* attempt column of the task row
  begun,    \* the log has a line of the git stage
  resumed,  \* TaskAssignment.resumed_attempt
  probed,   \* answer of the latest probe
  mirror,   \* content of this attempt's mirror clone
  pending,  \* refs git has still to update
  reached,  \* history: begun, as it was when this attempt was claimed
  since,    \* history: source, as it was when this attempt was claimed
  pushed,   \* history: some attempt updated a ref
  trespass  \* history: attempts that overwrote strangers without being entitled

fixed   == <<plan, gateway, strangers>>
remote  == <<exists, target>>
row     == <<attempt, begun, resumed>>
history == <<reached, since, pushed, trespass>>
vars == <<fixed, source, remote, pc, row, probed, mirror, pending, history>>

Working == {"prepare", "probe", "create", "confirm", "space", "clone", "push", "verify"}
Ended   == {"queued", "retryable", "failed", "skipped", "refused", "lost", "migrated"}
Answer  == {"none", "missing", "empty", "non_empty", "unknown", "inaccessible"}

\* Every variable has its type; a repository that does not exist has no refs, and
\* no attempt gets past the preparation of one.
TypeOK ==
  /\ plan \in Plan /\ gateway \in Gateway /\ strangers \in Strangers
  /\ source \in [AnyRef -> 0 .. MaxVersion]
  /\ exists \in BOOLEAN
  /\ target \in [AnyRef -> Content]
  /\ ~exists => \A r \in AnyRef : target[r] = Absent
  /\ pc \in Working \cup Ended
  /\ pc \in {"space", "clone", "push", "verify"} => exists
  /\ attempt \in Nat
  /\ begun \in BOOLEAN /\ resumed \in BOOLEAN
  /\ probed \in Answer
  /\ mirror \in [AnyRef -> 0 .. MaxVersion]
  /\ pending \subseteq AnyRef
  /\ reached \in BOOLEAN /\ pushed \in BOOLEAN
  /\ since \in [AnyRef -> 0 .. MaxVersion]
  /\ trespass \subseteq Nat

-----------------------------------------------------------------------------
(***************************************************************************)
(* Probing.                                                                *)
(***************************************************************************)

Empty == \A r \in AnyRef : target[r] = Absent

\* What a gateway may say of the target when it is reached and let in.  A 404 is
\* an error like any other for the API gateways; GitLab and Gitea tell whether the
\* repository is empty.  GitHub tells its size in kilobytes, which follows a push
\* some time later and stays 0 for a very small one: the adapter reads 0 as empty.
\* Gitee's adapter says nothing about emptiness.
Sees(g) ==
  CASE g \in {"contract", "generic"} ->        \* git ls-remote
         {IF ~exists THEN "missing" ELSE IF Empty THEN "empty" ELSE "non_empty"}
    [] g \in {"api", "github", "gitee"} /\ ~exists -> {"unknown"}
    [] g = "api" /\ exists -> {IF Empty THEN "empty" ELSE "non_empty"}
    [] g = "github" /\ exists -> {"empty", "non_empty"}
    [] g = "gitee" /\ exists -> {"non_empty"}

\* Answers of a probe, with the ones of a gateway that is not let in or not
\* reached.
Answers(g) == Sees(g) \cup (IF Outages THEN {"unknown", "inaccessible"} ELSE {})

\* An ls-remote that cannot be run is an error of the probe; the API gateway
\* turns all errors into answers.
ProbeMayError(g) == g \in {"contract", "generic"}

-----------------------------------------------------------------------------
(***************************************************************************)
(* An attempt.                                                             *)
(***************************************************************************)

\* Mutant of Resumes: an attempt knows nothing of the ones before.
ResumesNever == FALSE

\* claim_next_task: a later attempt, or any line of the git stage, counts as
\* having pushed before.
Resumes == attempt > 0 \/ begun

Claim ==
  /\ pc = "queued"
  /\ pc' = "prepare"
  /\ resumed' = Resumes
  /\ reached' = begun
  /\ since' = source
  /\ probed' = "none" /\ pending' = {}
  /\ UNCHANGED <<fixed, source, remote, attempt, begun, mirror, pushed, trespass>>

\* How an error ends an attempt (fail_stage): a later attempt may follow, or may
\* not, or the task is skipped for a conflict or a missing permission.
Failure == {"retryable", "failed", "refused"}

Fails ==
  /\ pc' \in Failure
  /\ UNCHANGED <<fixed, source, remote, row, probed, mirror, pending, history>>

\* The plan settles it before anything is asked of the target.
Prepare ==
  /\ pc = "prepare"
  /\ pc' = CASE plan.action = "blocked" -> "refused"
             [] plan.action = "skip_non_empty" -> "skipped"
             [] OTHER -> "probe"
  /\ UNCHANGED <<fixed, source, remote, row, probed, mirror, pending, history>>

\* Mutant of AfterProbe: content that appeared since preflight is not noticed.
AfterProbeTrusting(a) ==
  CASE a \in {"unknown", "inaccessible"} -> "refused"
    [] a = "missing" -> IF plan.action = "create" THEN "create" ELSE "refused"
    [] OTHER -> "space"

\* Where prepare_target goes from the answer of its first probe.
AfterProbe(a) ==
  CASE a \in {"unknown", "inaccessible"} -> "refused"
    [] a = "missing" -> IF plan.action = "create" THEN "create" ELSE "refused"
    [] a = "non_empty" /\ ~plan.overwrite /\ ~resumed -> "skipped"
    [] OTHER -> "space"

Probe ==
  /\ pc = "probe"
  /\ \E a \in Answers(gateway) : probed' = a /\ pc' = AfterProbe(a)
  /\ UNCHANGED <<fixed, source, remote, row, mirror, pending, history>>

ProbeError == pc \in {"probe", "confirm"} /\ ProbeMayError(gateway) /\ Fails

\* The create request.  It may take effect although its answer is lost; a name
\* somebody else took meanwhile is an error.
Create ==
  /\ pc = "create"
  /\ gateway = "contract"
  /\ ~exists
  /\ exists' = TRUE
  /\ pc' \in {"confirm"} \cup Failure
  /\ UNCHANGED <<fixed, source, target, row, probed, mirror, pending, history>>

\* Generic Git has no API to create a repository with: always an error.
CreateError == pc = "create" /\ Fails

\* Creation is confirmed by reading the target again.
Confirm ==
  /\ pc = "confirm"
  /\ \E a \in Answers(gateway) :
       /\ probed' = a
       /\ pc' = IF a \in {"empty", "non_empty"} THEN "space" ELSE "retryable"
  /\ UNCHANGED <<fixed, source, remote, row, mirror, pending, history>>

\* There is room for a temporary directory of this attempt's own.
Space ==
  /\ pc = "space"
  /\ pc' = "clone"
  /\ UNCHANGED <<fixed, source, remote, row, probed, mirror, pending, history>>

SpaceError == pc = "space" /\ Fails

\* Mutant of Allowlisted: the push mirrors everything.
AllowlistedMirror(m) == {r \in AnyRef : m[r] # Absent}

\* build_allowlisted_refspecs: what a push of this mirror updates.
Allowlisted(m) == {r \in Ref : m[r] # Absent}

\* The git stage begins and clones the mirror.  A source without allowed refs
\* cannot be pushed.
Clone ==
  /\ pc = "clone"
  /\ begun' = TRUE
  /\ mirror' = source
  /\ pending' = Allowlisted(mirror')
  /\ pc' = IF pending' = {} THEN "failed" ELSE "push"
  /\ UNCHANGED <<fixed, source, remote, attempt, resumed, probed, history>>

CloneError ==
  /\ pc = "clone"
  /\ begun' = TRUE
  /\ pc' \in Failure
  /\ UNCHANGED <<fixed, source, remote, attempt, resumed, probed, mirror, pending, history>>

\* git push with a forced refspec per ref and no --atomic: one ref is updated.
PushRef ==
  /\ pc = "push"
  /\ exists
  /\ \E r \in pending :
       /\ pending' = pending \ {r}
       /\ target' = [target EXCEPT ![r] = mirror[r]]
       /\ trespass' = IF target[r] = Foreign /\ ~plan.overwrite /\ ~reached
                      THEN trespass \cup {attempt} ELSE trespass
  /\ pushed' = TRUE
  /\ UNCHANGED <<fixed, source, exists, pc, row, probed, mirror, reached, since>>

Pushed ==
  /\ pc = "push" /\ pending = {}
  /\ pc' = "verify"
  /\ UNCHANGED <<fixed, source, remote, row, probed, mirror, pending, history>>

\* The push is interrupted or partly rejected, or its answer is lost.
PushError == pc = "push" /\ Fails

\* Mutant of Matches: the names are compared, and not the objects.
MatchesNames == \A r \in Allowlisted(mirror) : target[r] # Absent

\* verify_refs: every allowed ref of the mirror is on the target, as cloned.
Matches == \A r \in Allowlisted(mirror) : target[r] = mirror[r]

\* A mismatch completes the task with the verdict "failed", which may be retried.
Verify ==
  /\ pc = "verify"
  /\ pc' = IF Matches THEN "migrated" ELSE "retryable"
  /\ UNCHANGED <<fixed, source, remote, row, probed, mirror, pending, history>>

VerifyError == pc = "verify" /\ Fails

\* A guard finds the batch paused or cancelled (the three stages of this module).
Stopped ==
  /\ pc \in {"prepare", "clone", "verify"}
  /\ pc' = "refused"
  /\ UNCHANGED <<fixed, source, remote, row, probed, mirror, pending, history>>

\* The process dies, or the lease ran out and the result is dropped.  Until its
\* first stage has begun the row is still planned, and is claimed again.
Abandoned ==
  /\ pc \in Working
  /\ pc' = IF pc = "prepare" THEN "queued" ELSE "lost"
  /\ UNCHANGED <<fixed, source, remote, row, probed, mirror, pending, history>>

\* The operator retries a failure that may be retried.
Retry ==
  /\ pc = "retryable"
  /\ attempt < MaxAttempt
  /\ pc' = "queued"
  /\ attempt' = attempt + 1
  /\ UNCHANGED <<fixed, source, remote, begun, resumed, probed, mirror, pending, history>>

-----------------------------------------------------------------------------
(***************************************************************************)
(* Everybody else.                                                         *)
(***************************************************************************)

Quiet == strangers = "between" /\ pc \in Working

StrangerCreates ==
  /\ ~Quiet /\ ~exists
  /\ exists' = TRUE
  /\ UNCHANGED <<fixed, source, target, pc, row, probed, mirror, pending, history>>

StrangerPushes ==
  /\ ~Quiet /\ exists
  /\ \E r \in AnyRef : target' = [target EXCEPT ![r] = Foreign]
  /\ UNCHANGED <<fixed, source, exists, pc, row, probed, mirror, pending, history>>

\* Work goes on in the source repository.
SourceMoves ==
  /\ \E r \in AnyRef : /\ source[r] < MaxVersion
                       /\ source' = [source EXCEPT ![r] = @ + 1]
  /\ UNCHANGED <<fixed, remote, pc, row, probed, mirror, pending, history>>

-----------------------------------------------------------------------------
Init ==
  /\ plan \in Plan /\ gateway \in Gateway /\ strangers \in Strangers
  /\ source \in [AnyRef -> 0 .. 1]
  /\ exists \in BOOLEAN
  /\ target \in [AnyRef -> IF exists THEN {Absent, Foreign} ELSE {Absent}]
  /\ pc = "queued" /\ attempt = 0 /\ begun = FALSE /\ resumed = FALSE
  /\ probed = "none"
  /\ mirror = [r \in AnyRef |-> Absent] /\ pending = {}
  /\ reached = FALSE /\ since = source /\ pushed = FALSE /\ trespass = {}

Next ==
  \/ Claim \/ Prepare
  \/ Probe \/ ProbeError \/ Create \/ CreateError \/ Confirm
  \/ Space \/ SpaceError \/ Clone \/ CloneError
  \/ PushRef \/ Pushed \/ PushError \/ Verify \/ VerifyError
  \/ Stopped \/ Abandoned \/ Retry
  \/ StrangerCreates \/ StrangerPushes \/ SourceMoves

Spec == Init /\ [][Next]_vars

-----------------------------------------------------------------------------
(***************************************************************************)
(* Properties.                                                             *)
(***************************************************************************)

\* Refs outside the allowlist never get a source's content, although the mirror
\* clone contains them, over partial pushes and retries
\* (build_allowlisted_refspecs).
PrivateRefsStay == \A r \in PrivateRef : target[r] \notin Version

\* The first attempt overwrites nothing that was on the target when it probed
\* it, unless the plan says so.  Two conditions, because the code has no more:
\* strangers leave a running attempt alone (the push has no lease on what the
\* probe saw), and the probe can tell an empty target from one with content, which
\* GitHub's size does not (platform-github/src/lib.rs:302).
FirstAttemptSpares == strangers = "between" /\ gateway # "github" => 0 \notin trespass

\* A target that an attempt has pushed to is not taken for somebody else's by a
\* later one and skipped as non-empty (resumed_attempt).
OwnTargetNotSkipped == pushed => pc # "skipped"

\* A migrated target is up to date: the verified refs are at least as new as the
\* source was when the attempt began, so no earlier attempt's mirror passes for
\* this one's (temp_dir, git_stage, verify).
MigratedIsCurrent ==
  [][pc # "migrated" /\ pc' = "migrated" =>
       \A r \in Ref : since[r] \in Version => target[r] \in Version /\ target[r] >= since[r]]_vars
=============================================================================
