------------------------ MODULE TargetWrites_proofs ------------------------
(***************************************************************************)
(* Proofs about TargetWrites, for every set of refs, of plans and of       *)
(* gateways, and for every number of retries and of versions.              *)
(*                                                                         *)
(* Types     TypeOK.                                                       *)
(* Refs      pending holds allowed refs only, so a push leaves the others. *)
(* Resumes   an attempt that pushed had begun the git stage, and every     *)
(*           later claim reads that from the log.                          *)
(* Mirrors   a mirror is at least as new as the source was at the claim.   *)
(* Spares    a first attempt past its probe has no stranger's content in   *)
(*           front of it (for strangers who leave running attempts alone, *)
(*           and a gateway that knows an empty target).                    *)
(***************************************************************************)
EXTENDS TargetWrites, TLAPS

\* Every step keeps the types.
LEMMA TypeStep == TypeOK /\ [Next]_vars => TypeOK'
<1> SUFFICES ASSUME TypeOK, [Next]_vars PROVE TypeOK'
  OBVIOUS
<1> USE TargetAssumption DEF TypeOK, fixed, remote, row, history
<1>1. CASE Claim
  BY <1>1 DEF Claim, Resumes, Working, Ended, Answer
<1>2. CASE Prepare
  BY <1>2, Zenon DEF Prepare, Working, Ended
<1>3. CASE Probe
  <2>1. PICK a \in Answers(gateway) : probed' = a /\ pc' = AfterProbe(a)
    BY <1>3 DEF Probe
  <2>2. a \in Answer
    BY <2>1 DEF Answers, Sees, Answer
  <2>3. pc' \in Working \cup Ended
    BY <2>1 DEF AfterProbe, Working, Ended
  <2>4. pc' \in {"space", "clone", "push", "verify"} => exists
    <3>1. a \in {"empty", "non_empty"} => exists
      BY <2>1 DEF Answers, Sees
    <3>2. a \in {"unknown", "inaccessible", "missing"} =>
            pc' \notin {"space", "clone", "push", "verify"}
      BY <2>1 DEF AfterProbe
    <3>3. a # "none"
      BY <2>1 DEF Answers, Sees
    <3> QED BY <2>2, <3>1, <3>2, <3>3 DEF Answer
  <2> QED BY <1>3, <2>1, <2>2, <2>3, <2>4 DEF Probe
<1>4. CASE ProbeError \/ CreateError \/ SpaceError \/ VerifyError
  BY <1>4 DEF ProbeError, CreateError, SpaceError, VerifyError, Failure, Fails, Working, Ended
<1>5. CASE Create
  BY <1>5 DEF Create, Failure, Working, Ended
<1>6. CASE Confirm
  <2>1. PICK a \in Answers(gateway) :
          probed' = a /\ pc' = IF a \in {"empty", "non_empty"} THEN "space" ELSE "retryable"
    BY <1>6 DEF Confirm
  <2>2. a \in Answer /\ (a \in {"empty", "non_empty"} => exists)
    BY <2>1 DEF Answers, Sees, Answer
  <2> QED BY <1>6, <2>1, <2>2 DEF Confirm, Working, Ended
<1>7. CASE Space
  BY <1>7 DEF Space, Working, Ended
<1>8. CASE Clone \/ CloneError
  BY <1>8 DEF Clone, CloneError, Failure, Allowlisted, AnyRef, Working, Ended
<1>9. CASE PushRef
  <2>1. PICK r \in pending :
          /\ pending' = pending \ {r}
          /\ target' = [target EXCEPT ![r] = mirror[r]]
          /\ trespass' = IF target[r] = Foreign /\ ~plan.overwrite /\ ~reached
                         THEN trespass \cup {attempt} ELSE trespass
    BY <1>9 DEF PushRef
  <2>2. mirror[r] \in Content /\ exists
    BY <1>9 DEF PushRef, Content, Version, Absent
  <2>3. target' \in [AnyRef -> Content]
    BY <2>1, <2>2
  <2>4. trespass' \subseteq Nat
    BY <2>1
  <2>5. pending' \subseteq AnyRef
    BY <2>1
  <2> QED BY <1>9, <2>2, <2>3, <2>4, <2>5 DEF PushRef
<1>10. CASE Pushed \/ PushError
  BY <1>10 DEF Pushed, PushError, Failure, Fails, Working, Ended
<1>11. CASE Verify \/ Stopped \/ Abandoned
  BY <1>11 DEF Verify, Stopped, Abandoned, Working, Ended
<1>12. CASE Retry
  BY <1>12 DEF Retry, Working, Ended
<1>13. CASE StrangerCreates
  BY <1>13 DEF StrangerCreates
<1>14. CASE StrangerPushes
  <2>1. PICK r \in AnyRef : target' = [target EXCEPT ![r] = Foreign]
    BY <1>14 DEF StrangerPushes
  <2>2. target' \in [AnyRef -> Content]
    BY <2>1 DEF Content
  <2> QED BY <1>14, <2>2 DEF StrangerPushes
<1>15. CASE SourceMoves
  <2>1. PICK r \in AnyRef : source[r] < MaxVersion /\ source' = [source EXCEPT ![r] = @ + 1]
    BY <1>15 DEF SourceMoves
  <2>2. source[r] + 1 \in 0 .. MaxVersion
    BY <2>1
  <2>3. source' \in [AnyRef -> 0 .. MaxVersion]
    BY <2>1, <2>2
  <2> QED BY <1>15, <2>3 DEF SourceMoves
<1>16. CASE UNCHANGED vars
  BY <1>16 DEF vars
<1> QED
  BY <1>1, <1>2, <1>3, <1>4, <1>5, <1>6, <1>7, <1>8, <1>9, <1>10, <1>11, <1>12, <1>13,
     <1>14, <1>15, <1>16 DEF Next

\* The initial states are well typed.
LEMMA TypeInit == Init => TypeOK
<1> SUFFICES ASSUME Init PROVE TypeOK
  OBVIOUS
<1>1. source \in [AnyRef -> 0 .. MaxVersion]
  <2>1. 0 .. 1 \subseteq 0 .. MaxVersion
    BY TargetAssumption
  <2> QED BY <2>1 DEF Init
<1>2. target \in [AnyRef -> Content] /\ (~exists => \A r \in AnyRef : target[r] = Absent)
  BY DEF Init, Content
<1>3. mirror \in [AnyRef -> 0 .. MaxVersion]
  BY TargetAssumption DEF Init, Absent
<1> QED BY <1>1, <1>2, <1>3 DEF Init, TypeOK, Working, Ended, Answer

\* Every variable keeps its type; a target that does not exist has no content, and
\* no attempt gets past the preparation of one (prepare_target).
THEOREM TargetTypeCorrect == Spec => []TypeOK
<1> QED BY TypeInit, TypeStep, PTL DEF Spec

-----------------------------------------------------------------------------
(***************************************************************************)
(* Refs.                                                                   *)
(***************************************************************************)

Refs == PrivateRefsStay /\ pending \subseteq Ref

\* Only allowed refs become pending, so only allowed refs are pushed.
LEMMA RefsStep == TypeOK /\ Refs /\ [Next]_vars => Refs'
<1> SUFFICES ASSUME TypeOK, Refs, [Next]_vars PROVE Refs'
  OBVIOUS
<1> USE DEF Refs, PrivateRefsStay, Version, fixed, remote, row, history
<1>1. CASE Claim
  BY <1>1 DEF Claim
<1>2. CASE Clone
  BY <1>2 DEF Clone, Allowlisted
<1>3. CASE PushRef
  <2>1. PICK r \in pending : pending' = pending \ {r} /\ target' = [target EXCEPT ![r] = mirror[r]]
    BY <1>3 DEF PushRef
  <2>2. r \notin PrivateRef
    BY TargetAssumption
  <2> QED BY <1>3, <2>1, <2>2, TargetAssumption DEF PushRef, TypeOK, AnyRef
<1>4. CASE StrangerPushes
  <2>1. PICK r \in AnyRef : target' = [target EXCEPT ![r] = Foreign]
    BY <1>4 DEF StrangerPushes
  <2>2. \A q \in PrivateRef : target'[q] = target[q] \/ target'[q] = Foreign
    BY <2>1 DEF TypeOK, AnyRef
  <2>3. Foreign \notin 1 .. MaxVersion
    BY TargetAssumption DEF Foreign
  <2> QED BY <1>4, <2>2, <2>3, TargetAssumption DEF StrangerPushes
<1>5. CASE UNCHANGED <<target, pending>>
  BY <1>5, TargetAssumption
<1>6. ASSUME ~Claim, ~Clone, ~PushRef, ~StrangerPushes PROVE UNCHANGED <<target, pending>>
  BY <1>6 DEF Next, vars, Prepare, Probe, ProbeError, Create, CreateError, Confirm, Space,
     SpaceError, CloneError, Pushed, PushError, Verify, VerifyError, Failure, Fails, Stopped,
     Abandoned, Retry, StrangerCreates, SourceMoves
<1> QED BY <1>1, <1>2, <1>3, <1>4, <1>5, <1>6

\* Refs the policy excludes never get a source's content, for any number of
\* attempts, partial pushes and strangers (build_allowlisted_refspecs).
THEOREM PrivateRefsAreSafe == Spec => []PrivateRefsStay
<1>1. Init => Refs
  BY TargetAssumption DEF Init, Refs, PrivateRefsStay, Version, Absent, Foreign, AnyRef
<1>2. Refs => PrivateRefsStay
  BY DEF Refs
<1> QED BY <1>1, <1>2, RefsStep, TargetTypeCorrect, PTL DEF Spec

-----------------------------------------------------------------------------
(***************************************************************************)
(* Resumes.                                                                *)
(***************************************************************************)

\* pushed is only ever set behind begun, and only under a plan that lets an
\* attempt past its preparation; a claim passes it on as resumed until the probe
\* has been judged.
PushesAreKnown ==
  /\ pc \in {"push", "verify"} => begun
  /\ pc \in Working \ {"prepare"} => plan.action # "skip_non_empty"
  /\ pushed => begun /\ plan.action # "skip_non_empty"
  /\ pushed /\ pc \in {"prepare", "probe"} => resumed
  /\ pushed => pc # "skipped"

\* Steps that only move pc out of reach: to an end that is not "skipped", or on
\* to a stage past the probe.
LEMMA Onward ==
  ASSUME PushesAreKnown, pc \in Working, UNCHANGED <<plan, begun, resumed, pushed>>,
         pc' \notin {"prepare", "probe", "skipped", "push", "verify"},
         pc # "prepare"
  PROVE  PushesAreKnown'
  BY DEF PushesAreKnown, Working

\* Every step keeps what is known of earlier pushes.
LEMMA ResumesStep == TypeOK /\ PushesAreKnown /\ [Next]_vars => PushesAreKnown'
<1> SUFFICES ASSUME TypeOK, PushesAreKnown, [Next]_vars PROVE PushesAreKnown'
  OBVIOUS
<1> USE DEF fixed, remote, row, history
<1>1. CASE Claim
  BY <1>1 DEF Claim, Resumes, PushesAreKnown, TypeOK
<1>2. CASE Prepare
  <2>1. plan.action = "skip_non_empty" => pc' = "skipped"
    BY <1>2, Zenon DEF Prepare
  <2>2. pc' \in {"refused", "skipped", "probe"}
    BY <1>2, Zenon DEF Prepare
  <2>3. pc' = "skipped" => plan.action = "skip_non_empty"
    BY <1>2, Zenon DEF Prepare
  <2> QED BY <1>2, <2>1, <2>2, <2>3 DEF Prepare, PushesAreKnown, Working
<1>3. CASE Probe
  <2>1. PICK a \in Answers(gateway) : probed' = a /\ pc' = AfterProbe(a)
    BY <1>3 DEF Probe
  <2>2. pc' \in {"refused", "create", "skipped", "space"}
    BY <2>1 DEF AfterProbe
  <2>3. pc' = "skipped" => ~resumed
    BY <2>1 DEF AfterProbe
  <2> QED BY <1>3, <2>2, <2>3 DEF Probe, PushesAreKnown, Working
<1>4. CASE ProbeError \/ CreateError \/ SpaceError \/ VerifyError
  BY <1>4, Onward DEF ProbeError, CreateError, SpaceError, VerifyError, Failure, Fails, Working
<1>5. CASE Create \/ Confirm \/ Space
  <2>1. /\ pc \in Working /\ pc # "prepare"
        /\ pc' \notin {"prepare", "probe", "skipped", "push", "verify"}
        /\ UNCHANGED <<plan, begun, resumed, pushed>>
    BY <1>5 DEF Create, Confirm, Space, Failure, Working
  <2> QED BY <2>1, Onward
<1>6. CASE Clone \/ CloneError
  BY <1>6 DEF Clone, CloneError, Failure, PushesAreKnown, Working
<1>7. CASE PushRef
  BY <1>7 DEF PushRef, PushesAreKnown, Working
<1>8. CASE Pushed \/ PushError
  BY <1>8 DEF Pushed, PushError, Failure, Fails, PushesAreKnown, Working
<1>9. CASE Verify \/ Stopped
  BY <1>9 DEF Verify, Stopped, PushesAreKnown, Working
<1>10. CASE Abandoned
  BY <1>10 DEF Abandoned, PushesAreKnown, Working
<1>11. CASE Retry
  BY <1>11 DEF Retry, PushesAreKnown, Working
<1>12. CASE UNCHANGED <<plan, pc, begun, resumed, pushed>>
  BY <1>12 DEF PushesAreKnown
<1>13. ASSUME StrangerCreates \/ StrangerPushes \/ SourceMoves \/ UNCHANGED vars
       PROVE  UNCHANGED <<plan, pc, begun, resumed, pushed>>
  BY <1>13 DEF StrangerCreates, StrangerPushes, SourceMoves, vars
<1> QED
  BY <1>1, <1>2, <1>3, <1>4, <1>5, <1>6, <1>7, <1>8, <1>9, <1>10, <1>11, <1>12, <1>13
  DEF Next

\* A target an attempt has pushed to is never skipped as somebody else's by a
\* later one, however the attempts ended (resumed_attempt).
THEOREM OwnTargetIsResumed == Spec => []OwnTargetNotSkipped
<1>1. Init => PushesAreKnown
  BY DEF Init, PushesAreKnown, Working
<1>2. PushesAreKnown => OwnTargetNotSkipped
  BY DEF PushesAreKnown, OwnTargetNotSkipped
<1> QED BY <1>1, <1>2, ResumesStep, TargetTypeCorrect, PTL DEF Spec

-----------------------------------------------------------------------------
(***************************************************************************)
(* Mirrors.                                                                *)
(***************************************************************************)

\* The source only moves on from what it was at the claim, and the mirror was
\* taken from it after that.
MirrorsAreFresh ==
  /\ pc \in Working => \A r \in AnyRef : source[r] >= since[r]
  /\ pc \in {"push", "verify"} => \A r \in AnyRef : mirror[r] >= since[r]

\* A step that leaves source, mirror and since alone, and does not skip the clone.
LEMMA SameMirror ==
  ASSUME MirrorsAreFresh, UNCHANGED <<source, mirror, since>>,
         pc' \in Working => pc \in Working,
         pc' \in {"push", "verify"} => pc \in {"push", "verify"}
  PROVE  MirrorsAreFresh'
  BY DEF MirrorsAreFresh

\* Every step keeps mirrors fresh.
LEMMA MirrorsStep == TypeOK /\ MirrorsAreFresh /\ [Next]_vars => MirrorsAreFresh'
<1> SUFFICES ASSUME TypeOK, MirrorsAreFresh, [Next]_vars PROVE MirrorsAreFresh'
  OBVIOUS
<1> USE DEF fixed, remote, row, history
<1>1. CASE Claim
  BY <1>1 DEF Claim, MirrorsAreFresh, Working, TypeOK
<1>2. CASE Clone
  BY <1>2 DEF Clone, MirrorsAreFresh, Working
<1>3. CASE SourceMoves
  <2>1. PICK r \in AnyRef : source' = [source EXCEPT ![r] = @ + 1]
    BY <1>3 DEF SourceMoves
  <2>2. \A q \in AnyRef : source[q] \in Int /\ since[q] \in Int
    BY DEF TypeOK
  <2>3. \A q \in AnyRef : source'[q] >= source[q]
    BY <2>1, <2>2 DEF TypeOK
  <2>4. \A q \in AnyRef : source'[q] \in Int
    BY <2>1, <2>2 DEF TypeOK
  <2> QED BY <1>3, <2>2, <2>3, <2>4 DEF SourceMoves, MirrorsAreFresh
<1>4. CASE Prepare \/ Probe
  <2>1. pc \in Working /\ pc' \notin {"push", "verify"}
    <3>1. CASE Prepare
      BY <3>1, Zenon DEF Prepare, Working
    <3>2. CASE Probe
      BY <3>2 DEF Probe, AfterProbe, Working
    <3> QED BY <1>4, <3>1, <3>2
  <2> QED BY <1>4, <2>1, SameMirror DEF Prepare, Probe
<1>5. CASE \/ ProbeError \/ Create \/ CreateError \/ Confirm \/ Space \/ SpaceError
           \/ CloneError \/ VerifyError \/ Verify \/ Stopped \/ Retry
  <2>1. /\ UNCHANGED <<source, mirror, since>>
        /\ pc' \in Working => pc \in Working
        /\ pc' \notin {"push", "verify"}
    BY <1>5 DEF ProbeError, Create, CreateError, Confirm, Space, SpaceError, CloneError,
       VerifyError, Verify, Stopped, Retry, Failure, Fails, Working
  <2> QED BY <2>1, SameMirror
<1>6. CASE PushRef \/ Pushed \/ PushError
  BY <1>6, SameMirror DEF PushRef, Pushed, PushError, Failure, Fails, Working
<1>7. CASE Abandoned
  BY <1>7, SameMirror DEF Abandoned, Working
<1>8. CASE StrangerCreates \/ StrangerPushes \/ UNCHANGED vars
  BY <1>8, SameMirror DEF StrangerCreates, StrangerPushes, vars
<1> QED BY <1>1, <1>2, <1>3, <1>4, <1>5, <1>6, <1>7, <1>8 DEF Next

\* A task ends as migrated only on a target that is up to date with the source as
\* it was when the attempt began, whatever strangers push (verify).
THEOREM MigratedTargetIsCurrent == Spec => MigratedIsCurrent
<1> DEFINE Current == pc # "migrated" /\ pc' = "migrated" =>
      \A r \in Ref : since[r] \in Version => target[r] \in Version /\ target[r] >= since[r]
<1>1. Init => MirrorsAreFresh
  BY DEF Init, MirrorsAreFresh, Working
<1>2. TypeOK /\ MirrorsAreFresh /\ [Next]_vars => [Current]_vars
  <2> SUFFICES ASSUME TypeOK, MirrorsAreFresh, Next, pc # "migrated", pc' = "migrated",
                      NEW r \in Ref, since[r] \in Version
               PROVE  target[r] \in Version /\ target[r] >= since[r]
    BY DEF vars, fixed, remote, row, history
  <2>1. Verify
    <3>1. ~Prepare
      BY Zenon DEF Prepare
    <3>2. ~Probe
      BY DEF Probe, AfterProbe
    <3> QED BY <3>1, <3>2 DEF Next, Claim, ProbeError, Create, CreateError, Confirm, Space,
         SpaceError, Clone, CloneError, PushRef, Pushed, PushError, VerifyError, Failure,
         Fails, Stopped, Abandoned, Retry, StrangerCreates, StrangerPushes, SourceMoves
  <2>2. Matches /\ pc = "verify"
    BY <2>1 DEF Verify
  <2>3. mirror[r] \in 0 .. MaxVersion /\ mirror[r] >= since[r]
    BY <2>2 DEF TypeOK, AnyRef, MirrorsAreFresh
  <2>4. mirror[r] \in Version
    BY <2>3, TargetAssumption DEF Version
  <2>5. target[r] = mirror[r]
    BY <2>2, <2>4 DEF Matches, Allowlisted, Version, Absent
  <2> QED BY <2>3, <2>4, <2>5
<1> QED BY <1>1, <1>2, MirrorsStep, TargetTypeCorrect, PTL DEF Spec, MigratedIsCurrent

-----------------------------------------------------------------------------
(***************************************************************************)
(* Spares.                                                                 *)
(***************************************************************************)

\* A first attempt knows of earlier pushes exactly what the log knew at its claim;
\* and once it is past the probe and not entitled to overwrite, the target has
\* nothing of a stranger, if the probe could tell.
Entitled == plan.overwrite \/ reached \/ attempt > 0

FirstAttemptIsClean == strangers = "between" /\ gateway # "github" =>
  /\ pc \in Working /\ attempt = 0 => resumed = reached
  /\ pc \in {"create", "confirm", "space", "clone", "push"} /\ ~Entitled =>
       \A r \in AnyRef : target[r] # Foreign
  /\ 0 \notin trespass

\* A step that leaves the facts alone and moves pc to an end or on.
LEMMA StillClean ==
  ASSUME FirstAttemptIsClean,
         UNCHANGED <<fixed, attempt, resumed, reached, target, trespass>>,
         pc' \in Working => pc \in Working,
         pc' \in {"create", "confirm", "space", "clone", "push"} =>
           pc \in {"create", "confirm", "space", "clone", "push"}
  PROVE  FirstAttemptIsClean'
  BY DEF FirstAttemptIsClean, Entitled, fixed

\* A behaviour keeps its plan, its gateway and its strangers.
LEMMA Fixed == [Next]_vars => UNCHANGED fixed
  BY DEF Next, vars, Claim, Prepare, Probe, ProbeError, Create, CreateError, Confirm, Space,
     SpaceError, Clone, CloneError, PushRef, Pushed, PushError, Verify, VerifyError, Fails,
     Stopped, Abandoned, Retry, StrangerCreates, StrangerPushes, SourceMoves

\* Every step keeps first attempts clean.
LEMMA SparesStep == TypeOK /\ FirstAttemptIsClean /\ [Next]_vars => FirstAttemptIsClean'
<1> SUFFICES ASSUME TypeOK, FirstAttemptIsClean, [Next]_vars, strangers' = "between",
                    gateway' # "github"
             PROVE  FirstAttemptIsClean'
  BY DEF FirstAttemptIsClean
<1>0. strangers = "between" /\ gateway # "github"
  BY Fixed DEF fixed
<1> USE <1>0
<1> USE DEF fixed, remote, row, history
<1>1. CASE Claim
  BY <1>1 DEF Claim, Resumes, FirstAttemptIsClean, Entitled, TypeOK
<1>2. CASE Prepare
  <2>1. pc = "prepare" /\ pc' \in {"refused", "skipped", "probe"}
    BY <1>2, Zenon DEF Prepare
  <2> QED BY <1>2, <2>1, StillClean DEF Prepare, Working
<1>3. CASE Probe
  <2>1. PICK a \in Answers(gateway) : probed' = a /\ pc' = AfterProbe(a)
    BY <1>3 DEF Probe
  <2>2. a \in {"missing", "empty"} => \A r \in AnyRef : target[r] # Foreign
    BY <2>1, TargetAssumption DEF Answers, Sees, Empty, Absent, Foreign, TypeOK
  <2>3. a \in {"missing", "empty", "non_empty", "unknown", "inaccessible"}
    BY <2>1, TargetAssumption DEF Answers, Sees, TypeOK
  <2>4. a = "non_empty" /\ ~Entitled => pc' = "skipped"
    BY <1>3, <2>1 DEF AfterProbe, Entitled, FirstAttemptIsClean, Probe, Working, TypeOK
  <2>5. a \in {"unknown", "inaccessible"} => pc' = "refused"
    BY <2>1 DEF AfterProbe
  <2>6. Entitled' = Entitled
    BY <1>3 DEF Probe, Entitled
  <2> QED BY <1>3, <2>2, <2>3, <2>4, <2>5, <2>6 DEF Probe, FirstAttemptIsClean, Working
<1>4. CASE \/ ProbeError \/ Create \/ CreateError \/ Confirm \/ Space \/ SpaceError
           \/ Clone \/ CloneError \/ Pushed \/ PushError
  <2>1. /\ UNCHANGED <<fixed, attempt, resumed, reached, target, trespass>>
        /\ pc' \in Working => pc \in Working
        /\ pc' \in {"create", "confirm", "space", "clone", "push"} =>
             pc \in {"create", "confirm", "space", "clone", "push"}
    BY <1>4 DEF ProbeError, Create, CreateError, Confirm, Space, SpaceError, Clone,
       CloneError, Pushed, PushError, Failure, Fails, Working
  <2> QED BY <2>1, StillClean
<1>5. CASE Verify \/ VerifyError \/ Stopped \/ Abandoned
  BY <1>5, StillClean DEF Verify, VerifyError, Failure, Fails, Stopped, Abandoned, Working
<1>6. CASE PushRef
  <2>1. PICK r \in pending :
          /\ target' = [target EXCEPT ![r] = mirror[r]]
          /\ trespass' = IF target[r] = Foreign /\ ~plan.overwrite /\ ~reached
                         THEN trespass \cup {attempt} ELSE trespass
    BY <1>6 DEF PushRef
  <2>2. r \in AnyRef /\ mirror[r] # Foreign
    BY <2>1, TargetAssumption DEF TypeOK, Foreign
  <2>3. \A q \in AnyRef : target'[q] = target[q] \/ target'[q] # Foreign
    BY <2>1, <2>2 DEF TypeOK
  <2>4. attempt = 0 => trespass' = trespass
    BY <1>6, <2>1, <2>2 DEF PushRef, FirstAttemptIsClean, Entitled
  <2>5. 0 \notin trespass'
    BY <2>1, <2>4 DEF FirstAttemptIsClean
  <2>6. Entitled' = Entitled
    BY <1>6 DEF PushRef, Entitled
  <2> QED BY <1>6, <2>3, <2>5, <2>6 DEF PushRef, FirstAttemptIsClean
<1>7. CASE Retry
  BY <1>7 DEF Retry, FirstAttemptIsClean, Working
<1>8. CASE StrangerPushes
  <2>1. pc \notin Working
    BY <1>8, TargetAssumption DEF StrangerPushes, Quiet
  <2> QED BY <1>8, <2>1 DEF StrangerPushes, FirstAttemptIsClean, Working
<1>9. CASE StrangerCreates \/ SourceMoves \/ UNCHANGED vars
  BY <1>9, StillClean DEF StrangerCreates, SourceMoves, vars
<1> QED BY <1>1, <1>2, <1>3, <1>4, <1>5, <1>6, <1>7, <1>8, <1>9 DEF Next

\* The first attempt never overwrites what strangers had on the target, if the
\* plan does not say so, strangers leave running attempts alone (prepare_target
\* reads the target once, long before the push) and the gateway is not GitHub's,
\* whose probe may take a target with content for an empty one.
THEOREM FirstAttemptIsSafe == Spec => []FirstAttemptSpares
<1>1. Init => FirstAttemptIsClean
  BY DEF Init, FirstAttemptIsClean, Working
<1>2. FirstAttemptIsClean => FirstAttemptSpares
  BY DEF FirstAttemptIsClean, FirstAttemptSpares
<1> QED BY <1>1, <1>2, SparesStep, TargetTypeCorrect, PTL DEF Spec
=============================================================================
