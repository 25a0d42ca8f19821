--------------------------- MODULE IssueMigration ---------------------------
(***************************************************************************)
(* The metadata and platform-data stages of one repository, over all its   *)
(* attempts: the executor's stages (executor.rs), the gateway              *)
(* (platform_gateway.rs), the Gitea/Forgejo adapter, the one adapter that  *)
(* writes items to the target (platform-gitea/src/lib.rs), and the         *)
(* transport (HttpExchange).                                               *)
(*                                                                         *)
(* Every write is a POST or PATCH of its own and takes effect at the       *)
(* target before, after or without its answer.  Between two writes the     *)
(* process may die.  Reads have no effect, so that a read and its repeats  *)
(* are one step that succeeds or fails.                                    *)
(*                                                                         *)
(* A source issue is the index of its record in Source; the html_url that  *)
(* the attribution footer carries identifies it.  The source does not      *)
(* change while the attempts last.                                         *)
(***************************************************************************)
EXTENDS HttpExchange, Sequences, FiniteSets, FiniteSetsExt

CONSTANTS Source,       \* sequence of [comments, closed, label], newest first
          Routes,       \* the platform pairings to start from
          MaxRuns       \* bound: attempts at the repository

ASSUME SourceAssumption ==
    /\ MaxRuns \in Nat \ {0}
    /\ Routes \subseteq {"native", "archive", "unsupported"}
    /\ Source \in Seq([comments : Nat, closed : BOOLEAN, label : BOOLEAN])

VARIABLES route,      \* what the source adapter does with issues for this target
          listed,     \* the one page of labels read of the target has the label, if it exists
          target,     \* the target repository behind its API
          lost,       \* history: executed requests whose answer was lost
          pc,         \* where the worker of the task is
          run,        \* the attempts begun
          loaded,     \* source issues whose comments were read
          existing,   \* existing_migrations: source issue -> target number
          cur,        \* the loop's position in the source issues
          made,       \* the number of the issue being created
          said,       \* the comments of it posted so far
          migrated, failed,   \* the result's two counters, as sets of issues
          modules,    \* the reports this attempt has recorded: module -> report
          broken,     \* run_stages has failed, persist_archives still to come
          archived,   \* the archive document is on disk
          status      \* the task row's state

target_vars  == <<target, lost>>
loop_vars    == <<loaded, existing, cur, made, said, migrated, failed>>
attempt_vars == <<pc, run, modules, broken, archived, status>>
fixed        == <<route, listed>>
vars == <<httpVars, target_vars, loop_vars, attempt_vars, fixed>>

Issues == DOMAIN Source

Fidelities == {"native_rebuild", "read_only_archive", "unsupported"}

Report(fidelity, ok, source, count) ==
    [fidelity |-> fidelity, ok |-> ok, source_count |-> source, target_count |-> count]

(* ---- requests and what the target does with them ---------------------- *)

IssueRequest(s)         == [kind |-> "issue", src |-> s]
CommentRequest(s, n, k) == [kind |-> "comment", src |-> s, on |-> n, comment |-> k]
CloseRequest(s, n)      == [kind |-> "close", src |-> s, on |-> n]
LabelRequest            == [kind |-> "label"]
MetadataRequest         == [kind |-> "metadata"]

Execute(request) ==
    CASE request.kind = "issue" ->
           [target EXCEPT !.issues = Append(@, [src |-> request.src, comments |-> <<>>, open |-> TRUE])]
      [] request.kind = "comment" ->
           [target EXCEPT !.issues[request.on].comments = Append(@, request.comment)]
      [] request.kind = "close" ->
           [target EXCEPT !.issues[request.on].open = FALSE]
      [] request.kind = "label"    -> [target EXCEPT !.labels = @ + 1]
      [] request.kind = "metadata" -> [target EXCEPT !.described = TRUE]

(* The object a request creates: an issue, a comment, or the label, which   *)
(* is <<0, 0>>.  A close and a metadata patch create none.                  *)
Object(request) ==
    CASE request.kind = "issue"   -> <<request.src, 0>>
      [] request.kind = "comment" -> <<request.src, request.comment>>
      [] request.kind = "label"   -> <<0, 0>>

Objects == {<<0, 0>>} \cup UNION {{s} \X (0 .. Source[s].comments) : s \in Issues}

LostOne(request) == IF request.kind \in {"issue", "comment", "label"}
                    THEN [lost EXCEPT ![Object(request)] = @ + 1] ELSE lost

Init ==
    /\ HttpInit
    /\ route \in Routes /\ listed \in BOOLEAN
    /\ target = [issues |-> <<>>, labels |-> 0, described |-> FALSE]
    /\ lost = [o \in Objects |-> 0]
    /\ pc = "idle" /\ run = 0
    /\ loaded = {} /\ existing = <<>> /\ cur = 1 /\ made = 0 /\ said = 0
    /\ migrated = {} /\ failed = {}
    /\ modules = <<>> /\ broken = FALSE /\ archived = FALSE
    /\ status = "planned"

(* ---- the executor's stages -------------------------------------------- *)

(* What an attempt holds in memory is gone when it fails or its process     *)
(* dies.                                                                    *)
Forget ==
    /\ loaded' = {} /\ existing' = <<>> /\ cur' = 1 /\ made' = 0 /\ said' = 0
    /\ migrated' = {} /\ failed' = {}
    /\ modules' = <<>> /\ broken' = FALSE

(* An attempt starts on a claimed row: the first one, or that of a retry.   *)
(* A row whose process died stays in flight and is claimed by nobody; the   *)
(* repository is tried again by the task a new batch creates for it, which  *)
(* has an archive directory of its own.  The git and lfs stages come first  *)
(* and write refs only.                                                     *)
BeginAttempt ==
    /\ pc = "idle" /\ run < MaxRuns
    /\ status \in {"planned", "retryable_failed", "running"}
    /\ archived' = (archived /\ status = "retryable_failed")
    /\ pc' = "metadata" /\ run' = run + 1 /\ status' = "running"
    /\ UNCHANGED <<httpVars, target_vars, loop_vars, modules, broken, fixed>>

(* record_module: the row is stored and the report kept for the verdict; a  *)
(* store that refuses fails run_stages.                                     *)
Record(module, report, next) ==
    \/ /\ modules' = [m \in DOMAIN modules \cup {module} |->
                          IF m = module THEN report ELSE modules[m]]
       /\ pc' = next
       /\ UNCHANGED broken
    \/ /\ broken' = TRUE
       /\ pc' = "persist"
       /\ UNCHANGED modules

(* run_metadata, its read side: the source's description and default branch. *)
ReadMetadata ==
    /\ pc = "metadata" /\ call = NONE
    /\ \/ /\ Send(MetadataRequest)
          /\ UNCHANGED <<pc, modules, broken>>
       \/ /\ Record("metadata", Report("unsupported", FALSE, 0, 0), "list")
          /\ UNCHANGED httpVars
    /\ UNCHANGED <<target_vars, loop_vars, run, archived, status, fixed>>

(* guard: a stage that finds the batch paused is not begun. *)
StopBeforeStage ==
    /\ pc \in {"metadata", "list"} /\ call = NONE
    /\ pc' = "persist" /\ broken' = TRUE
    /\ UNCHANGED <<httpVars, target_vars, loop_vars, run, modules, archived, status, fixed>>

(* migrate_module without a native target: the GitHub adapter, and the      *)
(* Gitea adapter for a target of another family, read and archive; the      *)
(* others answer unsupported.                                               *)
ArchiveOnly ==
    /\ pc = "list" /\ call = NONE
    /\ \/ /\ route = "archive"
          /\ Record("issues", Report("read_only_archive", TRUE, Len(Source), 0), "persist")
       \/ /\ Record("issues", Report("unsupported", route = "unsupported", 0, 0), "persist")
    /\ route # "native"
    /\ UNCHANGED <<httpVars, target_vars, loop_vars, run, archived, status, fixed>>

(* platform_data_stage turns an error of the module into a report.          *)
ModuleFails == Record("issues", Report("unsupported", FALSE, 0, 0), "persist")

(* list_issues and attach_comments: the listing fails the module, the       *)
(* comments of an issue that cannot be read are left out without a word.    *)
ListSource ==
    /\ pc = "list" /\ call = NONE /\ route = "native"
    /\ \/ /\ \E read \in SUBSET {s \in Issues : Source[s].comments > 0} : loaded' = read
          /\ pc' = "scan"
          /\ UNCHANGED <<modules, broken>>
       \/ /\ ModuleFails
          /\ UNCHANGED loaded
    /\ UNCHANGED <<httpVars, target_vars, existing, cur, made, said, migrated, failed,
                   run, archived, status, fixed>>

(* The marker is found on an open issue as well as on a closed one (state=  *)
(* all); of two copies the one listed last wins.                            *)
NumbersOf(s) == {n \in DOMAIN target.issues : target.issues[n].src = s}

(* Mutant: the scan lists open issues only. *)
ExistingMigrationsOpen ==
    [s \in {s \in Issues : \E n \in NumbersOf(s) : target.issues[n].open} |-> Max(NumbersOf(s))]

ExistingMigrations ==
    [s \in {s \in Issues : NumbersOf(s) # {}} |-> Max(NumbersOf(s))]

ScanTarget ==
    /\ pc = "scan" /\ call = NONE
    /\ \/ /\ existing' = ExistingMigrations
          /\ pc' = "labels"
          /\ UNCHANGED <<modules, broken>>
       \/ /\ ModuleFails
          /\ UNCHANGED existing
    /\ UNCHANGED <<httpVars, target_vars, loaded, cur, made, said, migrated, failed,
                   run, archived, status, fixed>>

(* target_label_ids: the labels the issues use and the target lacks are     *)
(* created first, and neither the listing nor a creation may fail.  The     *)
(* listing is one request without pages, so that a label behind the first   *)
(* page is taken for missing.                                               *)
LabelMissing == (\E s \in Issues : Source[s].label) /\ (target.labels = 0 \/ ~ listed)

EnsureLabels ==
    /\ pc = "labels" /\ call = NONE
    /\ \/ LabelMissing /\ Send(LabelRequest) /\ UNCHANGED <<pc, modules, broken>>
       \/ ~ LabelMissing /\ pc' = "issue" /\ UNCHANGED <<httpVars, modules, broken>>
       \/ ModuleFails /\ UNCHANGED httpVars
    /\ UNCHANGED <<target_vars, loop_vars, run, archived, status, fixed>>

(* ---- migrate_issues: one issue after the other ------------------------ *)

NextIssue == pc' = "issue" /\ cur' = cur + 1

(* An earlier attempt's issue is counted, as it is. *)
SkipExisting ==
    /\ pc = "issue" /\ cur \in Issues /\ cur \in DOMAIN existing
    /\ migrated' = migrated \cup {cur}
    /\ NextIssue
    /\ UNCHANGED <<httpVars, target_vars, loaded, existing, made, said, failed,
                   run, modules, broken, archived, status, fixed>>

CreateIssue ==
    /\ pc = "issue" /\ call = NONE /\ cur \in Issues /\ cur \notin DOMAIN existing
    /\ Send(IssueRequest(cur))
    /\ UNCHANGED <<target_vars, loop_vars, attempt_vars, fixed>>

CommentsOf(s) == IF s \in loaded THEN Source[s].comments ELSE 0

(* The comments of the issue just created, in their order. *)
PostComment ==
    /\ pc = "comments" /\ call = NONE /\ said < CommentsOf(cur)
    /\ Send(CommentRequest(cur, made, said + 1))
    /\ UNCHANGED <<target_vars, loop_vars, attempt_vars, fixed>>

(* A source issue that is closed is closed here, last of all. *)
CloseIssue ==
    /\ pc = "comments" /\ call = NONE /\ said = CommentsOf(cur) /\ Source[cur].closed
    /\ Send(CloseRequest(cur, made))
    /\ UNCHANGED <<target_vars, loop_vars, attempt_vars, fixed>>

IssueDone ==
    /\ pc = "comments" /\ call = NONE /\ said = CommentsOf(cur) /\ ~ Source[cur].closed
    /\ migrated' = migrated \cup {cur}
    /\ NextIssue
    /\ UNCHANGED <<httpVars, target_vars, loaded, existing, made, said, failed,
                   run, modules, broken, archived, status, fixed>>

(* Mutant: counted before the request was answered. *)
IssueFailsCounted ==
    /\ failed' = failed \cup {cur} /\ migrated' = migrated \cup {cur}
    /\ NextIssue
    /\ UNCHANGED <<loaded, existing, made, said, modules, broken>>

(* Mutant: a failure starts over with a new scan. *)
IssueFailsRescan ==
    /\ pc' = "scan"
    /\ UNCHANGED <<loop_vars, modules, broken>>

(* create_issue_with_comments has failed: counted, and on to the next. *)
IssueFails ==
    /\ failed' = failed \cup {cur}
    /\ NextIssue
    /\ UNCHANGED <<loaded, existing, made, said, migrated, modules, broken>>

(* ---- an answer, and what its reader does ------------------------------ *)

AfterIssue(answer) ==
    /\ call.req.kind = "issue"
    /\ \/ /\ answer = "done"
          /\ made' = Len(target'.issues) /\ said' = 0
          /\ pc' = "comments"
          /\ UNCHANGED <<loaded, existing, cur, migrated, failed, modules, broken>>
       \/ answer # "done" /\ IssueFails

AfterComment(answer) ==
    /\ call.req.kind = "comment"
    /\ \/ /\ answer = "done"
          /\ said' = said + 1
          /\ UNCHANGED <<loaded, existing, cur, made, migrated, failed, pc, modules, broken>>
       \/ answer # "done" /\ IssueFails

AfterClose(answer) ==
    /\ call.req.kind = "close"
    /\ \/ /\ answer = "done"
          /\ migrated' = migrated \cup {cur}
          /\ NextIssue
          /\ UNCHANGED <<loaded, existing, made, said, failed, modules, broken>>
       \/ answer # "done" /\ IssueFails

AfterLabel(answer) ==
    /\ call.req.kind = "label"
    /\ \/ /\ answer = "done"
          /\ pc' = "issue"
          /\ UNCHANGED <<modules, broken>>
       \/ answer # "done" /\ ModuleFails
    /\ UNCHANGED loop_vars

(* run_metadata: a patch that fails degrades the module and nothing else. *)
AfterMetadata(answer) ==
    /\ call.req.kind = "metadata"
    /\ LET ok == answer = "done"
       IN  Record("metadata", Report(IF ok THEN "native_rebuild" ELSE "unsupported", ok, 0, 0), "list")
    /\ UNCHANGED loop_vars

(* One outcome of the request under way. *)
Exchange ==
    \E outcome \in Outcomes :
        LET answer == outcome[1]
            effect == outcome[2]
        IN  /\ Settle(answer, effect)
            /\ target' = IF effect = "now" THEN Execute(call.req) ELSE target
            /\ lost' = IF Lost(answer, effect) THEN LostOne(call.req) ELSE lost
            /\ IF SentAgain(answer)
               THEN UNCHANGED <<loop_vars, pc, modules, broken>>
               ELSE \/ AfterIssue(answer) \/ AfterComment(answer) \/ AfterClose(answer)
                    \/ AfterLabel(answer) \/ AfterMetadata(answer)
            /\ UNCHANGED <<run, archived, status, fixed>>

(* The network brings a request the transport has given up on. *)
LateArrival ==
    \E request \in BagToSet(late) :
        /\ Arrive(request)
        /\ target' = Execute(request)
        /\ UNCHANGED <<lost, loop_vars, attempt_vars, fixed>>

(* ---- the end of an attempt -------------------------------------------- *)

(* Mutant: every issue tried is counted. *)
ReportTried ==
    /\ pc = "issue" /\ cur \notin Issues /\ call = NONE
    /\ Record("issues", Report("native_rebuild", TRUE, Len(Source), Len(Source)), "persist")
    /\ UNCHANGED <<httpVars, target_vars, loop_vars, run, archived, status, fixed>>

(* The counters of the result become the module's row; failed and warnings  *)
(* have no field in it.                                                     *)
ReportIssues ==
    /\ pc = "issue" /\ cur \notin Issues /\ call = NONE
    /\ Record("issues", Report("native_rebuild", TRUE, Len(Source), Cardinality(migrated)), "persist")
    /\ UNCHANGED <<httpVars, target_vars, loop_vars, run, archived, status, fixed>>

HasArchive == \E m \in DOMAIN modules : modules[m].fidelity = "read_only_archive"

FailAttempt == pc' = "idle" /\ status' = "retryable_failed" /\ Forget

Keep == UNCHANGED <<loop_vars, modules, broken>>

(* Mutant: a document that could not be written is skipped. *)
PersistSome ==
    /\ pc = "persist" /\ call = NONE
    /\ \/ archived' = (archived \/ HasArchive)
       \/ UNCHANGED archived
    /\ \/ broken /\ FailAttempt
       \/ ~ broken /\ pc' = "verify" /\ Keep /\ UNCHANGED status
    /\ UNCHANGED <<httpVars, target_vars, run, fixed>>

(* persist_archives runs whether or not the stages succeeded; its own       *)
(* failure, a store failure or a paused batch fails the attempt.            *)
PersistArchives ==
    /\ pc = "persist" /\ call = NONE
    /\ \/ /\ archived' = (archived \/ HasArchive)
          /\ \/ broken /\ FailAttempt
             \/ ~ broken /\ pc' = "verify" /\ Keep /\ UNCHANGED status
       \/ /\ HasArchive
          /\ FailAttempt
          /\ UNCHANGED archived
    /\ UNCHANGED <<httpVars, target_vars, run, fixed>>

(* verify and VerificationResult::aggregate.  The refs of the target match, *)
(* or do not, or cannot be read; the platform data is judged by the         *)
(* modules' reports alone.                                                  *)
Verdict ==
    IF (\E m \in DOMAIN modules : modules[m].fidelity # "native_rebuild")
         \/ ("metadata" \in DOMAIN modules /\ ~ modules["metadata"].ok)
    THEN "partial" ELSE "succeeded"

Verify ==
    /\ pc = "verify"
    /\ \/ status' = Verdict /\ pc' = "idle" /\ Keep
       \/ FailAttempt
    /\ UNCHANGED <<httpVars, target_vars, run, archived, fixed>>

(* The process dies: memory is gone, the row is left in flight, the request *)
(* under way is nobody's.                                                   *)
Crash ==
    /\ pc # "idle"
    /\ pc' = "idle" /\ Forget
    /\ \E effect \in {"later", "never"} :
          /\ Abandon(effect)
          /\ lost' = IF effect = "later" THEN LostOne(call.req) ELSE lost
    /\ UNCHANGED <<target, run, archived, status, fixed>>

Program ==
    \/ BeginAttempt \/ ReadMetadata \/ StopBeforeStage \/ ArchiveOnly
    \/ ListSource \/ ScanTarget \/ EnsureLabels
    \/ SkipExisting \/ CreateIssue \/ PostComment \/ CloseIssue \/ IssueDone
    \/ Exchange \/ ReportIssues \/ PersistArchives \/ Verify

Next == Program \/ LateArrival \/ Crash

Spec == Init /\ [][Next]_vars

(* The worker thread runs on by itself, and no request outlasts its timeout *)
(* (HttpTransportConfig::timeout_ms): an exchange has an outcome.           *)
FairSpec == Spec /\ WF_vars(Program)

(* ---- properties ------------------------------------------------------- *)

Requests ==
    {IssueRequest(s) : s \in Issues} \cup {LabelRequest, MetadataRequest}
      \cup (UNION {{CommentRequest(s, n, k) : n \in NumbersOf(s), k \in 1 .. Source[s].comments} : s \in Issues})
      \cup (UNION {{CloseRequest(s, n) : n \in NumbersOf(s)} : s \in Issues})

(* Every variable keeps its type; a comment or a close is only ever sent    *)
(* to a copy of its own issue (create_issue_with_comments).                 *)
TypeOK ==
    /\ route \in Routes /\ listed \in BOOLEAN
    /\ call = NONE \/ (call.req \in Requests /\ call.tried \in 0 .. MaxAttempts - 1)
    /\ BagToSet(late) \subseteq Requests /\ losses \in 0 .. MaxLost
    /\ \A n \in DOMAIN target.issues :
          /\ target.issues[n].src \in Issues
          /\ \A i \in DOMAIN target.issues[n].comments :
                target.issues[n].comments[i] \in 1 .. Source[target.issues[n].src].comments
          /\ target.issues[n].open \in BOOLEAN
    /\ target.labels \in Nat /\ target.described \in BOOLEAN
    /\ lost \in [Objects -> Nat]
    /\ pc \in {"idle", "metadata", "list", "scan", "labels", "issue", "comments", "persist", "verify"}
    /\ run \in 0 .. MaxRuns
    /\ loaded \subseteq Issues /\ DOMAIN existing \subseteq Issues
    /\ \A s \in DOMAIN existing : existing[s] \in NumbersOf(s)
    /\ cur \in 1 .. Len(Source) + 1 /\ made \in 0 .. Len(target.issues)
    /\ migrated \cup failed \subseteq 1 .. cur - 1 /\ migrated \cap failed = {}
    /\ DOMAIN modules \subseteq {"metadata", "issues"}
    /\ \A m \in DOMAIN modules : modules[m].fidelity \in Fidelities
    /\ broken \in BOOLEAN /\ archived \in BOOLEAN
    /\ status \in {"planned", "running", "retryable_failed", "partial", "succeeded"}

Copies(o) ==
    IF o[2] = 0 THEN Cardinality(NumbersOf(o[1]))
    ELSE LET on(n) == {<<n, i>> : i \in {i \in DOMAIN target.issues[n].comments :
                                           target.issues[n].comments[i] = o[2]}}
         IN  Cardinality(UNION {on(n) : n \in NumbersOf(o[1])})

(* Over all attempts, crashes and repeats an issue is on the target at most *)
(* once more often than answers to its creation were lost, and so is every  *)
(* comment (which a repeated issue repeats too): migrate_issues itself, its *)
(* scan included, never writes a second time what it was told is there.     *)
(* The same holds of the label where the one page of labels shows it;       *)
(* behind that page it is created again by every attempt (target_label_ids).*)
(* This is less than the documents promise, which know of no duplicates at  *)
(* all (platform-gitea/src/lib.rs:385-387, architecture.md:384, 387,        *)
(* 411-412): a lost answer to a POST is enough for one, as send() repeats   *)
(* it and a late one may arrive after the next scan.                        *)
CopiesAreLostAnswers ==
    /\ \A s \in Issues :
          /\ Copies(<<s, 0>>) <= 1 + lost[<<s, 0>>]
          /\ \A k \in 1 .. Source[s].comments :
                Copies(<<s, k>>) <= 1 + lost[<<s, 0>>] + lost[<<s, k>>]
    /\ listed => target.labels <= 1 + lost[<<0, 0>>]

(* What a finished row claims is on the target: as many of its issues as    *)
(* the report's target_count says, and, under a verdict of complete         *)
(* success, the repository's own metadata.                                  *)
ClaimsAreThere ==
    status \in {"succeeded", "partial"} =>
        /\ "issues" \in DOMAIN modules =>
              modules["issues"].target_count <= Cardinality({s \in Issues : NumbersOf(s) # {}})
        /\ status = "succeeded" => target.described

(* A finished row whose issues were archived read-only has the archive on   *)
(* disk, whatever failed in the attempts before (persist_archives, whose    *)
(* failure fails the attempt).                                              *)
ArchiveIsOnDisk == status \in {"succeeded", "partial"} /\ HasArchive => archived

(* An attempt comes to its end: the loops of migrate_issues and of send()   *)
(* are bounded however often the server is unavailable.                     *)
EveryAttemptEnds == pc # "idle" ~> pc = "idle"

(* What architecture.md:384 ("if it exists already, add the missing         *)
(* comments") and the comment at platform-gitea/src/lib.rs:385-387 ("picks  *)
(* up where it left off") promise of a repeated attempt: an issue of an     *)
(* earlier one that its scan finds and counts, and whose comments it has    *)
(* read, has its comments and its state when the attempt is finished.       *)
HalfDoneIsCompleted ==
    status \in {"succeeded", "partial"} =>
        \A s \in migrated \cap DOMAIN existing \cap loaded :
            \E n \in NumbersOf(s) :
                /\ Len(target.issues[n].comments) >= Source[s].comments
                /\ Source[s].closed => ~ target.issues[n].open
=============================================================================
