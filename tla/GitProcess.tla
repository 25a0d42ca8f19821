----------------------------- MODULE GitProcess -----------------------------
(***************************************************************************)
(* GitRunner::run_executable (src/crates/git-runner/src/process.rs): the   *)
(* thread of a worker that starts git, polls it every 20 ms and collects   *)
(* its output, for one command after the other of a stage.                 *)
(*                                                                         *)
(* Four parties act on their own: the caller, the git process, a helper of *)
(* it (git-remote-https, pack-objects) that inherits the output pipe, and  *)
(* the operator, who raises the flag all runs share.  The caller reads     *)
(* nothing before git has ended, so that a git whose output does not fit   *)
(* the pipe waits for a reader who waits for it.                           *)
(***************************************************************************)
EXTENDS Naturals

CONSTANTS MaxOutput,   \* bound: what a command writes, in pipe-sized units
          Capacity,    \* what the pipe holds unread
          MaxCommands  \* bound: commands of the stage

ASSUME ProcessAssumption == /\ MaxOutput \in Nat /\ MaxCommands \in Nat
                            /\ Capacity \in Nat \ {0}

VARIABLES caller,    \* "idle", "poll" or "drain" (wait_with_output)
          verdict,   \* what drain will return
          result,    \* what the last run returned
          commands,  \* runs begun
          git,       \* "none", "runs", "done" (exit code 0) or "dead"
          helper,    \* "none" or "runs": a helper of the command
          output,    \* what the command still has to write
          pipe,      \* written and not read
          got,       \* read by the caller
          size,      \* history: all this command had to write
          clock,     \* "due" once started.elapsed() has reached options.timeout
          cancel     \* the shared flag, "clear" or "raised"

caller_vars == <<caller, verdict, result, commands>>
child_vars  == <<git, helper, output, size>>
vars == <<caller_vars, child_vars, pipe, got, clock, cancel>>

Verdicts == {"ok", "failed", "timeout", "cancelled", "none"}

Init ==
    /\ caller = "idle" /\ verdict = "none" /\ result = "none" /\ commands = 0
    /\ git = "none" /\ helper = "none" /\ output = 0 /\ size = 0
    /\ pipe = 0 /\ got = 0 /\ clock = "early" /\ cancel = "clear"

(* ---- the caller ------------------------------------------------------- *)

(* The child is started before the flag is looked at.  A stage goes on only *)
(* after a success.                                                         *)
Spawn ==
    /\ caller = "idle" /\ commands < MaxCommands /\ result \in {"none", "ok"}
    /\ caller' = "poll" /\ commands' = commands + 1
    /\ verdict' = "none" /\ result' = "none"
    /\ git' = "runs" /\ helper' \in {"none", "runs"}
    /\ \E s \in 0 .. MaxOutput : size' = s /\ output' = s
    /\ pipe' = 0 /\ got' = 0 /\ clock' = "early"
    /\ UNCHANGED cancel

(* kill() reaches the child and none of its helpers. *)
Kill(why) ==
    /\ caller' = "drain" /\ verdict' = why
    /\ git' = IF git = "runs" THEN "dead" ELSE git
    /\ UNCHANGED <<result, commands, helper, output, size, pipe, got, clock, cancel>>

(* The loop asks for the flag first, then for the time, then for the child. *)
PollCancelled == caller = "poll" /\ cancel = "raised" /\ Kill("cancelled")

(* Mutant: the time is looked at after git has ended. *)
PollExpiredTooLate ==
    caller = "poll" /\ cancel = "clear" /\ clock = "due" /\ git # "runs" /\ Kill("timeout")

PollExpired == caller = "poll" /\ cancel = "clear" /\ clock = "due" /\ Kill("timeout")

(* Mutant: the exit code is not looked at. *)
PollEndedAnyCode ==
    /\ caller = "poll" /\ cancel = "clear" /\ clock = "early" /\ git \in {"done", "dead"}
    /\ caller' = "drain" /\ verdict' = "ok"
    /\ UNCHANGED <<result, commands, child_vars, pipe, got, clock, cancel>>

PollEnded ==
    /\ caller = "poll" /\ cancel = "clear" /\ clock = "early" /\ git \in {"done", "dead"}
    /\ caller' = "drain"
    /\ verdict' = IF git = "done" THEN "ok" ELSE "failed"
    /\ UNCHANGED <<result, commands, child_vars, pipe, got, clock, cancel>>

(* wait_with_output reads until every writer has closed the pipe.           *)
Read ==
    /\ caller = "drain" /\ pipe > 0
    /\ pipe' = pipe - 1 /\ got' = got + 1
    /\ UNCHANGED <<caller_vars, child_vars, clock, cancel>>

Writers == git = "runs" \/ helper = "runs"

(* Mutant: only git itself is waited for. *)
ReturnAtExit ==
    /\ caller = "drain" /\ pipe = 0 /\ git # "runs"
    /\ caller' = "idle" /\ result' = verdict
    /\ UNCHANGED <<verdict, commands, child_vars, pipe, got, clock, cancel>>

Return ==
    /\ caller = "drain" /\ pipe = 0 /\ ~ Writers
    /\ caller' = "idle" /\ result' = verdict
    /\ UNCHANGED <<verdict, commands, child_vars, pipe, got, clock, cancel>>

(* ---- the processes ---------------------------------------------------- *)

(* While git runs it may write; a helper that outlives it writes on.        *)
Write ==
    /\ Writers /\ output > 0 /\ pipe < Capacity
    /\ output' = output - 1 /\ pipe' = pipe + 1
    /\ UNCHANGED <<caller_vars, git, helper, size, got, clock, cancel>>

(* git ends well when it has written everything and its helper is done; it  *)
(* may fail at any time.                                                    *)
GitEnds ==
    /\ git = "runs"
    /\ \/ git' = "done" /\ output = 0 /\ helper = "none"
       \/ git' = "dead"
    /\ UNCHANGED <<caller_vars, helper, output, size, pipe, got, clock, cancel>>

(* A helper ends when it likes; it too may be stuck in a full pipe.         *)
HelperEnds ==
    /\ helper = "runs" /\ helper' = "none"
    /\ UNCHANGED <<caller_vars, git, output, size, pipe, got, clock, cancel>>

(* ---- time and the operator -------------------------------------------- *)

Expire ==
    /\ caller = "poll" /\ clock = "early"
    /\ clock' = "due"
    /\ UNCHANGED <<caller_vars, child_vars, pipe, got, cancel>>

(* ThreadPoolLauncher::cancel raises the flag, the next launch clears it.   *)
RaiseFlag ==
    /\ cancel = "clear" /\ cancel' = "raised"
    /\ UNCHANGED <<caller_vars, child_vars, pipe, got, clock>>

ClearFlag ==
    /\ cancel = "raised" /\ cancel' = "clear"
    /\ UNCHANGED <<caller_vars, child_vars, pipe, got, clock>>

Caller == Spawn \/ PollCancelled \/ PollExpired \/ PollEnded \/ Read \/ Return

Next == Caller \/ Write \/ GitEnds \/ HelperEnds \/ Expire \/ RaiseFlag \/ ClearFlag

Spec == Init /\ [][Next]_vars

(* The caller's thread runs on, time passes, and what survives a kill ends  *)
(* by itself in the end.  Nothing is assumed of git: it may hang.           *)
FairSpec ==
    /\ Spec
    /\ WF_vars(PollCancelled \/ PollExpired \/ PollEnded) /\ WF_vars(Read) /\ WF_vars(Return)
    /\ WF_vars(Expire) /\ WF_vars(HelperEnds)

(* ---- properties ------------------------------------------------------- *)

(* Every variable keeps its type, and no output is lost on the way: what    *)
(* was written is unread or read.                                           *)
TypeOK ==
    /\ caller \in {"idle", "poll", "drain"}
    /\ verdict \in Verdicts /\ result \in Verdicts
    /\ commands \in 0 .. MaxCommands
    /\ git \in {"none", "runs", "done", "dead"} /\ helper \in {"none", "runs"}
    /\ size \in 0 .. MaxOutput /\ output \in 0 .. size
    /\ pipe \in 0 .. Capacity /\ got \in Nat /\ got + pipe + output = size
    /\ clock \in {"early", "due"} /\ cancel \in {"clear", "raised"}

(* When run_executable has returned after an exit, a timeout or a cancel,   *)
(* neither git nor a helper of it is alive: the next command, and the       *)
(* removal of the mirror it worked in, never meet a process of the last     *)
(* one.  The returns on an error of try_wait or of reading are left out.    *)
ReturnedAloneInTheMirror == caller = "idle" => ~ Writers

(* Ok means that git ended well and that all it wrote is in stdout: the     *)
(* refs that discover_refs and verify parse are never a part of them.       *)
OkIsAllOfIt == result = "ok" => git = "done" /\ got = size

(* Every run returns, also of a git that hangs, and of one whose output     *)
(* does not fit the pipe: the timeout ends the mutual wait.                 *)
EveryRunReturns == caller = "poll" ~> caller = "idle"
=============================================================================
