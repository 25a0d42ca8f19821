-------------------------- MODULE GitProcess_proofs --------------------------
(***************************************************************************)
(* GitProcess's two safety properties and its types, for every size of the *)
(* pipe and of the output.  The strengthening says what git's state and    *)
(* the verdict about it have to do with the rest: a git that ended well    *)
(* has written everything and left no helper, a verdict of ok is about     *)
(* such a git, and a caller who is not in a run has emptied the pipe.      *)
(***************************************************************************)
EXTENDS GitProcess, TLAPS

Strengthening ==
    /\ git = "done" => output = 0 /\ helper = "none"
    /\ git = "none" => helper = "none"
    /\ verdict = "ok" => git = "done"
    /\ caller = "idle" => pipe = 0
    /\ caller = "idle" => result = verdict
    /\ caller # "idle" => result = "none"

IInv == TypeOK /\ ReturnedAloneInTheMirror /\ Strengthening

(* Zero is a size of output, and the pipe starts empty. *)
LEMMA InitInv == Init => IInv
BY ProcessAssumption, SMT
   DEF Init, IInv, TypeOK, ReturnedAloneInTheMirror, Strengthening, Writers, Verdicts

(* Every step of the caller, the processes, time and the operator keeps it. *)
LEMMA NextInv == IInv /\ [Next]_vars => IInv'
<1> SUFFICES ASSUME IInv, [Next]_vars PROVE IInv'
  OBVIOUS
<1> USE ProcessAssumption
        DEF IInv, TypeOK, ReturnedAloneInTheMirror, Strengthening, Writers, Verdicts
<1>1. CASE Spawn
  BY <1>1, SMT DEF Spawn
<1>2. CASE PollCancelled
  BY <1>2, SMT DEF PollCancelled, Kill
<1>3. CASE PollExpired
  BY <1>3, SMT DEF PollExpired, Kill
<1>4. CASE PollEnded
  BY <1>4, SMT DEF PollEnded, child_vars
<1>5. CASE Read
  BY <1>5, SMT DEF Read, caller_vars, child_vars
<1>6. CASE Return
  BY <1>6, SMT DEF Return, child_vars
<1>7. CASE Write
  BY <1>7, SMT DEF Write, caller_vars
<1>8. CASE GitEnds
  BY <1>8, SMT DEF GitEnds, caller_vars
<1>9. CASE HelperEnds
  BY <1>9, SMT DEF HelperEnds, caller_vars
<1>10. CASE Expire
  BY <1>10, SMT DEF Expire, caller_vars, child_vars
<1>11. CASE RaiseFlag
  BY <1>11, SMT DEF RaiseFlag, caller_vars, child_vars
<1>12. CASE ClearFlag
  BY <1>12, SMT DEF ClearFlag, caller_vars, child_vars
<1>13. CASE UNCHANGED vars
  BY <1>13, SMT DEF vars, caller_vars, child_vars
<1> QED
  BY <1>1, <1>2, <1>3, <1>4, <1>5, <1>6, <1>7, <1>8, <1>9, <1>10, <1>11, <1>12, <1>13
     DEF Next, Caller

(* The strengthened invariant holds always (run_executable). *)
THEOREM ProcessIInv == Spec => []IInv
BY InitInv, NextInv, PTL DEF Spec

(* No output is lost, whatever the sizes (run_executable). *)
THEOREM ProcessTypes == Spec => []TypeOK
<1>1. IInv => TypeOK
  BY DEF IInv
<1> QED
  BY <1>1, ProcessIInv, PTL

(* A run that has returned has left no process (wait_with_output). *)
THEOREM ReturnsAlone == Spec => []ReturnedAloneInTheMirror
<1>1. IInv => ReturnedAloneInTheMirror
  BY DEF IInv
<1> QED
  BY <1>1, ProcessIInv, PTL

(* A success carries all that git wrote: nothing is unwritten, since git    *)
(* ended well, and nothing unread, since the pipe is empty.                 *)
THEOREM OkIsComplete == Spec => []OkIsAllOfIt
<1>1. IInv => OkIsAllOfIt
  BY ProcessAssumption, SMT
     DEF IInv, TypeOK, Strengthening, OkIsAllOfIt, Verdicts
<1> QED
  BY <1>1, ProcessIInv, PTL
=============================================================================
