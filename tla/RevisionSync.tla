---------------------------- MODULE RevisionSync ----------------------------
(***************************************************************************)
(* How the renderer's store learns what the database holds: commands and   *)
(* snapshots go out as calls and come back in any order, workers write and *)
(* then emit an event that carries no more than a revision.                *)
(*                                                                         *)
(* The backend answers one call at a time (synchronous Tauri commands run  *)
(* on the main thread), the workers write in between, and a reply is a     *)
(* message of its own.                                                     *)
(***************************************************************************)
EXTENDS Naturals

CONSTANTS
  Call,        \* calls of the renderer that may be outstanding at a time
  Worker,      \* worker threads of the batch
  MaxRevision, \* bound on the writes
  Lossy,       \* an emit may fail
  Refusing     \* the store may refuse to read a snapshot

ASSUME SyncAssumption ==
  /\ MaxRevision \in Nat /\ Lossy \in BOOLEAN /\ Refusing \in BOOLEAN

VARIABLES
  revision,  \* Inner.revision
  writing,   \* workers between a write and the emit that follows it
  events,    \* revisions of the envelopes under way to the renderer
  listening, \* the bridge has registered its listener
  call,      \* phase of each call
  reply,     \* revision of the snapshot a call brings back
  mounted,   \* the router has asked for its first snapshot
  snapshot,  \* revision of the snapshot on the screen; 0 before the first
  stale,     \* staleRevision
  status,    \* StoreStatus
  heard      \* history: greatest revision that has reached the renderer

backend == <<revision, writing>>
screen == <<snapshot, stale, status, heard>>
vars == <<backend, events, listening, call, reply, mounted, screen>>

Phase == {"free", "command", "done", "failed", "asking", "told", "refused"}

Larger(a, b) == IF a > b THEN a ELSE b

Init ==
  /\ revision = 0 /\ writing = {} /\ events = {}
  /\ listening = FALSE /\ mounted = FALSE
  /\ call = [c \in Call |-> "free"] /\ reply = [c \in Call |-> 0]
  /\ snapshot = 0 /\ stale = 0 /\ status = "idle"
  /\ heard = 0

----------------------------------------------------------------------------
(* The backend.                                                            *)

\* A stage command of a worker: the rows, then inner.revision += 1.
Write(w) ==
  /\ w \notin writing /\ revision < MaxRevision
  /\ revision' = revision + 1
  /\ writing' = writing \cup {w}
  /\ UNCHANGED <<events, listening, call, reply, mounted, screen>>

\* AppRecorder: the event carries the revision of now, not of the write. Before
\* the listener is registered nobody is there to hear it.
Emit(w) ==
  /\ w \in writing /\ writing' = writing \ {w}
  /\ events' = IF listening THEN events \cup {revision} ELSE events
  /\ UNCHANGED <<revision, listening, call, reply, mounted, screen>>

\* TauriEventSink::emit ignores a failure.
EmitFails(w) ==
  /\ Lossy /\ w \in writing /\ writing' = writing \ {w}
  /\ UNCHANGED <<revision, events, listening, call, reply, mounted, screen>>

\* A command that changes the database. One that fails may fail before the
\* revision is raised, or after it, when it reads back what it wrote.
Execute(c) ==
  /\ call[c] = "command"
  /\ \/ /\ revision < MaxRevision /\ revision' = revision + 1
        /\ \/ call' = [call EXCEPT ![c] = "done"]
           \/ Refusing /\ call' = [call EXCEPT ![c] = "failed"]
     \/ call' = [call EXCEPT ![c] = "failed"] /\ UNCHANGED revision
  /\ UNCHANGED <<writing, events, listening, reply, mounted, screen>>

\* migration_snapshot.
ReadSnapshot(c) ==
  /\ call[c] = "asking"
  /\ \/ /\ call' = [call EXCEPT ![c] = "told"]
        /\ reply' = [reply EXCEPT ![c] = revision]
     \/ /\ Refusing /\ call' = [call EXCEPT ![c] = "refused"]
        /\ UNCHANGED reply
  /\ UNCHANGED <<backend, events, listening, mounted, screen>>

----------------------------------------------------------------------------
(* The renderer.                                                           *)

\* The bridge loads the event API and registers its listener; the calls made
\* meanwhile do not wait for that.
Listen ==
  /\ ~listening /\ listening' = TRUE
  /\ UNCHANGED <<backend, events, call, reply, mounted, screen>>

\* refresh, up to its await.
Ask(c) ==
  /\ call' = [call EXCEPT ![c] = "asking"]
  /\ status' = IF status = "idle" THEN "loading" ELSE status

Mount ==
  /\ ~mounted /\ mounted' = TRUE
  /\ \E c \in Call : call[c] = "free" /\ Ask(c)
  /\ UNCHANGED <<backend, events, listening, reply, snapshot, stale, heard>>

PressRefresh(c) ==
  /\ mounted /\ call[c] = "free" /\ Ask(c)
  /\ UNCHANGED <<backend, events, listening, reply, mounted, snapshot, stale, heard>>

\* mutate, up to its await.
PressCommand(c) ==
  /\ mounted /\ call[c] = "free"
  /\ call' = [call EXCEPT ![c] = "command"]
  /\ UNCHANGED <<backend, events, listening, reply, mounted, screen>>

\* Mutant of Answered: a success is not followed by a refresh.
AnsweredOnly(c) ==
  /\ call[c] \in {"done", "failed"}
  /\ call' = [call EXCEPT ![c] = "free"]
  /\ UNCHANGED <<backend, events, listening, reply, mounted, screen>>

\* mutate after its await: a success is followed by a refresh.
Answered(c) ==
  /\ \/ call[c] = "done" /\ Ask(c)
     \/ /\ call[c] = "failed" /\ call' = [call EXCEPT ![c] = "free"]
        /\ UNCHANGED status
  /\ UNCHANGED <<backend, events, listening, reply, mounted, snapshot, stale, heard>>

\* Mutant of Shown: the snapshot settles what was stale.
ShownSettles(c) ==
  /\ call[c] = "told" /\ call' = [call EXCEPT ![c] = "free"]
  /\ snapshot' = reply[c] /\ stale' = reply[c]
  /\ status' = "ready"
  /\ heard' = Larger(heard, reply[c])
  /\ reply' = [reply EXCEPT ![c] = 0]
  /\ UNCHANGED <<backend, events, listening, mounted>>

\* refresh after its await: the snapshot is shown whatever is on the screen.
Shown(c) ==
  /\ call[c] = "told" /\ call' = [call EXCEPT ![c] = "free"]
  /\ snapshot' = reply[c] /\ stale' = Larger(stale, reply[c])
  /\ status' = "ready"
  /\ heard' = Larger(heard, reply[c])
  /\ reply' = [reply EXCEPT ![c] = 0]
  /\ UNCHANGED <<backend, events, listening, mounted>>

Refused(c) ==
  /\ call[c] = "refused" /\ call' = [call EXCEPT ![c] = "free"]
  /\ status' = "error"
  /\ UNCHANGED <<backend, events, listening, reply, mounted, snapshot, stale, heard>>

\* Mutant of OnEvent: the latest envelope counts.
OnEventLatest(r) ==
  /\ r \in events
  /\ events' \in {events, events \ {r}}
  /\ stale' = IF r > snapshot THEN r ELSE stale
  /\ heard' = Larger(heard, r)
  /\ UNCHANGED <<backend, listening, call, reply, mounted, snapshot, status>>

\* onEvent. An envelope may come late, out of order, and more than once.
OnEvent(r) ==
  /\ r \in events
  /\ events' \in {events, events \ {r}}
  /\ stale' = IF r > snapshot THEN Larger(stale, r) ELSE stale
  /\ heard' = Larger(heard, r)
  /\ UNCHANGED <<backend, listening, call, reply, mounted, snapshot, status>>

isStale == stale > snapshot

----------------------------------------------------------------------------
Next ==
  \/ \E w \in Worker : Write(w) \/ Emit(w) \/ EmitFails(w)
  \/ \E c \in Call :
       \/ Execute(c) \/ ReadSnapshot(c) \/ Answered(c) \/ Shown(c) \/ Refused(c)
       \/ PressRefresh(c) \/ PressCommand(c)
  \/ \E r \in events : OnEvent(r)
  \/ Listen \/ Mount

Spec == Init /\ [][Next]_vars

\* A call that went out is answered and its answer shown. Nothing says that the
\* operator presses anything, that a worker writes or that an event arrives.
Fairness ==
  \A c \in Call :
    WF_vars(Execute(c) \/ ReadSnapshot(c) \/ Answered(c) \/ Shown(c) \/ Refused(c))

FairSpec == Spec /\ Fairness

----------------------------------------------------------------------------
(* Properties.                                                             *)

\* Type correctness of the store's fields and of what is under way to it.
TypeOK ==
  /\ revision \in Nat /\ writing \subseteq Worker /\ events \subseteq Nat
  /\ listening \in BOOLEAN /\ mounted \in BOOLEAN
  /\ call \in [Call -> Phase] /\ reply \in [Call -> Nat]
  /\ snapshot \in Nat /\ stale \in Nat /\ heard \in Nat
  /\ status \in {"idle", "loading", "ready", "error"}

\* "Losing, duplicating or reordering events can leave the UI briefly stale but
\* never wrong": an older snapshot that overtakes a newer one, or an event that
\* overtakes a snapshot, never leaves the screen behind what the renderer has
\* already been told without the banner saying so (migrationStore.ts).
NeverSilentlyBehind == heard > snapshot => isStale

\* The store implements the register the module Screen describes, and
\* staleRevision alone remembers the newest version it has heard of (refresh and
\* onEvent take the maximum).
Promise == INSTANCE Screen WITH version <- revision, shown <- snapshot,
                                heard <- stale
ImplementsScreen == Promise!Spec

\* What a command of the operator has written is on the screen in the end, and
\* from then on a screen without it is marked stale, unless the refresh that
\* follows the command was refused and the screen says that. The news come with
\* that refresh alone: no event, lost or not, is waited for (mutate, refresh).
OwnCommandIsSeen ==
  \A c \in Call, n \in 1..MaxRevision :
    (call[c] = "done" /\ revision >= n)
      ~> (status = "error" \/ [](snapshot >= n \/ isStale))
=============================================================================
