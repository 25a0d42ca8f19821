------------------------------- MODULE Leases -------------------------------
(***************************************************************************)
(* The lease columns of a repository_task row, as the lease repository of  *)
(* the local store reads and writes them (lease_repository.rs).            *)
(*                                                                         *)
(* A row stores an owner and an absolute expiry time.  Every statement     *)
(* only ever compares the expiry with the current time, so a lease is      *)
(* modelled by the time it has LEFT: "lease_expires_at_ms <= now" is       *)
(* left = 0, and the clock runs by taking one unit off every lease.        *)
(* This keeps the clock unbounded and the state space finite.              *)
(***************************************************************************)
EXTENDS Integers

CONSTANTS
  Owner,     \* the owner names workers present to the store
  NoOwner,   \* SQL NULL in lease_owner, not an owner
  TTL        \* LEASE_TTL_MS, in clock units, positive

Lease == [owner : Owner \cup {NoOwner}, left : 0 .. TTL]

\* Both columns NULL (the CHECK of the schema keeps them NULL together).
NoLease == [owner |-> NoOwner, left |-> 0]

Fresh(o) == [owner |-> o, left |-> TTL]

\* The WHERE clause of acquire: free, re-entrant, or expired.
Acquirable(l, o) == l.owner = NoOwner \/ l.owner = o \/ l.left = 0

\* The candidate filter of claim_next_task: free or expired, never re-entrant.
Unclaimed(l) == l.owner = NoOwner \/ l.left = 0

\* Mutant of Held: a lease in its last unit counts as expired.
HeldStrictly(l, o) == l.owner = o /\ l.left > 1

\* The WHERE clause of heartbeat and the EXISTS of CheckpointRepository::append.
Held(l, o) == l.owner = o /\ l.left > 0

\* Mutant of Released: the release matches no row.
ReleasedNever(l, o) == l

\* release keeps a row that another owner holds.
Released(l, o) == IF l.owner = o THEN NoLease ELSE l

\* One unit of time passes for a lease.
Aged(l) == [l EXCEPT !.left = IF @ > 0 THEN @ - 1 ELSE 0]
=============================================================================
