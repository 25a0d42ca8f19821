------------------------------- MODULE Screen -------------------------------
(***************************************************************************)
(* What migrationStore.ts promises of the screen: it shows some version of *)
(* the database, perhaps an old one, and knows the newest version that it  *)
(* has ever heard of, so that it can say when the two differ. Where the    *)
(* news came from, and in which order, does not matter.                    *)
(***************************************************************************)
EXTENDS Naturals

VARIABLES
  version, \* of the database
  shown,   \* the version on the screen
  heard    \* the newest version anyone has told the screen of

screenVars == <<version, shown, heard>>

Init == version = 0 /\ shown = 0 /\ heard = 0

Change == version' = version + 1 /\ UNCHANGED <<shown, heard>>

\* A hint names a version; it changes nothing on the screen.
Hear ==
  /\ heard' \in 0..version /\ heard' >= heard
  /\ UNCHANGED <<version, shown>>

\* A snapshot replaces what is on the screen, though it may be an older one.
Show ==
  /\ shown' \in 0..version
  /\ heard' = IF shown' > heard THEN shown' ELSE heard
  /\ UNCHANGED version

Next == Change \/ Hear \/ Show

Spec == Init /\ [][Next]_screenVars
=============================================================================
