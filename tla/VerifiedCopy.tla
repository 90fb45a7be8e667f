---------------------------- MODULE VerifiedCopy ----------------------------
(***************************************************************************)
(* What the bucket and every node cache promise, in one place: a copy of a *)
(* snapshot that is worked on only while it is not announced, and that is  *)
(* announced only when every file of it has been verified.  The copy may   *)
(* decay (a disk fails, an administrator removes a file): the promise is   *)
(* about what was verified, not about what happens behind its back.        *)
(*                                                                         *)
(* Publication implements it with _READY.json as the announcement,         *)
(* NodeCache with .aiq-ready.json.                                         *)
(***************************************************************************)

CONSTANTS Files,    \* files of the snapshot
          Readers   \* those who start from an announced copy

VARIABLES announced,  \* the marker names this snapshot
          intact,     \* files that are complete and correct
          decayed,    \* files that decayed since they were verified
          reading     \* readers that have started and not left

vars == <<announced, intact, decayed, reading>>

Verified == Files \subseteq intact \cup decayed

Init ==
  /\ announced \in BOOLEAN
  /\ intact \in SUBSET Files
  /\ decayed \in SUBSET Files
  /\ announced => Verified
  /\ reading = {}

\* Files are verified, replaced or written while nothing is announced.
Work ==
  /\ ~ announced /\ ~ announced'
  /\ intact \subseteq intact'
  /\ intact' \subseteq Files
  /\ decayed' \subseteq decayed
  /\ UNCHANGED reading

Announce ==
  /\ ~ announced
  /\ Verified
  /\ announced' = TRUE
  /\ UNCHANGED <<intact, decayed, reading>>

Withdraw ==
  /\ announced' = FALSE
  /\ UNCHANGED <<intact, decayed, reading>>

\* What decays may have been wrong before.
Decay(f) ==
  /\ intact' = intact \ {f}
  /\ decayed' = decayed \cup {f}
  /\ UNCHANGED <<announced, reading>>

Start(r) ==
  /\ announced
  /\ r \notin reading
  /\ reading' = reading \cup {r}
  /\ UNCHANGED <<announced, intact, decayed>>

Leave(r) ==
  /\ r \in reading
  /\ reading' = reading \ {r}
  /\ UNCHANGED <<announced, intact, decayed>>

Next ==
  \/ Work
  \/ Announce
  \/ Withdraw
  \/ \E f \in Files : Decay(f)
  \/ \E r \in Readers : Start(r) \/ Leave(r)

Spec == Init /\ [][Next]_vars

\* What follows for a reader.
Promise == announced => Verified

=============================================================================
