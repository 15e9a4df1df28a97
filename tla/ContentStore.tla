---------------------------- MODULE ContentStore ----------------------------
(***************************************************************************)
(* What backups, restores and restarts may do to the user's data, with     *)
(* files, rows, runs and restic abstracted away.  The content in force is  *)
(* a version of the data, or nothing readable (-1).                        *)
(***************************************************************************)
EXTENDS Integers

VARIABLES
  content,  \* the version in force, -1 when nothing readable is
  archive,  \* the contents the repository holds
  latest,   \* the newest version there has been
  exposed,  \* the file may be lost now: the program is down, or is copying
  resets    \* this deployment creates the database anew when it is missing

vars == <<content, archive, latest, exposed, resets>>

None == -1

Init ==
  /\ content \in {0, 1} /\ latest = content
  /\ archive = {}
  /\ exposed = TRUE /\ resets \in BOOLEAN

\* Data only moves on: a write replaces what is in force by the next version.
Write == content # None /\ latest' = latest + 1 /\ content' = latest'
         /\ UNCHANGED archive

\* A snapshot holds a version there has been, or a torn file.
Archive == /\ \E c \in 0..latest \cup {None} : archive' = archive \cup {c}
           /\ UNCHANGED <<content, latest>>

\* A readable content is lost only while the program is down or by a copy.
Lose == content' = None /\ (exposed \/ exposed') /\ UNCHANGED <<archive, latest>>

\* Content comes back only as the repository holds it.
Recover == content = None /\ content' \in archive /\ UNCHANGED <<archive, latest>>

\* A deployment that migrates first starts over when nothing is readable.
Reset == resets /\ content = None /\ content' = 0 /\ UNCHANGED <<archive, latest>>

Next == (Write \/ Archive \/ Lose \/ Recover \/ Reset \/ UNCHANGED <<content, archive, latest>>)
        /\ UNCHANGED resets

Spec == Init /\ [][Next]_vars
=============================================================================
