----------------------------- MODULE Quarantine -----------------------------
(***************************************************************************)
(* The quarantine of the ClamAV connector (clamav.py): quarantine_file,    *)
(* restore_quarantine_file and the listing, with the file system, the      *)
(* user of the computer and the failures around them.                      *)
(*                                                                         *)
(* Both handlers check, then await shutil.move in a worker thread, then    *)
(* deal with the sidecar, so requests overlap at the move.  On one file    *)
(* system a move is a rename; between two, as from /tmp or a home into the *)
(* Docker volume, it is a copy and then an unlink.                         *)
(***************************************************************************)
EXTENDS Naturals

CONSTANTS
  Request,    \* identities of the requests; a quarantine's also names its entry
  Path,       \* places the scanner may move files from
  Local,      \* those on the file system of the quarantine directory
  Content,    \* contents of files
  MaxFaults   \* bound on crashes and failed writes

ASSUME PathAssumption == Local \subseteq Path /\ Path \cap Request = {}
ASSUME ContentAssumption == "none" \notin Content /\ "part" \notin Content
ASSUME NoPathAssumption == "none" \notin Path
ASSUME BoundsAssumption == MaxFaults \in Nat

VARIABLES
  disk,     \* the files: at their paths, and as payloads of the entries
  sidecar,  \* sidecar[e]: the original path the metadata of entry e records
  req,      \* req[r]: where the handler of request r is
  kept,     \* the contents the user has and has not thrown away
  faults,   \* failures still allowed
  careful   \* history: nobody has yet got in the way of a move in progress

vars == <<disk, sidecar, req, kept, faults, careful>>

\* A payload is named {uuid}_{name}, so no two requests share one.
Name == Path \cup Request

\* The writers of an unfinished file are the requests that have it open.
Blob == [data : Content \cup {"none", "part"}, writers : SUBSET Request]

Absent == [data |-> "none", writers |-> {}]
Whole(c) == [data |-> c, writers |-> {}]

Exists(n) == disk[n].data # "none"

ReqState == [op    : {"none", "quarantine", "restore"},
             pc    : {"idle", "move", "copy", "unlink", "meta", "over"},
             entry : Name,
             place : Path \cup {"none"},
             held  : Content \cup {"none", "part"}]   \* what it moves

InProgress(r) == req[r].pc \in {"move", "copy", "unlink", "meta"}

From(r) == IF req[r].op = "quarantine" THEN req[r].place ELSE req[r].entry
To(r)   == IF req[r].op = "quarantine" THEN req[r].entry ELSE req[r].place

Uses(r, n) == InProgress(r) /\ n \in {req[r].place, req[r].entry}

Fault == faults > 0 /\ faults' = faults - 1

Goto(r, pc) == req' = [req EXCEPT ![r].pc = pc]

\* The properties claim nothing any more after a step that got in the way.
Clear(ok) == careful' = (careful /\ ok)

Init ==
  /\ disk = [n \in Name |-> Absent]
  /\ sidecar = [e \in Request |-> "none"]
  /\ req = [r \in Request |-> [op |-> "none", pc |-> "idle", entry |-> r,
                               place |-> "none", held |-> "none"]]
  /\ kept = {}
  /\ faults = MaxFaults
  /\ careful = TRUE

(***************************************************************************)
(* The checks of the handlers, up to their call of shutil.move.  A refused *)
(* request changes nothing.                                                *)
(***************************************************************************)

Begun(r, op, e, p) ==
  req' = [req EXCEPT ![r] = [op |-> op, pc |-> "move", entry |-> e,
                             place |-> p, held |-> "none"]]

\* path.is_file(), below an allowed root.  In the way: a restore to that path
\* is in progress.
QuarantineFile(r) ==
  /\ req[r].pc = "idle"
  /\ \E p \in Path :
       /\ Exists(p)
       /\ Begun(r, "quarantine", r, p)
       /\ Clear(\A q \in Request : req[q].op = "restore" => ~Uses(q, p))
  /\ UNCHANGED <<disk, sidecar, kept, faults>>

\* An entry is listed, and can be restored, when its sidecar can be read and
\* its payload is there.
Listed(e) == sidecar[e] \in Path /\ Exists(e)

AnyTarget(p) == p \in Path            \* mutated: original_path is not checked
FreeTarget(p) == ~Exists(p)

\* In the way: any other request in progress at that path or for that entry.
RestoreQuarantineFile(r) ==
  /\ req[r].pc = "idle"
  /\ \E e \in Request :
       /\ Listed(e) /\ FreeTarget(sidecar[e])
       /\ Begun(r, "restore", e, sidecar[e])
       /\ Clear(\A q \in Request : ~Uses(q, sidecar[e]) /\ ~Uses(q, e))
  /\ UNCHANGED <<disk, sidecar, kept, faults>>

(***************************************************************************)
(* shutil.move in its thread: os.rename, or copyfile and os.unlink.        *)
(***************************************************************************)

\* The source is gone: FileNotFoundError.
Vanished(r) ==
  /\ req[r].pc \in {"move", "unlink"} /\ ~Exists(From(r))
  /\ Goto(r, "over")
  /\ UNCHANGED <<disk, sidecar, kept, faults, careful>>

\* A rename replaces whatever has the name of the target.
Rename(r) ==
  /\ req[r].pc = "move" /\ req[r].place \in Local /\ Exists(From(r))
  /\ disk' = [disk EXCEPT ![To(r)] = disk[From(r)], ![From(r)] = Absent]
  /\ req' = [req EXCEPT ![r].pc = "meta", ![r].held = disk[From(r)].data]
  /\ UNCHANGED <<sidecar, kept, faults, careful>>

\* The target is created, or truncated while another copy may be filling it.
\* A source that is itself unfinished is read as it is.
CopyBegin(r) ==
  /\ req[r].pc = "move" /\ req[r].place \notin Local /\ Exists(From(r))
  /\ disk' = [disk EXCEPT ![To(r)] = [data |-> "part", writers |-> @.writers \cup {r}]]
  /\ req' = [req EXCEPT ![r].pc = "copy", ![r].held = disk[From(r)].data]
  /\ UNCHANGED <<sidecar, kept, faults, careful>>

\* The file opened is complete, unless others wrote to it as well; it may
\* have been unlinked or replaced by name meanwhile.
CopyEnd(r) ==
  /\ req[r].pc = "copy"
  /\ \/ disk[To(r)].writers = {r} /\ disk' = [disk EXCEPT ![To(r)] = Whole(req[r].held)]
     \/ /\ {r} \subseteq disk[To(r)].writers /\ disk[To(r)].writers # {r}
        /\ \E d \in {"part", req[r].held} : disk' = [disk EXCEPT ![To(r)].data = d]
     \/ r \notin disk[To(r)].writers /\ UNCHANGED disk
  /\ Goto(r, "unlink")
  /\ UNCHANGED <<sidecar, kept, faults, careful>>

\* os.unlink removes what has the name of the source by now.
AtOnce == "over"                      \* mutated: the handler ends at the move
AfterMove == "meta"

Unlink(r) ==
  /\ req[r].pc = "unlink" /\ Exists(From(r))
  /\ disk' = [disk EXCEPT ![From(r)] = Absent]
  /\ Goto(r, AfterMove)
  /\ UNCHANGED <<sidecar, kept, faults, careful>>

(***************************************************************************)
(* The sidecar, and the answer.                                            *)
(***************************************************************************)

Payload(r) == req[r].entry            \* mutated: quarantined_path, twice
Original(r) == req[r].place

\* quarantine_file writes the sidecar, restore_quarantine_file unlinks it.
Settle(r) ==
  /\ req[r].pc = "meta"
  /\ sidecar' = [sidecar EXCEPT ![req[r].entry] =
                   IF req[r].op = "quarantine" THEN Original(r) ELSE "none"]
  /\ Goto(r, "over")
  /\ UNCHANGED <<disk, kept, faults, careful>>

\* The metadata cannot be written, or is left torn, which reads as none; a
\* sidecar that cannot be unlinked stays, and the restore succeeds.
SettleFails(r) ==
  /\ req[r].pc = "meta" /\ Fault
  /\ Goto(r, "over")
  /\ UNCHANGED <<disk, sidecar, kept, careful>>

Swallowed == "unlink"                 \* mutated: the copy is taken for done
Raised == "over"

\* The disk is full: copyfile raises, and leaves what it wrote.
CopyFails(r) ==
  /\ req[r].pc = "copy" /\ Fault
  /\ Goto(r, Raised)
  /\ UNCHANGED <<disk, sidecar, kept, careful>>

(***************************************************************************)
(* The user, and the end of the process.                                   *)
(***************************************************************************)

\* A new content appears under a name, atomically, in place of an old one.  In
\* the way: a move in progress writes there, or has begun to copy from there
\* and will unlink whatever has the name by then.
Save(p) ==
  /\ Clear(\A r \in Request : InProgress(r) =>
             /\ p # To(r)
             /\ req[r].pc \in {"copy", "unlink"} => p # From(r))
  /\ \E c \in Content \ kept :
       /\ \A n \in Name : disk[n].data # c
       /\ disk' = [disk EXCEPT ![p] = Whole(c)]
       /\ kept' = (kept \ {disk[p].data}) \cup {c}
  /\ UNCHANGED <<sidecar, req, faults>>

\* A file is removed by hand, a payload included.  In the way: a move in
\* progress writes there.
Delete(n) ==
  /\ Exists(n)
  /\ Clear(\A r \in Request : InProgress(r) => n # To(r))
  /\ disk' = [disk EXCEPT ![n] = Absent]
  /\ kept' = kept \ {disk[n].data}
  /\ UNCHANGED <<sidecar, req, faults>>

\* A cancelled handler whose thread still ends its move is one that crashes
\* after the move.
Crash ==
  /\ Fault
  /\ req' = [r \in Request |-> IF InProgress(r) THEN [req[r] EXCEPT !.pc = "over"] ELSE req[r]]
  /\ UNCHANGED <<disk, sidecar, kept, careful>>

Move(r) == Vanished(r) \/ Rename(r) \/ CopyBegin(r) \/ CopyEnd(r) \/ Unlink(r)

Handler(r) == QuarantineFile(r) \/ RestoreQuarantineFile(r) \/ Move(r) \/ Settle(r)

Failure(r) == CopyFails(r) \/ SettleFails(r)

User == (\E p \in Path : Save(p)) \/ (\E n \in Name : Delete(n))

Next == (\E r \in Request : Handler(r) \/ Failure(r)) \/ User \/ Crash

Spec == Init /\ [][Next]_vars

(***************************************************************************)
(* Properties.                                                             *)
(***************************************************************************)

\* The type invariant: the values every variable may take.
TypeOK ==
  /\ disk \in [Name -> Blob]
  /\ sidecar \in [Request -> Path \cup {"none"}]
  /\ req \in [Request -> ReqState]
  /\ kept \in SUBSET Content
  /\ faults \in 0..MaxFaults
  /\ careful \in BOOLEAN

\* Quarantine never deletes: whatever step of a move a crash or a full disk
\* strikes at, a content the user has not thrown away is on the disk, whole,
\* as long as nobody has got in the way of a move in progress.
NeverLost == careful => \A c \in kept : \E n \in Name : disk[n].data = c

\* While nothing has failed and nobody has got in the way, such a content is
\* where the user finds it: at a path, in an entry the panel lists, or on its
\* way between the two.
Retrievable ==
  careful /\ faults = MaxFaults =>
    \A c \in kept :
      \/ \E p \in Path : disk[p].data = c
      \/ \E e \in Request :
           disk[e].data = c /\ (Listed(e) \/ \E r \in Request : Uses(r, e))

\* What no step of a restore may do to a complete file at a path.
Spares(r) ==
  \A p \in Path :
    req[r].op = "restore" /\ req'[r] # req[r] /\ disk[p].data \in Content => disk'[p] = disk[p]

\* A restore is never what replaces or truncates a complete file at a path,
\* though it checks the path some awaits before it moves.
RestoreSpares == [][\A r \in Request : Spares(r)]_vars

\* It never is as long as nobody has got in the way of a move in progress,
\* whatever moves to or from that path failed or were cut off before.
CarefulRestoreSpares == [][careful => \A r \in Request : Spares(r)]_vars

\* A restore that gets as far as its answer, with nobody in the way of a move
\* so far, leaves at the original path what the quarantine of that entry had
\* taken from there.
RestoresWhatWasTaken ==
  [][\A r \in Request :
       careful /\ req[r].op = "restore" /\ req[r].pc = "meta" /\ req'[r].pc = "over"
         /\ faults' = faults
         => /\ disk[req[r].place].data = req[req[r].entry].held
            /\ req[r].place = req[req[r].entry].place]_vars
=============================================================================
