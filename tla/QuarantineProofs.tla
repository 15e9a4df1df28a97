-------------------------- MODULE QuarantineProofs --------------------------
(***************************************************************************)
(* For any number of requests, paths, contents and failures: the types of  *)
(* the module Quarantine, and that nothing is lost until somebody gets in  *)
(* the way of a move in progress.                                          *)
(*                                                                         *)
(* The argument.  A move never writes where something is: its target was   *)
(* free when the handler checked, and while the history variable careful   *)
(* is true nobody else has put a file there.  And it never removes what is *)
(* not copied: when the source is unlinked, the target holds the same      *)
(* content, since nobody has replaced the source in between.  Neither      *)
(* depends on a step being completed, so a crash cannot break them.        *)
(***************************************************************************)
EXTENDS Quarantine, TLAPS

(***************************************************************************)
(* The inductive invariant.                                                *)
(***************************************************************************)

\* What a handler in progress remembers of its request.
Shape ==
  \A r \in Request :
    /\ req[r].pc = "idle" => req[r].op = "none"
    /\ InProgress(r) => req[r].op \in {"quarantine", "restore"} /\ req[r].place \in Path
    /\ req[r].op = "quarantine" => req[r].entry = r
    /\ req[r].op = "restore" => req[r].entry \in Request

\* A restore has its path and its entry for itself.
Alone ==
  \A r, q \in Request :
    r # q /\ InProgress(r) /\ req[r].op = "restore"
      => ~Uses(q, req[r].place) /\ ~Uses(q, req[r].entry)

\* An entry is listed after its quarantine only, and as what is restored.
Paper ==
  \A r \in Request :
    /\ req[r].op # "quarantine" \/ InProgress(r) => sidecar[r] = "none"
    /\ req[r].op = "restore" /\ InProgress(r) => sidecar[req[r].entry] = req[r].place

\* Nothing has the name of a payload before its quarantine.
Unborn == \A r \in Request : req[r].op # "quarantine" => ~Exists(r)

\* The target is free, then being filled, then a copy of the source.
DataOf(r) ==
  /\ req[r].pc = "move" => ~Exists(To(r))
  /\ req[r].pc = "copy" => /\ disk[To(r)] = [data |-> "part", writers |-> {r}]
                           /\ disk[From(r)].data \in {req[r].held, "none"}
  /\ req[r].pc = "unlink" => /\ disk[To(r)].data = req[r].held
                             /\ disk[From(r)].data \in {req[r].held, "none"}

Data == \A r \in Request : DataOf(r)

\* A file that is not there is not being written.
Tidy == \A n \in Name : ~Exists(n) => disk[n] = Absent

Safe == Alone /\ Paper /\ Unborn /\ Data /\ Tidy /\ NeverLost

IInv == TypeOK /\ Shape /\ (careful => Safe)

(***************************************************************************)
(* Types.                                                                  *)
(***************************************************************************)

\* Handlers of one kind change their own record, and keep their request.
Advance(r) ==
  \E x \in ReqState :
    /\ req' = [req EXCEPT ![r] = x]
    /\ req[r].pc # "idle" /\ x.pc # "idle"
    /\ x.op = req[r].op /\ x.entry = req[r].entry /\ x.place = req[r].place
    /\ x.pc \in {"move", "copy", "unlink", "meta"} => InProgress(r)

LEMMA Ends ==
  ASSUME TypeOK, Shape, NEW r \in Request, InProgress(r)
  PROVE  /\ From(r) \in Name /\ To(r) \in Name
         /\ req[r].op = "quarantine" => From(r) \in Path /\ To(r) = r
         /\ req[r].op = "restore" => From(r) \in Request /\ To(r) \in Path
         /\ req[r] \in ReqState
BY PathAssumption DEF TypeOK, Shape, From, To, Name, ReqState, InProgress

LEMMA Advances ==
  ASSUME TypeOK, Shape, NEW r \in Request,
         Move(r) \/ Settle(r) \/ SettleFails(r) \/ CopyFails(r)
  PROVE  Advance(r)
<1>0. /\ req[r] \in ReqState /\ req \in [Request -> ReqState] /\ disk \in [Name -> Blob]
  BY DEF TypeOK
<1>1. \A pc \in {"unlink", "meta", "over"} :
        Goto(r, pc) /\ InProgress(r) => Advance(r)
  <2> SUFFICES ASSUME NEW pc \in {"unlink", "meta", "over"}, Goto(r, pc), InProgress(r)
               PROVE  Advance(r)
    OBVIOUS
  <2> DEFINE x == [req[r] EXCEPT !.pc = pc]
  <2>1. x \in ReqState /\ x.pc = pc /\ x.op = req[r].op /\ x.entry = req[r].entry
        /\ x.place = req[r].place
    BY <1>0 DEF ReqState
  <2>2. req' = [req EXCEPT ![r] = x]
    BY DEF Goto
  <2> QED BY <2>1, <2>2 DEF Advance, InProgress
<1>2. ASSUME NEW pc \in {"copy", "meta"}, InProgress(r),
             req' = [req EXCEPT ![r].pc = pc, ![r].held = disk[From(r)].data]
      PROVE  Advance(r)
  <2>1. disk[From(r)].data \in Content \cup {"none", "part"}
    BY <1>0, <1>2, Ends DEF Blob
  <2> DEFINE x == [req[r] EXCEPT !.pc = pc, !.held = disk[From(r)].data]
  <2>2. x \in ReqState /\ x.pc = pc /\ x.op = req[r].op /\ x.entry = req[r].entry
        /\ x.place = req[r].place
    BY <1>0, <2>1 DEF ReqState
  <2>3. req' = [req EXCEPT ![r] = x]
    BY <1>2
  <2> QED BY <1>2, <2>2, <2>3 DEF Advance, InProgress
<1>3. CASE Vanished(r) \/ CopyEnd(r) \/ Unlink(r)
  BY <1>1, <1>3 DEF Vanished, CopyEnd, Unlink, InProgress, AfterMove
<1>4. CASE Rename(r) \/ CopyBegin(r)
  BY <1>2, <1>4 DEF Rename, CopyBegin, InProgress
<1>5. CASE Settle(r) \/ SettleFails(r) \/ CopyFails(r)
  BY <1>1, <1>5 DEF Settle, SettleFails, CopyFails, InProgress, Raised
<1> QED BY <1>3, <1>4, <1>5 DEF Move

LEMMA AdvancedRequests ==
  ASSUME TypeOK, Shape, NEW r \in Request, Advance(r)
  PROVE  /\ req' \in [Request -> ReqState] /\ Shape'
         /\ \A q \in Request : q # r => req'[q] = req[q]
         /\ \A q \in Request :
              /\ req'[q].op = req[q].op /\ req'[q].entry = req[q].entry
              /\ req'[q].place = req[q].place
              /\ InProgress(q)' => InProgress(q)
<1>1. PICK x \in ReqState :
        /\ req' = [req EXCEPT ![r] = x]
        /\ req[r].pc # "idle" /\ x.pc # "idle"
        /\ x.op = req[r].op /\ x.entry = req[r].entry /\ x.place = req[r].place
        /\ x.pc \in {"move", "copy", "unlink", "meta"} => InProgress(r)
  BY DEF Advance
<1>2. req \in [Request -> ReqState]
  BY DEF TypeOK
<1>3. \A q \in Request : req'[q] = IF q = r THEN x ELSE req[q]
  BY <1>1, <1>2
<1>4. \A q \in Request :
         /\ req'[q].op = req[q].op /\ req'[q].entry = req[q].entry
         /\ req'[q].place = req[q].place
         /\ InProgress(q)' => InProgress(q)
         /\ req'[q].pc = "idle" <=> req[q].pc = "idle"
  BY <1>1, <1>3 DEF InProgress
<1>5. Shape'
  BY <1>4 DEF Shape
<1> QED BY <1>1, <1>2, <1>3, <1>4, <1>5

\* A handler that begins.
Opened(r, op, e, p) ==
  /\ req[r].pc = "idle"
  /\ req' = [req EXCEPT ![r] = [op |-> op, pc |-> "move", entry |-> e,
                                place |-> p, held |-> "none"]]
  /\ e \in Request /\ p \in Path
  /\ (op = "quarantine" /\ e = r) \/ op = "restore"

LEMMA OpenedRequests ==
  ASSUME TypeOK, Shape, NEW r \in Request, NEW op, NEW e, NEW p, Opened(r, op, e, p)
  PROVE  /\ req' \in [Request -> ReqState] /\ Shape'
         /\ \A q \in Request : q # r => req'[q] = req[q]
         /\ req'[r] = [op |-> op, pc |-> "move", entry |-> e, place |-> p, held |-> "none"]
<1> DEFINE x == [op |-> op, pc |-> "move", entry |-> e, place |-> p, held |-> "none"]
<1>1. req \in [Request -> ReqState] /\ x \in ReqState
  BY DEF TypeOK, ReqState, Opened, Name
<1>2. \A q \in Request : req'[q] = IF q = r THEN x ELSE req[q]
  BY <1>1 DEF Opened
<1>3. req' \in [Request -> ReqState]
  BY <1>1 DEF Opened
<1>4. Shape'
  BY <1>2 DEF Shape, Opened, InProgress
<1> QED BY <1>2, <1>3, <1>4

LEMMA Opens ==
  ASSUME TypeOK, Shape, NEW r \in Request, QuarantineFile(r) \/ RestoreQuarantineFile(r)
  PROVE  \E op, e, p : Opened(r, op, e, p)
<1>1. CASE QuarantineFile(r)
  BY <1>1 DEF QuarantineFile, Begun, Opened
<1>2. CASE RestoreQuarantineFile(r)
  BY <1>2 DEF RestoreQuarantineFile, Begun, Opened, Listed
<1> QED BY <1>1, <1>2

LEMMA CrashedRequests ==
  ASSUME TypeOK, Shape, Crash
  PROVE  /\ req' \in [Request -> ReqState] /\ Shape'
         /\ \A q \in Request : ~InProgress(q)'
         /\ \A q \in Request : req'[q].op = req[q].op
<1>1. req \in [Request -> ReqState]
  BY DEF TypeOK
<1>2. \A q \in Request :
        /\ req'[q] \in ReqState /\ req'[q].op = req[q].op /\ req'[q].entry = req[q].entry
        /\ req'[q].pc = "idle" <=> req[q].pc = "idle"
        /\ req'[q].pc \notin {"move", "copy", "unlink", "meta"}
  BY <1>1 DEF Crash, InProgress, ReqState
<1>3. req' \in [Request -> ReqState]
  BY <1>2 DEF Crash
<1> QED BY <1>2, <1>3 DEF Shape, InProgress

LEMMA RequestTypes ==
  ASSUME TypeOK, Shape, [Next]_vars
  PROVE  req' \in [Request -> ReqState] /\ Shape'
<1>1. ASSUME NEW r \in Request, Handler(r) \/ Failure(r)
      PROVE  req' \in [Request -> ReqState] /\ Shape'
  <2>1. CASE QuarantineFile(r) \/ RestoreQuarantineFile(r)
    BY <2>1, Opens, OpenedRequests
  <2>2. CASE Move(r) \/ Settle(r) \/ SettleFails(r) \/ CopyFails(r)
    BY <2>2, Advances, AdvancedRequests
  <2> QED BY <1>1, <2>1, <2>2 DEF Handler, Failure
<1>2. CASE UNCHANGED req
  BY <1>2 DEF TypeOK, Shape, InProgress
<1>3. CASE User
  BY <1>2, <1>3 DEF User, Save, Delete
<1>4. CASE Crash
  BY <1>4, CrashedRequests
<1> QED BY <1>1, <1>2, <1>3, <1>4 DEF Next, vars

LEMMA TypeStep ==
  ASSUME TypeOK, Shape, [Next]_vars
  PROVE  TypeOK' /\ Shape'
<1>0. /\ disk \in [Name -> Blob] /\ req \in [Request -> ReqState]
      /\ kept \in SUBSET Content /\ faults \in 0..MaxFaults /\ careful \in BOOLEAN
      /\ sidecar \in [Request -> Path \cup {"none"}] /\ MaxFaults \in Nat
  BY BoundsAssumption DEF TypeOK
<1>1. Absent \in Blob /\ \A c \in Content \cup {"none", "part"} : Whole(c) \in Blob
  BY DEF Absent, Whole, Blob
<1>C. careful' \in BOOLEAN
  <2>1. \A ok : Clear(ok) => careful' \in BOOLEAN
    BY DEF Clear
  <2>2. UNCHANGED careful \/ \E ok : Clear(ok)
    BY DEF Next, vars, Handler, Failure, QuarantineFile, RestoreQuarantineFile, Move, Vanished,
           Rename, CopyBegin, CopyEnd, Unlink, Settle, SettleFails, CopyFails, User, Save,
           Delete, Crash
  <2> QED BY <1>0, <2>1, <2>2
<1>2. ASSUME UNCHANGED <<disk, sidecar, kept>>, careful' \in BOOLEAN,
             UNCHANGED faults \/ Fault
      PROVE  TypeOK' /\ Shape'
  <2>1. faults' \in 0..MaxFaults
    BY <1>0, <1>2 DEF Fault
  <2> QED BY <1>0, <1>2, <2>1, RequestTypes DEF TypeOK
<1>3. ASSUME disk' \in [Name -> Blob], sidecar' \in [Request -> Path \cup {"none"}],
             kept' \in SUBSET Content, UNCHANGED faults, careful' \in BOOLEAN
      PROVE  TypeOK' /\ Shape'
  BY <1>0, <1>3, RequestTypes DEF TypeOK
<1>4. ASSUME NEW r \in Request, Move(r)
      PROVE  TypeOK' /\ Shape'
  <2>1. CASE Vanished(r)
    BY <1>C, <1>2, <2>1 DEF Vanished
  <2>2. CASE Rename(r)
    <3>1. disk[From(r)] \in Blob
      BY <1>0, <2>2, Ends DEF Rename, InProgress
    <3>2. disk' \in [Name -> Blob]
      BY <1>0, <1>1, <2>2, <3>1 DEF Rename
    <3> QED BY <1>0, <1>C, <1>3, <2>2, <3>2 DEF Rename
  <2>3. CASE CopyBegin(r)
    <3>1. disk[To(r)] \in Blob
      BY <1>0, <2>3, Ends DEF CopyBegin, InProgress
    <3>2. [data |-> "part", writers |-> disk[To(r)].writers \cup {r}] \in Blob
      BY <3>1 DEF Blob
    <3>3. disk' \in [Name -> Blob]
      BY <1>0, <2>3, <3>2 DEF CopyBegin
    <3> QED BY <1>0, <1>C, <1>3, <2>3, <3>3 DEF CopyBegin
  <2>4. CASE CopyEnd(r)
    <3>1. disk[To(r)] \in Blob /\ req[r].held \in Content \cup {"none", "part"}
      BY <1>0, <2>4, Ends DEF CopyEnd, InProgress, ReqState
    <3>2. \A d \in {"part", req[r].held} : [disk[To(r)] EXCEPT !.data = d] \in Blob
      BY <3>1 DEF Blob
    <3>3. disk' \in [Name -> Blob]
      BY <1>0, <1>1, <2>4, <3>1, <3>2 DEF CopyEnd
    <3> QED BY <1>0, <1>C, <1>3, <2>4, <3>3 DEF CopyEnd
  <2>5. CASE Unlink(r)
    <3>1. disk' \in [Name -> Blob]
      BY <1>0, <1>1, <2>5 DEF Unlink
    <3> QED BY <1>0, <1>C, <1>3, <2>5, <3>1 DEF Unlink
  <2> QED BY <1>4, <2>1, <2>2, <2>3, <2>4, <2>5 DEF Move
<1>5. ASSUME NEW r \in Request, QuarantineFile(r) \/ RestoreQuarantineFile(r)
                                \/ SettleFails(r) \/ CopyFails(r)
      PROVE  TypeOK' /\ Shape'
  BY <1>C, <1>2, <1>5 DEF QuarantineFile, RestoreQuarantineFile, SettleFails, CopyFails
<1>6. ASSUME NEW r \in Request, Settle(r)
      PROVE  TypeOK' /\ Shape'
  <2>1. req[r].place \in Path \cup {"none"}
    BY <1>0 DEF ReqState
  <2>2. sidecar' \in [Request -> Path \cup {"none"}]
    BY <1>0, <1>6, <2>1 DEF Settle, Original
  <2> QED BY <1>0, <1>C, <1>3, <1>6, <2>2 DEF Settle
<1>7. CASE User
  <2>1. CASE \E p \in Path : Save(p)
    <3>1. PICK p \in Path : Save(p)
      BY <2>1
    <3>2. PICK c \in Content : /\ disk' = [disk EXCEPT ![p] = Whole(c)]
                                /\ kept' = (kept \ {disk[p].data}) \cup {c}
      BY <3>1 DEF Save
    <3>3. disk' \in [Name -> Blob] /\ kept' \in SUBSET Content
      BY <1>0, <1>1, <3>2
    <3> QED BY <1>0, <1>C, <1>3, <3>1, <3>3 DEF Save
  <2>2. CASE \E n \in Name : Delete(n)
    BY <1>0, <1>C, <1>1, <1>3, <2>2 DEF Delete
  <2> QED BY <1>7, <2>1, <2>2 DEF User
<1>8. CASE Crash
  BY <1>C, <1>2, <1>8 DEF Crash
<1>9. CASE UNCHANGED vars
  BY <1>C, <1>2, <1>9 DEF vars
<1> QED BY <1>4, <1>5, <1>6, <1>7, <1>8, <1>9 DEF Next, Handler, Failure

(***************************************************************************)
(* Nothing is lost.                                                        *)
(***************************************************************************)

\* Two requests in progress write to different files, and neither writes to
\* the file the other reads.
LEMMA Apart ==
  ASSUME TypeOK, Shape, Alone, NEW r \in Request, NEW q \in Request, InProgress(r)
  PROVE  /\ From(r) # To(r)
         /\ q # r /\ InProgress(q) => /\ To(r) # To(q) /\ To(r) # From(q)
                                      /\ From(r) # To(q)
<1>1. \A x \in Request : InProgress(x) =>
        \/ req[x].op = "quarantine" /\ From(x) = req[x].place /\ To(x) = x
           /\ req[x].place \in Path /\ Uses(x, x) /\ Uses(x, req[x].place)
        \/ req[x].op = "restore" /\ From(x) = req[x].entry /\ To(x) = req[x].place
           /\ req[x].place \in Path /\ req[x].entry \in Request
           /\ Uses(x, req[x].entry) /\ Uses(x, req[x].place)
  BY DEF Shape, From, To, Uses
<1> QED BY <1>1, PathAssumption DEF Alone

LEMMA AbsentData == Absent.data = "none" /\ \A c : Whole(c).data = c
BY DEF Absent, Whole

\* What a step that touches no file of q leaves of q, but for a source that
\* has gone.
LEMMA OtherData ==
  ASSUME NEW q \in Request, DataOf(q), UNCHANGED req[q],
         InProgress(q) => /\ disk'[To(q)] = disk[To(q)]
                          /\ disk'[From(q)].data \in {disk[From(q)].data, "none"}
  PROVE  DataOf(q)'
BY DEF DataOf, InProgress, Exists, To, From

\* The records of the requests after a step of a handler in progress.
LEMMA StillAlone ==
  ASSUME Alone, Paper, UNCHANGED sidecar,
         \A q \in Request :
              /\ req'[q].op = req[q].op /\ req'[q].entry = req[q].entry
              /\ req'[q].place = req[q].place
              /\ InProgress(q)' => InProgress(q)
  PROVE  Alone' /\ Paper'
BY DEF Alone, Paper, Uses

\* Contents of a disk that kept, or moved, all it held.
LEMMA NothingRemoved ==
  ASSUME careful => NeverLost, UNCHANGED <<kept, careful>>, TypeOK,
         \A n \in Name : disk[n].data \in Content =>
            \E m \in Name : disk'[m].data = disk[n].data
  PROVE  NeverLost'
BY DEF NeverLost, TypeOK

LEMMA MoveSafe ==
  ASSUME IInv, careful, NEW r \in Request, Move(r)
  PROVE  Safe'
<1>0. /\ TypeOK /\ Shape /\ Alone /\ Paper /\ Unborn /\ Data /\ Tidy /\ NeverLost
      /\ disk \in [Name -> Blob] /\ req \in [Request -> ReqState]
  BY DEF IInv, Safe, TypeOK
<1>1. /\ \A q \in Request : q # r => req'[q] = req[q]
      /\ \A q \in Request :
           /\ req'[q].op = req[q].op /\ req'[q].entry = req[q].entry
           /\ req'[q].place = req[q].place
           /\ InProgress(q)' => InProgress(q)
  BY <1>0, Advances, AdvancedRequests
<1>2. Alone' /\ Paper'
  BY <1>0, <1>1, StillAlone DEF Move, Vanished, Rename, CopyBegin, CopyEnd, Unlink
<1>3. /\ InProgress(r) /\ UNCHANGED <<kept, careful>>
      /\ From(r) \in Name /\ To(r) \in Name /\ From(r) # To(r)
      /\ To(r) \in Request => To(r) = r /\ req[r].op = "quarantine"
  <2>1. InProgress(r) /\ UNCHANGED <<kept, careful>>
    BY DEF Move, Vanished, Rename, CopyBegin, CopyEnd, Unlink, InProgress
  <2>2. req[r].op \in {"quarantine", "restore"}
    BY <1>0, <2>1 DEF Shape
  <2> QED BY <1>0, <2>1, <2>2, Ends, Apart, PathAssumption
<1>4. From(r)' = From(r) /\ To(r)' = To(r)
  BY <1>1 DEF From, To
\* It is enough to say what became of the two files.
<1>5. ASSUME NEW source, NEW target,
             disk' = [disk EXCEPT ![To(r)] = target, ![From(r)] = source],
             source = disk[From(r)] \/ source = Absent,
             target.data = "none" => target = Absent,
             DataOf(r)',
             disk[From(r)].data \in Content => disk[From(r)].data \in {source.data, target.data},
             disk[To(r)].data \in Content => disk[To(r)].data = target.data
      PROVE  Safe'
  <2>1. \A n \in Name : disk'[n] = IF n = From(r) THEN source ELSE IF n = To(r) THEN target
                                   ELSE disk[n]
    BY <1>0, <1>3, <1>5
  <2>2. Data'
    <3>1. ASSUME NEW q \in Request, q # r
          PROVE  DataOf(q)'
      <4>1. InProgress(q) => /\ To(r) # To(q) /\ To(r) # From(q) /\ From(r) # To(q)
                             /\ To(q) \in Name /\ From(q) \in Name
        BY <1>0, <1>3, <3>1, Apart, Ends
      <4>2. InProgress(q) => /\ disk'[To(q)] = disk[To(q)]
                             /\ disk'[From(q)].data \in {disk[From(q)].data, "none"}
        BY <1>5, <2>1, <4>1, AbsentData
      <4> QED BY <1>0, <1>1, <3>1, <4>2, OtherData DEF Data
    <3> QED BY <1>5, <3>1 DEF Data
  <2>3. Unborn'
    <3>1. ASSUME NEW q \in Request, req[q].op # "quarantine"
          PROVE  disk'[q].data = "none"
      BY <1>0, <1>3, <1>5, <2>1, <3>1, AbsentData DEF Unborn, Exists, Name
    <3> QED BY <1>1, <3>1 DEF Unborn, Exists
  <2>4. Tidy'
    BY <1>0, <1>3, <1>5, <2>1, AbsentData DEF Tidy, Exists
  <2>5. NeverLost'
    <3>1. ASSUME NEW n \in Name, disk[n].data \in Content
          PROVE  \E m \in Name : disk'[m].data = disk[n].data
      BY <1>3, <1>5, <2>1, <3>1
    <3> QED BY <1>0, <1>3, <3>1, NothingRemoved
  <2> QED BY <1>2, <2>2, <2>3, <2>4, <2>5 DEF Safe
<1>6. CASE Vanished(r)
  <2>1. req'[r].pc = "over" /\ UNCHANGED disk
    BY <1>0, <1>6 DEF Vanished, Goto
  <2>2. disk = [disk EXCEPT ![To(r)] = disk[To(r)], ![From(r)] = disk[From(r)]]
    BY <1>0
  <2>3. disk[To(r)].data = "none" => disk[To(r)] = Absent
    BY <1>0, <1>3 DEF Tidy, Exists
  <2> QED BY <1>5, <2>1, <2>2, <2>3 DEF DataOf
<1>7. CASE Rename(r)
  <2>1. req'[r].pc = "meta"
    BY <1>0, <1>7 DEF Rename
  <2>2. disk[From(r)].data # "none" /\ disk[To(r)].data = "none"
    BY <1>0, <1>7 DEF Rename, Exists, Data, DataOf
  <2> QED BY <1>5, <1>7, <2>1, <2>2, ContentAssumption DEF DataOf, Rename
<1>8. CASE CopyBegin(r)
  <2>1. req'[r].pc = "copy" /\ req'[r].held = disk[From(r)].data
    BY <1>0, <1>8 DEF CopyBegin
  <2>2. disk[To(r)] = Absent
    BY <1>0, <1>3, <1>8 DEF CopyBegin, Exists, Data, DataOf, Tidy
  <2> DEFINE target == [data |-> "part", writers |-> {r}]
  <2>3. disk' = [disk EXCEPT ![To(r)] = target, ![From(r)] = disk[From(r)]]
    <3>1. disk[To(r)].writers = {}
      BY <2>2 DEF Absent
    <3>2. disk' = [disk EXCEPT ![To(r)] = target]
      BY <1>8, <3>1 DEF CopyBegin
    <3> QED BY <1>0, <1>3, <3>2
  <2>4. disk'[To(r)] = target /\ disk'[From(r)] = disk[From(r)]
    BY <1>0, <1>3, <2>3
  <2>5. DataOf(r)'
    BY <1>4, <2>1, <2>4 DEF DataOf
  <2>6. target.data = "part" /\ disk[To(r)].data = "none"
    BY <2>2, AbsentData
  <2> HIDE DEF target
  <2> QED BY <1>5, <2>3, <2>5, <2>6, ContentAssumption
<1>9. CASE CopyEnd(r)
  <2>1. /\ disk[To(r)] = [data |-> "part", writers |-> {r}]
        /\ disk[From(r)].data \in {req[r].held, "none"}
    BY <1>0, <1>9 DEF CopyEnd, Data, DataOf
  <2>2. disk' = [disk EXCEPT ![To(r)] = Whole(req[r].held), ![From(r)] = disk[From(r)]]
    BY <1>0, <1>3, <1>9, <2>1 DEF CopyEnd
  <2>3. req'[r].pc = "unlink" /\ req'[r].held = req[r].held
    BY <1>0, <1>9 DEF CopyEnd, Goto
  <2>4. disk'[To(r)] = Whole(req[r].held) /\ disk'[From(r)] = disk[From(r)]
    BY <1>0, <1>3, <2>2
  <2>5. DataOf(r)'
    BY <1>4, <2>1, <2>3, <2>4, AbsentData DEF DataOf
  <2>6. Whole(req[r].held).data = "none" => Whole(req[r].held) = Absent
    BY DEF Whole, Absent
  <2>7. /\ Whole(req[r].held).data = req[r].held /\ disk[To(r)].data = "part"
        /\ disk[From(r)].data \in Content => disk[From(r)].data = req[r].held
    BY <2>1, AbsentData, ContentAssumption
  <2> QED BY <1>5, <2>2, <2>5, <2>6, <2>7, ContentAssumption
<1>10. CASE Unlink(r)
  <2>1. req'[r].pc = "meta"
    BY <1>0, <1>10 DEF Unlink, Goto, AfterMove
  <2>2. disk[From(r)].data = disk[To(r)].data
    BY <1>0, <1>10 DEF Unlink, Data, DataOf, Exists
  <2>3. disk' = [disk EXCEPT ![To(r)] = disk[To(r)], ![From(r)] = Absent]
    BY <1>0, <1>3, <1>10 DEF Unlink
  <2>4. disk[To(r)].data = "none" => disk[To(r)] = Absent
    BY <1>0, <1>3 DEF Tidy, Exists
  <2> QED BY <1>5, <2>1, <2>2, <2>3, <2>4 DEF DataOf
<1> QED BY <1>6, <1>7, <1>8, <1>9, <1>10 DEF Move

\* A handler that begins has a free target, and its path to itself if it is
\* a restore.
LEMMA BeginSafe ==
  ASSUME IInv, careful, careful', NEW r \in Request, QuarantineFile(r) \/ RestoreQuarantineFile(r)
  PROVE  Safe'
<1>0. /\ TypeOK /\ Shape /\ Alone /\ Paper /\ Unborn /\ Data /\ Tidy /\ NeverLost
      /\ UNCHANGED <<disk, sidecar, kept, faults>>
  BY DEF IInv, Safe, QuarantineFile, RestoreQuarantineFile
<1>1. Tidy' /\ NeverLost'
  BY <1>0 DEF Tidy, NeverLost, Exists
<1>2. ASSUME NEW op, NEW e, NEW p, Opened(r, op, e, p),
             Exists(IF op = "quarantine" THEN p ELSE e),
             ~Exists(IF op = "quarantine" THEN e ELSE p),
             op = "quarantine" => sidecar[r] = "none",
             op = "restore" => sidecar[e] = p,
             \A q \in Request : op = "restore" \/ req[q].op = "restore"
                                  => ~Uses(q, p) /\ ~Uses(q, e)
      PROVE  Safe'
  <2>1. /\ \A q \in Request : q # r => req'[q] = req[q]
        /\ req'[r].op = op /\ req'[r].pc = "move" /\ req'[r].entry = e /\ req'[r].place = p
    <3>1. /\ \A q \in Request : q # r => req'[q] = req[q]
          /\ req'[r] = [op |-> op, pc |-> "move", entry |-> e, place |-> p, held |-> "none"]
      BY <1>0, <1>2, OpenedRequests
    <3> QED BY <3>1
  <2>2. /\ req[r].op = "none" /\ op \in {"quarantine", "restore"}
        /\ \A q \in Request : q # r => (InProgress(q)' <=> InProgress(q))
    BY <1>0, <1>2, <2>1 DEF Opened, Shape, InProgress
  <2>3. Alone'
    BY <1>0, <1>2, <2>1, <2>2 DEF Alone, Uses
  <2>4. Paper'
    <3>1. sidecar[r] = "none"
      BY <1>0, <2>2 DEF Paper
    <3> QED BY <1>0, <1>2, <2>1, <2>2, <3>1 DEF Paper
  <2>5. Unborn'
    BY <1>0, <2>1, <2>2 DEF Unborn, Exists
  <2>6. Data'
    <3>1. ASSUME NEW q \in Request, q # r
          PROVE  DataOf(q)'
      BY <1>0, <2>1, <3>1, OtherData DEF Data
    <3>2. DataOf(r)'
      BY <1>0, <1>2, <2>1, <2>2 DEF DataOf, To, Exists
    <3> QED BY <3>1, <3>2 DEF Data
  <2> QED BY <1>1, <2>3, <2>4, <2>5, <2>6 DEF Safe
<1>3. CASE QuarantineFile(r)
  <2>1. PICK p \in Path : /\ Exists(p)
                          /\ \A q \in Request : req[q].op = "restore" => ~Uses(q, p)
                          /\ Begun(r, "quarantine", r, p)
    BY <1>3 DEF QuarantineFile, Clear
  <2>2. Opened(r, "quarantine", r, p) /\ req[r].op = "none"
    BY <1>0, <1>3, <2>1 DEF QuarantineFile, Begun, Opened, Shape
  <2>3. ~Exists(r) /\ sidecar[r] = "none"
    BY <1>0, <2>2 DEF Unborn, Paper
  <2>4. \A q \in Request : req[q].op = "restore" => ~Uses(q, r)
    BY <1>0, <2>3, NoPathAssumption, PathAssumption DEF Paper, Shape, Uses
  <2> QED BY <1>2, <2>1, <2>2, <2>3, <2>4
<1>4. CASE RestoreQuarantineFile(r)
  <2>1. PICK e \in Request :
          /\ Listed(e) /\ FreeTarget(sidecar[e])
          /\ \A q \in Request : ~Uses(q, sidecar[e]) /\ ~Uses(q, e)
          /\ Begun(r, "restore", e, sidecar[e])
    BY <1>4 DEF RestoreQuarantineFile, Clear
  <2>2. Opened(r, "restore", e, sidecar[e]) /\ Exists(e) /\ ~Exists(sidecar[e])
    BY <1>4, <2>1 DEF RestoreQuarantineFile, Begun, Opened, Listed, FreeTarget
  <2> QED BY <1>2, <2>1, <2>2
<1> QED BY <1>3, <1>4

LEMMA EndSafe ==
  ASSUME IInv, careful, NEW r \in Request, Settle(r) \/ SettleFails(r) \/ CopyFails(r)
  PROVE  Safe'
<1>0. /\ TypeOK /\ Shape /\ Alone /\ Paper /\ Unborn /\ Data /\ Tidy /\ NeverLost
      /\ UNCHANGED <<disk, kept, careful>>
      /\ req \in [Request -> ReqState] /\ sidecar \in [Request -> Path \cup {"none"}]
  BY DEF IInv, Safe, Settle, SettleFails, CopyFails, TypeOK
<1>1. /\ \A q \in Request : q # r => req'[q] = req[q]
      /\ \A q \in Request :
           /\ req'[q].op = req[q].op /\ req'[q].entry = req[q].entry
           /\ req'[q].place = req[q].place
           /\ InProgress(q)' => InProgress(q)
  BY <1>0, Advances, AdvancedRequests
<1>2. InProgress(r) /\ req'[r].pc = "over"
  <2>1. req[r].pc \in {"copy", "meta"} /\ Goto(r, "over")
    BY DEF Settle, SettleFails, CopyFails, Raised
  <2> QED BY <1>0, <2>1 DEF Goto, InProgress
<1>3. Tidy' /\ NeverLost' /\ Unborn'
  BY <1>0, <1>1 DEF Tidy, NeverLost, Unborn, Exists
<1>4. Data'
  <2>1. ASSUME NEW q \in Request, q # r
        PROVE  DataOf(q)'
    BY <1>0, <1>1, <2>1, OtherData DEF Data
  <2>2. DataOf(r)'
    BY <1>2 DEF DataOf
  <2> QED BY <2>1, <2>2 DEF Data
<1>5. CASE SettleFails(r) \/ CopyFails(r)
  BY <1>0, <1>1, <1>3, <1>4, <1>5, StillAlone DEF SettleFails, CopyFails, Safe
<1>6. CASE Settle(r)
  <2>1. Alone'
    BY <1>0, <1>1 DEF Alone, Uses
  <2>2. \A e \in Request : e # req[r].entry => sidecar'[e] = sidecar[e]
    BY <1>0, <1>6 DEF Settle
  <2>3. req[r].op = "restore" => sidecar'[req[r].entry] = "none"
    BY <1>0, <1>6 DEF Settle, Shape
  <2>4. req[r].op = "quarantine" => req[r].entry = r
    BY <1>0 DEF Shape
  <2>5. req[r].op \in {"quarantine", "restore"} /\ Uses(r, req[r].entry) /\ ~InProgress(r)'
    BY <1>0, <1>2 DEF Shape, Uses, InProgress
  <2>6. ASSUME NEW q \in Request, req[q].op = "restore", InProgress(q)'
        PROVE  sidecar'[req[q].entry] = req[q].place
    <3>1. q # r /\ req[q].entry \in Request /\ InProgress(q)
      BY <1>0, <1>1, <2>5, <2>6 DEF Shape
    <3>2. req[q].entry # req[r].entry
      BY <1>0, <2>5, <2>6, <3>1 DEF Alone
    <3> QED BY <1>0, <2>2, <2>6, <3>1, <3>2 DEF Paper
  <2>7. ASSUME NEW q \in Request, req[q].op # "quarantine" \/ InProgress(q)'
        PROVE  sidecar'[q] = "none"
    <3>1. req[q].op # "quarantine" \/ InProgress(q)
      BY <1>1, <2>7
    <3>2. sidecar[q] = "none"
      BY <1>0, <3>1 DEF Paper
    <3> QED BY <2>2, <2>3, <2>4, <2>5, <2>7, <3>2
  <2>8. Paper'
    BY <1>1, <2>6, <2>7 DEF Paper
  <2> QED BY <1>3, <1>4, <2>1, <2>8 DEF Safe
<1> QED BY <1>5, <1>6

\* What Save and Delete keep to while careful stays true.
InNobodysWay(n, f) ==
  \A r \in Request : /\ InProgress(r) => n # To(r)
                     /\ req[r].pc \in {"copy", "unlink"} => n # From(r) \/ f.data = "none"

LEMMA OutsideSafe ==
  ASSUME IInv, careful, careful', User \/ Crash \/ UNCHANGED vars
  PROVE  Safe'
<1>0. /\ TypeOK /\ Shape /\ Alone /\ Paper /\ Unborn /\ Data /\ Tidy /\ NeverLost
      /\ disk \in [Name -> Blob] /\ kept \in SUBSET Content
  BY DEF IInv, Safe, TypeOK
\* A name nobody moves to, nor copies from, gets a new file; or a name nobody
\* moves to loses the one it had.
<1>1. ASSUME NEW n \in Name, NEW f, UNCHANGED <<sidecar, req>>, InNobodysWay(n, f),
             disk' = [disk EXCEPT ![n] = f], f.data = "none" => f = Absent,
             n \in Request => f = Absent,
             \A c \in kept' : c = f.data \/ c \in kept \ {disk[n].data}
      PROVE  Safe'
  <2>1. \A m \in Name : disk'[m] = IF m = n THEN f ELSE disk[m]
    BY <1>0, <1>1
  <2>2. Alone' /\ Paper'
    BY <1>0, <1>1 DEF Alone, Paper, Uses, InProgress
  <2>3. Unborn'
    <3>1. ASSUME NEW q \in Request, req[q].op # "quarantine"
          PROVE  disk'[q].data = "none"
      BY <1>0, <1>1, <2>1, <3>1, AbsentData DEF Unborn, Exists, Name
    <3> QED BY <1>1, <3>1 DEF Unborn, Exists
  <2>4. Data'
    <3>1. ASSUME NEW q \in Request
          PROVE  DataOf(q)'
      <4>1. InProgress(q) => From(q) \in Name /\ To(q) \in Name /\ To(q) # n
        BY <1>0, <1>1, Ends DEF InNobodysWay
      <4>2. InProgress(q) => disk'[To(q)] = disk[To(q)]
        BY <2>1, <4>1
      <4>3. CASE req[q].pc \in {"copy", "unlink"}
        <5>1. disk'[From(q)].data \in {disk[From(q)].data, "none"}
          BY <1>1, <2>1, <4>1, <4>3 DEF InNobodysWay, InProgress
        <5> QED BY <1>0, <1>1, <4>2, <5>1, OtherData DEF Data
      <4>4. CASE req[q].pc \notin {"copy", "unlink"}
        BY <1>0, <1>1, <4>2, <4>4 DEF Data, DataOf, InProgress, Exists, To
      <4> QED BY <4>3, <4>4
    <3> QED BY <3>1 DEF Data
  <2>5. Tidy'
    BY <1>0, <1>1, <2>1 DEF Tidy, Exists
  <2>6. NeverLost'
    <3>1. ASSUME NEW c \in kept'
          PROVE  \E m \in Name : disk'[m].data = c
      BY <1>0, <1>1, <2>1, <3>1 DEF NeverLost
    <3> QED BY <3>1 DEF NeverLost
  <2> QED BY <2>2, <2>3, <2>4, <2>5, <2>6 DEF Safe
<1>2. ASSUME NEW p \in Path, Save(p)
      PROVE  Safe'
  <2>1. PICK c \in Content : /\ disk' = [disk EXCEPT ![p] = Whole(c)]
                             /\ kept' = (kept \ {disk[p].data}) \cup {c}
    BY <1>2 DEF Save
  <2>2. p \in Name /\ p \notin Request /\ Whole(c).data = c /\ c # "none"
    BY PathAssumption, ContentAssumption, AbsentData DEF Name
  <2> QED BY <1>1, <1>2, <2>1, <2>2 DEF Save, Clear, InNobodysWay, InProgress
<1>3. ASSUME NEW n \in Name, Delete(n)
      PROVE  Safe'
  <2>1. InNobodysWay(n, Absent)
    BY <1>3, AbsentData DEF Delete, Clear, InNobodysWay
  <2>2. \A c \in kept' : c \in kept \ {disk[n].data}
    BY <1>3 DEF Delete
  <2> QED BY <1>1, <1>3, <2>1, <2>2 DEF Delete
<1>4. CASE Crash
  <2>1. /\ \A q \in Request : ~InProgress(q)' /\ req'[q].op = req[q].op
        /\ UNCHANGED <<disk, sidecar, kept>>
    BY <1>0, <1>4, CrashedRequests DEF Crash
  <2>2. Alone' /\ Paper' /\ Data'
    BY <1>0, <2>1 DEF Alone, Paper, Data, DataOf, InProgress
  <2>3. Unborn' /\ Tidy' /\ NeverLost'
    BY <1>0, <2>1 DEF Unborn, Tidy, NeverLost, Exists
  <2> QED BY <2>2, <2>3 DEF Safe
<1>5. CASE UNCHANGED vars
  <2>1. Alone' /\ Paper' /\ Unborn' /\ Tidy' /\ NeverLost'
    BY <1>0, <1>5 DEF vars, Alone, Paper, Unborn, Tidy, NeverLost, Exists, Uses, InProgress
  <2>2. Data'
    BY <1>0, <1>5, OtherData DEF vars, Data
  <2> QED BY <2>1, <2>2 DEF Safe
<1> QED BY <1>2, <1>3, <1>4, <1>5 DEF User

LEMMA Initially ==
  ASSUME Init
  PROVE  IInv
<1>1. Absent \in Blob /\ \A n \in Name : disk[n] = Absent
  BY DEF Init, Absent, Blob
<1>2. TypeOK
  BY <1>1, BoundsAssumption DEF Init, TypeOK, ReqState, Name
<1>3. \A r \in Request : req[r].op = "none" /\ req[r].pc = "idle"
  BY DEF Init
<1>4. Shape /\ Alone /\ Data
  BY <1>3 DEF Shape, Alone, Data, DataOf, InProgress
<1>5. Paper /\ Unborn /\ Tidy /\ NeverLost
  BY <1>1, <1>3, AbsentData DEF Init, Paper, Unborn, Tidy, NeverLost, InProgress, Exists, Name
<1> QED BY <1>2, <1>4, <1>5 DEF IInv, Safe

LEMMA Inductive ==
  ASSUME IInv, [Next]_vars
  PROVE  IInv'
<1>1. TypeOK' /\ Shape'
  BY TypeStep DEF IInv
<1>2. careful' => careful
  BY DEF Clear, Next, vars, Handler, Failure, QuarantineFile, RestoreQuarantineFile, Move, Vanished,
         Rename, CopyBegin, CopyEnd, Unlink, Settle, SettleFails, CopyFails, User, Save,
         Delete, Crash
<1>3. careful' => Safe'
  BY <1>2, MoveSafe, BeginSafe, EndSafe, OutsideSafe DEF IInv, Next, Handler, Failure
<1> QED BY <1>1, <1>2, <1>3 DEF IInv

\* Every variable keeps its type, for any number of requests and failures.
THEOREM QuarantineTypes == Spec => []TypeOK
<1>1. Init => IInv
  BY Initially
<1>2. IInv /\ [Next]_vars => IInv'
  BY Inductive
<1>3. IInv => TypeOK
  BY DEF IInv
<1> QED BY <1>1, <1>2, <1>3, PTL DEF Spec

\* Until somebody gets in the way of a move in progress, quarantining and
\* restoring lose nothing the user has not thrown away, at whatever step a
\* process or a disk fails.
THEOREM NothingIsLost == Spec => []NeverLost
<1>1. Init => IInv
  BY Initially
<1>2. IInv /\ [Next]_vars => IInv'
  BY Inductive
<1>3. IInv => NeverLost
  BY DEF IInv, Safe, NeverLost
<1> QED BY <1>1, <1>2, <1>3, PTL DEF Spec

(***************************************************************************)
(* Where a content is found while nothing has failed.  That a request uses *)
(* the entry that holds it is not enough to go on with: of two quarantines *)
(* of one path, one unlinks it and the other then ends with a payload that *)
(* is never listed.  But the first has filed a copy before that.           *)
(***************************************************************************)

\* The entry is listed, or all that is missing is its sidecar.
Filed(e) == sidecar[e] \in Path \/ (req[e].op = "quarantine" /\ req[e].pc = "meta")

Anchored(c) ==
  \/ \E p \in Path : disk[p].data = c
  \/ \E e \in Request : disk[e].data = c /\ Filed(e)

Anchors == faults = MaxFaults => \A c \in kept : Anchored(c)

\* When a restore removes the sidecar, the payload is no longer there.
Gone ==
  \A r \in Request : req[r].op = "restore" /\ req[r].pc = "meta" => ~Exists(req[r].entry)

Found == Anchors /\ Gone

LEMMA MoveFound ==
  ASSUME IInv, careful, Found, NEW r \in Request, Move(r)
  PROVE  Found'
<1>0. /\ TypeOK /\ Shape /\ Alone /\ Data /\ Anchors /\ Gone
      /\ disk \in [Name -> Blob] /\ req \in [Request -> ReqState] /\ kept \in SUBSET Content
  BY DEF IInv, Safe, TypeOK, Found
<1>1. /\ \A q \in Request : q # r => req'[q] = req[q]
      /\ req'[r].op = req[r].op /\ req'[r].entry = req[r].entry /\ req'[r].place = req[r].place
      /\ UNCHANGED <<sidecar, kept, faults, careful>>
  BY <1>0, Advances, AdvancedRequests DEF Move, Vanished, Rename, CopyBegin, CopyEnd, Unlink
<1>2. /\ InProgress(r) /\ req[r].pc # "meta"
      /\ From(r) \in Name /\ To(r) \in Name /\ From(r) # To(r)
      /\ \/ req[r].op = "quarantine" /\ From(r) \in Path /\ To(r) = r
         \/ req[r].op = "restore" /\ From(r) = req[r].entry /\ From(r) \in Request /\ To(r) \in Path
  <2>1. InProgress(r) /\ req[r].pc # "meta"
    BY DEF Move, Vanished, Rename, CopyBegin, CopyEnd, Unlink, InProgress
  <2>2. req[r].op \in {"quarantine", "restore"}
    BY <1>0, <2>1 DEF Shape
  <2> QED BY <1>0, <2>1, <2>2, Ends, Apart DEF From
<1>3. Path \cap Request = {} /\ Path \subseteq Name /\ Request \subseteq Name
  BY PathAssumption DEF Name
\* Other files stay; the target is no place of a content, and the source stays
\* or leaves its content to the target.
<1>4. ASSUME \A n \in Name : n # From(r) /\ n # To(r) => disk'[n] = disk[n],
             disk[To(r)].data \notin Content \/ disk'[To(r)].data = disk[To(r)].data,
             \/ disk'[From(r)].data = disk[From(r)].data
             \/ /\ disk'[To(r)].data = disk[From(r)].data /\ req'[r].pc = "meta"
                /\ disk'[From(r)].data = "none",
             req'[r].pc = "meta" => disk'[From(r)].data = "none"
      PROVE  Found'
  <2>1. ASSUME NEW e \in Request, Filed(e)
        PROVE  Filed(e)'
    BY <1>1, <1>2, <2>1 DEF Filed
  <2>2. ASSUME NEW c \in Content, Anchored(c)
        PROVE  Anchored(c)'
    <3>1. \A n \in Name : disk[n].data = c => disk'[n].data = c \/ n = From(r)
      BY <1>4, <2>2
    <3>2. CASE disk'[From(r)].data = disk[From(r)].data
      BY <1>2, <1>3, <2>1, <2>2, <3>1, <3>2 DEF Anchored
    <3>3. CASE disk'[To(r)].data = disk[From(r)].data /\ req'[r].pc = "meta"
      <4>1. CASE disk[From(r)].data = c
        <5>1. disk'[To(r)].data = c
          BY <3>3, <4>1
        <5>2. req[r].op = "quarantine" => Filed(r)'
          BY <1>1, <3>3 DEF Filed
        <5> QED BY <1>2, <5>1, <5>2 DEF Anchored
      <4>2. CASE disk[From(r)].data # c
        BY <1>3, <2>1, <2>2, <3>1, <4>2 DEF Anchored
      <4> QED BY <4>1, <4>2
    <3> QED BY <1>4, <3>2, <3>3
  <2>3. Anchors'
    BY <1>0, <1>1, <2>2 DEF Anchors
  <2>4. ASSUME NEW q \in Request, req'[q].op = "restore", req'[q].pc = "meta"
        PROVE  ~Exists(req[q].entry)'
    <3>1. CASE q = r
      BY <1>1, <1>2, <1>4, <2>4, <3>1 DEF Exists
    <3>2. CASE q # r
      <4>1. req[q].op = "restore" /\ req[q].pc = "meta" /\ req[q].entry \in Request
        BY <1>0, <1>1, <2>4, <3>2 DEF Shape
      <4>2. ~Uses(r, req[q].entry) /\ ~Exists(req[q].entry)
        BY <1>0, <3>2, <4>1 DEF Alone, Gone, InProgress
      <4>3. req[q].entry # From(r) /\ req[q].entry # To(r)
        BY <1>2, <4>2 DEF Uses, From, To
      <4>4. disk'[req[q].entry] = disk[req[q].entry]
        BY <1>3, <1>4, <4>1, <4>3
      <4> QED BY <1>1, <3>2, <4>2, <4>4 DEF Exists
    <3> QED BY <3>1, <3>2
  <2>5. Gone'
    BY <1>1, <2>4 DEF Gone
  <2> QED BY <2>3, <2>5 DEF Found
<1>5. CASE Vanished(r)
  BY <1>0, <1>4, <1>5 DEF Vanished, Goto
<1>6. CASE Rename(r)
  <2>1. disk[To(r)].data = "none"
    BY <1>0, <1>6 DEF Rename, Data, DataOf, Exists
  <2>2. /\ disk'[To(r)] = disk[From(r)] /\ disk'[From(r)] = Absent /\ req'[r].pc = "meta"
        /\ \A n \in Name : n # From(r) /\ n # To(r) => disk'[n] = disk[n]
    BY <1>0, <1>2, <1>6 DEF Rename
  <2> QED BY <1>4, <2>1, <2>2, AbsentData, ContentAssumption
<1>7. CASE CopyBegin(r)
  <2>1. disk[To(r)].data = "none"
    BY <1>0, <1>7 DEF CopyBegin, Data, DataOf, Exists
  <2>2. req'[r].pc = "copy" /\ \A n \in Name : n # To(r) => disk'[n] = disk[n]
    BY <1>0, <1>7 DEF CopyBegin
  <2> QED BY <1>2, <1>4, <2>1, <2>2, ContentAssumption
<1>8. CASE CopyEnd(r)
  <2>1. disk[To(r)].data = "part"
    <3>1. disk[To(r)] = [data |-> "part", writers |-> {r}]
      BY <1>0, <1>8 DEF CopyEnd, Data, DataOf
    <3> QED BY <3>1
  <2>2. req'[r].pc = "unlink" /\ \A n \in Name : n # To(r) => disk'[n] = disk[n]
    BY <1>0, <1>8 DEF CopyEnd, Goto
  <2> QED BY <1>2, <1>4, <2>1, <2>2, ContentAssumption
<1>9. CASE Unlink(r)
  <2>1. disk[From(r)].data = disk[To(r)].data
    BY <1>0, <1>9 DEF Unlink, Data, DataOf, Exists
  <2>2. /\ disk'[From(r)] = Absent /\ req'[r].pc = "meta"
        /\ \A n \in Name : n # From(r) => disk'[n] = disk[n]
    BY <1>0, <1>2, <1>9 DEF Unlink, Goto, AfterMove
  <2> QED BY <1>2, <1>4, <2>1, <2>2, AbsentData
<1> QED BY <1>5, <1>6, <1>7, <1>8, <1>9 DEF Move

LEMMA BeginFound ==
  ASSUME IInv, Found, NEW r \in Request, QuarantineFile(r) \/ RestoreQuarantineFile(r)
  PROVE  Found'
<1>1. TypeOK /\ Shape /\ Anchors /\ Gone /\ UNCHANGED <<disk, sidecar, kept, faults>>
  BY DEF IInv, Found, QuarantineFile, RestoreQuarantineFile
<1>2. /\ \A q \in Request : q # r => req'[q] = req[q]
      /\ req[r].pc = "idle" /\ req'[r].pc = "move"
  <2>1. PICK op, e, p : Opened(r, op, e, p)
    BY <1>1, Opens
  <2>2. req[r].pc = "idle"
    BY DEF QuarantineFile, RestoreQuarantineFile
  <2>3. /\ \A q \in Request : q # r => req'[q] = req[q]
        /\ req'[r] = [op |-> op, pc |-> "move", entry |-> e, place |-> p, held |-> "none"]
    BY <1>1, <2>1, OpenedRequests
  <2> QED BY <2>2, <2>3
<1>3. \A e \in Request : Filed(e) => Filed(e)'
  BY <1>1, <1>2 DEF Filed
<1>4. Anchors'
  BY <1>1, <1>3 DEF Anchors, Anchored
<1>5. Gone'
  BY <1>1, <1>2 DEF Gone, Exists
<1> QED BY <1>4, <1>5 DEF Found

LEMMA EndFound ==
  ASSUME IInv, careful, Found, NEW r \in Request, Settle(r) \/ SettleFails(r) \/ CopyFails(r)
  PROVE  Found'
<1>0. /\ TypeOK /\ Shape /\ Anchors /\ Gone /\ UNCHANGED <<disk, kept>>
      /\ req \in [Request -> ReqState] /\ sidecar \in [Request -> Path \cup {"none"}]
      /\ kept \in SUBSET Content /\ faults \in 0 .. MaxFaults
  BY DEF IInv, Found, TypeOK, Settle, SettleFails, CopyFails
<1>1. /\ \A q \in Request : q # r => req'[q] = req[q]
      /\ req'[r].pc = "over"
      /\ \A q \in Request : req'[q].op = req[q].op /\ req'[q].entry = req[q].entry
  <2>1. Goto(r, "over")
    BY DEF Settle, SettleFails, CopyFails, Raised
  <2> QED BY <1>0, <2>1 DEF Goto
<1>2. Gone'
  BY <1>0, <1>1 DEF Gone, Exists
<1>3. CASE SettleFails(r) \/ CopyFails(r)
  <2>1. faults' = faults - 1
    BY <1>3 DEF SettleFails, CopyFails, Fault
  <2>2. faults' # MaxFaults
    BY <1>0, <2>1, BoundsAssumption
  <2> QED BY <1>2, <2>2 DEF Found, Anchors
<1>4. CASE Settle(r)
  <2>1. /\ UNCHANGED faults /\ req[r].pc = "meta"
        /\ \A e \in Request : e # req[r].entry => sidecar'[e] = sidecar[e]
    BY <1>0, <1>4 DEF Settle
  <2>2. CASE req[r].op = "quarantine"
    <3>1. req[r].entry = r /\ req[r].place \in Path
      BY <1>0, <2>1, <2>2 DEF Shape, InProgress
    <3>2. sidecar'[r] \in Path
      BY <1>0, <1>4, <2>2, <3>1 DEF Settle, Original
    <3>3. \A e \in Request : Filed(e) => Filed(e)'
      BY <1>1, <2>1, <3>1, <3>2 DEF Filed
    <3>4. Anchors'
      BY <1>0, <2>1, <3>3 DEF Anchors, Anchored
    <3> QED BY <1>2, <3>4 DEF Found
  <2>3. CASE req[r].op = "restore"
    <3>1. disk[req[r].entry].data = "none"
      BY <1>0, <2>1, <2>3 DEF Gone, Exists
    <3>2. \A e \in Request : Filed(e) /\ e # req[r].entry => Filed(e)'
      BY <1>1, <2>1, <2>3 DEF Filed
    <3>3. Anchors'
      BY <1>0, <2>1, <3>1, <3>2, ContentAssumption DEF Anchors, Anchored
    <3> QED BY <1>2, <3>3 DEF Found
  <2> QED BY <1>0, <2>1, <2>2, <2>3 DEF Shape, InProgress
<1> QED BY <1>3, <1>4

LEMMA OutsideFound ==
  ASSUME IInv, Found, User \/ Crash \/ UNCHANGED vars
  PROVE  Found'
<1>0. /\ TypeOK /\ Shape /\ Anchors /\ Gone /\ disk \in [Name -> Blob]
      /\ kept \in SUBSET Content /\ faults \in 0 .. MaxFaults
  BY DEF IInv, Found, TypeOK
<1>1. Path \cap Request = {} /\ Path \subseteq Name /\ Request \subseteq Name
  BY PathAssumption DEF Name
\* A new content comes to a path; the one of the name is thrown away.
<1>2. ASSUME NEW n \in Name, NEW f, UNCHANGED <<sidecar, req, faults>>,
             disk' = [disk EXCEPT ![n] = f], n \in Request => f.data = "none",
             \A c \in kept' : (c = f.data /\ n \in Path) \/ c \in kept \ {disk[n].data}
      PROVE  Found'
  <2>1. \A m \in Name : disk'[m] = IF m = n THEN f ELSE disk[m]
    BY <1>0, <1>2
  <2>2. \A e \in Request : Filed(e) => Filed(e)'
    BY <1>2 DEF Filed
  <2>3. ASSUME NEW c \in kept', faults = MaxFaults
        PROVE  Anchored(c)'
    <3>1. CASE c = f.data /\ n \in Path
      BY <2>1, <3>1 DEF Anchored
    <3>2. CASE c \in kept /\ c # disk[n].data
      <4>1. Anchored(c)
        BY <1>0, <2>3, <3>2 DEF Anchors
      <4> QED BY <1>1, <2>1, <2>2, <3>2, <4>1 DEF Anchored
    <3> QED BY <1>2, <3>1, <3>2
  <2>4. Anchors'
    BY <1>2, <2>3 DEF Anchors
  <2>5. \A m \in Request : ~Exists(m) => ~Exists(m)'
    BY <1>1, <1>2, <2>1 DEF Exists
  <2>6. \A r \in Request : req[r].op = "restore" => req[r].entry \in Request
    BY <1>0 DEF Shape
  <2>7. Gone'
    BY <1>0, <1>2, <2>5, <2>6 DEF Gone
  <2> QED BY <2>4, <2>7 DEF Found
<1>3. ASSUME NEW p \in Path, Save(p)
      PROVE  Found'
  <2>1. PICK c \in Content : /\ disk' = [disk EXCEPT ![p] = Whole(c)]
                             /\ kept' = (kept \ {disk[p].data}) \cup {c}
    BY <1>3 DEF Save
  <2> QED BY <1>1, <1>2, <1>3, <2>1, AbsentData DEF Save
<1>4. ASSUME NEW n \in Name, Delete(n)
      PROVE  Found'
  BY <1>2, <1>4, AbsentData DEF Delete
<1>5. CASE Crash
  <2>1. faults' # MaxFaults
    BY <1>0, <1>5, BoundsAssumption DEF Crash, Fault
  <2>2. \A q \in Request : ~InProgress(q)'
    BY <1>0, <1>5, CrashedRequests
  <2> QED BY <2>1, <2>2 DEF Found, Anchors, Gone, InProgress
<1>6. CASE UNCHANGED vars
  BY <1>0, <1>6 DEF vars, Found, Anchors, Anchored, Filed, Gone, Exists
<1> QED BY <1>3, <1>4, <1>5, <1>6 DEF User

LEMMA FoundStep ==
  ASSUME IInv, careful => Found, [Next]_vars
  PROVE  (careful => Found)'
<1>1. careful' => careful
  BY DEF Clear, Next, vars, Handler, Failure, QuarantineFile, RestoreQuarantineFile, Move, Vanished,
         Rename, CopyBegin, CopyEnd, Unlink, Settle, SettleFails, CopyFails, User, Save,
         Delete, Crash
<1> QED BY <1>1, MoveFound, BeginFound, EndFound, OutsideFound DEF Next, Handler, Failure

\* A content that is anchored is where Retrievable looks for it.
LEMMA AnchoredIsThere ==
  ASSUME IInv, careful => Found
  PROVE  Retrievable
<1>1. ASSUME NEW e \in Request, NEW c \in Content, disk[e].data = c, Filed(e)
      PROVE  Listed(e) \/ Uses(e, e)
  BY <1>1, ContentAssumption DEF IInv, Filed, Listed, Exists, Uses, InProgress, Shape
<1> QED BY <1>1 DEF IInv, TypeOK, Retrievable, Found, Anchors, Anchored

\* While nothing has failed and nobody has got in the way of a move, every
\* content is at a path, listed, or in the hands of a request.
THEOREM NothingIsHidden == Spec => []Retrievable
<1>1. Init => IInv
  BY Initially
<1>2. IInv /\ [Next]_vars => IInv'
  BY Inductive
<1>3. Init => (careful => Found)
  BY DEF Init, Found, Anchors, Gone
<1>4. IInv /\ (careful => Found) /\ [Next]_vars => (careful => Found)'
  BY FoundStep
<1>5. IInv /\ (careful => Found) => Retrievable
  BY AnchoredIsThere
<1> QED BY <1>1, <1>2, <1>3, <1>4, <1>5, PTL DEF Spec

(***************************************************************************)
(* A restore gives back what its quarantine took: the payload of an entry  *)
(* is what the quarantine of that entry held, for as long as it is there,  *)
(* and the restore has the payload and the path to itself.                 *)
(***************************************************************************)

\* The sidecar names the path of the quarantine, the payload is what it held.
Entries ==
  \A e \in Request :
    /\ sidecar[e] \in Path => req[e].op = "quarantine" /\ sidecar[e] = req[e].place
    /\ Filed(e) => disk[e].data \in {req[e].held, "none"}

\* A restore holds what the quarantine held, and has put it at its path.
Holds(r) ==
  req[r].op = "restore" =>
    /\ req[r].pc \in {"copy", "unlink", "meta"} => req[r].held = req[req[r].entry].held
    /\ req[r].pc = "meta" => disk[req[r].place].data = req[r].held

Taken == Entries /\ \A r \in Request : Holds(r)

\* The entry that a restore uses is of a request that has ended.
LEMMA EntryHasEnded ==
  ASSUME IInv, careful, NEW q \in Request, req[q].op = "restore", InProgress(q)
  PROVE  /\ req[q].entry \in Request /\ req[q].place \in Path
         /\ sidecar[req[q].entry] = req[q].place
         /\ req[q].entry # q /\ ~InProgress(req[q].entry)
         /\ req[req[q].entry].pc # "idle"
<1>1. Shape /\ Alone /\ Paper
  BY DEF IInv, Safe
<1>2. /\ req[q].entry \in Request /\ req[q].place \in Path
      /\ sidecar[req[q].entry] = req[q].place /\ sidecar[req[q].entry] # "none"
  BY <1>1, NoPathAssumption DEF Shape, Paper
<1>3. req[req[q].entry].op = "quarantine" /\ ~InProgress(req[q].entry)
  BY <1>1, <1>2 DEF Paper
<1> QED BY <1>1, <1>2, <1>3 DEF Shape

LEMMA MoveTaken ==
  ASSUME IInv, careful, Taken, NEW r \in Request, Move(r)
  PROVE  Taken'
<1>0. /\ TypeOK /\ Shape /\ Alone /\ Paper /\ Data /\ Entries
      /\ disk \in [Name -> Blob] /\ req \in [Request -> ReqState]
  BY DEF IInv, Safe, TypeOK, Taken
<1>1. /\ \A q \in Request : q # r => req'[q] = req[q]
      /\ req'[r].op = req[r].op /\ req'[r].entry = req[r].entry /\ req'[r].place = req[r].place
      /\ UNCHANGED sidecar /\ InProgress(r) /\ req[r].pc # "meta"
  BY <1>0, Advances, AdvancedRequests
     DEF Move, Vanished, Rename, CopyBegin, CopyEnd, Unlink, InProgress
<1>2. /\ From(r) \in Name /\ To(r) \in Name /\ From(r) # To(r)
      /\ \/ req[r].op = "quarantine" /\ From(r) \in Path /\ To(r) = r /\ req[r].entry = r
         \/ /\ req[r].op = "restore" /\ From(r) = req[r].entry /\ From(r) \in Request
            /\ To(r) = req[r].place /\ To(r) \in Path
  BY <1>0, <1>1, Ends, Apart DEF From, To, Shape
<1>3. Path \cap Request = {} /\ Path \subseteq Name /\ Request \subseteq Name
  BY PathAssumption DEF Name
<1>4. sidecar[r] = "none"
  BY <1>0, <1>1 DEF Paper
\* What a move does, whatever its step is.
<1>5. /\ \A n \in Name : n # From(r) /\ n # To(r) => disk'[n] = disk[n]
      /\ disk'[From(r)].data \in {disk[From(r)].data, "none"}
      /\ req'[r].pc = "meta" => disk'[To(r)].data = req'[r].held
      /\ \/ req'[r].held = req[r].held /\ (req[r].pc = "move" => req'[r].pc = "over")
         \/ /\ req[r].pc = "move" /\ req'[r].held = disk[From(r)].data
            /\ disk[From(r)].data # "none"
  <2>1. CASE Vanished(r)
    BY <1>0, <1>2, <2>1 DEF Vanished, Goto
  <2>2. CASE Rename(r)
    BY <1>0, <1>2, <2>2, AbsentData DEF Rename, Exists
  <2>3. CASE CopyBegin(r)
    <3>1. \A n \in Name : n # To(r) => disk'[n] = disk[n]
      BY <1>0, <2>3 DEF CopyBegin
    <3>2. req'[r].pc = "copy" /\ req'[r].held = disk[From(r)].data
      BY <1>0, <2>3 DEF CopyBegin
    <3> QED BY <1>2, <2>3, <3>1, <3>2 DEF CopyBegin, Exists
  <2>4. CASE CopyEnd(r)
    <3>1. \A n \in Name : n # To(r) => disk'[n] = disk[n]
      BY <1>0, <2>4 DEF CopyEnd
    <3>2. req'[r].pc = "unlink" /\ req'[r].held = req[r].held /\ req[r].pc = "copy"
      BY <1>0, <2>4 DEF CopyEnd, Goto
    <3> QED BY <1>2, <3>1, <3>2
  <2>5. CASE Unlink(r)
    <3>1. disk[To(r)].data = req[r].held
      BY <1>0, <2>5 DEF Unlink, Data, DataOf
    <3>2. disk'[From(r)] = Absent /\ \A n \in Name : n # From(r) => disk'[n] = disk[n]
      BY <1>0, <1>2, <2>5 DEF Unlink
    <3>3. req'[r].held = req[r].held /\ req[r].pc = "unlink"
      BY <1>0, <2>5 DEF Unlink, Goto
    <3> QED BY <1>2, <3>1, <3>2, <3>3, AbsentData
  <2> QED BY <2>1, <2>2, <2>3, <2>4, <2>5 DEF Move
<1>6. Entries'
  <2>1. ASSUME NEW e \in Request, sidecar'[e] \in Path
        PROVE  req'[e].op = "quarantine" /\ sidecar'[e] = req'[e].place
    BY <1>0, <1>1, <2>1 DEF Entries
  <2>2. ASSUME NEW e \in Request, Filed(e)'
        PROVE  disk'[e].data \in {req'[e].held, "none"}
    <3>1. CASE e = r
      <4>1. req'[r].op = "quarantine" /\ req'[r].pc = "meta"
        BY <1>1, <1>4, <2>2, <3>1, NoPathAssumption DEF Filed
      <4> QED BY <1>1, <1>2, <1>3, <1>5, <3>1, <4>1
    <3>2. CASE e # r
      <4>1. Filed(e) /\ req'[e] = req[e]
        BY <1>1, <2>2, <3>2 DEF Filed
      <4>2. e # To(r) /\ disk[e].data \in {req[e].held, "none"}
        BY <1>0, <1>2, <1>3, <3>2, <4>1 DEF Entries
      <4> QED BY <1>3, <1>5, <4>1, <4>2
    <3> QED BY <3>1, <3>2
  <2> QED BY <2>1, <2>2 DEF Entries
<1>7. ASSUME NEW q \in Request, req'[q].op = "restore", req'[q].pc \in {"copy", "unlink", "meta"}
      PROVE  /\ req'[q].held = req'[req'[q].entry].held
             /\ req'[q].pc = "meta" => disk'[req'[q].place].data = req'[q].held
  <2>1. CASE q = r
    <3> DEFINE e == req[r].entry
    <3>1. /\ req[r].op = "restore" /\ e \in Request /\ e # r /\ req'[e] = req[e]
          /\ sidecar[e] \in Path
      BY <1>1, <1>7, <2>1, EntryHasEnded
    <3>2. disk[e].data \in {req[e].held, "none"}
      BY <1>0, <3>1 DEF Entries, Filed
    <3>3. From(r) = e /\ To(r) = req[r].place
      BY <3>1 DEF From, To
    <3>4. req'[r].held = req[e].held
      <4>1. CASE req[r].pc = "move"
        BY <1>5, <1>7, <2>1, <3>2, <3>3, <4>1
      <4>2. CASE req[r].pc # "move"
        <5>1. req[r].pc \in {"copy", "unlink", "meta"}
          BY <1>1, <4>2 DEF InProgress
        <5>2. req[r].held = req[e].held
          BY <3>1, <5>1 DEF Taken, Holds
        <5> QED BY <1>5, <4>2, <5>2
      <4> QED BY <4>1, <4>2
    <3> QED BY <1>1, <1>5, <2>1, <3>1, <3>3, <3>4
  <2>2. CASE q # r
    <3>1. /\ req'[q] = req[q] /\ req[q].op = "restore" /\ InProgress(q)
          /\ req[q].pc \in {"copy", "unlink", "meta"}
      BY <1>1, <1>7, <2>2 DEF InProgress
    <3>2. /\ req[q].entry \in Request /\ ~InProgress(req[q].entry) /\ req[q].place \in Path
      BY <3>1, EntryHasEnded
    <3>3. req'[req[q].entry] = req[req[q].entry]
      BY <1>1, <3>2
    <3>4. req[q].place # From(r) /\ req[q].place # To(r)
      BY <1>0, <1>1, <2>2, <3>1 DEF Alone, Uses, From, To
    <3>5. disk'[req[q].place] = disk[req[q].place]
      BY <1>3, <1>5, <3>2, <3>4
    <3> QED BY <3>1, <3>3, <3>5 DEF Taken, Holds
  <2> QED BY <2>1, <2>2
<1> QED BY <1>6, <1>7 DEF Taken, Holds

LEMMA BeginTaken ==
  ASSUME IInv, careful, Taken, NEW r \in Request, QuarantineFile(r) \/ RestoreQuarantineFile(r)
  PROVE  Taken'
<1>1. TypeOK /\ Shape /\ Paper /\ Entries /\ UNCHANGED <<disk, sidecar>>
  BY DEF IInv, Safe, Taken, QuarantineFile, RestoreQuarantineFile
<1>2. /\ \A q \in Request : q # r => req'[q] = req[q]
      /\ req[r].pc = "idle" /\ req'[r].pc = "move"
  <2>1. PICK op, e, p : Opened(r, op, e, p)
    BY <1>1, Opens
  <2>2. req[r].pc = "idle"
    BY DEF QuarantineFile, RestoreQuarantineFile
  <2>3. /\ \A q \in Request : q # r => req'[q] = req[q]
        /\ req'[r] = [op |-> op, pc |-> "move", entry |-> e, place |-> p, held |-> "none"]
    BY <1>1, <2>1, OpenedRequests
  <2> QED BY <2>2, <2>3
<1>3. sidecar[r] = "none" /\ ~Filed(r)'
  BY <1>1, <1>2, NoPathAssumption DEF Paper, Shape, Filed
<1>4. Entries'
  BY <1>1, <1>2, <1>3, NoPathAssumption DEF Entries, Filed
<1>5. ASSUME NEW q \in Request, req'[q].op = "restore", req'[q].pc \in {"copy", "unlink", "meta"}
      PROVE  /\ req'[q].held = req'[req'[q].entry].held
             /\ req'[q].pc = "meta" => disk'[req'[q].place].data = req'[q].held
  <2>1. /\ q # r /\ req'[q] = req[q] /\ req[q].op = "restore" /\ InProgress(q)
        /\ req[q].pc \in {"copy", "unlink", "meta"}
    BY <1>2, <1>5 DEF InProgress
  <2>2. req[q].entry \in Request /\ req[req[q].entry].pc # "idle"
    BY <2>1, EntryHasEnded
  <2>3. req'[req[q].entry] = req[req[q].entry]
    BY <1>2, <2>2
  <2> QED BY <1>1, <2>1, <2>3 DEF Taken, Holds
<1> QED BY <1>4, <1>5 DEF Taken, Holds

LEMMA EndTaken ==
  ASSUME IInv, careful, Taken, NEW r \in Request, Settle(r) \/ SettleFails(r) \/ CopyFails(r)
  PROVE  Taken'
<1>0. /\ TypeOK /\ Shape /\ Entries /\ UNCHANGED disk
      /\ req \in [Request -> ReqState] /\ sidecar \in [Request -> Path \cup {"none"}]
  BY DEF IInv, Taken, TypeOK, Settle, SettleFails, CopyFails
<1>1. /\ \A q \in Request : q # r => req'[q] = req[q]
      /\ req'[r].pc = "over"
      /\ \A q \in Request : /\ req'[q].op = req[q].op /\ req'[q].entry = req[q].entry
                            /\ req'[q].place = req[q].place /\ req'[q].held = req[q].held
  <2>1. Goto(r, "over")
    BY DEF Settle, SettleFails, CopyFails, Raised
  <2> QED BY <1>0, <2>1 DEF Goto
<1>2. ASSUME NEW q \in Request, req'[q].op = "restore", req'[q].pc \in {"copy", "unlink", "meta"}
      PROVE  /\ req'[q].held = req'[req'[q].entry].held
             /\ req'[q].pc = "meta" => disk'[req'[q].place].data = req'[q].held
  <2>1. req'[q] = req[q] /\ InProgress(q) /\ req[q].op = "restore"
    BY <1>1, <1>2 DEF InProgress
  <2>2. req[q].entry \in Request
    BY <2>1, EntryHasEnded
  <2> QED BY <1>0, <1>1, <1>2, <2>1, <2>2 DEF Taken, Holds
<1>3. \A e \in Request : sidecar'[e] \in Path =>
        \/ sidecar[e] = sidecar'[e]
        \/ /\ e = r /\ req[r].op = "quarantine" /\ req[r].pc = "meta"
           /\ sidecar'[e] = req[r].place
  <2>1. CASE SettleFails(r) \/ CopyFails(r)
    BY <2>1 DEF SettleFails, CopyFails
  <2>2. CASE Settle(r)
    <3>1. /\ req[r].pc = "meta"
          /\ \A e \in Request : e # req[r].entry => sidecar'[e] = sidecar[e]
          /\ req[r].entry \in Request =>
               sidecar'[req[r].entry] = IF req[r].op = "quarantine" THEN req[r].place ELSE "none"
      BY <1>0, <2>2 DEF Settle, Original
    <3>2. req[r].op = "quarantine" => req[r].entry = r
      BY <1>0 DEF Shape
    <3> QED BY <3>1, <3>2, NoPathAssumption
  <2> QED BY <2>1, <2>2
<1>4. \A e \in Request : Filed(e)' => Filed(e)
  BY <1>1, <1>3 DEF Filed
<1>5. Entries'
  BY <1>0, <1>1, <1>3, <1>4 DEF Entries
<1> QED BY <1>2, <1>5 DEF Taken, Holds

LEMMA OutsideTaken ==
  ASSUME IInv, careful, careful', Taken, User \/ Crash \/ UNCHANGED vars
  PROVE  Taken'
<1>0. /\ TypeOK /\ Shape /\ Entries /\ disk \in [Name -> Blob] /\ req \in [Request -> ReqState]
  BY DEF IInv, Taken, TypeOK
<1>1. Path \cap Request = {} /\ Path \subseteq Name /\ Request \subseteq Name
  BY PathAssumption DEF Name
<1>2. ASSUME NEW n \in Name, NEW f, UNCHANGED <<sidecar, req>>, InNobodysWay(n, f),
             disk' = [disk EXCEPT ![n] = f], n \in Request => f.data = "none"
      PROVE  Taken'
  <2>1. \A m \in Name : disk'[m] = IF m = n THEN f ELSE disk[m]
    BY <1>0, <1>2
  <2>2. Entries'
    BY <1>0, <1>1, <1>2, <2>1 DEF Entries, Filed
  <2>3. ASSUME NEW q \in Request
        PROVE  Holds(q)'
    <3>1. InProgress(q) /\ req[q].op = "restore" => req[q].place # n /\ req[q].place \in Name
      BY <1>0, <1>1, <1>2 DEF InNobodysWay, To, Shape
    <3>2. Holds(q)
      BY DEF Taken
    <3> QED BY <1>2, <2>1, <3>1, <3>2 DEF Holds, InProgress
  <2> QED BY <2>2, <2>3 DEF Taken
<1>3. ASSUME NEW p \in Path, Save(p)
      PROVE  Taken'
  <2>1. PICK c \in Content : disk' = [disk EXCEPT ![p] = Whole(c)]
    BY <1>3 DEF Save
  <2> QED BY <1>1, <1>2, <1>3, <2>1 DEF Save, Clear, InNobodysWay, InProgress
<1>4. ASSUME NEW n \in Name, Delete(n)
      PROVE  Taken'
  BY <1>2, <1>4, AbsentData DEF Delete, Clear, InNobodysWay
<1>5. CASE Crash
  <2>1. \A q \in Request : /\ ~InProgress(q)' /\ req'[q].op = req[q].op
                           /\ req'[q].place = req[q].place /\ req'[q].held = req[q].held
    BY <1>0, <1>5 DEF Crash, InProgress
  <2>2. \A q \in Request : Holds(q)'
    BY <2>1 DEF Holds, InProgress
  <2>3. \A e \in Request : Filed(e)' => Filed(e)
    BY <1>5, <2>1 DEF Crash, Filed, InProgress
  <2>4. Entries'
    BY <1>0, <1>5, <2>1, <2>3 DEF Crash, Entries
  <2> QED BY <2>2, <2>4 DEF Taken
<1>6. CASE UNCHANGED vars
  BY <1>0, <1>6 DEF vars, Taken, Entries, Filed, Holds
<1> QED BY <1>3, <1>4, <1>5, <1>6 DEF User

LEMMA TakenStep ==
  ASSUME IInv, careful => Taken, [Next]_vars
  PROVE  (careful => Taken)'
<1>1. careful' => careful
  BY DEF Clear, Next, vars, Handler, Failure, QuarantineFile, RestoreQuarantineFile, Move, Vanished,
         Rename, CopyBegin, CopyEnd, Unlink, Settle, SettleFails, CopyFails, User, Save,
         Delete, Crash
<1> QED BY <1>1, MoveTaken, BeginTaken, EndTaken, OutsideTaken DEF Next, Handler, Failure

\* What a restore leaves at the path is what the quarantine of the entry held.
LEMMA AnswerIsTaken ==
  ASSUME IInv, careful, Taken, NEW r \in Request, req[r].op = "restore", req[r].pc = "meta"
  PROVE  /\ disk[req[r].place].data = req[req[r].entry].held
         /\ req[r].place = req[req[r].entry].place
<1>1. /\ req[r].entry \in Request /\ sidecar[req[r].entry] = req[r].place
      /\ req[r].place \in Path
  BY EntryHasEnded DEF InProgress
<1> QED BY <1>1 DEF Taken, Holds, Entries

\* A restore that gets to its answer, with nobody in the way so far, has put
\* back what was taken.
THEOREM RestoresAreExact == Spec => RestoresWhatWasTaken
<1>1. Init => IInv
  BY Initially
<1>2. IInv /\ [Next]_vars => IInv'
  BY Inductive
<1>3. Init => (careful => Taken)
  <2> SUFFICES ASSUME Init PROVE Taken
    OBVIOUS
  <2>1. \A e \in Request : sidecar[e] = "none" /\ req[e].op = "none"
    BY DEF Init
  <2> QED BY <2>1, NoPathAssumption DEF Taken, Entries, Filed, Holds
<1>4. IInv /\ (careful => Taken) /\ [Next]_vars => (careful => Taken)'
  BY TakenStep
<1>5. IInv /\ (careful => Taken) =>
        [\A r \in Request :
           careful /\ req[r].op = "restore" /\ req[r].pc = "meta" /\ req'[r].pc = "over"
             /\ faults' = faults
             => /\ disk[req[r].place].data = req[req[r].entry].held
                /\ req[r].place = req[req[r].entry].place]_vars
  BY AnswerIsTaken
<1> QED BY <1>1, <1>2, <1>3, <1>4, <1>5, PTL DEF Spec, RestoresWhatWasTaken

(***************************************************************************)
(* What a restore spares.  The target was free when the handler checked,   *)
(* and is not a complete file until the restore itself has completed it.   *)
(***************************************************************************)

LEMMA MovesSpare ==
  ASSUME IInv, Safe, NEW r \in Request, req[r].op = "restore", Move(r),
         NEW p \in Path, disk[p].data \in Content
  PROVE  disk'[p] = disk[p]
<1>0. /\ disk \in [Name -> Blob] /\ p \in Name /\ To(r) = req[r].place
      /\ disk[p].data # "none" /\ disk[p].data # "part"
  BY ContentAssumption DEF IInv, TypeOK, Name, To
<1>1. InProgress(r)
  BY DEF Move, Vanished, Rename, CopyBegin, CopyEnd, Unlink, InProgress
<1>2. From(r) = req[r].entry /\ req[r].entry \in Request /\ p # From(r)
  BY <1>1, PathAssumption DEF IInv, Shape, From
<1>3. req[r].pc = "move" => p # To(r)
  BY <1>0 DEF Safe, Data, DataOf, Exists
<1>4. req[r].pc = "copy" => p # To(r)
  <2>1. [data |-> "part", writers |-> {r}].data = "part"
    OBVIOUS
  <2> QED BY <1>0, <2>1 DEF Safe, Data, DataOf
<1> QED BY <1>0, <1>2, <1>3, <1>4 DEF Move, Vanished, Rename, CopyBegin, CopyEnd, Unlink

\* Two entries of one path, a copy cut off half way, a sidecar that stayed: as
\* long as nobody has got in the way of a move, no restore goes over a file.
THEOREM CarefulRestoresSpare == Spec => CarefulRestoreSpares
<1>1. Init => IInv
  BY Initially
<1>2. IInv /\ [Next]_vars => IInv'
  BY Inductive
<1>3. IInv /\ [Next]_vars => [careful => \A r \in Request : Spares(r)]_vars
  <2> SUFFICES ASSUME IInv, Next, careful, NEW r \in Request, req[r].op = "restore",
                      req'[r] # req[r], NEW p \in Path, disk[p].data \in Content
               PROVE  disk'[p] = disk[p]
    BY DEF Spares
  <2>1. PICK q \in Request : Move(q) \/ UNCHANGED disk
    BY DEF Next, Handler, Failure, User, QuarantineFile, RestoreQuarantineFile, Settle,
           CopyFails, SettleFails, Crash, Save, Delete
  <2>2. Move(q) => q = r
    <3>1. req \in [Request -> ReqState]
      BY DEF IInv, TypeOK
    <3> QED BY <3>1 DEF Move, Vanished, Rename, CopyBegin, CopyEnd, Unlink, Goto
  <2> QED BY <2>1, <2>2, MovesSpare DEF IInv
<1> QED BY <1>1, <1>2, <1>3, PTL DEF Spec, CarefulRestoreSpares
=============================================================================
