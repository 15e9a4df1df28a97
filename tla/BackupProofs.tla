---------------------------- MODULE BackupProofs ----------------------------
(***************************************************************************)
(* Proofs about Backup, for every set of runs and every bound.             *)
(***************************************************************************)
EXTENDS Backup, SequenceTheorems, TLAPS

Stages == Live \cup {"idle", "orphan", "over"}

(***************************************************************************)
(* Lemmas: the values the actions build have their types.                  *)
(***************************************************************************)

LEMMA BlankIsFile ==
  ASSUME NEW k \in {"missing", "empty", "corrupt", "ok"}
  PROVE  Blank(k) \in File
<1>1. <<>> \in Seq(Row)
  BY EmptySeq
<1> QED BY <1>1 DEF Blank, File

LEMMA FilesAreFiles ==
  /\ Missing \in File /\ Empty \in File /\ Corrupt \in File /\ Fresh \in File
BY BlankIsFile DEF Missing, Empty, Corrupt, Fresh

LEMMA TouchedIsFile ==
  ASSUME NEW f \in File
  PROVE  Touched(f) \in File
BY FilesAreFiles DEF Touched

LEMMA AtRestIsRunState ==
  ASSUME NEW pc \in Stages
  PROVE  AtRest(pc) \in RunState
BY FilesAreFiles DEF AtRest, RunState, Stages

LEMMA BegunIsRunState ==
  ASSUME NEW op \in {"manual", "scheduled", "restore"}, NEW src \in Nat
  PROVE  /\ Begun(op, src) \in RunState
         /\ Begun(op, src).src = src /\ Begun(op, src).pc = "record"
         /\ Begun(op, src).job = 0
BY FilesAreFiles DEF Begun, AtRest, RunState, Live

\* The restore that begins over a file the check could not open.
Mistaken == [Begun("restore", 0) EXCEPT !.misjudged = TRUE]

LEMMA MistakenIsRunState ==
  /\ Mistaken \in RunState
  /\ Mistaken.src = 0 /\ Mistaken.pc = "record" /\ Mistaken.job = 0
  /\ Mistaken.op = "restore" /\ Mistaken.good = FALSE /\ Mistaken.seen = Missing
  /\ Mistaken.misjudged
BY FilesAreFiles DEF Mistaken, Begun, AtRest, RunState, Live

LEMMA OverIsRunState ==
  ASSUME TypeOK, NEW r \in Run
  PROVE  Over(r) \in RunState /\ Over(r).src = 0 /\ Over(r).pc = "over"
BY FilesAreFiles DEF Over, AtRest, RunState, TypeOK

LEMMA EndedType ==
  ASSUME TypeOK
  PROVE  /\ Ended \in [Run -> RunState]
         /\ \A r \in Run : /\ Ended[r].pc \notin Live
                           /\ Ended[r].src \in {0, run[r].src}
<1> SUFFICES ASSUME NEW r \in Run
             PROVE  /\ Ended[r] \in RunState /\ Ended[r].pc \notin Live
                    /\ Ended[r].src \in {0, run[r].src}
  BY DEF Ended
<1>0. run[r] \in RunState
  BY DEF TypeOK
<1>1. CASE run[r].pc = "snap"
  BY <1>0, <1>1 DEF Ended, RunState, Live
<1>2. CASE run[r].pc # "snap" /\ ~IsLive(r)
  BY <1>0, <1>2 DEF Ended, IsLive
<1>3. CASE run[r].pc # "snap" /\ IsLive(r)
  <2>1. AtRest("idle") \in RunState /\ AtRest("idle").pc \notin Live /\ AtRest("idle").src = 0
    BY AtRestIsRunState DEF Stages, AtRest, Live
  <2> QED BY <1>3, <2>1, OverIsRunState DEF Ended, Live
<1> QED BY <1>1, <1>2, <1>3

LEMMA VersionIsFile ==
  ASSUME NEW f \in File, NEW v \in Nat
  PROVE  [f EXCEPT !.ver = v] \in File
BY DEF File

LEMMA RowAppended ==
  ASSUME NEW f \in File, NEW r \in Run, NEW st \in {"running", "success", "failed"}
  PROVE  [f EXCEPT !.jobs = Append(@, [by |-> r, status |-> st])] \in File
<1>1. [by |-> r, status |-> st] \in Row
  BY DEF Row
<1>2. Append(f.jobs, [by |-> r, status |-> st]) \in Seq(Row)
  BY <1>1, AppendProperties DEF File
<1> QED BY <1>2 DEF File

LEMMA RowUpdated ==
  ASSUME NEW f \in File, NEW i \in DOMAIN f.jobs, NEW st \in {"running", "success", "failed"}
  PROVE  /\ [f EXCEPT !.jobs[i].status = st] \in File
         /\ [f EXCEPT !.jobs[i].status = st].kind = f.kind
         /\ DOMAIN [f EXCEPT !.jobs[i].status = st].jobs = DOMAIN f.jobs
         /\ \A j \in DOMAIN f.jobs :
              [f EXCEPT !.jobs[i].status = st].jobs[j].by = f.jobs[j].by
<1> DEFINE row == [f.jobs[i] EXCEPT !.status = st]
<1>1. f.jobs \in Seq(Row) /\ i \in 1..Len(f.jobs)
  BY DEF File
<1>2. f.jobs[i] \in Row
  BY <1>1, ElementOfSeq
<1>3. row \in Row /\ row.by = f.jobs[i].by
  BY <1>2 DEF Row
<1>4. /\ [f.jobs EXCEPT ![i] = row] \in Seq(Row)
      /\ Len([f.jobs EXCEPT ![i] = row]) = Len(f.jobs)
      /\ \A j \in 1..Len(f.jobs) :
           [f.jobs EXCEPT ![i] = row][j] = IF j = i THEN row ELSE f.jobs[j]
  BY <1>1, <1>3, ExceptSeq
<1>5. [f EXCEPT !.jobs[i].status = st] = [f EXCEPT !.jobs = [f.jobs EXCEPT ![i] = row]]
  OBVIOUS
<1>6. /\ [f EXCEPT !.jobs = [f.jobs EXCEPT ![i] = row]] \in File
      /\ [f EXCEPT !.jobs = [f.jobs EXCEPT ![i] = row]].kind = f.kind
      /\ [f EXCEPT !.jobs = [f.jobs EXCEPT ![i] = row]].jobs = [f.jobs EXCEPT ![i] = row]
  BY <1>4 DEF File
<1> HIDE DEF row
<1> QED BY <1>1, <1>3, <1>4, <1>5, <1>6

(***************************************************************************)
(* Type correctness.  CopyEnd reads repo at the index a run chose earlier, *)
(* so the type invariant is inductive only together with what is known of  *)
(* that index: it names a snapshot, and snapshots are never removed.       *)
(***************************************************************************)
SourceKnown ==
  \A r \in Run : /\ run[r].src \in 0..Len(repo)
                 /\ run[r].pc \in {"stage", "copy", "copying"} => run[r].src # 0

TypeInv == TypeOK /\ SourceKnown

\* What TypeInv asks of one run in a repository of n snapshots.
Typed(x, n) == /\ x \in RunState /\ x.src \in 0..n
               /\ x.pc \in {"stage", "copy", "copying"} => x.src # 0

LEMMA TypedRuns ==
  ASSUME run \in [Run -> RunState], Len(repo) \in Nat
  PROVE  SourceKnown <=> \A r \in Run : Typed(run[r], Len(repo))
BY DEF SourceKnown, Typed

LEMMA TypeInit == Init => TypeInv
<1> SUFFICES ASSUME Init PROVE TypeInv
  OBVIOUS
<1>1. Fresh \in File /\ [Fresh EXCEPT !.ver = 1] \in File
  BY FilesAreFiles DEF File
<1>2. AtRest("idle") \in RunState /\ AtRest("idle").src = 0 /\ AtRest("idle").pc = "idle"
  BY AtRestIsRunState DEF Stages, AtRest
<1>3. db.ver \in Nat
  BY <1>1 DEF Init, File
<1>4. repo \in Seq(Snapshot) /\ Len(repo) = 0
  BY EmptySeq DEF Init
<1>5. TypeOK
  BY <1>1, <1>2, <1>3, <1>4, EntryAssumption, BoundsAssumption DEF Init, TypeOK
<1>6. SourceKnown
  BY <1>2, <1>4 DEF Init, SourceKnown
<1> QED BY <1>5, <1>6 DEF TypeInv

LEMMA RepoLen ==
  ASSUME TypeInv
  PROVE  Len(repo) \in Nat /\ DOMAIN repo = 1..Len(repo)
BY LenProperties DEF TypeInv, TypeOK

LEMMA BegunTyped ==
  ASSUME TypeInv, NEW op \in {"manual", "scheduled", "restore"}, NEW i \in 0..Len(repo)
  PROVE  Typed(Begun(op, i), Len(repo))
<1>1. Len(repo) \in Nat /\ i \in Nat
  BY RepoLen
<1> QED BY <1>1, BegunIsRunState DEF Typed

\* Run r becomes x; what a step does to the rest keeps its type.
Becomes(r, x) == run' = [run EXCEPT ![r] = x]

RestTyped ==
  /\ db' \in File
  /\ server' \in {"down", "migrating", "checking", "restoring", "seeding", "up"}
  /\ written' \in Nat
  /\ faults' \in 0..MaxFaults
  /\ config' = config

LEMMA RestUnchanged ==
  /\ TypeInv /\ UNCHANGED <<db, server, written, faults, config>> => RestTyped
  /\ TypeInv /\ Fault => faults' \in 0..MaxFaults
BY BoundsAssumption DEF TypeInv, TypeOK, RestTyped, Fault

\* A step that changes one run, and perhaps takes a snapshot.
LEMMA TypeOfOneRun ==
  ASSUME TypeInv, RestTyped, NEW r \in Run, NEW x, Becomes(r, x),
         repo' \in Seq(Snapshot), Len(repo') >= Len(repo), Typed(x, Len(repo'))
  PROVE  TypeInv'
<1>1. run \in [Run -> RunState] /\ run' \in [Run -> RunState]
  BY DEF TypeInv, TypeOK, Typed, Becomes
<1>2. Len(repo) \in Nat /\ Len(repo') \in Nat
  BY LenProperties DEF TypeInv, TypeOK
<1>3. \A q \in Run : run'[q] = IF q = r THEN x ELSE run[q]
  BY <1>1 DEF Becomes
<1>4. \A q \in Run : Typed(run[q], Len(repo))
  BY <1>1, <1>2, TypedRuns DEF TypeInv
<1>5. \A q \in Run : Typed(run'[q], Len(repo'))
  BY <1>2, <1>3, <1>4 DEF Typed, RunState
<1>6. SourceKnown'
  BY <1>5 DEF SourceKnown, Typed
<1>7. TypeOK'
  BY <1>1 DEF TypeInv, TypeOK, RestTyped
<1> QED BY <1>6, <1>7 DEF TypeInv

LEMMA TypeOfOneRunOnly ==
  ASSUME TypeInv, RestTyped, NEW r \in Run, NEW x, Becomes(r, x),
         repo' = repo, Typed(x, Len(repo))
  PROVE  TypeInv'
<1>1. repo' \in Seq(Snapshot) /\ Len(repo') >= Len(repo)
  BY LenProperties DEF TypeInv, TypeOK
<1> QED BY <1>1, TypeOfOneRun

\* A step that leaves the runs and the repository alone.
LEMMA TypeOfNoRun ==
  ASSUME TypeInv, UNCHANGED <<run, repo>>, RestTyped
  PROVE  TypeInv'
BY DEF TypeInv, TypeOK, SourceKnown, RestTyped

\* The process ended.
LEMMA TypeOfEnded ==
  ASSUME TypeInv, run' = Ended, repo' = repo, RestTyped
  PROVE  TypeInv'
<1>1. run' \in [Run -> RunState]
  BY EndedType DEF TypeInv
<1>2. \A r \in Run : run'[r].pc \notin Live /\ run'[r].src \in {0, run[r].src}
  BY EndedType DEF TypeInv
<1>3. Len(repo) \in Nat
  BY LenProperties DEF TypeInv, TypeOK
<1>4. SourceKnown'
  BY <1>2, <1>3 DEF TypeInv, SourceKnown, Live
<1>5. TypeOK'
  BY <1>1 DEF TypeInv, TypeOK, RestTyped
<1> QED BY <1>4, <1>5 DEF TypeInv

LEMMA TypeStart == TypeInv /\ Starting => TypeInv'
<1> SUFFICES ASSUME TypeInv, Starting PROVE TypeInv'
  OBVIOUS
<1>1. CASE Boot
  BY <1>1, TypeOfNoRun DEF Boot, FirstStage, RestTyped, TypeInv, TypeOK
<1>2. CASE Migrate
  BY <1>2, FilesAreFiles, TypeOfNoRun DEF Migrate, RestTyped, TypeInv, TypeOK
<1>3. CASE StartupCheck
  <2>1. RestTyped /\ UNCHANGED repo
    BY <1>3, RestUnchanged DEF StartupCheck, RestTyped, TypeInv, TypeOK
  <2>2. CASE UNCHANGED run
    BY <2>1, <2>2, TypeOfNoRun
  <2>3. CASE Becomes(Startup, Begun("restore", 0))
    <3>1. Typed(Begun("restore", 0), Len(repo))
      BY BegunTyped
    <3>2. Startup \in Run
      BY DEF Run
    <3> QED BY <2>1, <2>3, <3>1, <3>2, TypeOfOneRunOnly
  <2>4. CASE Becomes(Startup, Mistaken)
    <3>1. Typed(Mistaken, Len(repo))
      BY MistakenIsRunState, RepoLen DEF Typed
    <3>2. Startup \in Run
      BY DEF Run
    <3> QED BY <2>1, <2>4, <3>1, <3>2, TypeOfOneRunOnly
  <2> QED BY <1>3, <2>2, <2>3, <2>4 DEF StartupCheck, Becomes, Mistaken
<1>4. CASE Seed
  <2>1. CASE UNCHANGED <<db, written, run>> /\ server' = "up"
    BY <1>4, <2>1, TypeOfNoRun DEF Seed, RestTyped, TypeInv, TypeOK
  <2>2. CASE /\ server' = "up" /\ written' = written + 1
             /\ db' = [db EXCEPT !.ver = written + 1] /\ UNCHANGED run
    <3>1. db' \in File /\ written' \in Nat
      BY <2>2, VersionIsFile DEF TypeInv, TypeOK
    <3> QED BY <1>4, <2>2, <3>1, TypeOfNoRun DEF Seed, RestTyped, TypeInv, TypeOK
  <2>3. CASE server' = "down" /\ db' = Touched(db) /\ run' = Ended /\ UNCHANGED written
    <3>1. db' \in File
      BY <2>3, TouchedIsFile DEF TypeInv, TypeOK
    <3> QED BY <1>4, <2>3, <3>1, TypeOfEnded DEF Seed, RestTyped, TypeInv, TypeOK
  <2> QED BY <1>4, <2>1, <2>2, <2>3 DEF Seed
<1> QED BY <1>1, <1>2, <1>3, <1>4 DEF Starting

LEMMA TypeRequest ==
  ASSUME TypeInv, NEW r \in PanelRun, Request(r)
  PROVE  TypeInv'
<1>1. r \in Run
  BY DEF Run
<1>2. /\ UNCHANGED <<db, server, written, faults, config>> /\ repo' = repo
      /\ \/ Becomes(r, Begun("manual", 0))
         \/ Becomes(r, Begun("scheduled", 0))
         \/ \E i \in 0..Len(repo) : Becomes(r, Begun("restore", i))
  BY DEF Request, ManualBackup, ManualRestore, ScheduledBackup, Becomes
<1>3. RestTyped
  BY <1>2, RestUnchanged
<1>4. CASE Becomes(r, Begun("manual", 0))
  BY <1>1, <1>2, <1>3, <1>4, BegunTyped, TypeOfOneRunOnly
<1>5. CASE Becomes(r, Begun("scheduled", 0))
  BY <1>1, <1>2, <1>3, <1>5, BegunTyped, TypeOfOneRunOnly
<1>6. CASE \E i \in 0..Len(repo) : Becomes(r, Begun("restore", i))
  <2>1. PICK i \in 0..Len(repo) : Becomes(r, Begun("restore", i))
    BY <1>6
  <2>2. Typed(Begun("restore", i), Len(repo))
    BY BegunTyped
  <2> QED BY <1>1, <1>2, <1>3, <2>1, <2>2, TypeOfOneRunOnly
<1> QED BY <1>2, <1>4, <1>5, <1>6

\* What a step within the body of a run makes of the run's record.
LEMMA AdvancedTyped ==
  ASSUME TypeInv, NEW r \in Run
  PROVE  /\ \A pc \in {"finish", "start", "snap", "list"} :
              Typed([run[r] EXCEPT !.pc = pc], Len(repo))
         /\ \A pc \in Live : run[r].src # 0 => Typed([run[r] EXCEPT !.pc = pc], Len(repo))
         /\ Typed(Over(r), Len(repo)) /\ Typed(AtRest("idle"), Len(repo))
         /\ Typed(run[r], Len(repo))
<1>1. Typed(run[r], Len(repo)) /\ run[r] \in RunState
  BY DEF Typed, TypeInv, TypeOK, SourceKnown
<1>2. Typed(Over(r), Len(repo))
  BY OverIsRunState, RepoLen DEF Typed, TypeInv
<1>3. Typed(AtRest("idle"), Len(repo))
  <2>1. AtRest("idle") \in RunState /\ AtRest("idle").src = 0 /\ AtRest("idle").pc = "idle"
    BY AtRestIsRunState DEF Stages, AtRest
  <2> QED BY <2>1, RepoLen DEF Typed
<1>4. ASSUME NEW pc \in Live, run[r].src # 0 \/ pc \in {"finish", "start", "snap", "list"}
      PROVE  Typed([run[r] EXCEPT !.pc = pc], Len(repo))
  BY <1>1, <1>4 DEF Typed, RunState
<1> QED BY <1>1, <1>2, <1>3, <1>4 DEF Live

LEMMA TypeRecordJob ==
  ASSUME TypeInv, NEW r \in Run, RecordJob(r)
  PROVE  TypeInv'
<1> DEFINE next == IF run[r].op # "restore" THEN "start"
                   ELSE IF run[r].src = 0 THEN "list" ELSE "stage"
<1>0. repo' = repo /\ db \in File /\ run[r] \in RunState
  BY DEF RecordJob, TypeInv, TypeOK
<1>1. Typed([run[r] EXCEPT !.pc = next], Len(repo))
  BY AdvancedTyped DEF Live
<1>2. CASE /\ db.kind = "ok"
           /\ db' = [db EXCEPT !.jobs = Append(@, [by |-> r, status |-> "running"])]
           /\ run' = [run EXCEPT ![r].pc = next, ![r].job = NextId]
  <2> DEFINE x == [run[r] EXCEPT !.pc = next, !.job = NextId]
  <2>1. Becomes(r, x)
    BY <1>2 DEF Becomes
  <2>2. NextId \in Nat
    BY <1>0, LenProperties DEF NextId, File
  <2>3. Typed(x, Len(repo))
    BY <1>0, <1>1, <2>2 DEF Typed, RunState
  <2>4. db' \in File
    BY <1>0, <1>2, RowAppended DEF RecordJob
  <2>5. RestTyped
    BY <2>4 DEF RecordJob, RestTyped, TypeInv, TypeOK
  <2> HIDE DEF x
  <2> QED BY <1>0, <2>1, <2>3, <2>5, TypeOfOneRunOnly
<1>3. CASE db' \in {db, Touched(db)} /\ Goto(r, next)
  <2> DEFINE x == [run[r] EXCEPT !.pc = next]
  <2>1. Becomes(r, x)
    BY <1>3 DEF Goto, Becomes
  <2>2. db' \in File
    BY <1>0, <1>3, TouchedIsFile
  <2>3. RestTyped
    BY <2>2 DEF RecordJob, RestTyped, TypeInv, TypeOK
  <2>4. Typed(x, Len(repo))
    BY <1>1
  <2> HIDE DEF x
  <2> QED BY <1>0, <2>1, <2>3, <2>4, TypeOfOneRunOnly
<1> QED BY <1>2, <1>3 DEF RecordJob

LEMMA TypeEndSnapshot ==
  ASSUME TypeInv, NEW r \in Run, EndSnapshot(r)
  PROVE  TypeInv'
<1> DEFINE y == [run[r] EXCEPT !.pc = "finish", !.good = TRUE, !.seen = Missing]
           x == IF run[r].pc = "orphan" THEN Over(r) ELSE y
<1>0. run[r] \in RunState /\ db \in File /\ repo \in Seq(Snapshot) /\ Len(repo) \in Nat
  BY RepoLen DEF TypeInv, TypeOK
<1>1. PICK f \in {run[r].seen, db} \cup {Corrupt} :
        repo' = Append(repo, [file |-> f, by |-> r])
  BY DEF EndSnapshot
<1>2. [file |-> f, by |-> r] \in Snapshot
  BY <1>0, FilesAreFiles DEF Snapshot, RunState
<1>3. repo' \in Seq(Snapshot) /\ Len(repo') = Len(repo) + 1
  BY <1>0, <1>1, <1>2, AppendProperties
<1>4. Typed(y, Len(repo))
  <2>1. y \in RunState /\ y.src = run[r].src /\ y.pc = "finish"
    BY <1>0, FilesAreFiles DEF RunState, Live
  <2> QED BY <2>1 DEF Typed, TypeInv, SourceKnown
<1>5. Typed(x, Len(repo) + 1)
  <2>1. Typed(x, Len(repo))
    BY <1>4, AdvancedTyped
  <2> HIDE DEF x
  <2> QED BY <1>0, <2>1 DEF Typed
<1>6. Becomes(r, x) /\ RestTyped
  BY RestUnchanged DEF EndSnapshot, Becomes
<1> HIDE DEF x
<1> QED BY <1>0, <1>3, <1>5, <1>6, TypeOfOneRun

LEMMA TypeCopyBegin ==
  ASSUME TypeInv, NEW r \in Run, CopyBegin(r)
  PROVE  TypeInv'
<1>1. ASSUME NEW q \in Run
      PROVE  /\ run'[q] \in RunState /\ run'[q].src = run[q].src
             /\ run'[q].pc = run[q].pc \/ (q = r /\ run[r].pc = "copy")
  <2>0. run[q] \in RunState
    BY DEF TypeInv, TypeOK
  <2>1. run'[q] = IF q = r THEN [run[q] EXCEPT !.pc = "copying", !.stale = TRUE]
                  ELSE IF IsLive(q) THEN [run[q] EXCEPT !.stale = TRUE]
                  ELSE run[q]
    BY DEF CopyBegin
  <2>2. /\ [run[q] EXCEPT !.pc = "copying", !.stale = TRUE] \in RunState
        /\ [run[q] EXCEPT !.stale = TRUE] \in RunState
    BY <2>0 DEF RunState, Live
  <2>3. run[r].pc = "copy"
    BY DEF CopyBegin
  <2> QED BY <2>0, <2>1, <2>2, <2>3 DEF RunState
<1>2. run' \in [Run -> RunState]
  BY <1>1 DEF CopyBegin
<1>3. TypeOK'
  BY <1>2, FilesAreFiles DEF CopyBegin, TypeInv, TypeOK
<1>4. SourceKnown'
  BY <1>1 DEF CopyBegin, TypeInv, SourceKnown
<1> QED BY <1>3, <1>4 DEF TypeInv

LEMMA TypeFinishJob ==
  ASSUME TypeInv, NEW r \in Run, FinishJob(r)
  PROVE  TypeInv'
<1>0. db \in File /\ repo' = repo
  BY DEF FinishJob, TypeInv, TypeOK
<1>1. FinalStatus(r) \in {"running", "success", "failed"}
  BY DEF FinalStatus
<1>2. db' \in File
  <2>1. CASE /\ run[r].job \in DOMAIN db.jobs
             /\ db' = [db EXCEPT !.jobs[run[r].job].status = FinalStatus(r)]
    <3>1. [db EXCEPT !.jobs[run[r].job].status = FinalStatus(r)] \in File
      BY <1>0, <1>1, <2>1, RowUpdated
    <3> QED BY <2>1, <3>1
  <2>2. CASE db' = [db EXCEPT !.jobs = Append(@, [by |-> r, status |-> FinalStatus(r)])]
    BY <1>0, <1>1, <2>2, RowAppended
  <2>3. CASE db' \in {db, Touched(db)}
    BY <1>0, <2>3, TouchedIsFile
  <2> QED BY <2>1, <2>2, <2>3 DEF FinishJob
<1>3. RestTyped
  BY <1>2 DEF FinishJob, RestTyped, TypeInv, TypeOK
<1>4. Becomes(r, AtRest("idle")) \/ Becomes(r, Over(r))
  BY DEF FinishJob, Becomes
<1> QED BY <1>0, <1>3, <1>4, AdvancedTyped, TypeOfOneRunOnly

LEMMA TypeStep ==
  ASSUME TypeInv, NEW r \in Run, Step(r) \/ Failure(r)
  PROVE  TypeInv'
<1>0. run[r] \in RunState /\ db \in File
  BY DEF TypeInv, TypeOK
<1>1. CASE StartSnapshot(r)
  <2> DEFINE x == [run[r] EXCEPT !.pc = "snap", !.seen = db]
  <2>1. Typed(x, Len(repo))
    <3>1. x \in RunState /\ x.src = run[r].src /\ x.pc = "snap"
      BY <1>0 DEF RunState, Live
    <3> QED BY <3>1 DEF Typed, TypeInv, SourceKnown
  <2>2. Becomes(r, x) /\ RestTyped /\ repo' = repo
    BY <1>1, RestUnchanged DEF StartSnapshot, Becomes
  <2> HIDE DEF x
  <2> QED BY <2>1, <2>2, TypeOfOneRunOnly
<1>2. CASE ListSnapshots(r)
  <2>0. RestTyped /\ repo' = repo
    BY <1>2, RestUnchanged DEF ListSnapshots
  <2>1. CASE repo = <<>> /\ Goto(r, "finish")
    <3>1. Becomes(r, [run[r] EXCEPT !.pc = "finish"])
      BY <2>1 DEF Goto, Becomes
    <3> QED BY <2>0, <3>1, AdvancedTyped, TypeOfOneRunOnly
  <2>2. CASE repo # <<>> /\ run' = [run EXCEPT ![r].pc = "stage", ![r].src = Newest]
    <3> DEFINE x == [run[r] EXCEPT !.pc = "stage", !.src = Newest]
    <3>1. Len(repo) \in Nat /\ Len(repo) # 0
      BY <2>2, EmptySeq, RepoLen DEF TypeInv, TypeOK
    <3>2. Typed(x, Len(repo))
      <4>1. x \in RunState /\ x.src = Len(repo)
        BY <1>0, <3>1 DEF RunState, Live, Newest
      <4> QED BY <3>1, <4>1 DEF Typed
    <3>3. Becomes(r, x)
      BY <2>2 DEF Becomes
    <3> HIDE DEF x
    <3> QED BY <2>0, <3>2, <3>3, TypeOfOneRunOnly
  <2> QED BY <1>2, <2>1, <2>2 DEF ListSnapshots
<1>3. CASE Stage(r)
  <2>1. Becomes(r, [run[r] EXCEPT !.pc = "copy"]) /\ RestTyped /\ repo' = repo
    BY <1>3, RestUnchanged DEF Stage, Goto, Becomes
  <2>2. run[r].src # 0
    BY <1>3 DEF Stage, TypeInv, SourceKnown
  <2> QED BY <2>1, <2>2, AdvancedTyped, TypeOfOneRunOnly DEF Live
<1>4. CASE CopyEnd(r)
  <2> DEFINE x == [run[r] EXCEPT !.pc = "finish", !.good = TRUE]
  <2>1. run[r].src \in 1..Len(repo)
    BY <1>4, RepoLen DEF CopyEnd, TypeInv, SourceKnown
  <2>2. repo[run[r].src] \in Snapshot
    BY <2>1, ElementOfSeq DEF TypeInv, TypeOK
  <2>3. RestTyped
    BY <1>4, <2>2 DEF CopyEnd, Snapshot, RestTyped, TypeInv, TypeOK
  <2>4. Typed(x, Len(repo))
    <3>1. x \in RunState /\ x.src = run[r].src /\ x.pc = "finish"
      BY <1>0 DEF RunState, Live
    <3> QED BY <3>1 DEF Typed, TypeInv, SourceKnown
  <2>5. Becomes(r, x) /\ repo' = repo
    BY <1>4 DEF CopyEnd, Becomes
  <2> HIDE DEF x
  <2> QED BY <2>3, <2>4, <2>5, TypeOfOneRunOnly
<1>5. CASE ResticFails(r) \/ CopyFails(r)
  <2>1. /\ Becomes(r, [run[r] EXCEPT !.pc = "finish"])
        /\ UNCHANGED <<db, repo, server, written, config>> /\ Fault
    BY <1>5 DEF ResticFails, CopyFails, Goto, Becomes
  <2>2. RestTyped
    BY <2>1, RestUnchanged DEF RestTyped, TypeInv, TypeOK
  <2> QED BY <2>1, <2>2, AdvancedTyped, TypeOfOneRunOnly
<1>6. CASE OrphanDies(r)
  <2>1. Becomes(r, Over(r)) /\ RestTyped /\ repo' = repo
    BY <1>6, RestUnchanged DEF OrphanDies, Becomes
  <2> QED BY <2>1, AdvancedTyped, TypeOfOneRunOnly
<1> QED BY <1>1, <1>2, <1>3, <1>4, <1>5, <1>6, TypeRecordJob, TypeEndSnapshot,
           TypeCopyBegin, TypeFinishJob DEF Step, Failure

LEMMA TypeEnvironment == TypeInv /\ Environment => TypeInv'
<1> SUFFICES ASSUME TypeInv, Environment PROVE TypeInv'
  OBVIOUS
<1>1. CASE UserWrite
  <2>1. db' \in File /\ written' \in Nat
    BY <1>1, VersionIsFile DEF UserWrite, TypeInv, TypeOK
  <2> QED BY <1>1, <2>1, TypeOfNoRun DEF UserWrite, RestTyped, TypeInv, TypeOK
<1>2. CASE Stop
  BY <1>2, TypeOfNoRun DEF Stop, RestTyped, TypeInv, TypeOK
<1>3. CASE Crash
  <2>1. RestTyped
    BY <1>3, RestUnchanged DEF Crash, RestTyped, TypeInv, TypeOK
  <2> QED BY <1>3, <2>1, TypeOfEnded DEF Crash
<1>4. CASE LoseFile
  <2>1. RestTyped
    BY <1>4, FilesAreFiles, RestUnchanged DEF LoseFile, RestTyped, TypeInv, TypeOK
  <2> QED BY <1>4, <2>1, TypeOfNoRun DEF LoseFile
<1> QED BY <1>1, <1>2, <1>3, <1>4 DEF Environment

LEMMA TypeNext == TypeInv /\ [Next]_vars => TypeInv'
<1> SUFFICES ASSUME TypeInv, [Next]_vars PROVE TypeInv'
  OBVIOUS
<1>1. CASE Next
  BY <1>1, TypeStart, TypeRequest, TypeStep, TypeEnvironment DEF Next
<1>2. CASE UNCHANGED vars
  BY <1>2 DEF vars, TypeInv, TypeOK, SourceKnown
<1> QED BY <1>1, <1>2

LEMMA TypeInvariant == Spec => []TypeInv
BY TypeInit, TypeNext, PTL DEF Spec

\* Every variable of the component keeps its type, in every execution of the
\* backup and start-up code, for every set of runs and every bound.
THEOREM TypeCorrect == Spec => []TypeOK
<1>1. TypeInv => TypeOK
  BY DEF TypeInv
<1> QED BY <1>1, TypeInvariant, PTL

(***************************************************************************)
(* Job ids and the startup restore.                                        *)
(*                                                                         *)
(* JobIdIsOwn is not inductive: a file may be replaced while a run holds   *)
(* an id.  What makes it so is when files are replaced.  While the program *)
(* is down, migrates or checks, no run is live; during the startup restore *)
(* only that run is; a copy has marked every live run's id as stale, and   *)
(* until it ends the file cannot be read, so no id is taken from it.       *)
(***************************************************************************)
NobodyEarly ==
  \A r \in Run :
    IsLive(r) => \/ server \in {"seeding", "up"} /\ r # Startup
                 \/ server = "restoring" /\ r = Startup

OneCopyAtATime ==
  \A p, q \in Run : run[p].pc = "copying" /\ run[q].pc = "copying" => p = q

CopyIsUnreadable ==
  \A r \in Run : run[r].pc = "copying" => db.kind # "ok"

StillDamaged ==
  run[Startup].pc \in {"record", "list", "stage", "copy"}
    => db.kind # "ok" \/ run[Startup].misjudged

Calm == NobodyEarly /\ OneCopyAtATime /\ CopyIsUnreadable /\ StillDamaged

IInv == TypeInv /\ JobIdIsOwn /\ Calm

LEMMA SafeInit == Init => IInv
<1> SUFFICES ASSUME Init PROVE IInv
  OBVIOUS
<1>1. \A r \in Run : run[r].pc = "idle"
  BY DEF Init, AtRest
<1>2. Startup \in Run
  BY DEF Run
<1> QED BY <1>1, <1>2, TypeInit DEF IInv, JobIdIsOwn, Calm, NobodyEarly, OneCopyAtATime,
           CopyIsUnreadable, StillDamaged, IsLive, Live

\* The rows of a readable file stay, each with the run that inserted it.
RowsKept ==
  db.kind = "ok" =>
    /\ db'.kind = "ok"
    /\ \A i \in DOMAIN db.jobs : /\ i \in DOMAIN db'.jobs
                                 /\ db'.jobs[i].by = db.jobs[i].by

\* No run holds an id that it did not hold before.
IdsInherited ==
  \A r \in Run :
    IsLive(r)' /\ run'[r].job # 0 /\ ~run'[r].stale =>
      IsLive(r) /\ run[r].job = run'[r].job /\ ~run[r].stale

LEMMA OwnIdsStay ==
  ASSUME JobIdIsOwn, RowsKept, IdsInherited
  PROVE  JobIdIsOwn'
BY DEF JobIdIsOwn, RowsKept, IdsInherited

LEMMA SameRowsKept ==
  /\ db' = db => RowsKept
  /\ db.kind # "ok" => RowsKept
  /\ \A v : db \in File /\ db' = [db EXCEPT !.ver = v] => RowsKept
BY DEF RowsKept, File

LEMMA EndedIds ==
  ASSUME TypeInv, run' = Ended
  PROVE  /\ IdsInherited /\ \A r \in Run : ~IsLive(r)'
<1>1. \A r \in Run : Ended[r].pc \notin Live
  BY EndedType DEF TypeInv
<1> QED BY <1>1 DEF IsLive, IdsInherited

\* When no run is live, nothing but the rows of the file can be at stake.
LEMMA NobodyLive ==
  ASSUME \A r \in Run : ~IsLive(r)'
  PROVE  Calm' /\ IdsInherited /\ JobIdIsOwn'
<1>1. Startup \in Run
  BY DEF Run
<1> QED BY <1>1 DEF Calm, NobodyEarly, OneCopyAtATime, CopyIsUnreadable, StillDamaged,
           JobIdIsOwn, IdsInherited, IsLive, Live

LEMMA EarlyNobody ==
  ASSUME NobodyEarly, server \in {"down", "migrating", "checking"}
  PROVE  \A r \in Run : ~IsLive(r)
BY DEF NobodyEarly

\* A step of one run, after which that run copies nothing and, if it is the
\* startup run, is past the copy, was begun by mistake, or still has an
\* unreadable file.
LEMMA CalmStep ==
  ASSUME TypeInv, Calm, NEW r \in Run, NEW x, Becomes(r, x),
         x.pc # "copying", IsLive(r) \/ x.pc \notin Live, server' = server,
         LoopFree \/ run[r].pc = "copying" \/ db' = db,
         db.kind # "ok" => db'.kind # "ok" \/ x.pc = "finish",
         r = Startup => \/ x.pc \in {"finish", "snap"} \/ x.pc \notin Live
                        \/ db'.kind # "ok" \/ x.misjudged
  PROVE  Calm'
<1>0. run \in [Run -> RunState] /\ Startup \in Run
  BY DEF TypeInv, TypeOK, Run
<1>1. \A q \in Run : run'[q] = IF q = r THEN x ELSE run[q]
  BY <1>0 DEF Becomes
<1>2. NobodyEarly'
  BY <1>1 DEF Calm, NobodyEarly, IsLive
<1>3. OneCopyAtATime'
  BY <1>1 DEF Calm, OneCopyAtATime
<1>4. CopyIsUnreadable'
  BY <1>1 DEF Calm, CopyIsUnreadable, OneCopyAtATime, LoopFree
<1>5. StillDamaged'
  BY <1>0, <1>1 DEF Calm, StillDamaged, NobodyEarly, IsLive, Live
<1> QED BY <1>2, <1>3, <1>4, <1>5 DEF Calm

LEMMA SafeStart ==
  ASSUME IInv, Starting
  PROVE  JobIdIsOwn' /\ Calm'
<1>0. TypeInv /\ JobIdIsOwn /\ Calm /\ run \in [Run -> RunState] /\ db \in File /\ Startup \in Run
  BY DEF IInv, TypeInv, TypeOK, Run
<1>1. CASE Boot \/ Migrate
  <2>1. \A r \in Run : ~IsLive(r)
    BY <1>0, <1>1, EarlyNobody DEF Boot, Migrate, Calm
  <2>2. \A r \in Run : ~IsLive(r)'
    BY <1>1, <2>1 DEF Boot, Migrate, IsLive
  <2> QED BY <2>2, NobodyLive
<1>2. CASE StartupCheck
  <2>1. \A r \in Run : ~IsLive(r)
    BY <1>0, <1>2, EarlyNobody DEF StartupCheck, Calm
  <2>2. CASE UNCHANGED run
    <3>1. \A r \in Run : ~IsLive(r)'
      BY <2>1, <2>2 DEF IsLive
    <3> QED BY <3>1, NobodyLive
  <2>3. CASE Becomes(Startup, Begun("restore", 0)) /\ Damaged /\ server' = "restoring"
    <3>1. \A q \in Run : run'[q] = IF q = Startup THEN Begun("restore", 0) ELSE run[q]
      BY <1>0, <2>3 DEF Becomes
    <3>2. Begun("restore", 0).pc = "record" /\ Begun("restore", 0).job = 0
      BY BegunIsRunState
    <3>3. db' = db /\ db.kind # "ok"
      BY <1>2, <2>3 DEF StartupCheck, Damaged
    <3>4. JobIdIsOwn'
      BY <2>1, <3>1, <3>2 DEF JobIdIsOwn, IsLive
    <3>5. Calm'
      BY <2>1, <2>3, <3>1, <3>2, <3>3
      DEF Calm, NobodyEarly, OneCopyAtATime, CopyIsUnreadable, StillDamaged, IsLive, Live
    <3> QED BY <3>4, <3>5
  <2>4. CASE Becomes(Startup, Mistaken) /\ server' = "restoring"
    <3>1. \A q \in Run : run'[q] = IF q = Startup THEN Mistaken ELSE run[q]
      BY <1>0, <2>4 DEF Becomes
    <3>2. JobIdIsOwn'
      BY <2>1, <3>1, MistakenIsRunState DEF JobIdIsOwn, IsLive
    <3>3. /\ Mistaken.pc \in Live /\ Mistaken.pc # "copying"
          /\ \A q \in Run : IsLive(q)' => q = Startup
          /\ \A q \in Run : run'[q].pc # "copying"
      BY <2>1, <3>1, MistakenIsRunState DEF IsLive, Live
    <3>4. StillDamaged'
      BY <1>0, <3>1, MistakenIsRunState DEF StillDamaged
    <3>5. Calm'
      BY <2>4, <3>3, <3>4 DEF Calm, NobodyEarly, OneCopyAtATime, CopyIsUnreadable
    <3> QED BY <3>2, <3>5
  <2> QED BY <1>2, <2>2, <2>3, <2>4 DEF StartupCheck, Becomes, Mistaken
<1>3. CASE Seed
  <2>1. CASE UNCHANGED run /\ server' = "up"
    <3>1. RowsKept
      BY <1>0, <1>3, <2>1, SameRowsKept DEF Seed
    <3>2. IdsInherited
      BY <2>1 DEF IdsInherited, IsLive
    <3>3. Calm'
      BY <1>0, <1>3, <2>1
      DEF Seed, LoopFree, Calm, NobodyEarly, OneCopyAtATime, CopyIsUnreadable, StillDamaged,
          IsLive, Live
    <3> QED BY <1>0, <3>1, <3>2, <3>3, OwnIdsStay
  <2>2. CASE run' = Ended
    BY <1>0, <2>2, EndedIds, NobodyLive
  <2> QED BY <1>3, <2>1, <2>2 DEF Seed
<1> QED BY <1>1, <1>2, <1>3 DEF Starting

LEMMA SafeRequest ==
  ASSUME IInv, NEW r \in PanelRun, Request(r)
  PROVE  JobIdIsOwn' /\ Calm'
<1>0. TypeInv /\ JobIdIsOwn /\ Calm /\ run \in [Run -> RunState] /\ r \in Run
      /\ Startup \in Run /\ r # Startup
  BY StartupAssumption DEF IInv, TypeInv, TypeOK, Run
<1>1. /\ server \in {"seeding", "up"} /\ db' = db /\ server' = server
      /\ \E op \in {"manual", "scheduled", "restore"}, i \in Nat : Becomes(r, Begun(op, i))
  <2>1. 0 \in Nat /\ 0..Len(repo) \subseteq Nat
    BY <1>0, RepoLen
  <2> QED BY <2>1 DEF Request, ManualBackup, ManualRestore, ScheduledBackup, Authenticated, Becomes
<1>2. PICK op \in {"manual", "scheduled", "restore"}, i \in Nat : Becomes(r, Begun(op, i))
  BY <1>1
<1>3. \A q \in Run : run'[q] = IF q = r THEN Begun(op, i) ELSE run[q]
  BY <1>0, <1>2 DEF Becomes
<1>4. Begun(op, i).pc = "record" /\ Begun(op, i).job = 0
  BY BegunIsRunState
<1>5. RowsKept /\ IdsInherited
  BY <1>1, <1>3, <1>4, SameRowsKept DEF IdsInherited, IsLive
<1>6. Calm'
  BY <1>0, <1>1, <1>3, <1>4
  DEF Calm, NobodyEarly, OneCopyAtATime, CopyIsUnreadable, StillDamaged, IsLive, Live
<1> QED BY <1>0, <1>5, <1>6, OwnIdsStay

LEMMA SafeRecordJob ==
  ASSUME IInv, NEW r \in Run, RecordJob(r)
  PROVE  JobIdIsOwn' /\ Calm'
<1> DEFINE next == IF run[r].op # "restore" THEN "start"
                   ELSE IF run[r].src = 0 THEN "list" ELSE "stage"
<1>0. /\ TypeInv /\ JobIdIsOwn /\ Calm /\ run \in [Run -> RunState] /\ db \in File
      /\ run[r] \in RunState /\ server' = server /\ LoopFree
      /\ run[r].pc = "record" /\ IsLive(r)
  BY DEF IInv, TypeInv, TypeOK, RecordJob, IsLive, Live
<1>1. CASE /\ db.kind = "ok"
           /\ db' = [db EXCEPT !.jobs = Append(@, [by |-> r, status |-> "running"])]
           /\ run' = [run EXCEPT ![r].pc = next, ![r].job = NextId]
  <2> DEFINE x == [run[r] EXCEPT !.pc = next, !.job = NextId]
             row == [by |-> r, status |-> "running"]
  <2>1. Becomes(r, x) /\ db' = [db EXCEPT !.jobs = Append(db.jobs, row)]
    BY <1>1 DEF Becomes
  <2>2. /\ x.pc = next /\ x.job = NextId /\ x.stale = run[r].stale
        /\ x.misjudged = run[r].misjudged
    BY <1>0 DEF RunState
  <2>3. db.jobs \in Seq(Row) /\ row \in Row
    BY <1>0 DEF File, Row
  <2>4. /\ db'.kind = "ok" /\ db'.jobs = Append(db.jobs, row)
    BY <1>0, <1>1, <2>1 DEF File
  <2>5. /\ Len(db.jobs) \in Nat /\ DOMAIN db.jobs = 1..Len(db.jobs)
        /\ DOMAIN db'.jobs = 1..(Len(db.jobs) + 1)
        /\ \A i \in 1..Len(db.jobs) : db'.jobs[i] = db.jobs[i]
        /\ db'.jobs[Len(db.jobs) + 1] = row
    <3>1. Append(db.jobs, row) \in Seq(Row) /\ Len(Append(db.jobs, row)) = Len(db.jobs) + 1
      BY <2>3, AppendProperties
    <3>2. DOMAIN Append(db.jobs, row) = 1..(Len(db.jobs) + 1)
      BY <3>1, LenProperties
    <3>3. Len(db.jobs) \in Nat /\ DOMAIN db.jobs = 1..Len(db.jobs)
      BY <2>3, LenProperties
    <3> QED BY <2>3, <2>4, <3>2, <3>3, AppendProperties
  <2>6. \A q \in Run : run'[q] = IF q = r THEN x ELSE run[q]
    BY <1>0, <2>1 DEF Becomes
  <2>7. JobIdIsOwn'
    <3> SUFFICES ASSUME NEW q \in Run, IsLive(q)', run'[q].job # 0, ~run'[q].stale
                 PROVE  /\ run'[q].job \in DOMAIN db'.jobs
                        /\ db'.jobs[run'[q].job].by = q
      BY <2>4 DEF JobIdIsOwn
    <3>1. CASE q = r
      <4>1. run'[q].job = Len(db.jobs) + 1
        BY <2>2, <2>6, <3>1 DEF NextId
      <4>2. row.by = q
        BY <3>1
      <4> QED BY <2>5, <4>1, <4>2
    <3>2. CASE q # r
      <4>1. /\ run'[q] = run[q] /\ run[q].job \in DOMAIN db.jobs
            /\ db.jobs[run[q].job].by = q
        BY <1>0, <2>6, <3>2 DEF JobIdIsOwn, IsLive
      <4> QED BY <2>5, <4>1
    <3> QED BY <3>1, <3>2
  <2>8. r = Startup => x.misjudged
    BY <1>0, <1>1, <2>2 DEF Calm, StillDamaged
  <2>9. x.pc # "copying"
    BY <2>2
  <2> HIDE DEF x
  <2>10. Calm'
    BY <1>0, <1>1, <2>1, <2>8, <2>9, CalmStep
  <2> QED BY <2>7, <2>10
<1>2. CASE /\ Goto(r, next)
           /\ (db.kind # "ok" /\ db' = Touched(db)) \/ (run[r].misjudged /\ db' = db)
  <2> DEFINE x == [run[r] EXCEPT !.pc = next]
  <2>1. Becomes(r, x)
    BY <1>2 DEF Goto, Becomes
  <2>2. /\ x.pc = next /\ x.job = run[r].job /\ x.stale = run[r].stale
        /\ x.misjudged = run[r].misjudged
    BY <1>0 DEF RunState
  <2>3. \A q \in Run : run'[q] = IF q = r THEN x ELSE run[q]
    BY <1>0, <2>1 DEF Becomes
  <2>4. RowsKept
    BY <1>2, SameRowsKept
  <2>5. IdsInherited
    BY <1>0, <2>2, <2>3 DEF IdsInherited, IsLive
  <2>6. (db.kind # "ok" => db'.kind # "ok") /\ (db'.kind # "ok" \/ x.misjudged)
    BY <1>2, <2>2 DEF Touched, Empty, Blank
  <2>7. x.pc # "copying"
    BY <2>2
  <2> HIDE DEF x
  <2>8. Calm'
    BY <1>0, <2>1, <2>6, <2>7, CalmStep
  <2> QED BY <1>0, <2>4, <2>5, <2>8, OwnIdsStay
<1> QED BY <1>1, <1>2 DEF RecordJob

LEMMA SafeCopyBegin ==
  ASSUME IInv, NEW r \in Run, CopyBegin(r)
  PROVE  JobIdIsOwn' /\ Calm'
<1>0. TypeInv /\ Calm /\ run \in [Run -> RunState] /\ Startup \in Run
  BY DEF IInv, TypeInv, TypeOK, Run
<1>1. \A q \in Run : /\ IsLive(q)' <=> IsLive(q)
                     /\ IsLive(q) => run'[q].stale
                     /\ run'[q].pc = "copying" <=> q = r
  <2> SUFFICES ASSUME NEW q \in Run
               PROVE  /\ IsLive(q)' <=> IsLive(q)
                      /\ IsLive(q) => run'[q].stale
                      /\ run'[q].pc = "copying" <=> q = r
    OBVIOUS
  <2>1. run[q] \in RunState
    BY <1>0
  <2>2. run'[q] = IF q = r THEN [run[q] EXCEPT !.pc = "copying", !.stale = TRUE]
                  ELSE IF IsLive(q) THEN [run[q] EXCEPT !.stale = TRUE]
                  ELSE run[q]
    BY DEF CopyBegin
  <2>3. run[r].pc = "copy" /\ run[q].pc # "copying"
    BY DEF CopyBegin, LoopFree
  <2>4. CASE q = r
    BY <2>1, <2>2, <2>3, <2>4 DEF RunState, IsLive, Live
  <2>5. CASE q # r
    BY <2>1, <2>2, <2>3, <2>5 DEF RunState, IsLive
  <2> QED BY <2>4, <2>5
<1>2. db'.kind # "ok" /\ server' = server
  <2>1. Empty.kind = "empty" /\ Corrupt.kind = "corrupt"
    BY DEF Empty, Corrupt, Blank
  <2> QED BY <2>1 DEF CopyBegin
<1>3. JobIdIsOwn'
  BY <1>1 DEF JobIdIsOwn
<1>4. Calm'
  BY <1>0, <1>1, <1>2 DEF Calm, NobodyEarly, OneCopyAtATime, CopyIsUnreadable, StillDamaged
<1> QED BY <1>3, <1>4

LEMMA SafeFinishJob ==
  ASSUME IInv, NEW r \in Run, FinishJob(r)
  PROVE  JobIdIsOwn' /\ Calm'
<1>0. /\ TypeInv /\ JobIdIsOwn /\ Calm /\ run \in [Run -> RunState] /\ db \in File
      /\ Startup \in Run /\ IsLive(r) /\ LoopFree
  BY DEF IInv, TypeInv, TypeOK, Run, FinishJob, IsLive, Live
<1>1. RowsKept
  <2>1. FinalStatus(r) \in {"running", "success", "failed"}
    BY DEF FinalStatus
  <2>2. CASE /\ db.kind = "ok" /\ run[r].job \in DOMAIN db.jobs
             /\ db' = [db EXCEPT !.jobs[run[r].job].status = FinalStatus(r)]
    <3>1. db' = [db EXCEPT !.jobs[run[r].job].status = FinalStatus(r)]
      BY <2>2
    <3>2. /\ db'.kind = db.kind /\ DOMAIN db'.jobs = DOMAIN db.jobs
          /\ \A j \in DOMAIN db.jobs : db'.jobs[j].by = db.jobs[j].by
      BY <1>0, <2>1, <2>2, <3>1, RowUpdated
    <3> QED BY <2>2, <3>2 DEF RowsKept
  <2>3. CASE /\ db.kind = "ok"
             /\ db' = [db EXCEPT !.jobs = Append(@, [by |-> r, status |-> FinalStatus(r)])]
    <3> DEFINE row == [by |-> r, status |-> FinalStatus(r)]
    <3>1. db' = [db EXCEPT !.jobs = Append(db.jobs, row)]
      BY <2>3
    <3>2. db.jobs \in Seq(Row) /\ row \in Row
      BY <1>0, <2>1 DEF File, Row
    <3>3. db'.kind = "ok" /\ db'.jobs = Append(db.jobs, row)
      BY <1>0, <2>3, <3>1 DEF File
    <3>4. Append(db.jobs, row) \in Seq(Row) /\ Len(Append(db.jobs, row)) = Len(db.jobs) + 1
      BY <3>2, AppendProperties
    <3>5. /\ Len(db.jobs) \in Nat /\ DOMAIN db.jobs = 1..Len(db.jobs)
          /\ DOMAIN Append(db.jobs, row) = 1..(Len(db.jobs) + 1)
      BY <3>2, <3>4, LenProperties
    <3>6. \A i \in DOMAIN db.jobs : Append(db.jobs, row)[i] = db.jobs[i]
      BY <3>2, <3>5, AppendProperties
    <3> HIDE DEF row
    <3> QED BY <3>3, <3>5, <3>6 DEF RowsKept
  <2>4. CASE db.kind # "ok" \/ db' = db
    BY <1>0, <2>4, SameRowsKept
  <2> QED BY <2>2, <2>3, <2>4 DEF FinishJob
<1>2. \A q \in Run : IF q = r THEN ~IsLive(q)' ELSE run'[q] = run[q]
  <2>1. AtRest("idle").pc \notin Live /\ Over(r).pc \notin Live
    BY <1>0, OverIsRunState DEF AtRest, Live, TypeInv
  <2> QED BY <1>0, <2>1 DEF FinishJob, IsLive
<1>3. IdsInherited
  BY <1>2 DEF IdsInherited, IsLive
<1>4. server' = IF r = Startup THEN "seeding" ELSE server
  BY DEF FinishJob
<1>5. NobodyEarly'
  BY <1>0, <1>2, <1>4 DEF Calm, NobodyEarly, IsLive
<1>6. LoopFree'
  BY <1>0, <1>2 DEF LoopFree, IsLive, Live
<1>7. StillDamaged'
  <2>1. CASE r = Startup
    BY <1>0, <1>2, <2>1 DEF StillDamaged, IsLive, Live
  <2>2. CASE r # Startup
    BY <1>0, <1>2, <2>2 DEF Calm, NobodyEarly, StillDamaged, IsLive, Live
  <2> QED BY <2>1, <2>2
<1>8. Calm'
  BY <1>5, <1>6, <1>7 DEF Calm, OneCopyAtATime, CopyIsUnreadable, LoopFree
<1> QED BY <1>0, <1>1, <1>3, <1>8, OwnIdsStay

LEMMA SafeStep ==
  ASSUME IInv, NEW r \in Run, Step(r) \/ Failure(r)
  PROVE  JobIdIsOwn' /\ Calm'
<1>0. /\ TypeInv /\ JobIdIsOwn /\ Calm /\ run \in [Run -> RunState] /\ run[r] \in RunState
  BY DEF IInv, TypeInv, TypeOK
\* A run moves on, and holds the id it held.
<1>1. ASSUME NEW x, Becomes(r, x), RowsKept,
             (IsLive(r) /\ x.job = run[r].job /\ x.stale = run[r].stale) \/ x.pc \notin Live
      PROVE  JobIdIsOwn'
  <2>1. \A q \in Run : run'[q] = IF q = r THEN x ELSE run[q]
    BY <1>0, <1>1 DEF Becomes
  <2>2. IdsInherited
    BY <1>1, <2>1 DEF IdsInherited, IsLive
  <2> QED BY <1>0, <1>1, <2>2, OwnIdsStay
<1>2. CASE StartSnapshot(r) \/ Stage(r) \/ ListSnapshots(r) \/ ResticFails(r) \/ CopyFails(r)
  <2>1. PICK x : /\ Becomes(r, x) /\ x.job = run[r].job /\ x.stale = run[r].stale
                 /\ x.misjudged = run[r].misjudged
                 /\ x.pc \in {"snap", "copy", "stage", "finish"}
                 /\ x.pc \in {"copy", "stage"} => run[r].pc \in {"stage", "list"}
    <3>1. CASE StartSnapshot(r)
      <4> WITNESS [run[r] EXCEPT !.pc = "snap", !.seen = db]
      <4> QED BY <1>0, <3>1 DEF StartSnapshot, Becomes, RunState
    <3>2. CASE Stage(r)
      <4> WITNESS [run[r] EXCEPT !.pc = "copy"]
      <4> QED BY <1>0, <3>2 DEF Stage, Goto, Becomes, RunState
    <3>3. CASE ListSnapshots(r) /\ repo # <<>>
      <4> WITNESS [run[r] EXCEPT !.pc = "stage", !.src = Newest]
      <4> QED BY <1>0, <3>3 DEF ListSnapshots, Becomes, RunState
    <3>4. CASE (ListSnapshots(r) /\ repo = <<>>) \/ ResticFails(r) \/ CopyFails(r)
      <4> WITNESS [run[r] EXCEPT !.pc = "finish"]
      <4> QED BY <1>0, <3>4 DEF ListSnapshots, ResticFails, CopyFails, Goto, Becomes, RunState
    <3> QED BY <1>2, <3>1, <3>2, <3>3, <3>4
  <2>2. IsLive(r) /\ db' = db /\ server' = server
    BY <1>2 DEF StartSnapshot, Stage, ListSnapshots, ResticFails, CopyFails, IsLive, Live
  <2>3. r = Startup => x.pc \in {"finish", "snap"} \/ db'.kind # "ok" \/ x.misjudged
    BY <1>0, <2>1, <2>2 DEF Calm, StillDamaged
  <2>4. Calm'
    BY <1>0, <2>1, <2>2, <2>3, CalmStep
  <2> QED BY <1>1, <2>1, <2>2, <2>4, SameRowsKept
<1>3. CASE EndSnapshot(r)
  <2> DEFINE x == IF run[r].pc = "orphan" THEN Over(r)
                  ELSE [run[r] EXCEPT !.pc = "finish", !.good = TRUE, !.seen = Missing]
  <2>1. Becomes(r, x) /\ db' = db /\ server' = server
    BY <1>3 DEF EndSnapshot, Becomes
  <2>2. \/ x.pc \notin Live
        \/ IsLive(r) /\ x.pc = "finish" /\ x.job = run[r].job /\ x.stale = run[r].stale
    <3>1. Over(r).pc \notin Live
      BY <1>0, OverIsRunState DEF TypeInv, Live
    <3> QED BY <1>0, <1>3, <3>1 DEF EndSnapshot, RunState, IsLive, Live
  <2> HIDE DEF x
  <2>3. x.pc # "copying"
    BY <2>2 DEF Live
  <2>4. Calm'
    BY <1>0, <2>1, <2>2, <2>3, CalmStep
  <2> QED BY <1>1, <2>1, <2>2, <2>4, SameRowsKept
<1>4. CASE CopyEnd(r)
  <2> DEFINE x == [run[r] EXCEPT !.pc = "finish", !.good = TRUE]
  <2>1. /\ Becomes(r, x) /\ server' = server /\ IsLive(r)
        /\ x.pc = "finish" /\ x.job = run[r].job /\ x.stale = run[r].stale
    BY <1>0, <1>4 DEF CopyEnd, Becomes, RunState, IsLive, Live
  <2>2. run[r].pc = "copying" /\ db.kind # "ok"
    BY <1>0, <1>4 DEF CopyEnd, Calm, CopyIsUnreadable
  <2> HIDE DEF x
  <2>3. Calm'
    BY <1>0, <2>1, <2>2, CalmStep
  <2> QED BY <1>1, <2>1, <2>2, <2>3, SameRowsKept
<1>5. CASE OrphanDies(r)
  <2>1. Becomes(r, Over(r)) /\ db' = db /\ server' = server
    BY <1>5 DEF OrphanDies, Becomes
  <2>2. Over(r).pc \notin Live /\ Over(r).pc # "copying"
    BY <1>0, OverIsRunState DEF TypeInv, Live
  <2>3. Calm'
    BY <1>0, <2>1, <2>2, CalmStep
  <2> QED BY <1>1, <2>1, <2>2, <2>3, SameRowsKept
<1> QED BY <1>2, <1>3, <1>4, <1>5, SafeRecordJob, SafeCopyBegin, SafeFinishJob DEF Step, Failure

LEMMA SafeEnvironment ==
  ASSUME IInv, Environment
  PROVE  JobIdIsOwn' /\ Calm'
<1>0. TypeInv /\ JobIdIsOwn /\ Calm /\ db \in File
  BY DEF IInv, TypeInv, TypeOK
<1>1. CASE UserWrite
  <2>1. RowsKept /\ IdsInherited
    BY <1>0, <1>1, SameRowsKept DEF UserWrite, IdsInherited, IsLive
  <2>2. Calm'
    BY <1>0, <1>1
    DEF UserWrite, Authenticated, LoopFree, Calm, NobodyEarly, OneCopyAtATime,
        CopyIsUnreadable, StillDamaged, IsLive, Live, Run
  <2> QED BY <1>0, <2>1, <2>2, OwnIdsStay
<1>2. CASE Stop
  <2>1. \A r \in Run : ~IsLive(r)'
    BY <1>2 DEF Stop, IsLive
  <2> QED BY <2>1, NobodyLive
<1>3. CASE Crash
  BY <1>0, <1>3, EndedIds, NobodyLive DEF Crash
<1>4. CASE LoseFile
  <2>1. \A r \in Run : ~IsLive(r)
    BY <1>0, <1>4, EarlyNobody DEF LoseFile, Calm
  <2>2. \A r \in Run : ~IsLive(r)'
    BY <1>4, <2>1 DEF LoseFile, IsLive
  <2> QED BY <2>2, NobodyLive
<1> QED BY <1>1, <1>2, <1>3, <1>4 DEF Environment

LEMMA SafeNext == IInv /\ [Next]_vars => IInv'
<1> SUFFICES ASSUME IInv, [Next]_vars PROVE IInv'
  OBVIOUS
<1>1. TypeInv'
  BY TypeNext DEF IInv
<1>2. CASE Next
  BY <1>1, <1>2, SafeStart, SafeRequest, SafeStep, SafeEnvironment DEF Next, IInv
<1>3. CASE UNCHANGED vars
  BY <1>1, <1>3 DEF vars, IInv, JobIdIsOwn, Calm, NobodyEarly, OneCopyAtATime,
     CopyIsUnreadable, StillDamaged, IsLive
<1> QED BY <1>2, <1>3

LEMMA SafeInvariant == Spec => []IInv
BY SafeInit, SafeNext, PTL DEF Spec

\* Until a restore replaces the file, the id _record_job returned names the row
\* it inserted, so _finish_job reports on its own run: whatever backups,
\* restores, crashes and restarts there are, and however many.
THEOREM JobIdsAreOwn == Spec => []JobIdIsOwn
<1>1. IInv => JobIdIsOwn
  BY DEF IInv
<1> QED BY <1>1, SafeInvariant, PTL

LEMMA OnlyCopyBeginCopies ==
  ASSUME TypeInv, Next, NEW q \in Run,
         run'[q].pc = "copying", run[q].pc # "copying"
  PROVE  \E r \in Run : CopyBegin(r)
<1>0. run \in [Run -> RunState] /\ run[q] \in RunState
  BY DEF TypeInv, TypeOK
<1>1. run' # run
  OBVIOUS
<1>2. run' # Ended
  BY EndedType DEF TypeInv, Live
<1>3. ASSUME NEW r \in Run, NEW x, Becomes(r, x)
      PROVE  x.pc = "copying"
  BY <1>0, <1>3 DEF Becomes
<1>4. ASSUME NEW op \in {"manual", "scheduled", "restore"}, NEW i \in Nat, NEW r \in Run
      PROVE  ~Becomes(r, Begun(op, i))
  BY <1>3, <1>4, BegunIsRunState
<1>5. ~Starting
  <2>1. ~Becomes(Startup, Begun("restore", 0)) /\ ~Becomes(Startup, Mistaken)
    BY <1>3, <1>4, MistakenIsRunState DEF Run
  <2> QED BY <1>1, <1>2, <2>1 DEF Starting, Boot, Migrate, StartupCheck, Seed, Becomes, Mistaken
<1>6. ~Environment
  BY <1>1, <1>2 DEF Environment, UserWrite, Stop, Crash, LoseFile
<1>7. ASSUME NEW r \in PanelRun, Request(r) PROVE FALSE
  <2>1. r \in Run /\ 0 \in Nat /\ 0..Len(repo) \subseteq Nat
    BY RepoLen DEF Run
  <2> QED BY <1>4, <1>7, <2>1 DEF Request, ManualBackup, ManualRestore, ScheduledBackup, Becomes
<1>8. ASSUME NEW r \in Run, Step(r) \/ Failure(r) PROVE CopyBegin(r)
  <2>0. run[r] \in RunState
    BY <1>0
  <2>1. ASSUME NEW x, Becomes(r, x), x.pc # "copying" PROVE FALSE
    BY <1>3, <2>1
  <2>2. ~RecordJob(r)
    <3> DEFINE next == IF run[r].op # "restore" THEN "start"
                       ELSE IF run[r].src = 0 THEN "list" ELSE "stage"
    <3>1. [run[r] EXCEPT !.pc = next, !.job = NextId].pc # "copying"
      BY <2>0 DEF RunState
    <3>2. [run[r] EXCEPT !.pc = next].pc # "copying"
      BY <2>0 DEF RunState
    <3>3. RecordJob(r) => \/ Becomes(r, [run[r] EXCEPT !.pc = next, !.job = NextId])
                          \/ Becomes(r, [run[r] EXCEPT !.pc = next])
      BY DEF RecordJob, Goto, Becomes
    <3> QED BY <2>1, <3>1, <3>2, <3>3
  <2>3. \A pc \in {"finish", "copy"} : ~Goto(r, pc)
    <3>1. \A pc \in {"finish", "copy"} : [run[r] EXCEPT !.pc = pc].pc # "copying"
      BY <2>0 DEF RunState
    <3> QED BY <2>1, <3>1 DEF Goto, Becomes
  <2>4. ~StartSnapshot(r)
    <3>1. [run[r] EXCEPT !.pc = "snap", !.seen = db].pc # "copying"
      BY <2>0 DEF RunState
    <3> QED BY <2>1, <3>1 DEF StartSnapshot, Becomes
  <2>5. ~Becomes(r, Over(r)) /\ ~Becomes(r, AtRest("idle"))
    <3>1. Over(r).pc # "copying" /\ AtRest("idle").pc # "copying"
      BY OverIsRunState DEF TypeInv, AtRest
    <3> QED BY <2>1, <3>1
  <2>6. ~EndSnapshot(r)
    <3>1. [run[r] EXCEPT !.pc = "finish", !.good = TRUE, !.seen = Missing].pc # "copying"
      BY <2>0 DEF RunState
    <3>2. EndSnapshot(r) =>
            \/ Becomes(r, Over(r))
            \/ Becomes(r, [run[r] EXCEPT !.pc = "finish", !.good = TRUE, !.seen = Missing])
      BY DEF EndSnapshot, Becomes
    <3> QED BY <2>1, <2>5, <3>1, <3>2
  <2>7. ~ListSnapshots(r)
    <3>1. [run[r] EXCEPT !.pc = "stage", !.src = Newest].pc # "copying"
      BY <2>0 DEF RunState
    <3> QED BY <2>1, <2>3, <3>1 DEF ListSnapshots, Becomes
  <2>8. ~CopyEnd(r)
    <3>1. [run[r] EXCEPT !.pc = "finish", !.good = TRUE].pc # "copying"
      BY <2>0 DEF RunState
    <3> QED BY <2>1, <3>1 DEF CopyEnd, Becomes
  <2>9. ~FinishJob(r) /\ ~OrphanDies(r)
    BY <2>5 DEF FinishJob, OrphanDies, Becomes
  <2>10. ~Stage(r) /\ ~ResticFails(r) /\ ~CopyFails(r)
    BY <2>3 DEF Stage, ResticFails, CopyFails
  <2> QED BY <1>8, <2>2, <2>4, <2>6, <2>7, <2>8, <2>9, <2>10 DEF Step, Failure
<1> QED BY <1>5, <1>6, <1>7, <1>8 DEF Next

\* run_startup_integrity_check decides on a restore several awaits before the
\* restore truncates the file; the file it truncates is still one that cannot
\* be read, or one that the check could not open.
THEOREM StartupNeverHarms == Spec => StartupSparesSound
<1> DEFINE Copies == run'[Startup].pc = "copying"
                       => \/ run[Startup].pc = "copying"
                          \/ db.kind # "ok"
                          \/ run[Startup].misjudged
<1>1. IInv /\ IInv' /\ [Next]_vars => [Copies]_vars
  <2> SUFFICES ASSUME IInv, IInv', Next, run'[Startup].pc = "copying",
                      run[Startup].pc # "copying"
               PROVE  db.kind # "ok" \/ run[Startup].misjudged
    OBVIOUS
  <2>0. run \in [Run -> RunState] /\ Startup \in Run
    BY DEF IInv, TypeInv, TypeOK, Run
  <2>1. PICK r \in Run : CopyBegin(r)
    BY <2>0, OnlyCopyBeginCopies DEF IInv
  <2>2. Startup = r
    <3>1. CASE Startup # r
      <4>1. run'[Startup] \in {run[Startup], [run[Startup] EXCEPT !.stale = TRUE]}
        BY <2>0, <2>1, <3>1 DEF CopyBegin
      <4>2. run'[Startup].pc = run[Startup].pc
        BY <2>0, <4>1 DEF RunState
      <4> QED BY <4>2
    <3> QED BY <3>1
  <2> QED BY <2>1, <2>2 DEF CopyBegin, IInv, Calm, StillDamaged
<1>2. QED BY <1>1, SafeInvariant, PTL DEF Spec, StartupSparesSound

(***************************************************************************)
(* What a run that ends writes.  A backup is good only when its snapshot   *)
(* is taken, and a copy is never a backup's; the rest is JobIdIsOwn.       *)
(***************************************************************************)
SnapshotOf(r) == \E j \in DOMAIN repo : repo[j].by = r

SnapshotsStay == \A r \in Run : SnapshotOf(r) => SnapshotOf(r)'

Restoring == {"list", "stage", "copy", "copying"}

Honest ==
  \A r \in Run :
    /\ run[r].pc \in Restoring => run[r].op = "restore"
    /\ run[r].good /\ run[r].op # "restore" => SnapshotOf(r)

LEMMA SnapshotsKept ==
  /\ repo' = repo => SnapshotsStay
  /\ TypeInv => \A r \in Run : EndSnapshot(r) => SnapshotsStay /\ SnapshotOf(r)'
<1>1. repo' = repo => SnapshotsStay
  BY DEF SnapshotsStay, SnapshotOf
<1>2. ASSUME TypeInv, NEW r \in Run, EndSnapshot(r) PROVE SnapshotsStay /\ SnapshotOf(r)'
  <2>1. PICK f : f \in {run[r].seen, db} \cup {Corrupt} /\ repo' = Append(repo, [file |-> f, by |-> r])
    BY <1>2 DEF EndSnapshot
  <2>2. f \in File /\ repo \in Seq(Snapshot)
    BY <1>2, <2>1, FilesAreFiles DEF TypeInv, TypeOK, RunState
  <2> DEFINE s == [file |-> f, by |-> r]
  <2>3. s \in Snapshot
    BY <2>2 DEF Snapshot
  <2>4. s.by = r
    OBVIOUS
  <2> HIDE DEF s
  <2>5. /\ DOMAIN repo = 1..Len(repo) /\ Len(repo) \in Nat
        /\ DOMAIN Append(repo, s) = 1..(Len(repo) + 1)
        /\ Append(repo, s)[Len(repo) + 1] = s
        /\ \A i \in 1..Len(repo) : Append(repo, s)[i] = repo[i]
    BY <2>2, <2>3, AppendProperties, LenProperties
  <2>6. repo' = Append(repo, s)
    BY <2>1 DEF s
  <2> QED BY <2>4, <2>5, <2>6 DEF SnapshotsStay, SnapshotOf
<1> QED BY <1>1, <1>2

\* A run that becomes x.
LEMMA HonestRun ==
  ASSUME TypeInv, Honest, SnapshotsStay, NEW r \in Run, NEW x, Becomes(r, x),
         x.pc \in Restoring => x.op = "restore",
         x.good /\ x.op # "restore" => SnapshotOf(r)'
  PROVE  Honest'
<1>1. \A q \in Run : run'[q] = IF q = r THEN x ELSE run[q]
  BY DEF Becomes, TypeInv, TypeOK
<1> QED BY <1>1 DEF Honest, SnapshotsStay

\* A run that moves on with the same operation, no better than it was.
LEMMA HonestMove ==
  ASSUME TypeInv, Honest, SnapshotsStay, NEW r \in Run, NEW x, Becomes(r, x),
         x.pc \in Restoring => run[r].op = "restore",
         x.op = run[r].op, x.good = run[r].good
  PROVE  Honest'
<1>1. run[r].good /\ run[r].op # "restore" => SnapshotOf(r)'
  BY DEF Honest, SnapshotsStay
<1> QED BY <1>1, HonestRun

LEMMA RestIsHonest ==
  ASSUME NEW pc
  PROVE  /\ AtRest(pc).pc = pc /\ ~AtRest(pc).good
         /\ \A r \in Run : Over(r).pc = "over" /\ ~Over(r).good
         /\ \A op, src : Begun(op, src).pc = "record" /\ ~Begun(op, src).good
BY DEF AtRest, Over, Begun

LEMMA HonestEnded ==
  ASSUME TypeInv, Honest, run' = Ended, repo' = repo
  PROVE  Honest'
<1> SUFFICES ASSUME NEW r \in Run
             PROVE  /\ run'[r].pc \in Restoring => run'[r].op = "restore"
                    /\ run'[r].good /\ run'[r].op # "restore" => SnapshotOf(r)'
  BY DEF Honest
<1>1. run[r] \in RunState /\ SnapshotOf(r)' = SnapshotOf(r)
  BY DEF TypeInv, TypeOK, SnapshotOf
<1>2. CASE run[r].pc = "snap"
  <2>1. run'[r] = [run[r] EXCEPT !.pc = "orphan"]
    BY <1>2 DEF Ended
  <2>2. run'[r].pc = "orphan" /\ run'[r].op = run[r].op /\ run'[r].good = run[r].good
    BY <1>1, <2>1 DEF RunState
  <2> QED BY <1>1, <2>2 DEF Honest, Restoring
<1>3. CASE run[r].pc # "snap" /\ ~IsLive(r)
  BY <1>1, <1>3 DEF Ended, Honest
<1>4. CASE run[r].pc # "snap" /\ IsLive(r)
  BY <1>4, RestIsHonest DEF Ended, Restoring
<1> QED BY <1>2, <1>3, <1>4

LEMMA HonestStep ==
  ASSUME TypeInv, Honest, NEW r \in Run, Step(r) \/ Failure(r)
  PROVE  Honest'
<1>0. run[r] \in RunState
  BY DEF TypeInv, TypeOK
<1>1. CASE RecordJob(r)
  <2> DEFINE next == IF run[r].op # "restore" THEN "start"
                     ELSE IF run[r].src = 0 THEN "list" ELSE "stage"
             held == [run[r] EXCEPT !.pc = next, !.job = NextId]
             bare == [run[r] EXCEPT !.pc = next]
  <2>1. /\ held.pc = next /\ held.op = run[r].op /\ held.good = run[r].good
        /\ bare.pc = next /\ bare.op = run[r].op /\ bare.good = run[r].good
    BY <1>0 DEF RunState
  <2>2. Becomes(r, held) \/ Becomes(r, bare)
    BY <1>1 DEF RecordJob, Goto, Becomes
  <2>3. next \in Restoring => run[r].op = "restore"
    BY DEF Restoring
  <2>4. SnapshotsStay
    BY <1>1, SnapshotsKept DEF RecordJob
  <2> HIDE DEF held, bare
  <2> QED BY <2>1, <2>2, <2>3, <2>4, HonestMove
<1>2. CASE StartSnapshot(r)
  <2> DEFINE x == [run[r] EXCEPT !.pc = "snap", !.seen = db]
  <2>1. x.pc = "snap" /\ x.op = run[r].op /\ x.good = run[r].good
    BY <1>0 DEF RunState
  <2>2. Becomes(r, x) /\ SnapshotsStay
    BY <1>2, SnapshotsKept DEF StartSnapshot, Becomes
  <2> HIDE DEF x
  <2> QED BY <2>1, <2>2, HonestMove DEF Restoring
<1>3. CASE EndSnapshot(r)
  <2> DEFINE x == [run[r] EXCEPT !.pc = "finish", !.good = TRUE, !.seen = Missing]
  <2>1. x.pc = "finish"
    BY <1>0 DEF RunState
  <2>2. Becomes(r, x) \/ Becomes(r, Over(r))
    BY <1>3 DEF EndSnapshot, Becomes
  <2>3. SnapshotsStay /\ SnapshotOf(r)'
    BY <1>3, SnapshotsKept
  <2> HIDE DEF x
  <2> QED BY <2>1, <2>2, <2>3, RestIsHonest, HonestRun DEF Restoring
<1>4. CASE ListSnapshots(r)
  <2> DEFINE x == [run[r] EXCEPT !.pc = "stage", !.src = Newest]
             y == [run[r] EXCEPT !.pc = "finish"]
  <2>1. /\ x.op = run[r].op /\ x.good = run[r].good
        /\ y.op = run[r].op /\ y.good = run[r].good
    BY <1>0 DEF RunState
  <2>2. (Becomes(r, x) \/ Becomes(r, y)) /\ SnapshotsStay
    BY <1>4, SnapshotsKept DEF ListSnapshots, Goto, Becomes
  <2>3. run[r].op = "restore"
    BY <1>4 DEF ListSnapshots, Honest, Restoring
  <2> HIDE DEF x, y
  <2> QED BY <2>1, <2>2, <2>3, HonestMove
<1>5. CASE Stage(r) \/ ResticFails(r) \/ CopyFails(r)
  <2>1. PICK pc \in {"copy", "finish"} :
          Goto(r, pc) /\ repo' = repo /\ (pc = "copy" => run[r].pc = "stage")
    BY <1>5 DEF Stage, ResticFails, CopyFails
  <2> DEFINE x == [run[r] EXCEPT !.pc = pc]
  <2>2. x.pc = pc /\ x.op = run[r].op /\ x.good = run[r].good
    BY <1>0 DEF RunState
  <2>3. Becomes(r, x) /\ SnapshotsStay
    BY <2>1, SnapshotsKept DEF Goto, Becomes
  <2>4. pc \in Restoring => run[r].op = "restore"
    BY <2>1 DEF Honest, Restoring
  <2> HIDE DEF x
  <2> QED BY <2>2, <2>3, <2>4, HonestMove
<1>6. CASE CopyBegin(r)
  <2> SUFFICES ASSUME NEW q \in Run
               PROVE  /\ run'[q].pc \in Restoring => run'[q].op = "restore"
                      /\ run'[q].good /\ run'[q].op # "restore" => SnapshotOf(q)'
    BY DEF Honest
  <2>1. /\ run[q] \in RunState /\ SnapshotOf(q)' = SnapshotOf(q)
        /\ run'[q] = IF q = r THEN [run[q] EXCEPT !.pc = "copying", !.stale = TRUE]
                     ELSE IF IsLive(q) THEN [run[q] EXCEPT !.stale = TRUE] ELSE run[q]
    BY <1>6 DEF CopyBegin, TypeInv, TypeOK, SnapshotOf
  <2>2. /\ run'[q].op = run[q].op /\ run'[q].good = run[q].good
        /\ run'[q].pc \in Restoring => run[q].pc \in Restoring
    BY <1>6, <2>1 DEF CopyBegin, RunState, Restoring
  <2> QED BY <2>1, <2>2 DEF Honest
<1>7. CASE CopyEnd(r)
  <2> DEFINE x == [run[r] EXCEPT !.pc = "finish", !.good = TRUE]
  <2>1. x.op = run[r].op
    BY <1>0 DEF RunState
  <2>2. Becomes(r, x) /\ SnapshotsStay
    BY <1>7, SnapshotsKept DEF CopyEnd, Becomes
  <2>3. run[r].op = "restore"
    BY <1>7 DEF CopyEnd, Honest, Restoring
  <2> HIDE DEF x
  <2> QED BY <2>1, <2>2, <2>3, HonestRun
<1>8. CASE FinishJob(r) \/ OrphanDies(r)
  <2>1. Becomes(r, AtRest("idle")) \/ Becomes(r, Over(r))
    BY <1>8 DEF FinishJob, OrphanDies, Becomes
  <2>2. SnapshotsStay
    BY <1>8, SnapshotsKept DEF FinishJob, OrphanDies
  <2> QED BY <2>1, <2>2, RestIsHonest, HonestRun DEF Restoring
<1> QED BY <1>1, <1>2, <1>3, <1>4, <1>5, <1>6, <1>7, <1>8 DEF Step, Failure

LEMMA HonestNext == TypeInv /\ Honest /\ [Next]_vars => Honest'
<1> SUFFICES ASSUME TypeInv, Honest, [Next]_vars PROVE Honest'
  OBVIOUS
<1>1. CASE UNCHANGED <<run, repo>>
  BY <1>1 DEF Honest, SnapshotOf
<1>2. CASE run' = Ended /\ repo' = repo
  BY <1>2, HonestEnded
<1>3. ASSUME NEW r \in Run, NEW op, NEW i, Becomes(r, Begun(op, i)), repo' = repo PROVE Honest'
  BY <1>3, SnapshotsKept, RestIsHonest, HonestRun DEF Restoring
<1>4. CASE Starting
  <2>1. CASE Becomes(Startup, Mistaken) /\ repo' = repo
    BY <2>1, SnapshotsKept, RestIsHonest, HonestRun, MistakenIsRunState DEF Restoring, Run
  <2> QED BY <1>1, <1>2, <1>3, <1>4, <2>1
          DEF Starting, Boot, Migrate, StartupCheck, Seed, Becomes, Run, Mistaken
<1>5. CASE \E r \in PanelRun : Request(r)
  BY <1>3, <1>5 DEF Request, ManualBackup, ManualRestore, ScheduledBackup, Becomes, Run
<1>6. CASE Environment
  BY <1>1, <1>2, <1>6 DEF Environment, UserWrite, Stop, Crash, LoseFile
<1> QED BY <1>1, <1>4, <1>5, <1>6, HonestStep DEF Next, vars

\* The row a run ends on, in a file that no restore has replaced.
LEMMA EndsOnItsRow ==
  ASSUME IInv, Honest, NEW r \in Run, FinishJob(r), ~run[r].stale, NEW i \in DOMAIN db'.jobs
  PROVE  \/ i \in DOMAIN db.jobs /\ db'.jobs[i] = db.jobs[i]
         \/ /\ db'.jobs[i].by = r /\ (i \in DOMAIN db.jobs => db.jobs[i].by = r)
            /\ db'.jobs[i].status = "success" /\ run[r].op # "restore" => SnapshotOf(r)
<1>0. /\ db \in File /\ db.jobs \in Seq(Row) /\ run[r] \in RunState
      /\ DOMAIN db.jobs = 1..Len(db.jobs) /\ Len(db.jobs) \in Nat
  BY LenProperties DEF IInv, TypeInv, TypeOK, File
<1>1. /\ FinalStatus(r) \in {"success", "failed"}
      /\ FinalStatus(r) = "success" /\ run[r].op # "restore" => SnapshotOf(r)
  BY DEF FinalStatus, Honest
<1>2. CASE /\ db.kind = "ok" /\ run[r].job \in DOMAIN db.jobs
           /\ db' = [db EXCEPT !.jobs[run[r].job].status = FinalStatus(r)]
  <2> DEFINE k == run[r].job
             row == [db.jobs[k] EXCEPT !.status = FinalStatus(r)]
             rows == [db.jobs EXCEPT ![k] = row]
  <2>1. db' = [db EXCEPT !.jobs = rows]
    BY <1>2
  <2>2. db.jobs[k] \in Row
    BY <1>0, <1>2, ElementOfSeq
  <2>3. db.jobs[k].by = r
    <3>1. k # 0 /\ IsLive(r)
      BY <1>0, <1>2 DEF FinishJob, IsLive, Live
    <3> QED BY <3>1 DEF IInv, JobIdIsOwn
  <2>4. row.by = r /\ row.status = FinalStatus(r)
    BY <2>2, <2>3 DEF Row
  <2>5. \A j \in DOMAIN db.jobs : rows[j] = IF j = k THEN row ELSE db.jobs[j]
    BY <1>2
  <2>6. DOMAIN rows = DOMAIN db.jobs
    OBVIOUS
  <2> HIDE DEF row, rows, k
  <2>7. db'.jobs = rows
    BY <1>0, <2>1 DEF File
  <2> QED BY <1>1, <2>3, <2>4, <2>5, <2>6, <2>7
<1>3. CASE db' = [db EXCEPT !.jobs = Append(@, [by |-> r, status |-> FinalStatus(r)])]
  <2> DEFINE row == [by |-> r, status |-> FinalStatus(r)]
  <2>1. row \in Row /\ row.by = r /\ row.status = FinalStatus(r)
    BY <1>1 DEF Row
  <2>2. db' = [db EXCEPT !.jobs = Append(db.jobs, row)]
    BY <1>3
  <2> HIDE DEF row
  <2>3. db'.jobs = Append(db.jobs, row)
    BY <1>0, <2>2 DEF File
  <2>4. /\ DOMAIN Append(db.jobs, row) = 1..(Len(db.jobs) + 1)
        /\ Append(db.jobs, row)[Len(db.jobs) + 1] = row
        /\ \A j \in 1..Len(db.jobs) : Append(db.jobs, row)[j] = db.jobs[j]
    BY <1>0, <2>1, AppendProperties, LenProperties
  <2>5. i = Len(db.jobs) + 1 \/ i \in 1..Len(db.jobs)
    BY <1>0, <2>3, <2>4
  <2>6. i = Len(db.jobs) + 1 => i \notin DOMAIN db.jobs
    BY <1>0
  <2> QED BY <1>0, <1>1, <2>1, <2>3, <2>4, <2>5, <2>6
<1>4. CASE db' \in {db, Touched(db)}
  <2>1. db' = db \/ db' = Empty
    BY <1>4 DEF Touched
  <2>2. DOMAIN Empty.jobs = {}
    BY DEF Empty, Blank
  <2> QED BY <2>1, <2>2
<1> QED BY <1>2, <1>3, <1>4 DEF FinishJob

\* What SuccessRowHasSnapshot asks of every row holds of the rows of runs whose
\* file no restore has replaced: such a run reports on itself, and reports a
\* backup as a success only when its snapshot is there (_finish_job, run_backup).
THEOREM RunsEndHonestly == Spec => EndsHonestly
<1>1. Init => Honest
  BY RestIsHonest DEF Init, Honest, Restoring
<1>2. TypeInv /\ Honest /\ [Next]_vars => Honest'
  BY HonestNext
<1>3. IInv => TypeInv
  BY DEF IInv
<1>4. IInv /\ Honest =>
        [\A r \in Run : FinishJob(r) /\ ~run[r].stale =>
           \A i \in DOMAIN db'.jobs :
             \/ i \in DOMAIN db.jobs /\ db'.jobs[i] = db.jobs[i]
             \/ /\ db'.jobs[i].by = r /\ (i \in DOMAIN db.jobs => db.jobs[i].by = r)
                /\ db'.jobs[i].status = "success" /\ run[r].op # "restore"
                     => \E j \in DOMAIN repo : repo[j].by = r]_vars
  BY EndsOnItsRow DEF SnapshotOf
<1> QED BY <1>1, <1>2, <1>3, <1>4, SafeInvariant, PTL DEF Spec, EndsHonestly

(***************************************************************************)
(* Backup implements ContentStore.                                         *)
(*                                                                         *)
(* A step of Backup does one of six things to the data, each an action of  *)
(* ContentStore.  Two facts more are needed: no file, live, in a snapshot  *)
(* or being read by restic, is of a version that there has not been; and   *)
(* only the launcher's start migrates.                                     *)
(***************************************************************************)
VersionsKnown ==
  /\ db.ver <= written
  /\ \A i \in DOMAIN repo : repo[i].file.ver <= written
  /\ \A r \in Run : run[r].seen.ver <= written

LauncherMigrates == server = "migrating" => config.entry = "launcher"

StoreInv == IInv /\ VersionsKnown /\ LauncherMigrates

Keeps    == /\ UNCHANGED <<repo, written>>
            /\ Content(db') = Content(db) /\ db'.ver \in {db.ver, 0}
Writes   == /\ UNCHANGED repo /\ written' = written + 1
            /\ db.kind = "ok" /\ db'.kind = "ok" /\ db'.ver = written'
Archives == /\ UNCHANGED <<db, written>>
            /\ \E f \in File, r \in Run : /\ repo' = Append(repo, [file |-> f, by |-> r])
                                          /\ f.ver <= written
Loses    == /\ UNCHANGED <<repo, written>> /\ db' \in {Missing, Empty, Corrupt}
            /\ server = "down" \/ ~LoopFree'
Recovers == /\ UNCHANGED <<repo, written>> /\ db.kind # "ok"
            /\ \E i \in DOMAIN repo : db' = repo[i].file
Resets   == /\ UNCHANGED <<repo, written>> /\ db.kind # "ok" /\ db' = Fresh
            /\ config.entry = "launcher"

Kinds == Keeps \/ Writes \/ Archives \/ Loses \/ Recovers \/ Resets

LEMMA BlankVersions ==
  /\ \A f \in {Missing, Empty, Corrupt, Fresh} : f.ver = 0
  /\ Fresh.kind = "ok" /\ \A f \in {Missing, Empty, Corrupt} : f.kind # "ok"
BY DEF Missing, Empty, Corrupt, Fresh, Blank

LEMMA SameContent ==
  /\ db' = db /\ UNCHANGED <<repo, written>> => Keeps
  /\ db.kind # "ok" /\ db' = Touched(db) /\ UNCHANGED <<repo, written>> => Keeps
BY BlankVersions DEF Keeps, Content, Touched

LEMMA KindOfStart ==
  ASSUME StoreInv, Starting
  PROVE  Kinds /\ config' = config
<1>0. db \in File
  BY DEF StoreInv, IInv, TypeInv, TypeOK
<1>1. CASE Boot \/ StartupCheck
  BY <1>1, SameContent DEF Boot, StartupCheck, Kinds
<1>2. CASE Migrate
  <2>1. CASE UNCHANGED db
    BY <1>2, <2>1, SameContent DEF Migrate, Kinds
  <2>2. CASE db.kind \in {"missing", "empty"} /\ db' = Fresh
    BY <1>2, <2>2 DEF Migrate, Kinds, Resets, StoreInv, LauncherMigrates
  <2> QED BY <1>2, <2>1, <2>2 DEF Migrate
<1>3. CASE Seed
  <2>0. repo' = repo /\ config' = config
    BY <1>3 DEF Seed
  <2>1. CASE UNCHANGED <<db, written>>
    BY <2>0, <2>1, SameContent DEF Kinds
  <2>2. CASE db.kind = "ok" /\ written' = written + 1 /\ db' = [db EXCEPT !.ver = written + 1]
    <3>1. db'.kind = db.kind /\ db'.ver = written + 1
      BY <1>0, <2>2 DEF File
    <3> QED BY <2>0, <2>2, <3>1 DEF Kinds, Writes
  <2>3. CASE db.kind # "ok" /\ db' = Touched(db) /\ UNCHANGED written
    BY <2>0, <2>3, SameContent DEF Kinds
  <2> QED BY <1>3, <2>1, <2>2, <2>3 DEF Seed
<1> QED BY <1>1, <1>2, <1>3 DEF Starting

LEMMA KindOfRows ==
  ASSUME StoreInv, NEW r \in Run, RecordJob(r) \/ FinishJob(r)
  PROVE  Keeps
<1>0. db \in File
  BY DEF StoreInv, IInv, TypeInv, TypeOK
<1>1. /\ UNCHANGED <<repo, written>>
      /\ \/ \E jobs : db' = [db EXCEPT !.jobs = jobs]
         \/ db.kind # "ok" /\ db' = Touched(db)
         \/ db' = db
  BY DEF RecordJob, FinishJob
<1>2. CASE \E jobs : db' = [db EXCEPT !.jobs = jobs]
  <2>1. db'.kind = db.kind /\ db'.ver = db.ver
    BY <1>0, <1>2 DEF File
  <2> QED BY <1>1, <2>1 DEF Keeps, Content
<1> QED BY <1>1, <1>2, SameContent

LEMMA KindOfStep ==
  ASSUME StoreInv, NEW r \in Run, Step(r) \/ Failure(r)
  PROVE  Kinds /\ config' = config
<1>0. /\ TypeInv /\ Calm /\ VersionsKnown /\ db \in File
      /\ run \in [Run -> RunState] /\ run[r] \in RunState
  BY DEF StoreInv, IInv, TypeInv, TypeOK
<1>1. CASE RecordJob(r) \/ FinishJob(r)
  BY <1>1, KindOfRows DEF Kinds, RecordJob, FinishJob
<1>2. CASE StartSnapshot(r) \/ ListSnapshots(r) \/ Stage(r) \/ Failure(r)
  BY <1>2, SameContent
  DEF StartSnapshot, ListSnapshots, Stage, Failure, ResticFails, CopyFails, OrphanDies, Kinds
<1>3. CASE EndSnapshot(r)
  <2>1. PICK f \in {run[r].seen, db, Corrupt} : repo' = Append(repo, [file |-> f, by |-> r])
    BY <1>3 DEF EndSnapshot
  <2>2. f \in File
    BY <1>0, FilesAreFiles DEF RunState
  <2>3. f.ver <= written
    BY <1>0, BlankVersions DEF VersionsKnown, TypeInv, TypeOK
  <2>4. UNCHANGED <<db, written, config>>
    BY <1>3 DEF EndSnapshot
  <2> QED BY <2>1, <2>2, <2>3, <2>4 DEF Kinds, Archives
<1>4. CASE CopyBegin(r)
  <2>1. run'[r].pc = "copying"
    <3>1. run'[r] = [run[r] EXCEPT !.pc = "copying", !.stale = TRUE]
      BY <1>4 DEF CopyBegin
    <3> QED BY <1>0, <3>1 DEF RunState
  <2> QED BY <1>4, <2>1 DEF CopyBegin, Kinds, Loses, LoopFree
<1>5. CASE CopyEnd(r)
  <2>1. run[r].src \in DOMAIN repo
    BY <1>0, <1>5, RepoLen DEF CopyEnd, TypeInv, SourceKnown
  <2>2. db.kind # "ok"
    BY <1>0, <1>5 DEF CopyEnd, Calm, CopyIsUnreadable
  <2> QED BY <1>5, <2>1, <2>2 DEF CopyEnd, Kinds, Recovers
<1> QED BY <1>1, <1>2, <1>3, <1>4, <1>5 DEF Step

LEMMA KindOfEnvironment ==
  ASSUME StoreInv, Environment
  PROVE  Kinds /\ config' = config
<1>1. CASE UserWrite
  <2>1. db \in File /\ db.kind = "ok"
    BY <1>1 DEF UserWrite, Authenticated, StoreInv, IInv, TypeInv, TypeOK
  <2>2. db'.kind = db.kind /\ db'.ver = written + 1
    BY <1>1, <2>1 DEF UserWrite, File
  <2> QED BY <1>1, <2>1, <2>2 DEF UserWrite, Kinds, Writes
<1>2. CASE Stop \/ Crash
  BY <1>2, SameContent DEF Stop, Crash, Kinds
<1>3. CASE LoseFile
  BY <1>3 DEF LoseFile, Kinds, Loses
<1> QED BY <1>1, <1>2, <1>3 DEF Environment

LEMMA KindOfNext ==
  ASSUME StoreInv, Next
  PROVE  Kinds /\ config' = config
<1>1. ASSUME NEW r \in PanelRun, Request(r) PROVE Kinds /\ config' = config
  BY <1>1, SameContent DEF Request, ManualBackup, ManualRestore, ScheduledBackup, Kinds
<1> QED BY <1>1, KindOfStart, KindOfStep, KindOfEnvironment DEF Next

\* Each kind of step is a step of ContentStore.
LEMMA KindIsStoreStep ==
  ASSUME StoreInv, Kinds, config' = config
  PROVE  Store!Next
<1>0. db \in File /\ written \in Nat /\ repo \in Seq(Snapshot)
  BY DEF StoreInv, IInv, TypeInv, TypeOK
<1>1. CASE Keeps
  BY <1>1 DEF Keeps, Store!Next
<1>2. CASE Writes
  <2>1. Content(db) # Store!None
    BY <1>0, <1>2 DEF Writes, Store!None, Content, File
  <2>2. written' = written + 1 /\ Content(db)' = written'
    BY <1>2 DEF Writes, Content
  <2>3. UNCHANGED {Content(repo[i].file) : i \in DOMAIN repo}
    BY <1>2 DEF Writes
  <2>4. Store!Write
    BY <2>1, <2>2, <2>3 DEF Store!Write
  <2> QED BY <2>4 DEF Store!Next
<1>3. CASE Archives
  <2>1. PICK f \in File, r \in Run : /\ repo' = Append(repo, [file |-> f, by |-> r])
                                     /\ f.ver <= written
    BY <1>3 DEF Archives
  <2> DEFINE s == [file |-> f, by |-> r]
             n == Len(repo)
  <2>2. s \in Snapshot /\ s.file = f
    BY DEF Snapshot
  <2>3. n \in Nat /\ DOMAIN repo = 1..n
    BY <1>0, LenProperties
  <2>4. /\ DOMAIN repo' = 1..(n + 1) /\ repo'[n + 1] = s
        /\ \A i \in 1..n : repo'[i] = repo[i]
    <3>1. Append(repo, s) \in Seq(Snapshot) /\ Len(Append(repo, s)) = n + 1
      BY <1>0, <2>2, AppendProperties
    <3>2. DOMAIN Append(repo, s) = 1..(n + 1)
      BY <3>1, LenProperties
    <3> QED BY <1>0, <2>1, <2>2, <3>2, AppendProperties
  <2>5. DOMAIN repo' = DOMAIN repo \cup {n + 1}
    BY <2>3, <2>4
  <2> HIDE DEF s, n
  <2>6. {Content(repo[i].file) : i \in DOMAIN repo}' =
          {Content(repo[i].file) : i \in DOMAIN repo} \cup {Content(f)}
    BY <2>2, <2>3, <2>4, <2>5
  <2>7. Content(f) \in 0..written \cup {Store!None}
    BY <1>0, <2>1 DEF Content, File, Store!None
  <2>8. UNCHANGED <<Content(db), written>>
    BY <1>3 DEF Archives
  <2>9. Store!Archive
    BY <2>6, <2>7, <2>8 DEF Store!Archive
  <2> QED BY <2>9 DEF Store!Next
<1>4. CASE Loses
  <2>1. Store!Lose
    BY <1>4, BlankVersions DEF Loses, Store!Lose, Store!None, Content
  <2> QED BY <2>1 DEF Store!Next
<1>5. CASE Recovers
  <2>1. Store!Recover
    BY <1>5 DEF Recovers, Store!Recover, Store!None, Content
  <2> QED BY <2>1 DEF Store!Next
<1>6. CASE Resets
  <2>1. Store!Reset
    BY <1>6, BlankVersions DEF Resets, Store!Reset, Store!None, Content
  <2> QED BY <2>1 DEF Store!Next
<1> QED BY <1>1, <1>2, <1>3, <1>4, <1>5, <1>6 DEF Kinds

\* What restic holds in its hands was read from the file.
LEMMA SeenIsRead ==
  ASSUME TypeInv, Next, NEW q \in Run
  PROVE  run'[q].seen \in {run[q].seen, db, Missing}
<1>0. run \in [Run -> RunState] /\ run[q] \in RunState
  BY DEF TypeInv, TypeOK
<1>1. ASSUME NEW r \in Run, NEW x, Becomes(r, x), x.seen \in {run[r].seen, db, Missing}
      PROVE  run'[q].seen \in {run[q].seen, db, Missing}
  BY <1>0, <1>1 DEF Becomes
<1>2. \A r \in Run : Over(r).seen = Missing
  BY DEF Over, AtRest
<1>3. \A pc : AtRest(pc).seen = Missing
  BY DEF AtRest
<1>4. \A op, i : Begun(op, i).seen = Missing
  BY DEF Begun, AtRest
<1>5. CASE run' = run
  BY <1>5
<1>6. CASE run' = Ended
  <2>1. [run[q] EXCEPT !.pc = "orphan"].seen = run[q].seen
    BY <1>0 DEF RunState
  <2> QED BY <1>2, <1>3, <1>6, <2>1 DEF Ended
<1>7. ASSUME NEW r \in PanelRun, Request(r)
      PROVE  run'[q].seen \in {run[q].seen, db, Missing}
  <2>1. r \in Run /\ \E op, i : Becomes(r, Begun(op, i))
    BY <1>7 DEF Request, ManualBackup, ManualRestore, ScheduledBackup, Becomes, Run
  <2> QED BY <1>1, <1>4, <2>1
<1>8. ASSUME NEW r \in Run, Step(r) \/ Failure(r)
      PROVE  run'[q].seen \in {run[q].seen, db, Missing}
  <2>0. run[r] \in RunState
    BY <1>0
  <2>1. \A pc : [run[r] EXCEPT !.pc = pc].seen = run[r].seen
    BY <2>0 DEF RunState
  <2>2. CASE RecordJob(r)
    <3>1. \A pc, job : [run[r] EXCEPT !.pc = pc, !.job = job].seen = run[r].seen
      BY <2>0 DEF RunState
    <3> DEFINE next == IF run[r].op # "restore" THEN "start"
                       ELSE IF run[r].src = 0 THEN "list" ELSE "stage"
    <3>2. \/ Becomes(r, [run[r] EXCEPT !.pc = next])
          \/ Becomes(r, [run[r] EXCEPT !.pc = next, !.job = NextId])
      BY <2>2 DEF RecordJob, Goto, Becomes
    <3> HIDE DEF next
    <3> QED BY <1>1, <2>1, <3>1, <3>2
  <2>3. CASE StartSnapshot(r)
    <3>1. [run[r] EXCEPT !.pc = "snap", !.seen = db].seen = db
      BY <2>0 DEF RunState
    <3> QED BY <1>1, <2>3, <3>1 DEF StartSnapshot, Becomes
  <2>4. CASE EndSnapshot(r)
    <3>1. [run[r] EXCEPT !.pc = "finish", !.good = TRUE, !.seen = Missing].seen = Missing
      BY <2>0 DEF RunState
    <3>2. \/ Becomes(r, Over(r))
          \/ Becomes(r, [run[r] EXCEPT !.pc = "finish", !.good = TRUE, !.seen = Missing])
      BY <2>4 DEF EndSnapshot, Becomes
    <3> QED BY <1>1, <1>2, <3>1, <3>2
  <2>5. CASE ListSnapshots(r) /\ run' = [run EXCEPT ![r].pc = "stage", ![r].src = Newest]
    <3>1. [run[r] EXCEPT !.pc = "stage", !.src = Newest].seen = run[r].seen
      BY <2>0 DEF RunState
    <3> QED BY <1>1, <2>5, <3>1 DEF Becomes
  <2>6. CASE \E pc : Goto(r, pc)
    BY <1>1, <2>1, <2>6 DEF Goto, Becomes
  <2>7. CASE CopyBegin(r)
    <3>1. run'[q] = IF q = r THEN [run[q] EXCEPT !.pc = "copying", !.stale = TRUE]
                    ELSE IF IsLive(q) THEN [run[q] EXCEPT !.stale = TRUE]
                    ELSE run[q]
      BY <2>7 DEF CopyBegin
    <3>2. /\ [run[q] EXCEPT !.pc = "copying", !.stale = TRUE].seen = run[q].seen
          /\ [run[q] EXCEPT !.stale = TRUE].seen = run[q].seen
      BY <1>0 DEF RunState
    <3> QED BY <3>1, <3>2
  <2>8. CASE CopyEnd(r)
    <3>1. [run[r] EXCEPT !.pc = "finish", !.good = TRUE].seen = run[r].seen
      BY <2>0 DEF RunState
    <3> QED BY <1>1, <2>8, <3>1 DEF CopyEnd, Becomes
  <2>9. CASE FinishJob(r) \/ OrphanDies(r)
    BY <1>1, <1>2, <1>3, <2>9 DEF FinishJob, OrphanDies, Becomes
  <2> QED BY <1>8, <2>2, <2>3, <2>4, <2>5, <2>6, <2>7, <2>8, <2>9
          DEF Step, Failure, ListSnapshots, Stage, ResticFails, CopyFails
<1>9. CASE Starting
  <2>1. \/ run' = run \/ run' = Ended
        \/ Becomes(Startup, Begun("restore", 0)) \/ Becomes(Startup, Mistaken)
    BY <1>9 DEF Starting, Boot, Migrate, StartupCheck, Seed, Becomes, Mistaken
  <2> QED BY <1>1, <1>4, <1>5, <1>6, <2>1, MistakenIsRunState DEF Run
<1>10. CASE Environment
  BY <1>5, <1>6, <1>10 DEF Environment, UserWrite, Stop, Crash, LoseFile
<1> QED BY <1>7, <1>8, <1>9, <1>10 DEF Next

LEMMA VersionsStayKnown ==
  ASSUME StoreInv, TypeInv', Next
  PROVE  VersionsKnown'
<1>0. /\ db \in File /\ db' \in File /\ written \in Nat /\ written' \in Nat
      /\ repo \in Seq(Snapshot) /\ VersionsKnown
      /\ run \in [Run -> RunState] /\ run' \in [Run -> RunState]
  BY DEF StoreInv, IInv, TypeInv, TypeOK
<1>1. Kinds
  BY KindOfNext
<1>2. written <= written'
  BY <1>0, <1>1 DEF Kinds, Keeps, Writes, Archives, Loses, Recovers, Resets
<1>3. db'.ver <= written'
  BY <1>0, <1>1, BlankVersions
  DEF Kinds, Keeps, Writes, Archives, Loses, Recovers, Resets, VersionsKnown, File
<1>4. ASSUME NEW i \in DOMAIN repo' PROVE repo'[i].file.ver <= written'
  <2>1. CASE repo' = repo
    <3>1. repo[i] \in Snapshot /\ repo[i].file.ver <= written
      BY <1>0, <1>4, <2>1, ElementOfSeq, LenProperties DEF VersionsKnown
    <3> QED BY <1>0, <1>2, <2>1, <3>1 DEF Snapshot, File
  <2>2. CASE Archives
    <3>1. PICK f \in File, r \in Run : /\ repo' = Append(repo, [file |-> f, by |-> r])
                                       /\ f.ver <= written
      BY <2>2 DEF Archives
    <3> DEFINE s == [file |-> f, by |-> r]
    <3>2. s \in Snapshot /\ s.file = f
      BY DEF Snapshot
    <3>3. Len(repo) \in Nat /\ DOMAIN repo = 1..Len(repo)
      BY <1>0, LenProperties
    <3>4. Append(repo, s) \in Seq(Snapshot) /\ Len(Append(repo, s)) = Len(repo) + 1
      BY <1>0, <3>2, AppendProperties
    <3>5. i \in 1..(Len(repo) + 1)
      BY <1>4, <3>1, <3>4, LenProperties
    <3>6. repo'[i] = IF i = Len(repo) + 1 THEN s ELSE repo[i]
      BY <1>0, <3>1, <3>2, <3>3, <3>5, AppendProperties
    <3>7. repo'[i].file.ver <= written
      <4>1. CASE i = Len(repo) + 1
        BY <3>1, <3>2, <3>6, <4>1
      <4>2. CASE i # Len(repo) + 1
        <5>1. i \in DOMAIN repo
          BY <3>3, <3>5, <4>2
        <5> QED BY <1>0, <3>6, <4>2, <5>1 DEF VersionsKnown
      <4> QED BY <4>1, <4>2
    <3> QED BY <2>2, <3>7 DEF Archives
  <2> QED BY <1>1, <2>1, <2>2 DEF Kinds, Keeps, Writes, Loses, Recovers, Resets
<1>5. ASSUME NEW q \in Run PROVE run'[q].seen.ver <= written'
  <2>1. run'[q].seen \in {run[q].seen, db, Missing}
    BY SeenIsRead DEF StoreInv, IInv
  <2>2. run[q].seen \in File /\ run[q].seen.ver <= written
    BY <1>0 DEF RunState, VersionsKnown
  <2>3. db.ver <= written /\ Missing.ver = 0
    BY <1>0, BlankVersions DEF VersionsKnown
  <2>4. run'[q].seen.ver \in Nat /\ run'[q].seen.ver <= written
    BY <1>0, <2>1, <2>2, <2>3 DEF File
  <2> QED BY <1>0, <1>2, <2>4
<1> QED BY <1>3, <1>4, <1>5 DEF VersionsKnown

LEMMA LauncherStillMigrates ==
  ASSUME StoreInv, Next
  PROVE  LauncherMigrates'
<1>1. config' = config
  BY KindOfNext
<1>2. server' = "migrating" => server = "migrating" \/ Boot
  BY DEF Next, Starting, Boot, Migrate, StartupCheck, Seed, Request, ManualBackup,
         ManualRestore, ScheduledBackup, Step, RecordJob, StartSnapshot, EndSnapshot,
         ListSnapshots, Stage, CopyBegin, CopyEnd, FinishJob, Failure, ResticFails,
         CopyFails, OrphanDies, Environment, UserWrite, Stop, Crash, LoseFile
<1> QED BY <1>1, <1>2 DEF StoreInv, LauncherMigrates, Boot, FirstStage

LEMMA StoreInvInit == Init => StoreInv /\ Store!Init
<1> SUFFICES ASSUME Init PROVE StoreInv /\ Store!Init
  OBVIOUS
<1>1. db.kind = "ok" /\ db.ver \in {0, 1}
  BY FilesAreFiles, BlankVersions DEF Init, File
<1>2. DOMAIN repo = {}
  BY DEF Init
<1>3. \A r \in Run : run[r].seen.ver = 0
  BY BlankVersions DEF Init, AtRest
<1>4. StoreInv
  BY <1>1, <1>2, <1>3, SafeInit DEF Init, StoreInv, VersionsKnown, LauncherMigrates
<1>5. Store!Init
  BY <1>1, <1>2 DEF Init, Store!Init, Content
<1> QED BY <1>4, <1>5

LEMMA StoreInvNext == StoreInv /\ [Next]_vars => StoreInv'
<1> SUFFICES ASSUME StoreInv, [Next]_vars PROVE StoreInv'
  OBVIOUS
<1>1. IInv'
  BY SafeNext DEF StoreInv
<1>2. CASE Next
  BY <1>1, <1>2, VersionsStayKnown, LauncherStillMigrates DEF StoreInv, IInv
<1>3. CASE UNCHANGED vars
  BY <1>1, <1>3 DEF vars, StoreInv, VersionsKnown, LauncherMigrates
<1> QED BY <1>2, <1>3

\* Whatever backups, restores, crashes and restarts do to the file, the user's
\* data only moves on by writes, is lost only while the program is down or
\* copies, and comes back only as the repository holds it.
THEOREM BackupImplementsStore == Spec => ImplementsContentStore
<1>1. StoreInv /\ [Next]_vars => [Store!Next]_(Store!vars)
  <2> SUFFICES ASSUME StoreInv, [Next]_vars PROVE Store!Next \/ UNCHANGED Store!vars
    OBVIOUS
  <2>1. CASE Next
    BY <2>1, KindOfNext, KindIsStoreStep
  <2>2. CASE UNCHANGED vars
    BY <2>2 DEF vars, Store!vars, LoopFree
  <2> QED BY <2>1, <2>2
<1> QED BY <1>1, StoreInvInit, StoreInvNext, PTL DEF Spec, ImplementsContentStore, Store!Spec

=============================================================================
