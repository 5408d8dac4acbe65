-------------------------- MODULE ExtensionsProofs --------------------------
(***************************************************************************)
(* Proofs about Extensions for any processes, extensions, names, contents  *)
(* and bounds.  What activation tests under the lock stays true until the  *)
(* pointer is written, because only the holder of the lock writes one and  *)
(* because no two processes work on the same candidate.                    *)
(***************************************************************************)
EXTENDS Extensions, TLAPS

\* The places where a process has a candidate.
Recorded == {"check", "run", "commit", "reject"} \cup Committing

\* A process has a record exactly there, of a version of its own.
Owned ==
  /\ \A p \in Process : at[p] \in Recorded <=> Exists(record[p])
  /\ \A p \in Process : Exists(record[p]) =>
       record[p].version <= used /\ record[p].extension = job[p].extension
  /\ \A p, q \in Process :
       p # q /\ Exists(record[p]) => record[p].version # record[q].version

\* Nothing is on disk under an identifier that was not given out.
Fresh == \A v \in Revision : v > used => ~Exists(candidates[v]) /\ ~Exists(versions[v])

\* Until it is renamed, a candidate is on disk with its record.
PendingOf(p) ==
  at[p] \in {"check", "run", "commit", "compare", "save", "rename"} =>
    LET v == record[p].version
    IN  /\ ~Exists(versions[v]) /\ Exists(candidates[v])
        /\ candidates[v].extension = record[p].extension
        /\ candidates[v].parent = record[p].parent
        /\ candidates[v].files = record[p].files

\* An import runs no checks; one with checks that passed its test has no
\* version to replace.
TestedOf(p) ==
  /\ at[p] \in {"check", "run"} => job[p].kind # "import"
  /\ at[p] \in {"commit"} \cup Committing /\ job[p].kind = "import" =>
       (record[p].files.checks => record[p].parent = NoRevision)

\* What Compare has tested still holds when the pointer is written.
GrantedOf(p) ==
  at[p] \in {"save", "rename", "point"} =>
    LET v == record[p].version
    IN  /\ SameParent(p) /\ record[p].files.valid
        /\ at[p] \in {"save", "rename"} => SameFiles(p)
        /\ at[p] = "rename" => candidates[v].status = Validated(p)
        /\ at[p] = "point" =>
             /\ Exists(versions[v])
             /\ versions[v].extension = record[p].extension
             /\ versions[v].parent = record[p].parent
             /\ versions[v].files = record[p].files /\ versions[v].payload = record[p].files
             /\ versions[v].status = Validated(p)

ProcessOf(p) == PendingOf(p) /\ TestedOf(p) /\ GrantedOf(p)

\* The parts of the invariant beside the types.
ActiveOK == ActiveSound /\ ChecksRan

Rest == Owned /\ Fresh /\ (\A p \in Process : ProcessOf(p)) /\ ActiveOK

IInv == TypeOK /\ Rest

-----------------------------------------------------------------------------
(* Types.                                                                  *)

Version == Revision \cup {NoRevision}

\* The values operations begin with have their types.
LEMMA Initials ==
  /\ Unfinished \in Bundle /\ NoRecord \in Record /\ Empty \in [Extension -> Version]
  /\ \A then \in {"publish", "create"}, imports \in BOOLEAN, left \in SUBSET Extension :
       Load(then, imports, left) \in Job
  /\ NoJob \in Job
  /\ used \in 0 .. MaxVersions /\ used < MaxVersions => used + 1 \in Revision
<1>1. 1 \in Extension /\ MaxVersions \in Nat
  BY ExtensionsAssumption DEF Extension
<1>2. Unfinished \in Bundle
  BY DEF Unfinished, Bundle
<1>3. NoRecord \in Record
  BY <1>1, <1>2 DEF NoRecord, Record, Statuses, NoRevision
<1>4. Empty \in [Extension -> Version]
  BY DEF Empty, Version
<1>5. \A then \in {"publish", "create"}, imports \in BOOLEAN, left \in SUBSET Extension :
        Load(then, imports, left) \in Job
  BY <1>1, <1>2 DEF Load, Job, NoRevision
<1>7. NoJob \in Job
  BY <1>1, <1>2 DEF NoJob, Load, Job, NoRevision
<1>6. used \in 0 .. MaxVersions /\ used < MaxVersions => used + 1 \in Revision
  BY <1>1 DEF Revision
<1> QED
  BY <1>2, <1>3, <1>4, <1>5, <1>6, <1>7

\* Jobs stay jobs, records records, when fields are replaced by their kind.
LEMMA Fields ==
  ASSUME NEW j \in Job, NEW r \in Record
  PROVE  /\ NextExtension(j) \in Job /\ SameExtension(j) \in Job
         /\ \A e \in Extension : [j EXCEPT !.extension = e] \in Job
         /\ \A e \in Extension, v \in Version :
              [j EXCEPT !.kind = "import", !.extension = e, !.parent = v] \in Job
         /\ \A d \in Bundle : [j EXCEPT !.digest = d] \in Job
         /\ \A e \in Extension, b \in Bundle : [j EXCEPT !.extension = e, !.bundle = b] \in Job
         /\ \A s \in Statuses : [r EXCEPT !.status = s] \in Record
         /\ \A b \in Bundle : [r EXCEPT !.payload = b] \in Record
         /\ \A s \in Statuses, b \in Bundle :
              [r EXCEPT !.status = s, !.files = b, !.payload = b] \in Record
<1>1. NextExtension(j) \in Job /\ SameExtension(j) \in Job
  <2>1. /\ j.then \in {"publish", "create"} /\ j.imports \in BOOLEAN
        /\ j.left \in SUBSET Extension /\ j.left \ {j.extension} \in SUBSET Extension
        /\ j.extension \in Extension
    BY DEF Job
  <2>2. /\ Load(j.then, j.imports, j.left \ {j.extension}) \in Job
        /\ Load(j.then, j.imports, j.left) \in Job
    BY <2>1, Initials
  <2>3. \A k \in Job, e \in Extension : [k EXCEPT !.extension = e] \in Job
    BY DEF Job
  <2> QED
    BY <2>1, <2>2, <2>3 DEF NextExtension, SameExtension
<1>2. /\ \A e \in Extension : [j EXCEPT !.extension = e] \in Job
      /\ \A d \in Bundle : [j EXCEPT !.digest = d] \in Job
  BY DEF Job
<1>3. \A e \in Extension, v \in Version :
        [j EXCEPT !.kind = "import", !.extension = e, !.parent = v] \in Job
  BY DEF Job, Version
<1>4. \A e \in Extension, b \in Bundle : [j EXCEPT !.extension = e, !.bundle = b] \in Job
  BY DEF Job
<1>5. /\ \A s \in Statuses : [r EXCEPT !.status = s] \in Record
      /\ \A b \in Bundle : [r EXCEPT !.payload = b] \in Record
      /\ \A s \in Statuses, b \in Bundle :
           [r EXCEPT !.status = s, !.files = b, !.payload = b] \in Record
  BY DEF Record
<1> QED
  BY <1>1, <1>2, <1>3, <1>4, <1>5

\* The types that an operation in progress touches, in one process.
Local ==
  /\ at \in [Process -> Places] /\ job \in [Process -> Job]
  /\ record \in [Process -> Record] /\ building \in [Process -> [Extension -> Version]]
  /\ registry \in [Process -> [Extension -> Version]]

Shared ==
  /\ folders \subseteq Extension /\ source \in [Extension -> Bundle]
  /\ active \in [Extension -> [version : Version, digest : Bundle]]
  /\ candidates \in [Revision -> Record] /\ versions \in [Revision -> Record]
  /\ lock \in Process \cup {NoProcess}
  /\ used \in 0 .. MaxVersions /\ events \in 0 .. MaxEvents /\ orphaned \in BOOLEAN

Locked == \A p \in Process : lock = p <=> at[p] \in Committing

LEMMA TypeParts == TypeOK <=> Local /\ Shared /\ Locked
  BY DEF TypeOK, Local, Shared, Locked, Version

\* The ways an operation goes on keep the types of its process.
LEMMA LocalTypes ==
  ASSUME Local, NEW p \in Process, registry' = registry, folders \subseteq Extension
  PROVE  /\ Idle(p) => Local'
         /\ SkipExtension(p) /\ building' \in [Process -> [Extension -> Version]] => Local'
         /\ \A then \in {"publish", "create"}, imports \in BOOLEAN :
              StartLoad(p, then, imports) => Local'
         /\ GiveUp(p) => Local'
<1>0. job[p] \in Job /\ record[p] \in Record
  BY DEF Local
<1> USE DEF Local
<1>1. Idle(p) => Local'
  BY Initials DEF Idle, Goto, SetJob, Places
<1>2. SkipExtension(p) /\ building' \in [Process -> [Extension -> Version]] => Local'
  <2>1. PICK j \in Job : j = NextExtension(job[p])
    BY <1>0, Fields
  <2>2. SkipExtension(p) => job' = [job EXCEPT ![p] = j]
    BY <2>1, Zenon DEF SkipExtension, SetJob
  <2>3. SkipExtension(p) => at' = [at EXCEPT ![p] = "scan"]
                              /\ record' = [record EXCEPT ![p] = NoRecord]
    BY Zenon DEF SkipExtension, Goto
  <2> QED
    BY <2>2, <2>3, Initials DEF Places
<1>3. \A then \in {"publish", "create"}, imports \in BOOLEAN :
        StartLoad(p, then, imports) => Local'
  BY Initials DEF StartLoad, Goto, SetJob, Places
<1>4. Goto(p, "register") /\ SetJob(p, SameExtension(job[p]))
        /\ record' = [record EXCEPT ![p] = NoRecord] /\ building' = building => Local'
  BY <1>0, Initials, Fields DEF Goto, SetJob, Places
<1>5. GiveUp(p) => Local'
  BY <1>1, <1>2, <1>4 DEF GiveUp
<1> QED
  BY <1>1, <1>2, <1>3, <1>5

LEMMA TypePartsNext == TypeOK' <=> Local' /\ Shared' /\ Locked'
  BY DEF TypeOK, Local, Shared, Locked, Version

LEMMA Counted == events \in 0 .. MaxEvents /\ Event => events' \in 0 .. MaxEvents
  BY ExtensionsAssumption DEF Event

\* The ways a step may treat the lock.
LEMMA LockStep ==
  ASSUME Local, Locked, NEW p \in Process, NEW place \in Places, Goto(p, place),
         \/ lock' = lock /\ (at[p] \in Committing <=> place \in Committing)
         \/ lock' = (IF lock = p THEN NoProcess ELSE lock) /\ place \notin Committing
         \/ lock = NoProcess /\ lock' = p /\ place \in Committing
  PROVE  Locked'
  BY ExtensionsAssumption DEF Local, Locked, Goto

\* Every step of a process keeps the types of the disk and the bounds.
LEMMA SharedTypes ==
  ASSUME Local, Shared, Locked, NEW p \in Process, Step(p) \/ Begin(p) \/ Crash(p)
  PROVE  Shared'
<1>0. /\ job[p] \in Job /\ record[p] \in Record /\ building[p] \in [Extension -> Version]
      /\ job[p].extension \in Extension /\ job[p].bundle \in Bundle
      /\ job[p].digest \in Bundle /\ job[p].parent \in Version
      /\ record[p].files \in Bundle /\ record[p].payload \in Bundle
      /\ record[p].version \in Version /\ record[p].parent \in Version
  BY DEF Local, Job, Record, Version
<1>1. CASE \/ Look(p)
          \/ Register(p) \/ Publish(p) \/ RefuseCreate(p)
  BY <1>1 DEF Look, Register, Publish, RefuseCreate, disk, history, Shared
<1>2. CASE \/ CheckUpdate(p) \/ TakeLock(p)
          \/ LockBusy(p) \/ Crash(p)
  BY <1>2 DEF CheckUpdate, TakeLock, LockBusy, Crash, disk, history, Shared
<1>3. CASE Start(p) \/ Reload(p) \/ Create(p)
  BY <1>3, Counted DEF Start, Reload, Create, disk, Shared
<1>4. CASE ManifestFails(p) \/ PrepareFails(p) \/ ActivateFails(p)
  BY <1>4, Counted DEF ManifestFails, PrepareFails, ActivateFails, Refuse, disk, Shared
<1>5. CASE Update(p) \/ UpdateFromSource(p) \/ Rollback(p)
  BY <1>5, Counted DEF Update, UpdateFromSource, Rollback, Change, disk, Shared
<1>6. CASE MakeFolder(p)
  BY <1>6, Initials DEF MakeFolder, history, Shared
<1>7. CASE WriteManifest(p)
  BY <1>7, <1>0 DEF WriteManifest, history, Shared
<1>8. CASE Prepare(p)
  <2>1. Read(job[p]) \in Bundle
    BY <1>0 DEF Read, FromSource, Shared
  <2>2. [version |-> used + 1, extension |-> job[p].extension, parent |-> job[p].parent,
         files |-> Read(job[p]), payload |-> Read(job[p]), status |-> "preparing"] \in Record
    BY <1>8, <1>0, <2>1, Initials DEF Prepare, Shared, Record, Version, Statuses
  <2>3. used + 1 \in 0 .. MaxVersions
    BY <1>8, ExtensionsAssumption DEF Prepare, Shared
  <2> QED
    BY <1>8, <2>2, <2>3 DEF Prepare, Shared
<1>9. CASE RunChecks(p)
  <2> DEFINE v == record[p].version
  <2>1. PICK b \in Bundles \cup {candidates[v].payload} :
          candidates' = [candidates EXCEPT ![v].payload = b]
    BY <1>9 DEF RunChecks
  <2>2. ASSUME v \in Revision
        PROVE  candidates' \in [Revision -> Record]
    <3>1. candidates[v] \in Record /\ b \in Bundle
      BY <2>2, ExtensionsAssumption DEF Shared, Record
    <3>2. [candidates[v] EXCEPT !.payload = b] \in Record
      BY <3>1, <1>0, Fields
    <3> QED
      BY <2>1, <3>2 DEF Shared
  <2>3. ASSUME v \notin Revision
        PROVE  candidates' \in [Revision -> Record]
    BY <2>1, <2>3 DEF Shared
  <2> QED
    BY <1>9, <2>2, <2>3 DEF RunChecks, history, Shared
<1>10. CASE Compare(p)
  BY <1>10 DEF Compare, Refuse, disk, history, Shared
<1>11. CASE SavePassed(p)
  <2> DEFINE v == record[p].version
  <2>1. Validated(p) \in Statuses
    BY DEF Validated, Statuses
  <2>2. ASSUME v \in Revision
        PROVE  [candidates[v] EXCEPT !.status = Validated(p)] \in Record
    <3>1. candidates[v] \in Record
      BY <2>2 DEF Shared
    <3> QED
      BY <3>1, <2>1, <1>0, Fields
  <2> QED
    BY <1>11, <2>2 DEF SavePassed, history, Shared
<1>12. CASE Rename(p)
  BY <1>12, Initials DEF Rename, history, Shared
<1>13. CASE Point(p)
  <2>1. orphaned' \in BOOLEAN
    BY <1>13, Zenon DEF Point
  <2> QED
    BY <1>13, <1>0, <2>1 DEF Point, Pointer, Shared
<1>14. CASE Release(p)
  BY <1>14 DEF Release, disk, history, Shared
<1>15. CASE Reject(p)
  <2> DEFINE v == record[p].version
             now == IF Exists(candidates[v]) THEN candidates[v].payload ELSE record[p].payload
             failed == [record[p] EXCEPT !.status = "failed", !.files = now, !.payload = now]
  <2>1. CASE v \in Revision
    <3>1. candidates[v] \in Record
      BY <2>1 DEF Shared
    <3>2. now \in Bundle
      BY <3>1, <1>0 DEF Record
    <3>3. failed \in Record
      BY <3>2, <1>0, Fields DEF Statuses
    <3>4. candidates' \in [Revision -> Record]
      BY <1>15, <3>3 DEF Reject, Shared
    <3> QED
      BY <1>15, <3>4, Counted DEF Reject, Shared
  <2>2. CASE v \notin Revision
    BY <1>15, <2>2, Counted DEF Reject, Shared
  <2> QED
    BY <2>1, <2>2
<1> QED
  BY <1>1, <1>2, <1>3, <1>4, <1>5, <1>6, <1>7, <1>8, <1>9, <1>10, <1>11, <1>12, <1>13, <1>14,
     <1>15 DEF Step, Begin

\* Every step of a process keeps the types of its operation.
LEMMA OwnTypes ==
  ASSUME Local, Shared, Locked, NEW p \in Process, Step(p) \/ Begin(p) \/ Crash(p)
  PROVE  Local'
<1>0. /\ job[p] \in Job /\ record[p] \in Record /\ building[p] \in [Extension -> Version]
      /\ job[p].extension \in Extension /\ job[p].bundle \in Bundle
      /\ job[p].digest \in Bundle /\ job[p].parent \in Version
      /\ record[p].files \in Bundle /\ record[p].payload \in Bundle
      /\ record[p].version \in Version /\ record[p].parent \in Version
  BY DEF Local, Job, Record, Version
<1>1. CASE Start(p) \/ Reload(p) \/ Create(p)
  BY <1>1, LocalTypes DEF Start, Reload, Create, Shared
<1>3. CASE \/ RefuseCreate(p) \/ ManifestFails(p)
          \/ PrepareFails(p) \/ WriteManifest(p)
  BY <1>3, LocalTypes DEF RefuseCreate, ManifestFails, PrepareFails, WriteManifest, Shared
<1>4. CASE Reject(p)
  BY <1>4, LocalTypes DEF Reject, Shared
<1>5. CASE Look(p)
  <2>1. \A e \in Extension : active[e].version \in Version
    BY DEF Shared
  <2>2. \A e \in Extension :
          /\ [job[p] EXCEPT !.kind = "import", !.extension = e,
                            !.parent = active[e].version] \in Job
          /\ [job[p] EXCEPT !.extension = e] \in Job
    BY <2>1, <1>0, Fields
  <2> QED
    BY <1>5, <2>2 DEF Look, Scanning, Goto, SetJob, Local, Places
<1>6. CASE Register(p)
  <2> DEFINE e == job[p].extension
             v == active[e].version
  <2>1. building' \in [Process -> [Extension -> Version]]
    <3>1. v \in Version
      BY <1>0 DEF Shared
    <3>2. [building[p] EXCEPT ![e] = v] \in [Extension -> Version]
      BY <3>1, <1>0
    <3> QED
      BY <1>6, <3>2 DEF Register, Local
  <2> QED
    BY <1>6, <2>1, LocalTypes DEF Register, Shared
<1>7. CASE Publish(p)
  BY <1>7, <1>0, Initials DEF Publish, Idle, Goto, SetJob, Local, Places
<1>8. CASE MakeFolder(p)
  <2>1. PICK e \in Extension, b \in Bundles :
          SetJob(p, [job[p] EXCEPT !.extension = e, !.bundle = b])
    BY <1>8 DEF MakeFolder
  <2>2. [job[p] EXCEPT !.extension = e, !.bundle = b] \in Job
    BY <1>0, Fields, ExtensionsAssumption
  <2> QED
    BY <1>8, <2>1, <2>2 DEF MakeFolder, Goto, SetJob, Local, Places
<1>9. CASE Update(p) \/ UpdateFromSource(p) \/ Rollback(p)
  <2>1. PICK kind \in {"patch", "source", "rollback"}, e \in Extension, b \in Bundle :
          Change(p, kind, e, b)
    <3>1. \A v \in Revision : Files(v) \in Bundle
      BY DEF Files, Shared, Record
    <3> QED
      BY <1>9, <3>1, Initials, ExtensionsAssumption DEF Update, UpdateFromSource, Rollback, Shared
  <2>2. active[e].version \in Version /\ active[e].digest \in Bundle
    BY DEF Shared
  <2>3. [NoJob EXCEPT !.kind = kind, !.extension = e,
           !.parent = active[e].version, !.digest = active[e].digest, !.bundle = b] \in Job
    BY <2>2, Initials DEF Job, Version
  <2> QED
    BY <2>1, <2>3 DEF Change, Goto, SetJob, Local, Places
<1>10. CASE Prepare(p)
  <2>1. Read(job[p]) \in Bundle
    BY <1>0 DEF Read, FromSource, Shared
  <2>2. [version |-> used + 1, extension |-> job[p].extension, parent |-> job[p].parent,
         files |-> Read(job[p]), payload |-> Read(job[p]), status |-> "preparing"] \in Record
    BY <1>10, <1>0, <2>1, Initials DEF Prepare, Shared, Record, Version, Statuses
  <2>3. \A d \in Bundle : [job[p] EXCEPT !.digest = d] \in Job
    BY <1>0, Fields
  <2>4. job' \in [Process -> Job]
    BY <1>10, <2>1, <2>3, <1>0 DEF Prepare, SetJob, Local
  <2> QED
    BY <1>10, <2>2, <2>4 DEF Prepare, Goto, Local, Places
<1>11. CASE CheckUpdate(p) \/ RunChecks(p)
  BY <1>11 DEF CheckUpdate, RunChecks, Goto, Local, Places
<1>12. CASE TakeLock(p) \/ LockBusy(p) \/ Compare(p)
  BY <1>12 DEF TakeLock, LockBusy, Compare, Refuse, Goto, Local, Places, Committing
<1>13. CASE SavePassed(p)
  <2>1. [record[p] EXCEPT !.status = Validated(p)] \in Record
    BY <1>0, Fields DEF Validated, Statuses
  <2> QED
    BY <1>13, <2>1 DEF SavePassed, Goto, Local, Places, Committing
<1>14. CASE Rename(p) \/ Point(p) \/ ActivateFails(p)
  BY <1>14 DEF Rename, Point, ActivateFails, Refuse, Goto, Local, Places, Committing
<1>15. CASE Release(p)
  <2>1. SameExtension(job[p]) \in Job
    BY <1>0, Fields
  <2>2. CASE job[p].kind = "import"
    BY <1>15, <2>1, <2>2, Initials DEF Release, Goto, SetJob, Local, Places
  <2>3. CASE job[p].kind # "import"
    BY <1>15, <2>3, LocalTypes DEF Release, Shared
  <2> QED
    BY <2>2, <2>3
<1>16. CASE Crash(p)
  BY <1>16, Initials DEF Crash, Goto, SetJob, Local, Places
<1> QED
  BY <1>1, <1>3, <1>4, <1>5, <1>6, <1>7, <1>8, <1>9, <1>10, <1>11, <1>12, <1>13, <1>14,
     <1>15, <1>16 DEF Step, Begin

\* Every step of a process keeps the lock with the one that activates.
LEMMA LockHeld ==
  ASSUME Local, Shared, Locked, NEW p \in Process, Step(p) \/ Begin(p) \/ Crash(p)
  PROVE  Locked'
<1>0. at[p] \in Committing <=> lock = p
  BY DEF Locked
<1>2. CASE Look(p)
  BY <1>2, LockStep DEF Look, Scanning, disk, Goto, Places, Committing
<1>3. CASE Register(p)
  BY <1>3, LockStep DEF Register, SkipExtension, disk, Goto, Places, Committing
<1>4. CASE Publish(p)
  BY <1>4, LockStep DEF Publish, Loaded, Idle, disk, Goto, Places, Committing
<1>5. CASE RefuseCreate(p)
  BY <1>5, LockStep DEF RefuseCreate, Loaded, Idle, disk, Goto, Places, Committing
<1>6. CASE MakeFolder(p)
  BY <1>6, LockStep DEF MakeFolder, Loaded, disk, Goto, Places, Committing
<1>7. CASE WriteManifest(p)
  BY <1>7, LockStep DEF WriteManifest, StartLoad, disk, Goto, Places, Committing
<1>8. CASE ManifestFails(p)
  BY <1>8, LockStep DEF ManifestFails, Idle, disk, Goto, Places, Committing
<1>9. CASE Prepare(p)
  BY <1>9, LockStep DEF Prepare, disk, Goto, Places, Committing
<1>10. CASE PrepareFails(p)
  BY <1>10, LockStep DEF PrepareFails, GiveUp, Idle, SkipExtension, disk, Goto, Places, Committing
<1>11. CASE CheckUpdate(p)
  BY <1>11, LockStep DEF CheckUpdate, disk, Goto, Places, Committing
<1>12. CASE RunChecks(p)
  BY <1>12, LockStep DEF RunChecks, disk, Goto, Places, Committing
<1>13. CASE TakeLock(p)
  BY <1>13, LockStep DEF TakeLock, disk, Goto, Places, Committing
<1>14. CASE LockBusy(p)
  BY <1>14, LockStep DEF LockBusy, disk, Goto, Places, Committing
<1>15. CASE SavePassed(p)
  BY <1>15, LockStep DEF SavePassed, disk, Goto, Places, Committing
<1>16. CASE Rename(p)
  BY <1>16, LockStep DEF Rename, disk, Goto, Places, Committing
<1>17. CASE Point(p)
  BY <1>17, LockStep DEF Point, disk, Goto, Places, Committing
<1>18. CASE Reject(p)
  BY <1>18, LockStep DEF Reject, GiveUp, Idle, SkipExtension, disk, Goto, Places, Committing
<1>19. CASE Start(p) \/ Reload(p) \/ Create(p)
  BY <1>19, LockStep DEF Start, Reload, Create, StartLoad, disk, Goto, Places, Committing
<1>20. CASE Update(p) \/ UpdateFromSource(p) \/ Rollback(p)
  BY <1>20, LockStep DEF Update, UpdateFromSource, Rollback, Change, disk, Goto, Places,
     Committing
<1>21. CASE Crash(p)
  BY <1>21, LockStep DEF Crash, disk, Goto, Places, Committing
<1>22. CASE Compare(p) \/ ActivateFails(p) \/ Release(p)
  BY <1>22, LockStep, <1>0 DEF Compare, ActivateFails, Release, Refuse, StartLoad, disk, Goto,
     Places, Committing
<1> QED
  BY <1>2, <1>3, <1>4, <1>5, <1>6, <1>7, <1>8, <1>9, <1>10, <1>11, <1>12, <1>13, <1>14,
     <1>15, <1>16, <1>17, <1>18, <1>19, <1>20, <1>21, <1>22 DEF Step, Begin

\* Every step keeps the types.
LEMMA TypeStep == TypeOK /\ [Next]_vars => TypeOK'
<1> SUFFICES ASSUME Local, Shared, Locked, [Next]_vars
             PROVE  Local' /\ Shared' /\ Locked'
  BY TypeParts, TypePartsNext
<1>1. CASE UNCHANGED vars
  BY <1>1 DEF vars, disk, history, Local, Shared, Locked
<1>2. CASE EditSource \/ RemoveSource
  <2>1. Local' /\ Locked'
    BY <1>2 DEF EditSource, RemoveSource, Local, Locked
  <2>2. CASE EditSource
    BY <2>1, <2>2, Initials, Counted, ExtensionsAssumption DEF EditSource, Shared
  <2>3. CASE RemoveSource
    <3>1. orphaned' \in BOOLEAN
      BY <2>3, Zenon DEF RemoveSource
    <3> QED
      BY <2>1, <2>3, <3>1, Initials, Counted DEF RemoveSource, Shared
  <2> QED
    BY <1>2, <2>2, <2>3
<1>3. ASSUME NEW p \in Process, Step(p) \/ Begin(p) \/ Crash(p)
      PROVE  Local' /\ Shared' /\ Locked'
  BY <1>3, SharedTypes, OwnTypes, LockHeld
<1> QED
  BY <1>1, <1>2, <1>3 DEF Next

-----------------------------------------------------------------------------
(* The invariant.                                                          *)

\* What a step of one process leaves alone of another: its own record, and
\* the revision w that the step may write is not one the other works on.
LEMMA Others ==
  ASSUME TypeOK, Rest, NEW q \in Process, NEW w,
         at'[q] = at[q], job'[q] = job[q], record'[q] = record[q],
         Exists(record[q]) => record[q].version # w,
         \A v \in Revision : v # w => candidates'[v] = candidates[v] /\ versions'[v] = versions[v],
         active' = active,
         \A e \in Extension : active[e].version # NoRevision =>
           versions'[active[e].version] = versions[active[e].version]
  PROVE  ProcessOf(q)'
<1>1. CASE at[q] \notin Recorded
  BY <1>1 DEF ProcessOf, PendingOf, TestedOf, GrantedOf, Recorded, Committing
<1>2. CASE at[q] \in Recorded
  <2>1. Exists(record[q]) /\ record[q].version \in Revision
    BY <1>2 DEF Rest, Owned, TypeOK, Record, Exists
  <2>2. /\ candidates'[record[q].version] = candidates[record[q].version]
        /\ versions'[record[q].version] = versions[record[q].version]
    BY <2>1
  <2>3. ProcessOf(q)
    BY DEF Rest
  <2>4. PendingOf(q)'
    BY <2>2, <2>3 DEF ProcessOf, PendingOf, Exists
  <2>5. TestedOf(q)'
    BY <2>3 DEF ProcessOf, TestedOf
  <2>7. GrantedOf(q)'
    BY <2>2, <2>3 DEF ProcessOf, GrantedOf, SameParent, SameFiles, Validated, Exists
  <2> QED
    BY <2>4, <2>5, <2>7 DEF ProcessOf
<1> QED
  BY <1>1, <1>2

\* What is active stays sound while its pointers and bundles are left alone.
LEMMA ActiveKept ==
  ASSUME ActiveOK, active' = active,
         \A e \in Extension : active[e].version # NoRevision =>
           versions'[active[e].version] = versions[active[e].version]
  PROVE  ActiveOK'
<1>1. ActiveSound'
  BY DEF ActiveOK, ActiveSound, Exists
<1>2. ChecksRan'
  BY DEF ActiveOK, ChecksRan
<1> QED
  BY <1>1, <1>2 DEF ActiveOK

\* An operation that ends or gives up leaves at most its own candidate changed.
LEMMA Leaves ==
  ASSUME TypeOK, Rest, NEW p \in Process, NEW place \in Places \ Recorded,
         at' = [at EXCEPT ![p] = place],
         \A q \in Process \ {p} : job'[q] = job[q] /\ record'[q] = record[q],
         ~Exists(record'[p]),
         active' = active, versions' = versions, used' = used,
         \A v \in Revision : v # record[p].version => candidates'[v] = candidates[v]
  PROVE  Rest'
<1>1. \A q \in Process : at'[q] = IF q = p THEN place ELSE at[q]
  BY DEF TypeOK
<1>2. Owned'
  BY <1>1 DEF Rest, Owned, Exists
<1>3. Fresh'
  <2>1. Exists(record[p]) => record[p].version <= used
    BY DEF Rest, Owned
  <2> SUFFICES ASSUME NEW v \in Revision, v > used
               PROVE  ~Exists(candidates'[v]) /\ ~Exists(versions'[v])
    BY DEF Fresh, Exists
  <2>2. v # record[p].version
    BY <2>1, ExtensionsAssumption DEF Exists, TypeOK, Revision, NoRevision
  <2> QED
    BY <2>2 DEF Rest, Fresh, Exists
<1>4. ASSUME NEW q \in Process
      PROVE  ProcessOf(q)'
  <2>1. CASE q = p
    BY <1>1, <2>1 DEF ProcessOf, PendingOf, TestedOf, GrantedOf, Recorded, Committing
  <2>2. CASE q # p
    <3>1. Exists(record[q]) => record[q].version # record[p].version
      BY <2>2 DEF Rest, Owned
    <3> QED
      BY <1>1, <2>2, <3>1, Others
  <2> QED
    BY <2>1, <2>2
<1>5. ActiveOK'
  BY ActiveKept DEF Rest
<1> QED
  BY <1>2, <1>3, <1>4, <1>5 DEF Rest

\* An operation that goes on with the record it has, and at most changes its
\* own candidate or what is kept under the same identifier.
LEMMA GoesOn ==
  ASSUME TypeOK, Rest, NEW p \in Process, NEW place \in Recorded,
         at[p] \in Recorded, at' = [at EXCEPT ![p] = place], job' = job,
         \A q \in Process \ {p} : record'[q] = record[q],
         record'[p].version = record[p].version, record'[p].extension = record[p].extension,
         active' = active, used' = used,
         \A v \in Revision : v # record[p].version =>
           candidates'[v] = candidates[v] /\ versions'[v] = versions[v],
         Exists(versions[record[p].version]) =>
           versions'[record[p].version] = versions[record[p].version],
         ProcessOf(p)'
  PROVE  Rest'
<1>1. \A q \in Process : at'[q] = IF q = p THEN place ELSE at[q]
  BY DEF TypeOK
<1>2. Exists(record[p]) /\ record[p].version \in Revision /\ record[p].version <= used
  BY DEF Rest, Owned, TypeOK, Record, Exists
<1>3. Owned'
  BY <1>1 DEF Rest, Owned, Exists
<1>4. Fresh'
  <2> SUFFICES ASSUME NEW v \in Revision, v > used
               PROVE  ~Exists(candidates'[v]) /\ ~Exists(versions'[v])
    BY DEF Fresh, Exists
  <2>1. v # record[p].version
    BY <1>2, ExtensionsAssumption DEF TypeOK, Revision
  <2> QED
    BY <2>1 DEF Rest, Fresh, Exists
<1>5. ASSUME NEW e \in Extension, active[e].version # NoRevision
      PROVE  versions'[active[e].version] = versions[active[e].version]
  <2>1. active[e].version \in Revision /\ Exists(versions[active[e].version])
    BY <1>5 DEF TypeOK, Rest, ActiveOK, ActiveSound
  <2> QED
    BY <2>1
<1>6. ASSUME NEW q \in Process
      PROVE  ProcessOf(q)'
  <2>1. CASE q # p
    <3>1. Exists(record[q]) => record[q].version # record[p].version
      BY <2>1 DEF Rest, Owned
    <3> QED
      BY <1>1, <1>5, <2>1, <3>1, Others
  <2> QED
    BY <2>1
<1>7. ActiveOK'
  BY <1>5, ActiveKept DEF Rest
<1> QED
  BY <1>3, <1>4, <1>6, <1>7 DEF Rest

\* The ways an operation ends, or gives up its candidate.
LEMMA Endings ==
  ASSUME TypeOK, Rest, NEW p \in Process,
         active' = active, versions' = versions, used' = used,
         \A v \in Revision : v # record[p].version => candidates'[v] = candidates[v]
  PROVE  /\ Idle(p) => Rest'
         /\ SkipExtension(p) => Rest'
         /\ \A then \in {"publish", "create"}, imports \in BOOLEAN :
              StartLoad(p, then, imports) => Rest'
         /\ GiveUp(p) => Rest'
<1>0. \A place \in {"idle", "scan", "register"} : \A j :
        /\ at' = [at EXCEPT ![p] = place] /\ SetJob(p, j)
        /\ record' = [record EXCEPT ![p] = NoRecord]
        => Rest'
  <2> SUFFICES ASSUME NEW place \in {"idle", "scan", "register"}, NEW j,
                      at' = [at EXCEPT ![p] = place], SetJob(p, j),
                      record' = [record EXCEPT ![p] = NoRecord]
               PROVE  Rest'
    OBVIOUS
  <2>1. place \in Places \ Recorded
    BY DEF Places, Recorded, Committing
  <2>2. \A q \in Process \ {p} : job'[q] = job[q] /\ record'[q] = record[q]
    BY DEF SetJob, TypeOK
  <2>3. ~Exists(record'[p])
    BY DEF TypeOK, Exists, NoRecord
  <2> QED
    BY <2>1, <2>2, <2>3, Leaves
<1>1. Idle(p) => Rest'
  BY <1>0 DEF Idle, Goto
<1>2. SkipExtension(p) => Rest'
  BY <1>0 DEF SkipExtension, Goto
<1>3. \A then \in {"publish", "create"}, imports \in BOOLEAN :
        StartLoad(p, then, imports) => Rest'
  BY <1>0 DEF StartLoad, Goto
<1>4. GiveUp(p) => Rest'
  BY <1>0, <1>1, <1>2 DEF GiveUp, Goto
<1> QED
  BY <1>1, <1>2, <1>3, <1>4

\* Steps without a candidate.
LEMMA PlainSteps ==
  ASSUME TypeOK, Rest, NEW p \in Process,
         \/ Look(p) \/ Register(p) \/ Publish(p) \/ RefuseCreate(p)
         \/ MakeFolder(p) \/ WriteManifest(p) \/ ManifestFails(p) \/ PrepareFails(p)
         \/ Begin(p) \/ Crash(p)
  PROVE  Rest'
<1>0. at[p] \notin Recorded => ~Exists(record[p])
  BY DEF Rest, Owned
<1>1. CASE Register(p)
  BY <1>1, Endings DEF Register, disk, history
<1>2. CASE Publish(p) \/ RefuseCreate(p) \/ ManifestFails(p)
  BY <1>2, Endings DEF Publish, RefuseCreate, ManifestFails, disk, history
<1>3. CASE WriteManifest(p)
  BY <1>3, Endings DEF WriteManifest, disk, history
<1>4. CASE PrepareFails(p)
  BY <1>4, Endings DEF PrepareFails, disk, history
<1>5. CASE Start(p) \/ Reload(p) \/ Create(p)
  BY <1>5, Endings DEF Start, Reload, Create, disk
<1>6. CASE Look(p)
  <2>1. at[p] \notin Recorded
    BY <1>6 DEF Look, Scanning, Recorded, Committing
  <2>2. \A q \in Process \ {p} : job'[q] = job[q]
    BY <1>6 DEF Look, SetJob, TypeOK
  <2>3. PICK place \in {"prepare", "register"} : at' = [at EXCEPT ![p] = place]
    BY <1>6 DEF Look, Goto
  <2>4. place \in Places \ Recorded
    BY DEF Places, Recorded, Committing
  <2> QED
    BY <1>6, <1>0, <2>1, <2>2, <2>3, <2>4, Leaves DEF Look, disk, history
<1>7. CASE MakeFolder(p)
  <2>1. at[p] = "scan" /\ Goto(p, "manifest")
    BY <1>7, Zenon DEF MakeFolder, Loaded
  <2>2. /\ active' = active /\ versions' = versions /\ used' = used /\ candidates' = candidates
        /\ record' = record
    BY <1>7, Zenon DEF MakeFolder, history
  <2>3. PICK j : SetJob(p, j)
    BY <1>7, Zenon DEF MakeFolder
  <2>4. \A q \in Process \ {p} : job'[q] = job[q]
    BY <2>3 DEF SetJob, TypeOK
  <2>5. "manifest" \in Places \ Recorded /\ "scan" \notin Recorded
    BY DEF Places, Recorded, Committing
  <2> QED
    BY <1>0, <2>1, <2>2, <2>4, <2>5, Leaves DEF Goto
<1>8. CASE Update(p) \/ UpdateFromSource(p) \/ Rollback(p)
  <2>1. PICK kind, e, b : Change(p, kind, e, b)
    BY <1>8 DEF Update, UpdateFromSource, Rollback
  <2>2. at[p] \notin Recorded
    BY <2>1 DEF Change, Recorded, Committing
  <2>3. \A q \in Process \ {p} : job'[q] = job[q]
    BY <2>1 DEF Change, SetJob, TypeOK
  <2>4. "prepare" \in Places \ Recorded
    BY DEF Places, Recorded, Committing
  <2> QED
    BY <2>1, <1>0, <2>2, <2>3, <2>4, Leaves DEF Change, Goto, disk
<1>9. CASE Crash(p)
  <2>1. "off" \in Places \ Recorded
    BY DEF Places, Recorded, Committing
  <2>2. \A q \in Process \ {p} : job'[q] = job[q] /\ record'[q] = record[q]
    BY <1>9 DEF Crash, SetJob, TypeOK
  <2>3. ~Exists(record'[p])
    BY <1>9 DEF Crash, TypeOK, Exists, NoRecord
  <2> QED
    BY <1>9, <2>1, <2>2, <2>3, Leaves DEF Crash, Goto, disk, history
<1> QED
  BY <1>1, <1>2, <1>3, <1>4, <1>5, <1>6, <1>7, <1>8, <1>9 DEF Begin

\* Steps with a candidate, other than the one that moves the pointer.
LEMMA CandidateSteps ==
  ASSUME TypeOK, Rest, NEW p \in Process,
         \/ CheckUpdate(p) \/ RunChecks(p) \/ TakeLock(p) \/ LockBusy(p) \/ Compare(p)
         \/ SavePassed(p) \/ Rename(p) \/ Release(p) \/ ActivateFails(p) \/ Reject(p)
  PROVE  Rest'
<1> DEFINE v == record[p].version
<1>0. /\ ProcessOf(p) /\ record[p] \in Record
      /\ at[p] \in Recorded => v \in Revision /\ candidates[v] \in Record
  BY DEF Rest, Owned, TypeOK, Record, Exists
<1>1. CASE CheckUpdate(p) \/ TakeLock(p) \/ LockBusy(p) \/ Compare(p) \/ ActivateFails(p)
  <2>1. /\ at[p] \in Recorded /\ job' = job /\ record' = record /\ active' = active
        /\ used' = used /\ candidates' = candidates /\ versions' = versions
    BY <1>1 DEF CheckUpdate, TakeLock, LockBusy, Compare, ActivateFails, Refuse, disk, history,
                Recorded, Committing
  <2>2. PICK place \in {"run", "reject", "compare", "save"} :
          /\ at' = [at EXCEPT ![p] = place]
          /\ place = "run" => at[p] = "check"
          /\ place = "compare" => at[p] = "commit"
          /\ place = "save" =>
               at[p] = "compare" /\ SameParent(p) /\ SameFiles(p) /\ StillCompatible(p)
    BY <1>1 DEF CheckUpdate, TakeLock, LockBusy, Compare, ActivateFails, Refuse, Goto
  <2>3. place \in Recorded /\ at'[p] = place
    BY <2>2 DEF Recorded, Committing, TypeOK
  <2>4. PendingOf(p)'
    BY <1>0, <2>1, <2>2, <2>3 DEF ProcessOf, PendingOf, Exists
  <2>5. TestedOf(p)'
    <3>1. CASE place \in {"run", "reject"}
      BY <1>0, <2>1, <2>2, <2>3, <3>1 DEF ProcessOf, TestedOf, Committing
    <3>2. CASE place \in {"compare", "save"}
      BY <1>0, <2>1, <2>2, <2>3, <3>2 DEF ProcessOf, TestedOf, Committing
    <3> QED
      BY <3>1, <3>2
  <2>6. GrantedOf(p)'
    <3>1. /\ SameParent(p)' = SameParent(p) /\ SameFiles(p)' = SameFiles(p)
          /\ record'[p] = record[p]
      BY <2>1 DEF SameParent, SameFiles
    <3>2. StillCompatible(p) => record[p].files.valid
      BY DEF StillCompatible, Compatible, Registers
    <3> QED
      BY <2>2, <2>3, <3>1, <3>2 DEF GrantedOf
  <2> QED
    BY <2>1, <2>2, <2>3, <2>4, <2>5, <2>6, GoesOn DEF ProcessOf
<1>2. CASE RunChecks(p)
  <2>1. PICK b : candidates' = [candidates EXCEPT ![v].payload = b]
    BY <1>2 DEF RunChecks
  <2>2. /\ at[p] = "run" /\ job' = job /\ record' = record /\ active' = active
        /\ used' = used /\ versions' = versions
    BY <1>2, Zenon DEF RunChecks, history
  <2>3. PICK place \in {"commit", "reject"} : at' = [at EXCEPT ![p] = place]
    BY <1>2, Zenon DEF RunChecks, Goto
  <2>4. at[p] \in Recorded /\ place \in Recorded /\ at'[p] = place
    BY <2>2, <2>3 DEF Recorded, Committing, TypeOK
  <2>5. candidates'[v] = [candidates[v] EXCEPT !.payload = b]
    BY <1>0, <2>1, <2>4 DEF TypeOK
  <2>6. /\ candidates'[v].version = candidates[v].version
        /\ candidates'[v].extension = candidates[v].extension
        /\ candidates'[v].parent = candidates[v].parent
        /\ candidates'[v].files = candidates[v].files
    BY <1>0, <2>4, <2>5 DEF Record
  <2>7. PendingOf(p)'
    BY <1>0, <2>2, <2>3, <2>4, <2>6 DEF ProcessOf, PendingOf, Exists
  <2>8. TestedOf(p)'
    BY <1>0, <2>2, <2>3, <2>4 DEF ProcessOf, TestedOf, Committing
  <2>9. GrantedOf(p)'
    BY <2>3, <2>4 DEF GrantedOf
  <2>10. \A w \in Revision : w # v => candidates'[w] = candidates[w]
    BY <2>1 DEF TypeOK
  <2> QED
    BY <2>2, <2>3, <2>4, <2>7, <2>8, <2>9, <2>10, GoesOn DEF ProcessOf
<1>3. CASE SavePassed(p)
  <2>1. /\ at[p] = "save" /\ at' = [at EXCEPT ![p] = "rename"] /\ job' = job
        /\ active' = active /\ used' = used /\ versions' = versions
        /\ record' = [record EXCEPT ![p].status = Validated(p)]
        /\ candidates' = [candidates EXCEPT ![v].status = Validated(p)]
    BY <1>3 DEF SavePassed, Goto, history
  <2>2. at[p] \in Recorded /\ "rename" \in Recorded /\ at'[p] = "rename"
    BY <2>1 DEF Recorded, Committing, TypeOK
  <2>3. record'[p] = [record[p] EXCEPT !.status = Validated(p)]
    BY <2>1 DEF TypeOK
  <2>4. /\ record'[p].version = v /\ record'[p].extension = record[p].extension
        /\ record'[p].parent = record[p].parent /\ record'[p].files = record[p].files
    BY <1>0, <2>3 DEF Record
  <2>5. candidates'[v] = [candidates[v] EXCEPT !.status = Validated(p)]
    BY <1>0, <2>1, <2>2 DEF TypeOK
  <2>6. /\ candidates'[v].version = candidates[v].version
        /\ candidates'[v].extension = candidates[v].extension
        /\ candidates'[v].parent = candidates[v].parent
        /\ candidates'[v].files = candidates[v].files
        /\ candidates'[v].payload = candidates[v].payload
        /\ candidates'[v].status = Validated(p)
    BY <1>0, <2>2, <2>5 DEF Record
  <2>7. PendingOf(p)'
    BY <1>0, <2>1, <2>2, <2>4, <2>6 DEF ProcessOf, PendingOf, Exists
  <2>8. TestedOf(p)'
    BY <1>0, <2>1, <2>2, <2>4 DEF ProcessOf, TestedOf, Committing
  <2>9. GrantedOf(p)'
    <3>1. SameParent(p) /\ SameFiles(p) /\ record[p].files.valid
      BY <1>0, <2>1 DEF ProcessOf, GrantedOf
    <3>2. SameParent(p)' /\ SameFiles(p)' /\ record'[p].files.valid
      BY <2>1, <2>4, <2>6, <3>1 DEF SameParent, SameFiles
    <3>3. Validated(p)' = Validated(p)
      BY <2>1 DEF Validated
    <3> QED
      BY <2>2, <2>4, <2>6, <3>2, <3>3 DEF GrantedOf
  <2>10. /\ \A w \in Revision : w # v => candidates'[w] = candidates[w]
         /\ \A q \in Process \ {p} : record'[q] = record[q]
    BY <2>1 DEF TypeOK
  <2> QED
    BY <2>1, <2>2, <2>4, <2>7, <2>8, <2>9, <2>10, GoesOn DEF ProcessOf
<1>4. CASE Rename(p)
  <2>1. /\ at[p] = "rename" /\ at' = [at EXCEPT ![p] = "point"] /\ job' = job /\ record' = record
        /\ active' = active /\ used' = used
        /\ versions' = [versions EXCEPT ![v] = candidates[v]]
        /\ candidates' = [candidates EXCEPT ![v] = NoRecord]
    BY <1>4 DEF Rename, Goto, history
  <2>2. at[p] \in Recorded /\ "point" \in Recorded /\ at'[p] = "point"
    BY <2>1 DEF Recorded, Committing, TypeOK
  <2>3. versions'[v] = candidates[v] /\ ~Exists(versions[v])
    BY <1>0, <2>1, <2>2 DEF ProcessOf, PendingOf, TypeOK
  <2>4. PendingOf(p)' /\ TestedOf(p)'
    BY <1>0, <2>1, <2>2 DEF ProcessOf, PendingOf, TestedOf, Committing
  <2>5. GrantedOf(p)'
    <3>1. /\ SameParent(p) /\ SameFiles(p) /\ record[p].files.valid
          /\ candidates[v].status = Validated(p)
      BY <1>0, <2>1 DEF ProcessOf, GrantedOf
    <3>4. SameParent(p)' /\ record'[p].files.valid
      BY <2>1, <3>1 DEF SameParent
    <3>5. /\ Exists(versions'[v]) /\ versions'[v].extension = record[p].extension
          /\ versions'[v].parent = record[p].parent /\ versions'[v].files = record[p].files
          /\ versions'[v].payload = record[p].files /\ versions'[v].status = Validated(p)
      BY <1>0, <2>1, <2>3, <3>1 DEF ProcessOf, PendingOf, SameFiles
    <3>6. Validated(p)' = Validated(p)
      BY <2>1 DEF Validated
    <3> QED
      BY <2>1, <2>2, <3>4, <3>5, <3>6 DEF GrantedOf, Exists
  <2>6. \A w \in Revision : w # v => candidates'[w] = candidates[w] /\ versions'[w] = versions[w]
    BY <2>1 DEF TypeOK
  <2> QED
    BY <2>1, <2>2, <2>3, <2>4, <2>5, <2>6, GoesOn DEF ProcessOf
<1>5. CASE Reject(p)
  <2>1. \A w \in Revision : w # v => candidates'[w] = candidates[w]
    BY <1>5 DEF Reject, TypeOK
  <2> QED
    BY <1>5, <2>1, Endings DEF Reject
<1>6. CASE Release(p)
  <2>1. CASE job[p].kind # "import"
    BY <1>6, <2>1, Endings DEF Release, disk, history
  <2>2. CASE job[p].kind = "import"
    <3>1. \A q \in Process \ {p} : job'[q] = job[q] /\ record'[q] = record[q]
      BY <1>6, <2>2 DEF Release, SetJob, TypeOK
    <3>2. ~Exists(record'[p])
      BY <1>6, <2>2 DEF Release, TypeOK, Exists, NoRecord
    <3>3. "register" \in Places \ Recorded
      BY DEF Places, Recorded, Committing
    <3> QED
      BY <1>6, <2>2, <3>1, <3>2, <3>3, Leaves DEF Release, Goto, disk, history
  <2> QED
    BY <2>1, <2>2
<1> QED
  BY <1>1, <1>2, <1>3, <1>4, <1>5, <1>6

\* A new candidate is nobody else's.
LEMMA PrepareStep ==
  ASSUME TypeOK, Rest, NEW p \in Process, Prepare(p)
  PROVE  Rest'
<1> DEFINE w == used + 1
           b == Read(job[p])
           r == [version |-> w, extension |-> job[p].extension, parent |-> job[p].parent,
                 files |-> b, payload |-> b, status |-> "preparing"]
<1>1. /\ at[p] = "prepare" /\ used < MaxVersions /\ used' = w
      /\ record' = [record EXCEPT ![p] = r] /\ candidates' = [candidates EXCEPT ![w] = r]
      /\ active' = active /\ versions' = versions
  BY DEF Prepare
<1>2. w \in Revision /\ w > used /\ w # NoRevision
  BY <1>1, ExtensionsAssumption DEF TypeOK, Revision, NoRevision
<1>3. ~Exists(versions[w])
  BY <1>2 DEF Rest, Fresh
<1>4. PICK d : SetJob(p, [job[p] EXCEPT !.digest = d])
  BY DEF Prepare
<1>5. /\ \A q \in Process \ {p} : job'[q] = job[q] /\ record'[q] = record[q]
      /\ job'[p].kind = job[p].kind /\ job'[p].extension = job[p].extension
      /\ record'[p] = r /\ candidates'[w] = r
      /\ \A u \in Revision : u # w => candidates'[u] = candidates[u]
  BY <1>1, <1>2, <1>4 DEF SetJob, TypeOK, Job
<1>6. PICK place \in {"check", "commit", "reject"} :
        /\ at' = [at EXCEPT ![p] = place]
        /\ place = "check" => job[p].kind # "import"
        /\ place = "commit" => job[p].kind = "import" /\ MayImport(p, b)
  BY DEF Prepare, Goto
<1>7. /\ at'[p] = place /\ place \in Recorded /\ at[p] \notin Recorded
      /\ \A q \in Process \ {p} : at'[q] = at[q]
  BY <1>1, <1>6 DEF TypeOK, Recorded, Committing
<1>8. \A q \in Process : Exists(record[q]) => record[q].version <= used /\ record[q].version # w
  BY <1>2, ExtensionsAssumption DEF Rest, Owned, TypeOK, Record, Revision, NoRevision, Exists
<1>9. Owned'
  <2>1. \A q \in Process : at'[q] \in Recorded <=> Exists(record'[q])
    BY <1>2, <1>5, <1>7 DEF Rest, Owned, Exists
  <2>2. \A q \in Process : Exists(record'[q]) =>
          record'[q].version <= used' /\ record'[q].extension = job'[q].extension
    <3> SUFFICES ASSUME NEW q \in Process, Exists(record'[q])
                 PROVE  record'[q].version <= used' /\ record'[q].extension = job'[q].extension
      BY DEF Exists
    <3>1. CASE q = p
      BY <1>1, <1>2, <1>5, <3>1, ExtensionsAssumption DEF TypeOK
    <3>2. CASE q # p
      <4>1. /\ Exists(record[q]) /\ record[q].extension = job[q].extension
            /\ record[q].version <= used /\ record[q].version \in Revision
        BY <1>5, <3>2 DEF Rest, Owned, Exists, TypeOK, Record
      <4>2. record[q].version <= used'
        BY <1>1, <4>1, ExtensionsAssumption DEF TypeOK, Revision
      <4> QED
        BY <1>5, <3>2, <4>1, <4>2
    <3> QED
      BY <3>1, <3>2
  <2>3. \A q, u \in Process :
          q # u /\ Exists(record'[q]) => record'[q].version # record'[u].version
    <3> SUFFICES ASSUME NEW q \in Process, NEW u \in Process, q # u, Exists(record'[q])
                 PROVE  record'[q].version # record'[u].version
      BY DEF Exists
    <3>1. CASE q = p
      BY <1>2, <1>5, <1>8, <3>1 DEF Exists
    <3>2. CASE u = p
      BY <1>2, <1>5, <1>8, <3>2 DEF Exists
    <3>3. CASE q # p /\ u # p
      BY <1>5, <3>3 DEF Rest, Owned, Exists
    <3> QED
      BY <3>1, <3>2, <3>3
  <2> QED
    BY <2>1, <2>2, <2>3 DEF Owned, Exists
<1>10. Fresh'
  <2> SUFFICES ASSUME NEW u \in Revision, u > used'
               PROVE  ~Exists(candidates'[u]) /\ ~Exists(versions'[u])
    BY DEF Fresh, Exists
  <2>1. u > used /\ u # w
    BY <1>1, ExtensionsAssumption DEF TypeOK, Revision
  <2> QED
    BY <1>1, <1>5, <2>1 DEF Rest, Fresh, Exists
<1>11. ASSUME NEW q \in Process
       PROVE  ProcessOf(q)'
  <2>1. CASE q # p
    BY <1>1, <1>5, <1>7, <1>8, <2>1, Others
  <2>2. CASE q = p
    <3>1. PendingOf(p)'
      BY <1>1, <1>2, <1>3, <1>5 DEF PendingOf, Exists
    <3>2. TestedOf(p)'
      <4>1. place = "commit" => (b.checks => job[p].parent = NoRevision)
        BY <1>6 DEF MayImport
      <4> QED
        BY <1>5, <1>6, <1>7, <4>1 DEF TestedOf, Committing
    <3>3. GrantedOf(p)'
      BY <1>7 DEF GrantedOf
    <3> QED
      BY <2>2, <3>1, <3>2, <3>3 DEF ProcessOf
  <2> QED
    BY <2>1, <2>2
<1>12. ActiveOK'
  BY <1>1, ActiveKept DEF Rest
<1> QED
  BY <1>9, <1>10, <1>11, <1>12 DEF Rest

\* The pointer moves to a version that all the tests hold for, and no other
\* process has tests of its own to lose: it would need the lock.
LEMMA PointStep ==
  ASSUME TypeOK, Rest, NEW p \in Process, Point(p)
  PROVE  Rest' /\ versions[record[p].version].parent = active[job[p].extension].version
<1> DEFINE v == record[p].version
           e == job[p].extension
<1>1. /\ at[p] = "point" /\ at' = [at EXCEPT ![p] = "release"]
      /\ active' = [active EXCEPT ![e] = Pointer(v, job[p].digest)]
      /\ candidates' = candidates /\ versions' = versions /\ used' = used /\ job' = job
      /\ record' = record
  BY DEF Point, Goto
<1>2. /\ e \in Extension /\ v \in Revision /\ Exists(record[p])
      /\ at[p] \in Recorded /\ at[p] \in Committing /\ record[p].extension = e
  BY <1>1 DEF Rest, Owned, TypeOK, Record, Job, Exists, Recorded, Committing
<1>3. /\ TestedOf(p) /\ SameParent(p) /\ record[p].files.valid
      /\ Exists(versions[v]) /\ versions[v].extension = e
      /\ versions[v].parent = record[p].parent
      /\ versions[v].files = record[p].files /\ versions[v].payload = record[p].files
      /\ versions[v].status = Validated(p)
  BY <1>1, <1>2 DEF Rest, ProcessOf, GrantedOf
<1>4. /\ active'[e].version = v
      /\ \A f \in Extension \ {e} : active'[f] = active[f]
  BY <1>1, <1>2 DEF TypeOK, Pointer
<1>5. \A q \in Process : at'[q] = IF q = p THEN "release" ELSE at[q]
  BY <1>1 DEF TypeOK
<1>6. \A q \in Process \ {p} : at[q] \notin Committing
  BY <1>2 DEF TypeOK
<1>7. Owned' /\ Fresh'
  BY <1>1, <1>2, <1>5 DEF Rest, Owned, Fresh, Exists, Recorded, Committing
<1>8. ASSUME NEW q \in Process
      PROVE  ProcessOf(q)'
  <2>1. PendingOf(q)' /\ TestedOf(q)'
    BY <1>1, <1>3, <1>5 DEF Rest, ProcessOf, PendingOf, TestedOf, Committing, Exists
  <2>2. GrantedOf(q)'
    BY <1>5, <1>6 DEF GrantedOf, Committing
  <2> QED
    BY <2>1, <2>2 DEF ProcessOf
<1>9. ActiveSound'
  <2>2. Validated(p) \in {"imported", "passed"}
    BY DEF Validated
  <2> QED
    BY <1>1, <1>3, <1>4, <2>2 DEF Rest, ActiveOK, ActiveSound, Exists
<1>11. ChecksRan'
  <2>1. versions[v].files.checks /\ versions[v].parent # NoRevision => versions[v].status = "passed"
    BY <1>2, <1>3 DEF TestedOf, Validated
  <2> QED
    BY <1>1, <1>4, <2>1 DEF Rest, ActiveOK, ChecksRan
<1> QED
  BY <1>3, <1>7, <1>8, <1>9, <1>11 DEF Rest, ActiveOK, SameParent

\* Every step keeps the invariant.
LEMMA InvariantStep == IInv /\ [Next]_vars => IInv'
<1> SUFFICES ASSUME TypeOK, Rest, [Next]_vars
             PROVE  Rest'
  BY TypeStep DEF IInv
<1>1. CASE UNCHANGED vars \/ EditSource \/ RemoveSource
  <2>1. /\ active' = active /\ candidates' = candidates /\ versions' = versions /\ used' = used
        /\ at' = at /\ job' = job /\ record' = record
    BY <1>1 DEF EditSource, RemoveSource, vars, disk, history
  <2>2. Owned' /\ Fresh'
    BY <2>1 DEF Rest, Owned, Fresh, Exists
  <2>3. ASSUME NEW q \in Process
        PROVE  ProcessOf(q)'
    BY <2>1 DEF Rest, ProcessOf, PendingOf, TestedOf, GrantedOf, SameParent, SameFiles,
                Validated, Exists
  <2>4. ActiveOK'
    BY <2>1, ActiveKept DEF Rest
  <2> QED
    BY <2>2, <2>3, <2>4 DEF Rest
<1>2. ASSUME NEW p \in Process, Step(p) \/ Begin(p) \/ Crash(p)
      PROVE  Rest'
  BY <1>2, PlainSteps, CandidateSteps, PrepareStep, PointStep DEF Step
<1> QED
  BY <1>1, <1>2 DEF Next

\* Only Point writes a pointer.
LEMMA OnlyPoint ==
  ASSUME Next, active' # active
  PROVE  \E p \in Process : Point(p)
<1>1. ~EditSource /\ ~RemoveSource
  BY DEF EditSource, RemoveSource
<1>2. PICK p \in Process : Step(p) \/ Begin(p) \/ Crash(p)
  BY <1>1 DEF Next
<1>3. ~Begin(p) /\ ~Crash(p)
  BY Zenon DEF Begin, Start, Reload, Create, Update, UpdateFromSource, Rollback, Change, Crash, disk
<1>4. Point(p)
  BY <1>2, <1>3, Zenon
     DEF Step, Look, Register, Publish, RefuseCreate, MakeFolder, WriteManifest,
         ManifestFails, Prepare, PrepareFails, CheckUpdate, RunChecks, TakeLock, LockBusy,
         Compare, SavePassed, Rename, Release, ActivateFails, Refuse, Reject, disk
<1> QED
  BY <1>4

-----------------------------------------------------------------------------
(* Names.  As long as no extension is active without its source folder, a   *)
(* test under the lock sees all that is active.                             *)

\* While no extension was orphaned, all that is active has its folder and
\* its names to itself, and so would what is about to be.
ActiveNames ==
  ~orphaned =>
    /\ \A e \in Extension : active[e].version # NoRevision => e \in folders
    /\ Distinct(Current)
    /\ \A p \in Process : at[p] \in {"save", "rename", "point"} =>
         NamesFree(record[p].extension, record[p].files, Current)

\* These versions are retained, and no two of them register a name.
Kept(r) ==
  /\ \A e \in Extension : r[e] # NoRevision => r[e] \in Revision /\ Exists(versions[r[e]])
  /\ Distinct(r)

LoadedNames == \A p \in Process : Kept(building[p]) /\ Kept(registry[p])

\* A retained version is never replaced.
Retaining == \A v \in Revision : Exists(versions[v]) => versions'[v] = versions[v]

LEMMA VersionsRetained ==
  ASSUME TypeOK, Rest, [Next]_vars
  PROVE  Retaining
<1>1. CASE UNCHANGED vars \/ EditSource \/ RemoveSource
  BY <1>1 DEF EditSource, RemoveSource, vars, disk, Retaining
<1>2. ASSUME NEW p \in Process, Rename(p)
      PROVE  Retaining
  <2>1. ~Exists(versions[record[p].version])
    BY <1>2 DEF Rename, Rest, ProcessOf, PendingOf
  <2>2. versions' = [versions EXCEPT ![record[p].version] = candidates[record[p].version]]
    BY <1>2 DEF Rename
  <2> QED
    BY <2>1, <2>2 DEF Retaining, TypeOK
<1>3. ASSUME NEW p \in Process, Step(p) \/ Begin(p) \/ Crash(p), ~Rename(p)
      PROVE  versions' = versions
  <2>1. CASE Begin(p) \/ Crash(p)
    BY <2>1, Zenon DEF Begin, Start, Reload, Create, Update, UpdateFromSource, Rollback, Change,
                       Crash, disk
  <2>2. CASE Step(p)
    BY <1>3, <2>2, Zenon
       DEF Step, Look, Register, Publish, RefuseCreate, MakeFolder, WriteManifest,
           ManifestFails, Prepare, PrepareFails, CheckUpdate, RunChecks, TakeLock, LockBusy,
           Compare, SavePassed, Point, Release, ActivateFails, Refuse, Reject, disk
  <2> QED
    BY <1>3, <2>1, <2>2
<1>4. versions' = versions => Retaining
  BY DEF Retaining
<1> QED
  BY <1>1, <1>2, <1>3, <1>4 DEF Next

LEMMA KeptStays ==
  ASSUME NEW r, Kept(r), Retaining
  PROVE  Kept(r)'
BY DEF Kept, Distinct, Retaining, Files, Exists

\* Nothing is no conflict; a version that registers beside r joins it.
LEMMA KeptGrows ==
  ASSUME TypeOK, Rest, NEW r \in [Extension -> Version], Kept(r)
  PROVE  /\ Kept(Empty)
         /\ \A e \in Extension :
              active[e].version # NoRevision /\ Registers(e, Files(active[e].version), r) =>
                Kept([r EXCEPT ![e] = active[e].version])
<1>1. Kept(Empty)
  BY DEF Kept, Distinct, Empty
<1>2. ASSUME NEW e \in Extension, NEW v, v = active[e].version, v # NoRevision,
             Registers(e, Files(v), r), NEW s, s = [r EXCEPT ![e] = v]
      PROVE  Kept(s)
  <2>1. v \in Revision /\ Exists(versions[v])
    BY <1>2 DEF TypeOK, Rest, ActiveOK, ActiveSound
  <2>2. s[e] = v /\ \A f \in Extension \ {e} : s[f] = r[f]
    BY <1>2
  <2>3. \A f \in Extension \ {e} : r[f] # NoRevision => Files(r[f]).names \cap Files(v).names = {}
    BY <1>2 DEF Registers, NamesFree
  <2>4. Distinct(s)
    BY <2>2, <2>3 DEF Kept, Distinct
  <2> QED
    BY <2>1, <2>2, <2>4 DEF Kept
<1> QED
  BY <1>1, <1>2

\* How a step changes what a process loads and what it has published.
LEMMA Loading ==
  ASSUME TypeOK, [Next]_vars, NEW p \in Process
  PROVE  /\ \/ building'[p] \in {building[p], Empty}
            \/ \E e \in Extension :
                 /\ active[e].version # NoRevision
                 /\ Registers(e, Files(active[e].version), building[p])
                 /\ building'[p] = [building[p] EXCEPT ![e] = active[e].version]
         /\ registry'[p] \in {registry[p], building[p], Empty}
<1> DEFINE Same == building'[p] = building[p] /\ registry'[p] = registry[p]
<1>1. CASE UNCHANGED vars \/ EditSource \/ RemoveSource
  BY <1>1 DEF EditSource, RemoveSource, vars
<1>2. ASSUME NEW q \in Process, Step(q) \/ Begin(q) \/ Crash(q), q # p
      PROVE  Same
  <2>1. building' = building \/ \E b : building' = [building EXCEPT ![q] = b]
    <3>1. CASE Register(q)
      <4>1. \A e, v : [building EXCEPT ![q][e] = v] = [building EXCEPT ![q] = [@ EXCEPT ![e] = v]]
        OBVIOUS
      <4> QED
        BY <3>1, <4>1 DEF Register
    <3>2. CASE Begin(q) \/ Crash(q)
      BY <3>2 DEF Begin, Start, Reload, Create, StartLoad, Update, UpdateFromSource,
                         Rollback, Change, Crash
    <3>3. CASE Step(q) /\ ~Register(q)
      BY <3>3
         DEF Step, Look, Publish, RefuseCreate, MakeFolder, WriteManifest, StartLoad,
             ManifestFails, Idle, GiveUp, SkipExtension, Prepare, PrepareFails, CheckUpdate,
             RunChecks, TakeLock, LockBusy, Compare, SavePassed, Rename, Point, Release,
             ActivateFails, Refuse, Reject
    <3> QED
      BY <1>2, <3>1, <3>2, <3>3
  <2>2. registry' = registry \/ \E r : registry' = [registry EXCEPT ![q] = r]
    <3>2. CASE Begin(q) \/ Crash(q)
      BY <3>2 DEF Begin, Start, Reload, Create, Update, UpdateFromSource, Rollback, Change, Crash
    <3>3. CASE Step(q)
      BY <3>3
         DEF Step, Look, Register, Publish, RefuseCreate, MakeFolder, WriteManifest,
             ManifestFails, Prepare, PrepareFails, CheckUpdate, RunChecks, TakeLock, LockBusy,
             Compare, SavePassed, Rename, Point, Release, ActivateFails, Refuse, Reject
    <3> QED
      BY <1>2, <3>2, <3>3
  <2> QED
    BY <1>2, <2>1, <2>2 DEF TypeOK
<1>3. CASE Register(p)
  <2> DEFINE e == job[p].extension
             v == active[e].version
  <2>1. registry' = registry
    BY <1>3 DEF Register
  <2>2. e \in Extension
    BY DEF TypeOK, Job
  <2>3. CASE v # NoRevision /\ Registers(e, Files(v), building[p])
    <3>1. building'[p] = [building[p] EXCEPT ![e] = v]
      BY <1>3, <2>3 DEF Register, TypeOK
    <3> QED
      BY <2>1, <2>2, <2>3, <3>1
  <2>4. CASE ~(v # NoRevision /\ Registers(e, Files(v), building[p]))
    <3>1. building'[p] = building[p]
      BY <1>3, <2>4 DEF Register, TypeOK
    <3> QED
      BY <2>1, <3>1
  <2> QED
    BY <2>3, <2>4
<1>4. CASE Publish(p) \/ Crash(p)
  BY <1>4 DEF Publish, Idle, Crash, TypeOK
<1>5. CASE Begin(p)
  BY <1>5 DEF Begin, Start, Reload, Create, StartLoad, Update, UpdateFromSource, Rollback, Change,
              TypeOK
<1>6. CASE Step(p) /\ ~Register(p) /\ ~Publish(p)
  <2>1. building' = building \/ building' = [building EXCEPT ![p] = Empty]
    BY <1>6
       DEF Step, Look, RefuseCreate, MakeFolder, WriteManifest, StartLoad,
           ManifestFails, Idle, GiveUp, SkipExtension, Prepare, PrepareFails, CheckUpdate,
           RunChecks, TakeLock, LockBusy, Compare, SavePassed, Rename, Point, Release,
           ActivateFails, Refuse, Reject
  <2>2. registry' = registry
    BY <1>6, Zenon
       DEF Step, Look, RefuseCreate, MakeFolder, WriteManifest,
           ManifestFails, Prepare, PrepareFails, CheckUpdate, RunChecks, TakeLock, LockBusy,
           Compare, SavePassed, Rename, Point, Release, ActivateFails, Refuse, Reject
  <2> QED
    BY <2>1, <2>2 DEF TypeOK
<1> QED
  BY <1>1, <1>2, <1>3, <1>4, <1>5, <1>6 DEF Next

LEMMA LoadedStep ==
  ASSUME TypeOK, Rest, LoadedNames, [Next]_vars
  PROVE  LoadedNames'
<1> SUFFICES ASSUME NEW p \in Process
             PROVE  Kept(building[p])' /\ Kept(registry[p])'
  BY DEF LoadedNames
<1>0. Retaining
  BY VersionsRetained
<1>1. building[p] \in [Extension -> Version] /\ Kept(building[p]) /\ Kept(registry[p])
  BY DEF LoadedNames, TypeOK, Version
<1>2. PICK b : b = building'[p]
  OBVIOUS
<1>3. PICK r : r = registry'[p]
  OBVIOUS
<1>4. Kept(b)
  <2>1. CASE b = building[p]
    BY <1>1, <2>1
  <2>2. CASE b = Empty
    BY <1>1, <2>2, KeptGrows
  <2>3. ASSUME NEW e \in Extension, active[e].version # NoRevision,
               Registers(e, Files(active[e].version), building[p]),
               b = [building[p] EXCEPT ![e] = active[e].version]
        PROVE  Kept(b)
    <3>1. Kept([building[p] EXCEPT ![e] = active[e].version])
      BY <1>1, <2>3, KeptGrows
    <3> QED
      BY <2>3, <3>1
  <2> QED
    BY <1>2, <2>1, <2>2, <2>3, Loading
<1>5. Kept(r)
  BY <1>1, <1>3, Loading, KeptGrows
<1>6. Kept(b)' /\ Kept(r)'
  BY <1>0, <1>4, <1>5, KeptStays
<1> QED
  BY <1>2, <1>3, <1>6 DEF Kept, Distinct

\* What passes the test under the lock has its names to itself.
LEMMA CompatibleFits ==
  ASSUME TypeOK, Rest, ActiveNames, ~orphaned, NEW e \in Extension, NEW b, Compatible(e, b)
  PROVE  NamesFree(e, b, Current)
<1>1. PICK r \in [Extension -> Version] : Holds(r, folders \ {e}) /\ Registers(e, b, r)
  BY DEF Compatible, Version
<1>2. ASSUME NEW f \in Extension \ {e}, active[f].version # NoRevision
      PROVE  r[f] = active[f].version
  <2> DEFINE v == active[f].version
  <2>1. PICK before : before = [g \in Extension |-> IF g < f THEN r[g] ELSE NoRevision]
    OBVIOUS
  <2>2. \A g \in Extension : before[g] # NoRevision => before[g] = Current[g]
    BY <1>1, <2>1 DEF Holds, Current
  <2>3. Files(v).valid
    BY <1>2 DEF Rest, ActiveOK, ActiveSound, Files
  <2>4. NamesFree(f, Files(v), before)
    <3>1. Distinct(Current) /\ Current[f] = v
      BY DEF ActiveNames, Current
    <3>2. ASSUME NEW g \in Extension \ {f}, before[g] # NoRevision
          PROVE  Files(before[g]).names \cap Files(v).names = {}
      BY <1>2, <2>2, <3>1, <3>2 DEF Distinct
    <3> QED
      BY <3>2 DEF NamesFree
  <2>5. f \in folders \ {e}
    BY <1>2 DEF ActiveNames
  <2>6. r[f] = IF f \in folders \ {e} /\ v # NoRevision /\ Registers(f, Files(v), before)
               THEN v ELSE NoRevision
    BY <1>1, <2>1 DEF Holds
  <2> QED
    BY <1>2, <2>3, <2>4, <2>5, <2>6 DEF Registers
<1> QED
  BY <1>1, <1>2 DEF Registers, NamesFree, Current

\* Where a process may be while it holds the lock after its tests.
Tested == {"save", "rename", "point"}

\* Folders of what is active disappear only as an orphan is counted, and the
\* tests are entered only by way of Compare.
LEMMA Watching ==
  ASSUME TypeOK, Rest, [Next]_vars, ~orphaned'
  PROVE  /\ ~orphaned
         /\ \A e \in folders : active[e].version # NoRevision => e \in folders'
         /\ \A p \in Process : Point(p) => job[p].extension \in folders'
         /\ \A p \in Process : at'[p] \in Tested =>
              /\ record'[p].files = record[p].files /\ record'[p].extension = record[p].extension
              /\ at[p] \in Tested \/ (Compare(p) /\ StillCompatible(p))
<1>1. ~orphaned /\ \A e \in folders : active[e].version # NoRevision => e \in folders'
  <2>1. CASE UNCHANGED vars \/ EditSource
    <3>1. orphaned' = orphaned
      BY <2>1 DEF EditSource, vars, history
    <3>2. folders \subseteq folders'
      BY <2>1 DEF EditSource, vars, disk
    <3> QED
      BY <3>1, <3>2, Zenon
  <2>2. CASE RemoveSource
    BY <2>2 DEF RemoveSource
  <2>3. ASSUME NEW p \in Process, Begin(p) \/ Crash(p)
        PROVE  folders' = folders /\ orphaned' = orphaned
    BY <2>3, Zenon DEF Begin, Start, Reload, Create, Update, UpdateFromSource, Rollback, Change,
                       Crash, disk, history
  <2>4. ASSUME NEW p \in Process, Step(p), ~Point(p)
        PROVE  folders \subseteq folders' /\ orphaned' = orphaned
    <3>1. CASE MakeFolder(p)
      BY <3>1 DEF MakeFolder, history
    <3>2. CASE ~MakeFolder(p)
      BY <2>4, <3>2, Zenon
         DEF Step, Look, Register, Publish, RefuseCreate, WriteManifest,
             ManifestFails, Prepare, PrepareFails, CheckUpdate, RunChecks, TakeLock, LockBusy,
             Compare, SavePassed, Rename, Release, ActivateFails, Refuse, Reject, disk, history
    <3> QED
      BY <3>1, <3>2
  <2>5. ASSUME NEW p \in Process, Point(p)
        PROVE  folders' = folders /\ ~orphaned
    BY <2>5, Zenon DEF Point
  <2> QED
    BY <2>1, <2>2, <2>3, <2>4, <2>5 DEF Next
<1>2. ASSUME NEW p \in Process, Point(p)
      PROVE  job[p].extension \in folders'
  BY <1>2 DEF Point
<1>3. ASSUME NEW p \in Process, at'[p] \in Tested
      PROVE  /\ record'[p].files = record[p].files /\ record'[p].extension = record[p].extension
             /\ at[p] \in Tested \/ (Compare(p) /\ StillCompatible(p))
  <2>1. CASE UNCHANGED vars \/ EditSource \/ RemoveSource
    BY <1>3, <2>1 DEF EditSource, RemoveSource, vars
  <2>2. ASSUME NEW q \in Process, Step(q) \/ Begin(q) \/ Crash(q), q # p
        PROVE  at'[p] = at[p] /\ record'[p] = record[p]
    <3>1. PICK place : at' = [at EXCEPT ![q] = place]
      BY <2>2
         DEF Step, Begin, Start, Reload, Create, Update, UpdateFromSource, Rollback, Change, Crash,
             Look, Register, Publish, RefuseCreate, MakeFolder, WriteManifest, StartLoad,
             ManifestFails, Idle, GiveUp, SkipExtension, Prepare, PrepareFails, CheckUpdate,
             RunChecks, TakeLock, LockBusy, Compare, SavePassed, Rename, Point, Release,
             ActivateFails, Refuse, Reject, Goto
    <3>2. record' = record \/ \E r : record' = [record EXCEPT ![q] = r]
      <4>1. CASE Begin(q) \/ Crash(q)
        BY <4>1 DEF Begin, Start, Reload, Create, StartLoad, Update, UpdateFromSource, Rollback,
                    Change, Crash
      <4>2. CASE SavePassed(q)
        <5>1. \A s : [record EXCEPT ![q].status = s]
                       = [record EXCEPT ![q] = [@ EXCEPT !.status = s]]
          OBVIOUS
        <5> QED
          BY <4>2, <5>1 DEF SavePassed
      <4>3. CASE Step(q) /\ ~SavePassed(q)
        BY <4>3
           DEF Step, Look, Register, Publish, RefuseCreate, MakeFolder, WriteManifest,
               StartLoad, ManifestFails, Idle, GiveUp, SkipExtension, Prepare, PrepareFails,
               CheckUpdate, RunChecks, TakeLock, LockBusy, Compare, Rename, Point, Release,
               ActivateFails, Refuse, Reject
      <4> QED
        BY <2>2, <4>1, <4>2, <4>3
    <3> QED
      BY <2>2, <3>1, <3>2 DEF TypeOK
  <2>3. CASE Compare(p)
    BY <1>3, <2>3 DEF Compare, Refuse, Goto, TypeOK, Tested
  <2>4. CASE SavePassed(p)
    <3>1. at[p] \in Tested
      BY <2>4 DEF SavePassed, Tested
    <3>2. record'[p] = [record[p] EXCEPT !.status = Validated(p)] /\ record[p] \in Record
      BY <2>4 DEF SavePassed, TypeOK
    <3> QED
      BY <3>1, <3>2 DEF Record
  <2>5. CASE Rename(p)
    BY <2>5 DEF Rename, Tested
  <2>6. CASE (Step(p) \/ Begin(p) \/ Crash(p)) /\ ~Compare(p) /\ ~SavePassed(p) /\ ~Rename(p)
    <3>1. \E place \in Places \ Tested : at' = [at EXCEPT ![p] = place]
      <4>1. CASE Begin(p) \/ Crash(p)
        BY <4>1 DEF Begin, Start, Reload, Create, StartLoad, Update, UpdateFromSource, Rollback,
                    Change, Crash, Goto, Places, Tested
      <4>2. CASE Step(p)
        BY <2>6, <4>2
           DEF Step, Look, Register, Publish, RefuseCreate, MakeFolder, WriteManifest,
               StartLoad, ManifestFails, Idle, GiveUp, SkipExtension, Prepare, PrepareFails,
               CheckUpdate, RunChecks, TakeLock, LockBusy, Point, Release, ActivateFails, Refuse,
               Reject, Goto, Places, Committing, Tested
      <4> QED
        BY <2>6, <4>1, <4>2
    <3>2. at'[p] \notin Tested
      BY <3>1 DEF TypeOK
    <3> QED
      BY <1>3, <3>2
  <2> QED
    BY <1>3, <2>1, <2>2, <2>3, <2>4, <2>5, <2>6 DEF Next
<1> QED
  BY <1>1, <1>2, <1>3

LEMMA ActiveNamesStep ==
  ASSUME TypeOK, Rest, ActiveNames, [Next]_vars
  PROVE  ActiveNames'
<1> SUFFICES ASSUME ~orphaned'
             PROVE  /\ \A e \in Extension : active'[e].version # NoRevision => e \in folders'
                    /\ Distinct(Current)'
                    /\ \A p \in Process : at'[p] \in Tested =>
                         NamesFree(record[p].extension, record[p].files, Current)'
  BY DEF ActiveNames, Tested
<1>1. /\ ~orphaned /\ Retaining
      /\ \A e \in folders : active[e].version # NoRevision => e \in folders'
      /\ \A p \in Process : Point(p) => job[p].extension \in folders'
      /\ \A p \in Process : at'[p] \in Tested =>
           /\ record'[p].files = record[p].files /\ record'[p].extension = record[p].extension
           /\ at[p] \in Tested \/ (Compare(p) /\ StillCompatible(p))
  BY Watching, VersionsRetained
<1>2. /\ \A e \in Extension : active[e].version # NoRevision => e \in folders
      /\ Distinct(Current)
      /\ \A p \in Process : at[p] \in Tested =>
           NamesFree(record[p].extension, record[p].files, Current)
  BY <1>1 DEF ActiveNames, Tested
<1>3. CASE active' = active
  <2>1. Current' = Current
    BY <1>3 DEF Current
  <2>2. \A e \in Extension : Current[e] # NoRevision =>
          versions'[Current[e]] = versions[Current[e]]
    BY <1>1 DEF TypeOK, Rest, ActiveOK, ActiveSound, Current, Retaining
  <2>3. Distinct(Current)'
    BY <1>2, <2>1, <2>2 DEF Distinct, Files
  <2>4. ASSUME NEW p \in Process, at'[p] \in Tested
        PROVE  NamesFree(record[p].extension, record[p].files, Current)'
    <3>1. NamesFree(record[p].extension, record[p].files, Current)
      <4>1. CASE at[p] \in Tested
        BY <1>2, <4>1
      <4>2. CASE Compare(p) /\ StillCompatible(p)
        <5>1. record[p].extension = job[p].extension /\ job[p].extension \in Extension
          BY <4>2 DEF Compare, Rest, Owned, Recorded, Committing, TypeOK, Job
        <5> QED
          BY <1>1, <4>2, <5>1, CompatibleFits DEF StillCompatible
      <4> QED
        BY <1>1, <2>4, <4>1, <4>2
    <3> QED
      BY <1>1, <2>1, <2>2, <2>4, <3>1 DEF NamesFree, Files
  <2> QED
    BY <1>1, <1>2, <1>3, <2>3, <2>4
<1>4. CASE active' # active
  <2>1. PICK p \in Process : Point(p)
    BY <1>4, OnlyPoint DEF vars, disk
  <2> DEFINE v == record[p].version
             e == job[p].extension
  <2>2. /\ at[p] = "point" /\ at' = [at EXCEPT ![p] = "release"]
        /\ active' = [active EXCEPT ![e] = Pointer(v, job[p].digest)]
        /\ versions' = versions
    BY <2>1 DEF Point, Goto
  <2>3. e \in Extension /\ record[p].extension = e /\ e \in folders'
    BY <1>1, <2>1, <2>2 DEF Rest, Owned, Recorded, Committing, TypeOK, Job
  <2>4. versions[v].files = record[p].files
    BY <2>2 DEF Rest, ProcessOf, GrantedOf
  <2>5. /\ Current'[e] = v
        /\ \A f \in Extension \ {e} : active'[f] = active[f] /\ Current'[f] = Current[f]
    BY <2>2, <2>3 DEF Current, Pointer, TypeOK
  <2>6. \A f \in Extension \ {e} : Current[f] # NoRevision =>
          Files(Current[f]).names \cap Files(v).names = {}
    BY <1>2, <2>2, <2>3, <2>4 DEF NamesFree, Tested, Files
  <2>7. Distinct(Current)'
    BY <1>2, <2>2, <2>5, <2>6 DEF Distinct, Files
  <2>8. \A q \in Process : at'[q] \notin Tested
    <3>1. \A q \in Process \ {p} : at[q] \notin Committing
      BY <2>2 DEF TypeOK, Committing
    <3> QED
      BY <2>2, <3>1 DEF TypeOK, Tested, Committing
  <2> QED
    BY <1>1, <1>2, <2>3, <2>5, <2>7, <2>8
<1> QED
  BY <1>3, <1>4

-----------------------------------------------------------------------------
(* What the invariant gives.                                               *)

LEMMA Begins == Init => IInv
<1> SUFFICES ASSUME Init
             PROVE  TypeOK /\ Rest
  BY DEF IInv
<1>1. TypeOK
  <2>1. source \in [Extension -> Bundle]
    BY Initials, ExtensionsAssumption DEF Init
  <2>2. NoPointer \in [version : Version, digest : Bundle]
    BY Initials DEF NoPointer, Pointer, Version
  <2>3. ASSUME NEW p \in Process
        PROVE  lock = p <=> at[p] \in Committing
    <3>1. lock = NoProcess /\ at[p] = "off"
      BY DEF Init
    <3> QED
      BY <3>1, ExtensionsAssumption DEF Committing
  <2>4. used \in 0 .. MaxVersions /\ events \in 0 .. MaxEvents
    BY ExtensionsAssumption DEF Init
  <2> QED
    BY <2>1, <2>2, <2>3, <2>4, Initials DEF Init, TypeOK, Version, Places
<1>2. \A e \in Extension : active[e].version = NoRevision
  BY DEF Init, NoPointer, Pointer
<1>3. ASSUME NEW p \in Process
      PROVE  at[p] = "off" /\ ~Exists(record[p])
  <2>1. at[p] = "off" /\ record[p] = NoRecord
    BY DEF Init
  <2> QED
    BY <2>1 DEF Exists, NoRecord
<1>4. \A v \in Revision : ~Exists(candidates[v]) /\ ~Exists(versions[v])
  BY DEF Init, Exists, NoRecord
<1>5. Owned /\ Fresh
  BY <1>3, <1>4 DEF Owned, Fresh, Recorded, Committing
<1>6. ASSUME NEW p \in Process
      PROVE  ProcessOf(p)
  <2>1. at[p] = "off"
    BY <1>3
  <2> QED
    BY <2>1 DEF ProcessOf, PendingOf, TestedOf, GrantedOf, Committing
<1>7. ActiveOK
  BY <1>2 DEF ActiveOK, ActiveSound, ChecksRan
<1> QED
  BY <1>1, <1>5, <1>6, <1>7 DEF Rest

\* The invariant holds in every reachable state, for any processes and bounds.
THEOREM Invariance == Spec => []IInv
  BY Begins, InvariantStep, PTL DEF Spec

\* Every variable has its type, and exactly the process in the middle of an
\* activation holds the lock: every way out of activate drops it.
THEOREM TypeCorrect == Spec => []TypeOK
<1>1. IInv => TypeOK
  BY DEF IInv
<1> QED
  BY <1>1, Invariance, PTL

\* At every crash point the pointer of an extension names a retained version
\* of it that is complete and was accepted with the files it still has.
THEOREM ActiveAlwaysSound == Spec => []ActiveSound
<1>1. IInv => ActiveSound
  BY DEF IInv, Rest, ActiveOK
<1> QED
  BY <1>1, Invariance, PTL

\* No two active extensions register a name, whatever processes activate at
\* once, as long as none was active without its source folder: the test under
\* the lock sees all of them and holds until the pointer is written.  And no
\* process ever publishes, or loads, two extensions that share a name.
THEOREM NamesAlwaysDisjoint == Spec => []NamesDisjoint
<1> DEFINE Names == IInv /\ ActiveNames /\ LoadedNames
<1>1. Init => Names
  <2>1. Init => ActiveNames
    BY DEF Init, ActiveNames, Distinct, Current, NoPointer, Pointer
  <2>2. Init => LoadedNames
    <3>1. \A e \in Extension : Empty[e] = NoRevision
      BY DEF Empty
    <3>2. Kept(Empty)
      BY <3>1 DEF Kept, Distinct
    <3>3. Init => \A p \in Process : building[p] = Empty /\ registry[p] = Empty
      BY DEF Init
    <3> QED
      BY <3>2, <3>3 DEF LoadedNames
  <2> QED
    BY <2>1, <2>2, Begins
<1>2. Names /\ [Next]_vars => Names'
  BY InvariantStep, ActiveNamesStep, LoadedStep DEF IInv
<1>3. Names => NamesDisjoint
  BY DEF ActiveNames, LoadedNames, Kept, NamesDisjoint
<1> QED
  BY <1>1, <1>2, <1>3, PTL DEF Spec

\* An active version with regression checks has passed them, unless it is the
\* first import of its extension.
THEOREM ChecksAlwaysRan == Spec => []ChecksRan
<1>1. IInv => ChecksRan
  BY DEF IInv, Rest, ActiveOK
<1> QED
  BY <1>1, Invariance, PTL

\* A version becomes active only in place of the one it was made from: two
\* updates of the same version cannot both be activated.
THEOREM NothingIsOverwritten == Spec => NothingOverwritten
<1> DEFINE Replaces ==
      \A e \in Extension :
        active'[e] # active[e] => versions[active'[e].version].parent = active[e].version
<1>1. IInv /\ [Next]_vars => [Replaces]_vars
  <2> SUFFICES ASSUME TypeOK, Rest, Next
               PROVE  Replaces \/ UNCHANGED vars
    BY DEF IInv
  <2>1. CASE active' = active
    BY <2>1
  <2>2. CASE active' # active
    <3>1. PICK p \in Process : Point(p)
      BY <2>2, OnlyPoint
    <3>2. versions[record[p].version].parent = active[job[p].extension].version
      BY <3>1, PointStep
    <3>3. active' = [active EXCEPT ![job[p].extension] = Pointer(record[p].version, job[p].digest)]
      BY <3>1 DEF Point
    <3>4. \A e \in Extension : active'[e] # active[e] =>
            e = job[p].extension /\ active'[e].version = record[p].version
      BY <3>3 DEF TypeOK, Pointer
    <3> QED
      BY <3>2, <3>4
  <2> QED
    BY <2>1, <2>2
<1> QED
  BY <1>1, Invariance, PTL DEF Spec, NothingOverwritten
=============================================================================
