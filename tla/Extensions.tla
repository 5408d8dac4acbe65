----------------------------- MODULE Extensions -----------------------------
(***************************************************************************)
(* The versions of user extensions: src/extensions/versions.rs, and the    *)
(* discovery (mod.rs) and agent tools (agent.rs) that make and activate    *)
(* them.  Several Hibiscus processes share one extensions directory; each  *)
(* does one operation at a time.  A version is prepared and checked as a   *)
(* candidate outside the lock and activated under it.                      *)
(***************************************************************************)
EXTENDS Integers

CONSTANTS
  Process,
  MaxExtension, \* identifiers are numbered in the order of the sorted scan
  Name,         \* names of tools and slash commands
  Bundles,      \* contents of an extension: manifest and files together
  MaxVersions,  \* bound: versions ever prepared
  MaxEvents     \* bound: operations begun, edits and removals of folders, failed writes

\* names is what the manifest registers, checks whether it has regression
\* checks; valid is FALSE for a manifest or program that discovery rejects.
Bundle == [valid : BOOLEAN, names : SUBSET Name, checks : BOOLEAN]

\* A folder without a manifest, as create_at leaves it until its last write.
Unfinished == [valid |-> FALSE, names |-> {}, checks |-> FALSE]

NoProcess == "none"

ASSUME ExtensionsAssumption ==
  /\ MaxExtension \in Nat \ {0} /\ Bundles \subseteq Bundle
  /\ MaxVersions \in Nat /\ MaxEvents \in Nat
  /\ NoProcess \notin Process

VARIABLES
  folders,     \* the extensions that have a source folder
  source,      \* the contents of those, which their author edits
  active,      \* active.json of each extension: a version and a source digest
  candidates,  \* candidates/<version>: record and files
  versions,    \* versions/<version>
  lock,        \* the holder of .versions/lock
  used,        \* identifiers are fresh; bounded by MaxVersions
  events,      \* operations, edits, removals and failed writes so far
  orphaned,    \* an extension has been active without its source folder
  at,          \* per process: where its operation is; "idle": between two
  job,         \* per process: what it is doing, see Job
  record,      \* per process: Candidate.record
  building,    \* per process: the registry being loaded, versions by extension
  registry     \* per process: Catalog.current

disk    == <<folders, source, active, candidates, versions>>
history == <<used, events, orphaned>>
vars    == <<disk, lock, history, at, job, record, building, registry>>

Extension == 1 .. MaxExtension
Revision == 1 .. MaxVersions
NoRevision == 0
Statuses == {"preparing", "imported", "passed", "failed"}

\* files is what Record.files says; payload is what the directory holds.
Record == [version : Revision \cup {NoRevision}, extension : Extension,
           parent : Revision \cup {NoRevision}, files : Bundle, payload : Bundle,
           status : Statuses]
NoRecord == [version |-> NoRevision, extension |-> 1, parent |-> NoRevision,
             files |-> Unfinished, payload |-> Unfinished, status |-> "preparing"]
Exists(r) == r.version # NoRevision

\* kind: the operation that prepares the candidate, or "load".  then: what a
\* load is for.  imports: its import_edits.  left: the directories it listed
\* and has not gone through.
Job == [kind : {"load", "import", "patch", "source", "rollback"},
        then : {"publish", "create"}, imports : BOOLEAN, left : SUBSET Extension,
        extension : Extension, parent : Revision \cup {NoRevision}, digest : Bundle,
        bundle : Bundle]

Empty == [e \in Extension |-> NoRevision]
Pointer(v, d) == [version |-> v, digest |-> d]
NoPointer == Pointer(NoRevision, Unfinished)

Load(then, imports, left) ==
  [kind |-> "load", then |-> then, imports |-> imports, left |-> left, extension |-> 1,
   parent |-> NoRevision, digest |-> Unfinished, bundle |-> Unfinished]

NoJob == Load("publish", FALSE, {})

Init ==
  /\ folders \in SUBSET Extension
  /\ source \in {s \in [Extension -> Bundles \cup {Unfinished}] :
                   \A e \in Extension : e \in folders <=> s[e] \in Bundles}
  /\ active = [e \in Extension |-> NoPointer]
  /\ candidates = [v \in Revision |-> NoRecord] /\ versions = [v \in Revision |-> NoRecord]
  /\ lock = NoProcess
  /\ used = 0 /\ events = 0 /\ orphaned = FALSE
  /\ at = [p \in Process |-> "off"]
  /\ job = [p \in Process |-> NoJob]
  /\ record = [p \in Process |-> NoRecord]
  /\ building = [p \in Process |-> Empty] /\ registry = [p \in Process |-> Empty]

-----------------------------------------------------------------------------
(* Small steps of an operation.                                            *)

Event == events < MaxEvents /\ events' = events + 1

Goto(p, place) == at' = [at EXCEPT ![p] = place]
SetJob(p, j) == job' = [job EXCEPT ![p] = j]

\* The retained files of a version that is or was active.
Files(v) == versions[v].files

\* check_registration: e with content b beside the extensions of r, which
\* maps them to versions.
NamesFree(e, b, r) ==
  \A f \in Extension \ {e} : r[f] # NoRevision => Files(r[f]).names \cap b.names = {}

\* With a manifest that parses and a program that is there.
Registers(e, b, r) == b.valid /\ NamesFree(e, b, r)

\* r holds what a scan of these folders registers of what is active now: an
\* extension that collides with one before it is passed over.
Holds(r, among) ==
  \A f \in Extension :
    LET v == active[f].version
        before == [g \in Extension |-> IF g < f THEN r[g] ELSE NoRevision]
    IN  r[f] = IF f \in among /\ v # NoRevision /\ Registers(f, Files(v), before)
               THEN v ELSE NoRevision

\* Registry::check_candidate: beside what is active of the extensions that
\* have a source folder.
Compatible(e, b) ==
  \E r \in [Extension -> Revision \cup {NoRevision}] :
    Holds(r, folders \ {e}) /\ Registers(e, b, r)

StartLoad(p, then, imports) ==
  /\ Goto(p, "scan")
  /\ SetJob(p, Load(then, imports, folders))
  /\ building' = [building EXCEPT ![p] = Empty]
  /\ record' = [record EXCEPT ![p] = NoRecord]

Idle(p) ==
  /\ Goto(p, "idle")
  /\ SetJob(p, NoJob)
  /\ building' = [building EXCEPT ![p] = Empty]
  /\ record' = [record EXCEPT ![p] = NoRecord]

-----------------------------------------------------------------------------
(* Loading a registry: Registry::load_mode and add.                        *)

\* A process begins with Registry::discover.
Start(p) ==
  /\ at[p] = "off" /\ Event
  /\ StartLoad(p, "publish", FALSE)
  /\ UNCHANGED <<disk, lock, used, orphaned, registry>>

Reload(p) ==
  /\ at[p] = "idle" /\ Event
  /\ StartLoad(p, "publish", TRUE)
  /\ UNCHANGED <<disk, lock, used, orphaned, registry>>

\* The extensions are taken in order.
Scanning(p, e) ==
  at[p] = "scan" /\ e \in job[p].left /\ \A f \in job[p].left : e <= f

\* add() is over for this extension, or has an active version to register.
NextExtension(j) == Load(j.then, j.imports, j.left \ {j.extension})
SameExtension(j) == [Load(j.then, j.imports, j.left) EXCEPT !.extension = j.extension]

SkipExtension(p) ==
  /\ Goto(p, "scan")
  /\ SetJob(p, NextExtension(job[p]))
  /\ record' = [record EXCEPT ![p] = NoRecord]

\* An extension is imported when it has no active version, and on a reload
\* when its source can be read and is not the one it was last imported from.
ToImport(p, e) ==
  \/ active[e].version = NoRevision
  \/ job[p].imports /\ e \in folders /\ source[e] # active[e].digest

Look(p) ==
  \E e \in Extension :
    /\ Scanning(p, e)
    /\ IF ToImport(p, e)
       THEN /\ Goto(p, "prepare")
            /\ SetJob(p, [job[p] EXCEPT !.kind = "import", !.extension = e,
                                        !.parent = active[e].version])
       ELSE Goto(p, "register") /\ SetJob(p, [job[p] EXCEPT !.extension = e])
    /\ UNCHANGED <<disk, lock, history, record, building, registry>>

\* After the import the pointer is read again.
Register(p) ==
  LET e == job[p].extension
      v == active[e].version
  IN  /\ at[p] = "register"
      /\ building' = IF v # NoRevision /\ Registers(e, Files(v), building[p])
                     THEN [building EXCEPT ![p][e] = v] ELSE building
      /\ SkipExtension(p)
      /\ UNCHANGED <<disk, lock, history, registry>>

Loaded(p) == at[p] = "scan" /\ job[p].left = {}

\* Catalog::reload replaces the catalog in one step.
Publish(p) ==
  /\ Loaded(p) /\ job[p].then = "publish"
  /\ registry' = [registry EXCEPT ![p] = building[p]]
  /\ Idle(p)
  /\ UNCHANGED <<disk, lock, history>>

-----------------------------------------------------------------------------
(* create_extension: a load of what is there, the folder, a reload.        *)

Create(p) ==
  /\ at[p] = "idle" /\ Event
  /\ StartLoad(p, "create", TRUE)
  /\ UNCHANGED <<disk, lock, used, orphaned, registry>>

\* An existing folder, an extension or a name that is registered is refused;
\* the program is not looked for.
RefuseCreate(p) ==
  /\ Loaded(p) /\ job[p].then = "create"
  /\ Idle(p)
  /\ UNCHANGED <<disk, lock, history, registry>>

MakeFolder(p) ==
  /\ Loaded(p) /\ job[p].then = "create"
  /\ \E e \in Extension, b \in Bundles :
       /\ e \notin folders /\ building[p][e] = NoRevision /\ NamesFree(e, b, building[p])
       /\ folders' = folders \cup {e} /\ source' = [source EXCEPT ![e] = Unfinished]
       /\ SetJob(p, [job[p] EXCEPT !.extension = e, !.bundle = b])
  /\ Goto(p, "manifest")
  /\ UNCHANGED <<active, candidates, versions, lock, history, record, building, registry>>

WriteManifest(p) ==
  /\ at[p] = "manifest" /\ job[p].extension \in folders
  /\ source' = [source EXCEPT ![job[p].extension] = job[p].bundle]
  /\ StartLoad(p, "publish", FALSE)
  /\ UNCHANGED <<folders, active, candidates, versions, lock, history, registry>>

ManifestFails(p) ==
  /\ at[p] = "manifest"
  /\ Event \/ (job[p].extension \notin folders /\ UNCHANGED events)
  /\ Idle(p)
  /\ UNCHANGED <<disk, lock, used, orphaned, registry>>

-----------------------------------------------------------------------------
(* update_extension and rollback_extension.                                *)

\* The version the agent expects is the active one when the call is made.
Change(p, kind, e, b) ==
  /\ at[p] = "idle" /\ active[e].version # NoRevision /\ Event
  /\ Goto(p, "prepare")
  /\ SetJob(p, [NoJob EXCEPT !.kind = kind, !.extension = e, !.parent = active[e].version,
                             !.digest = active[e].digest, !.bundle = b])
  /\ UNCHANGED <<disk, lock, used, orphaned, record, building, registry>>

\* The patched files are any content of the same extension.
Update(p) == \E e \in Extension, b \in Bundles : Change(p, "patch", e, b)

\* Without a source folder the call fails at once.
UpdateFromSource(p) ==
  \E e \in folders : Change(p, "source", e, Unfinished)

Retained(e, v) == Exists(versions[v]) /\ versions[v].extension = e

Rollback(p) ==
  \E e \in Extension, v \in Revision : Retained(e, v) /\ Change(p, "rollback", e, Files(v))

-----------------------------------------------------------------------------
(* A candidate: Store::prepare and the checks of an update.                *)

\* What prepare reads: the source folder as it is by now, or kept files.
FromSource(j) == j.kind \in {"import", "source"}
Read(j) == IF FromSource(j) THEN source[j.extension] ELSE j.bundle
Readable(j) == FromSource(j) => j.extension \in folders

\* Mutant: an import may replace a version without running its checks.
MayImport_Unchecked(p, b) == Registers(job[p].extension, b, building[p])

\* What an import has to pass before its activation; the registry it is
\* checked against is the one loaded so far.
MayImport(p, b) ==
  /\ Registers(job[p].extension, b, building[p])
  /\ b.checks => job[p].parent = NoRevision

Prepare(p) ==
  LET j == job[p]
      b == Read(j)
      r == [version |-> used + 1, extension |-> j.extension, parent |-> j.parent,
            files |-> b, payload |-> b, status |-> "preparing"]
  IN  /\ at[p] = "prepare" /\ used < MaxVersions /\ Readable(j)
      /\ used' = used + 1
      /\ record' = [record EXCEPT ![p] = r]
      /\ candidates' = [candidates EXCEPT ![used + 1] = r]
      /\ SetJob(p, [j EXCEPT !.digest = IF FromSource(j) THEN b ELSE @])
      /\ Goto(p, IF j.kind # "import" THEN "check" ELSE IF MayImport(p, b) THEN "commit"
                                                                       ELSE "reject")
      /\ UNCHANGED <<folders, source, active, versions, lock, events, orphaned, building,
                     registry>>

\* An update ends with its error; an import leaves what is active in place.
GiveUp(p) ==
  IF job[p].kind # "import" THEN Idle(p)
  ELSE /\ IF job[p].parent = NoRevision
          THEN SkipExtension(p)
          ELSE /\ Goto(p, "register")
               /\ SetJob(p, SameExtension(job[p]))
               /\ record' = [record EXCEPT ![p] = NoRecord]
       /\ UNCHANGED building

\* A file is unreadable, too large, or one too many; or the folder is gone.
PrepareFails(p) ==
  /\ at[p] = "prepare"
  /\ Event \/ ((used = MaxVersions \/ ~Readable(job[p])) /\ UNCHANGED events)
  /\ GiveUp(p)
  /\ UNCHANGED <<disk, lock, used, orphaned, registry>>

CheckUpdate(p) ==
  /\ at[p] = "check"
  /\ Goto(p, IF Compatible(job[p].extension, record[p].files) THEN "run" ELSE "reject")
  /\ UNCHANGED <<disk, lock, history, job, record, building, registry>>

\* The regression checks run programs on a copy; they may fail, be cancelled,
\* or reach the files of the candidate all the same.
RunChecks(p) ==
  LET v == record[p].version
  IN  /\ at[p] = "run"
      /\ \E b \in IF record[p].files.checks THEN Bundles \cup {candidates[v].payload}
                                             ELSE {candidates[v].payload} :
           candidates' = [candidates EXCEPT ![v].payload = b]
      /\ Goto(p, "commit") \/ Goto(p, "reject")
      /\ UNCHANGED <<folders, source, active, versions, lock, history, job, record, building,
                     registry>>

-----------------------------------------------------------------------------
(* Candidate::activate and fail.                                           *)

Committing == {"compare", "save", "rename", "point", "release"}

\* The lock is tried once.
TakeLock(p) ==
  /\ at[p] = "commit" /\ lock = NoProcess
  /\ lock' = p
  /\ Goto(p, "compare")
  /\ UNCHANGED <<disk, history, job, record, building, registry>>

LockBusy(p) ==
  /\ at[p] = "commit" /\ lock # NoProcess
  /\ Goto(p, "reject")
  /\ UNCHANGED <<disk, lock, history, job, record, building, registry>>

\* Mutants: each test of the three left to the checks before the lock.
SameParent_Before(p) == TRUE
SameFiles_Before(p) == TRUE
StillCompatible_Before(p) == TRUE

SameParent(p) == active[job[p].extension].version = record[p].parent
SameFiles(p) == candidates[record[p].version].payload = record[p].files
StillCompatible(p) == Compatible(job[p].extension, record[p].files)

\* Mutant: the lock outlives a refusal.
Refuse_KeepsLock(p) ==
  /\ Goto(p, "reject")
  /\ UNCHANGED <<disk, lock, used, orphaned, job, record, building, registry>>

\* Every way out of activate drops the lock.
Refuse(p) ==
  /\ lock' = NoProcess
  /\ Goto(p, "reject")
  /\ UNCHANGED <<disk, used, orphaned, job, record, building, registry>>

Compare(p) ==
  /\ at[p] = "compare"
  /\ \/ /\ SameParent(p) /\ SameFiles(p) /\ StillCompatible(p)
        /\ Goto(p, "save")
        /\ UNCHANGED <<disk, lock, history, job, record, building, registry>>
     \/ ~(SameParent(p) /\ SameFiles(p) /\ StillCompatible(p)) /\ Refuse(p) /\ UNCHANGED events

Validated(p) == IF job[p].kind = "import" THEN "imported" ELSE "passed"

SavePassed(p) ==
  /\ at[p] = "save"
  /\ record' = [record EXCEPT ![p].status = Validated(p)]
  /\ candidates' = [candidates EXCEPT ![record[p].version].status = Validated(p)]
  /\ Goto(p, "rename")
  /\ UNCHANGED <<folders, source, active, versions, lock, history, job, building, registry>>

Rename(p) ==
  LET v == record[p].version
  IN  /\ at[p] = "rename"
      /\ versions' = [versions EXCEPT ![v] = candidates[v]]
      /\ candidates' = [candidates EXCEPT ![v] = NoRecord]
      /\ Goto(p, "point")
      /\ UNCHANGED <<folders, source, active, lock, history, job, record, building, registry>>

Point(p) ==
  /\ at[p] = "point"
  /\ active' = [active EXCEPT ![job[p].extension] = Pointer(record[p].version, job[p].digest)]
  /\ orphaned' = (orphaned \/ job[p].extension \notin folders)
  /\ Goto(p, "release")
  /\ UNCHANGED <<folders, source, candidates, versions, lock, used, events, job, record,
                 building, registry>>

\* An import goes on to register; an update reloads the catalog.
Release(p) ==
  /\ at[p] = "release"
  /\ lock' = NoProcess
  /\ IF job[p].kind = "import"
     THEN /\ Goto(p, "register")
          /\ SetJob(p, SameExtension(job[p]))
          /\ record' = [record EXCEPT ![p] = NoRecord]
          /\ UNCHANGED building
     ELSE StartLoad(p, "publish", FALSE)
  /\ UNCHANGED <<disk, history, registry>>

\* A save, rename, write of the pointer or sync fails; the last sync follows
\* the pointer.
ActivateFails(p) ==
  /\ at[p] \in {"save", "rename", "point", "release"}
  /\ Event
  /\ Refuse(p)

\* The record is written under candidates/ again, wherever its files are.
Reject(p) ==
  LET v == record[p].version
      now == IF Exists(candidates[v]) THEN candidates[v].payload ELSE record[p].payload
      failed == [record[p] EXCEPT !.status = "failed", !.files = now, !.payload = now]
  IN  /\ at[p] = "reject"
      /\ \/ candidates' = [candidates EXCEPT ![v] = failed] /\ UNCHANGED events
         \/ Event /\ UNCHANGED candidates
      /\ GiveUp(p)
      /\ UNCHANGED <<folders, source, active, versions, lock, used, orphaned, registry>>

-----------------------------------------------------------------------------
(* The environment.                                                        *)

\* The process ends or dies, and its lock with it.
Crash(p) ==
  /\ at[p] # "off"
  /\ Goto(p, "off")
  /\ lock' = IF lock = p THEN NoProcess ELSE lock
  /\ SetJob(p, NoJob)
  /\ building' = [building EXCEPT ![p] = Empty]
  /\ record' = [record EXCEPT ![p] = NoRecord]
  /\ registry' = [registry EXCEPT ![p] = Empty]
  /\ UNCHANGED <<disk, history>>

\* The author makes or changes a source folder.
EditSource ==
  /\ Event
  /\ \E e \in Extension, b \in Bundles \cup {Unfinished} :
       folders' = folders \cup {e} /\ source' = [source EXCEPT ![e] = b]
  /\ UNCHANGED <<active, candidates, versions, lock, used, orphaned, at, job, record, building,
                 registry>>

\* The author removes one; what is kept of the extension stays in .versions.
RemoveSource ==
  /\ Event
  /\ \E e \in folders :
       /\ folders' = folders \ {e} /\ source' = [source EXCEPT ![e] = Unfinished]
       /\ orphaned' = (orphaned \/ active[e].version # NoRevision)
  /\ UNCHANGED <<active, candidates, versions, lock, used, at, job, record, building, registry>>

\* What a process does once an operation has begun.
Step(p) == \/ Look(p) \/ Register(p) \/ Publish(p)
           \/ RefuseCreate(p) \/ MakeFolder(p) \/ WriteManifest(p) \/ ManifestFails(p)
           \/ Prepare(p) \/ PrepareFails(p) \/ CheckUpdate(p) \/ RunChecks(p)
           \/ TakeLock(p) \/ LockBusy(p) \/ Compare(p) \/ SavePassed(p) \/ Rename(p) \/ Point(p)
           \/ Release(p) \/ ActivateFails(p) \/ Reject(p)

Begin(p) == Start(p) \/ Reload(p) \/ Create(p) \/ Update(p) \/ UpdateFromSource(p) \/ Rollback(p)

Next == (\E p \in Process : Step(p) \/ Begin(p) \/ Crash(p))
        \/ EditSource \/ RemoveSource

Spec == Init /\ [][Next]_vars

-----------------------------------------------------------------------------
(* Properties.                                                             *)

Places == {"off", "idle", "scan", "register", "prepare", "check", "run", "commit", "reject",
           "manifest"} \cup Committing

\* Every variable has its type, and the lock is held exactly by the process
\* that is in the middle of an activation.
TypeOK ==
  /\ folders \subseteq Extension /\ source \in [Extension -> Bundle]
  /\ active \in [Extension -> [version : Revision \cup {NoRevision}, digest : Bundle]]
  /\ candidates \in [Revision -> Record] /\ versions \in [Revision -> Record]
  /\ lock \in Process \cup {NoProcess}
  /\ used \in 0 .. MaxVersions /\ events \in 0 .. MaxEvents /\ orphaned \in BOOLEAN
  /\ at \in [Process -> Places]
  /\ job \in [Process -> Job]
  /\ record \in [Process -> Record]
  /\ building \in [Process -> [Extension -> Revision \cup {NoRevision}]]
  /\ registry \in [Process -> [Extension -> Revision \cup {NoRevision}]]
  /\ \A p \in Process : lock = p <=> at[p] \in Committing

\* The pointer of an extension names a retained version of it: complete,
\* accepted, with the files it was checked with (versions.rs, activate).
ActiveSound ==
  \A e \in Extension : active[e].version # NoRevision =>
    LET r == versions[active[e].version]
    IN  /\ Exists(r) /\ r.extension = e /\ r.files.valid
        /\ r.status \in {"imported", "passed"} /\ r.payload = r.files

\* No two of these versions register the same name.
Distinct(r) ==
  \A e, f \in Extension :
    e # f /\ r[e] # NoRevision /\ r[f] # NoRevision =>
      Files(r[e]).names \cap Files(r[f]).names = {}

Current == [e \in Extension |-> active[e].version]

\* Whatever two processes activate at once, no two active extensions register
\* the same name.  This holds until one is active without its source folder,
\* which check_candidate then does not see (mod.rs:190); a catalog never has
\* two extensions with one name, whatever is active.
NamesDisjoint ==
  /\ ~orphaned => Distinct(Current)
  /\ \A p \in Process : Distinct(building[p]) /\ Distinct(registry[p])

\* A version becomes active only in place of the one it was made from: no
\* update, rollback or import overwrites one it has not seen.
NothingOverwritten ==
  [][\A e \in Extension :
       active'[e] # active[e] => versions[active'[e].version].parent = active[e].version]_vars

\* A version with regression checks is active only if they ran, unless it is
\* the first import of its extension (mod.rs, add).
ChecksRan ==
  \A e \in Extension : active[e].version # NoRevision =>
    LET r == versions[active[e].version]
    IN  r.files.checks /\ r.parent # NoRevision => r.status = "passed"
=============================================================================
