---------------------------- MODULE Checkpoints ----------------------------
(***************************************************************************)
(* The checkpoint store of one workspace (src/checkpoints/store.rs) and    *)
(* the Hibiscus processes that share it.  Before a native write replaces a *)
(* file, its image and the result's are stored and the intent is saved in  *)
(* the record of the request, so that the request can be undone later.     *)
(*                                                                         *)
(* Every operation runs under the store's lock, a nonblocking flock: an    *)
(* operation that does not get it reports an error and changes nothing.    *)
(* So there is at most one operation, `op`, and one step of it lies        *)
(* between two points where the program may die, an I/O call may fail or a *)
(* person may edit a file.  files::atomic renames a synced file, so a save *)
(* or a replacement happens or does not.  Read-only operations (history,   *)
(* diff) are left out.  An image stands for a file's bytes and mode.       *)
(***************************************************************************)
EXTENDS Naturals, FiniteSets, Functions

CONSTANTS
  Process,      \* Hibiscus processes open in the workspace
  Request,      \* identifiers of user requests
  Path,         \* regular files named in tool calls
  Covered,      \* those inside the workspace, outside .git and ~/.hibiscus
  Image,        \* images of files that exist
  Missing,      \* the image of a file that does not exist
  None,
  User,         \* whoever edits files without Hibiscus
  MaxRequests,  \* request directories the store may hold (256 in the code)
  MaxImages,    \* images the store may hold (8192 in the code)
  MaxCalls,     \* calls one request's record may trace (256 in the code)
  Keeps,        \* values of checkpoint_prune's `keep`
  MaxFaults,    \* bound: crashes and failed I/O calls
  MaxEdits      \* bound: edits by the user

ASSUME CheckpointsAssumption ==
  /\ Covered \subseteq Path
  /\ Missing \notin Image
  /\ None \notin Process /\ None \notin Request /\ User \notin Request
  /\ IsFiniteSet(Request) /\ IsFiniteSet(Image)
  /\ MaxRequests \in Nat /\ MaxImages \in Nat /\ MaxCalls \in Nat
  /\ Keeps \subseteq Nat \ {0}
  /\ MaxFaults \in Nat /\ MaxEdits \in Nat

VARIABLES
  files,     \* the workspace and the files outside it
  dirs,      \* requests/<id>: directories that exist
  records,   \* requests/<id>/record.json: the records saved
  made,      \* created_at of each request's record
  clock,     \* created_at of the newest record
  blobs,     \* blobs/<hash>: images kept
  request,   \* each process's user request
  leases,    \* requests/<id>/lease: those a process holds
  view,      \* what an edit read of its file before it entered the store
  op,        \* the operation that holds the lock
  used,      \* identifiers drawn so far
  last,      \* history: who wrote each file last
  origin,    \* history: the image each request found, by path
  wrote,     \* history: the results each request announced, by path
  faults, edits

disk    == <<files, dirs, records, made, clock, blobs>>
people  == <<request, leases, view, used>>
history == <<last, origin, wrote>>
vars    == <<disk, people, op, history, faults, edits>>

-----------------------------------------------------------------------------
AnyImage == Image \cup {Missing}
Phases == {"pendingWrite", "applied", "restoring", "restored"}
\* previous is the field of Phase::PendingWrite; Missing in other phases.
\* calls is the length of the trace of tool calls.
Entry == [before : AnyImage, after : AnyImage, previous : AnyImage,
          phase : Phases, calls : Nat]
IsRecord(record) == \E S \in SUBSET Covered : record \in [S -> Entry]
Steps == {"idle", "opening", "making", "capturing", "keepBefore", "keepAfter",
          "intent", "replacing", "applying", "journaling", "undoing", "marking",
          "pruning", "dropping"}

\* f with x mapped to v.
Put(f, x, v) == [y \in DOMAIN f \cup {x} |-> IF y = x THEN v ELSE f[y]]

\* Mutant: a file that does not exist is stored like the others.
Present_Always(image) == {image}
\* The image put() stores, if there is one.
Present(image) == {image} \ {Missing}
\* The images an entry, and a record, refer to.
ImagesOf(e) == Present(e.before) \cup Present(e.after) \cup Present(e.previous)
Named(record) == UNION {ImagesOf(record[f]) : f \in DOMAIN record}

Settled(e, phase) == [e EXCEPT !.phase = phase, !.previous = Missing]
Unfinished(record) ==
  \E f \in DOMAIN record : record[f].phase \in {"pendingWrite", "restoring"}

\* Mutant: an interrupted write counts as done whatever the file holds.
Resolve_Trusting(e, image) ==
  CASE e.phase = "pendingWrite" -> Settled(e, "applied")
    [] e.phase = "restoring" /\ image = e.before -> Settled(e, "restored")
    [] OTHER -> e
\* resolve() compares an entry with the image the file has now.  It refuses
\* an image that the entry does not explain ...
Conflict(e, image) ==
  \/ e.phase = "pendingWrite" /\ image \notin {e.after, e.previous}
  \/ e.phase = "restoring" /\ image \notin {e.before, e.after}
  \/ e.phase = "applied" /\ image # e.after
  \/ e.phase = "restored" /\ image # e.before

\* ... and otherwise settles what an interrupted operation left open.
Resolve(e, image) ==
  CASE e.phase = "pendingWrite" -> Settled([e EXCEPT !.after = image], "applied")
    [] e.phase = "restoring" /\ image = e.before -> Settled(e, "restored")
    [] OTHER -> e

Idle == [at |-> "idle", by |-> None, id |-> None, path |-> None,
         image |-> Missing, current |-> Missing, expected |-> None,
         memory |-> <<>>, todo |-> {}, left |-> {}, keep |-> 0, named |-> {}]
End == op' = Idle
Go(step) == op' = [op EXCEPT !.at = step]

Init ==
  /\ files \in [Path -> AnyImage]
  /\ dirs = {} /\ records = <<>> /\ blobs = {}
  /\ made = [r \in Request |-> 0] /\ clock = 0
  /\ request = [p \in Process |-> None] /\ leases = {}
  /\ view = [p \in Process |-> None] /\ used = {}
  /\ op = Idle
  /\ last = [f \in Path |-> User]
  /\ origin = [r \in Request |-> <<>>] /\ wrote = [r \in Request |-> {}]
  /\ faults = 0 /\ edits = 0

-----------------------------------------------------------------------------
(* Around the operations: requests begin and end, processes die, calls     *)
(* fail and people edit.                                                   *)

\* Request::new: a random identifier, no lease yet.
StartRequest(p) ==
  /\ request[p] = None
  /\ \E r \in Request \ used :
       /\ request' = [request EXCEPT ![p] = r]
       /\ used' = used \cup {r}
  /\ UNCHANGED <<disk, leases, view, op, history, faults, edits>>

\* The end of p's request, whatever the reason; the kernel drops the lease
\* with the descriptor, and the lock of an operation of p.
Leave(p) ==
  /\ request' = [request EXCEPT ![p] = None]
  /\ leases' = leases \ {request[p]}
  /\ view' = [view EXCEPT ![p] = None]

EndRequest(p) ==
  /\ request[p] # None /\ op.by # p
  /\ Leave(p)
  /\ UNCHANGED <<disk, used, op, history, faults, edits>>

Crash(p) ==
  /\ op.by = p /\ faults < MaxFaults
  /\ Leave(p) /\ End
  /\ faults' = faults + 1
  /\ UNCHANGED <<disk, used, history, edits>>

\* An I/O call fails, or a restore sees its cancellation: `?` returns, and
\* what is on the disk stays.
Fail ==
  /\ op.at # "idle" /\ faults < MaxFaults
  /\ End
  /\ faults' = faults + 1
  /\ UNCHANGED <<disk, people, history, edits>>

UserEdit(f) ==
  /\ edits < MaxEdits
  /\ \E image \in AnyImage \ {files[f]} : files' = [files EXCEPT ![f] = image]
  /\ last' = [last EXCEPT ![f] = User]
  /\ edits' = edits + 1
  /\ UNCHANGED <<dirs, records, made, clock, blobs, people, op, origin, wrote, faults>>

-----------------------------------------------------------------------------
(* write(): the tools `write` and `edit`.                                  *)

\* The edit tool reads the file before it calls write().
ReadForEdit(p, f) ==
  /\ request[p] # None /\ view[p] = None /\ op.by # p
  /\ files[f] # Missing
  /\ view' = [view EXCEPT ![p] = [path |-> f, image |-> files[f]]]
  /\ UNCHANGED <<disk, request, leases, used, op, history, faults, edits>>

\* The image an edit expects is the one write() reads under the lock; the
\* write tool expects none.
Expects(p, f) ==
  view[p] # None => view[p] = [path |-> f, image |-> files[f]]

\* The lock is taken and the file read.  Outside the workspace there is
\* nothing to record.
BeginWrite(p, f, image) ==
  /\ op = Idle /\ request[p] # None
  /\ Expects(p, f)
  /\ view' = [view EXCEPT ![p] = None]
  /\ \/ /\ f \in Covered
        /\ op' = [Idle EXCEPT
                    !.at = "opening", !.by = p, !.id = request[p], !.path = f,
                    !.image = image, !.current = files[f],
                    !.expected = IF view[p] = None THEN None ELSE view[p].image]
        /\ UNCHANGED <<files, last>>
     \/ /\ f \notin Covered
        /\ files' = [files EXCEPT ![f] = image]
        /\ last' = [last EXCEPT ![f] = request[p]]
        /\ UNCHANGED op
  /\ UNCHANGED <<dirs, records, made, clock, blobs, request, leases, used,
                 origin, wrote, faults, edits>>

\* An edit that finds the file changed or the lock taken is refused.
RefuseEdit(p) ==
  /\ view[p] # None
  /\ op # Idle \/ view[p].image # files[view[p].path]
  /\ view' = [view EXCEPT ![p] = None]
  /\ UNCHANGED <<disk, request, leases, used, op, history, faults, edits>>

\* Mutant: one request more than the limit.
HasRoom_OneMore == Cardinality(dirs) <= MaxRequests
\* ids() counts every directory, the request's own included.
HasRoom == Cardinality(dirs) < MaxRequests

OpenRecord ==
  /\ op.at = "opening"
  /\ \/ /\ op.id \in DOMAIN records
        /\ op' = [op EXCEPT !.at = "capturing", !.memory = records[op.id]]
        /\ UNCHANGED dirs
     \/ /\ op.id \notin DOMAIN records /\ HasRoom
        /\ dirs' = dirs \cup {op.id}
        /\ Go("making")
     \/ /\ op.id \notin DOMAIN records /\ ~HasRoom
        /\ End
        /\ UNCHANGED dirs
  /\ UNCHANGED <<files, records, made, clock, blobs, people, history, faults, edits>>

\* A new request has an empty record before its lease is taken.
MakeRecord ==
  /\ op.at = "making"
  /\ records' = Put(records, op.id, <<>>)
  /\ clock' = clock + 1
  /\ made' = [made EXCEPT ![op.id] = clock + 1]
  /\ op' = [op EXCEPT !.at = "capturing", !.memory = <<>>]
  /\ UNCHANGED <<files, dirs, blobs, people, history, faults, edits>>

\* Mutant: every write of a file records the image it found.
Intended_Latest(record) ==
  Put(record, op.path,
      [before |-> op.current, after |-> op.image, previous |-> op.current,
       phase |-> "pendingWrite", calls |-> 1])

\* The entry that announces the write: the first image the request found
\* stays, the result is the new one.
Intended(record) ==
  Put(record, op.path,
      [before   |-> IF op.path \in DOMAIN record THEN record[op.path].before
                                                 ELSE op.current,
       after    |-> op.image,
       previous |-> op.current,
       phase    |-> "pendingWrite",
       calls    |-> IF op.path \in DOMAIN record THEN record[op.path].calls + 1
                                                 ELSE 1])

\* The file still has the result of the request's write before this one.
Continues(e) ==
  /\ ~Conflict(e, files[op.path])
  /\ Resolve(e, files[op.path]).phase = "applied"
  /\ Resolve(e, files[op.path]).after = op.current

\* What Record::validate bounds; sizes and the number of files are alike.
Valid(record) == SumFunction([f \in DOMAIN record |-> record[f].calls]) <= MaxCalls

\* The first write takes the lease; then the intent is composed in memory.
Capture ==
  /\ op.at = "capturing"
  /\ leases' = leases \cup {op.id}
  /\ IF /\ op.path \in DOMAIN op.memory => Continues(op.memory[op.path])
        /\ Valid(Intended(op.memory))
     THEN op' = [op EXCEPT !.at = "keepBefore", !.memory = Intended(op.memory)]
     ELSE End
  /\ UNCHANGED <<disk, request, view, used, history, faults, edits>>

\* put(): an image is stored once, within the limit.
Stores(image) == blobs' = blobs \cup Present(image)
Storable(image) == Present(image) \subseteq blobs \/ Cardinality(blobs) < MaxImages

\* bytes(): what is not on disk any more must come from the store.
KeepBefore ==
  /\ op.at = "keepBefore"
  /\ LET before == op.memory[op.path].before
     IN  IF (before = op.current \/ Present(before) \subseteq blobs) /\ Storable(before)
         THEN Stores(before) /\ Go("keepAfter")
         ELSE End /\ UNCHANGED blobs
  /\ UNCHANGED <<files, dirs, records, made, clock, people, history, faults, edits>>

\* Mutant: the result's image is not stored.
KeepAfter_Skips ==
  /\ op.at = "keepAfter"
  /\ Go("intent")
  /\ UNCHANGED <<disk, people, history, faults, edits>>

KeepAfter ==
  /\ op.at = "keepAfter"
  /\ IF Storable(op.image) THEN Stores(op.image) /\ Go("intent")
     ELSE End /\ UNCHANGED blobs
  /\ UNCHANGED <<files, dirs, records, made, clock, people, history, faults, edits>>

\* Mutant: the intent stays in memory until the file is replaced.
SaveIntent_Late ==
  /\ op.at = "intent"
  /\ Go("replacing")
  /\ UNCHANGED <<disk, people, history, faults, edits>>

SaveIntent ==
  /\ op.at = "intent"
  /\ records' = [records EXCEPT ![op.id] = op.memory]
  /\ wrote' = [wrote EXCEPT ![op.id] = @ \cup {<<op.path, op.image>>}]
  /\ Go("replacing")
  /\ UNCHANGED <<files, dirs, made, clock, blobs, people, last, origin, faults, edits>>

Wrote ==
  /\ last' = [last EXCEPT ![op.path] = op.id]
  /\ origin' = IF op.path \in DOMAIN origin[op.id] THEN origin
               ELSE [origin EXCEPT ![op.id] = Put(@, op.path, files[op.path])]
  /\ UNCHANGED wrote

\* The file is read again and replaced.  docs/checkpoints.md asks people not
\* to edit a file between these two, so they are one step.
Replace ==
  /\ op.at = "replacing"
  /\ \/ /\ files[op.path] = op.current
        /\ files' = [files EXCEPT ![op.path] = op.image]
        /\ Wrote
        /\ Go("applying")
     \/ /\ files[op.path] # op.current
        /\ End
        /\ UNCHANGED <<files, history>>
  /\ UNCHANGED <<dirs, records, made, clock, blobs, people, faults, edits>>

\* The result is on the disk: the intent is settled.
SaveApplied ==
  /\ op.at = "applying"
  /\ End
  /\ records' = IF files[op.path] = op.image
                THEN [records EXCEPT
                        ![op.id] = [op.memory EXCEPT
                                      ![op.path] = Settled(@, "applied")]]
                ELSE records
  /\ UNCHANGED <<files, dirs, made, clock, blobs, people, history, faults, edits>>

-----------------------------------------------------------------------------
(* restore(): the tool checkpoint_restore.                                 *)

\* The selected entries of a record after preflight, announced.
Announced(record, selected) ==
  [f \in DOMAIN record |->
     IF f \notin selected THEN record[f]
     ELSE LET e == Resolve(record[f], files[f])
          IN  IF e.phase = "restored" THEN e ELSE [e EXCEPT !.phase = "restoring"]]

\* A record whose request is over.
Restorable(r) == r \in DOMAIN records /\ r \notin leases

\* Mutant: files that conflict are left to the loop.
Preflight_ImagesOnly(record, selected) ==
  \A f \in selected : Present(record[f].before) \subseteq blobs
\* Every selected path is explained and its first image is kept.
Preflight(record, selected) ==
  \A f \in selected : /\ ~Conflict(record[f], files[f])
                      /\ Present(record[f].before) \subseteq blobs

BeginRestore(p, r, selected) ==
  /\ op = Idle /\ request[p] # None /\ view[p] = None
  /\ Restorable(r)
  /\ selected # {} /\ selected \subseteq DOMAIN records[r]
  /\ Preflight(records[r], selected)
  /\ op' = [Idle EXCEPT !.at = "journaling", !.by = p, !.id = r, !.todo = selected,
                        !.memory = Announced(records[r], selected)]
  /\ UNCHANGED <<disk, people, history, faults, edits>>

SaveRestoring ==
  /\ op.at = "journaling"
  /\ records' = [records EXCEPT ![op.id] = op.memory]
  /\ Go("undoing")
  /\ UNCHANGED <<files, dirs, made, clock, blobs, people, history, faults, edits>>

\* Mutant: the loop does not advance.
SaveRestored_Stays(f) ==
  LET done == [op.memory EXCEPT ![f] = Settled(@, "restored")]
  IN  /\ records' = [records EXCEPT ![op.id] = done]
      /\ op' = [op EXCEPT !.at = "undoing", !.path = None, !.memory = done]

\* The entry of f is saved as restored, and the next path is due.
SaveRestored(f) ==
  LET done == [op.memory EXCEPT ![f] = Settled(@, "restored")]
  IN  /\ records' = [records EXCEPT ![op.id] = done]
      /\ op' = IF op.todo = {f} THEN Idle
               ELSE [op EXCEPT !.at = "undoing", !.path = None, !.memory = done,
                               !.todo = @ \ {f}]

\* One turn of the loop: the path is resolved again; a file that is back
\* already is only marked, one that has the result gets its first image.
Undo(f) ==
  /\ op.at = "undoing" /\ f \in op.todo
  /\ LET e == op.memory[f]
     IN  \/ /\ Conflict(e, files[f])
            /\ End
            /\ UNCHANGED <<files, records, last>>
         \/ /\ ~Conflict(e, files[f])
            /\ Resolve(e, files[f]).phase = "restored"
            /\ SaveRestored(f)
            /\ UNCHANGED <<files, last>>
         \/ /\ ~Conflict(e, files[f])
            /\ Resolve(e, files[f]).phase # "restored"
            /\ files' = [files EXCEPT ![f] = e.before]
            /\ last' = [last EXCEPT ![f] = op.id]
            /\ op' = [op EXCEPT !.at = "marking", !.path = f]
            /\ UNCHANGED records
  /\ UNCHANGED <<dirs, made, clock, blobs, people, origin, wrote, faults, edits>>

MarkRestored ==
  /\ op.at = "marking"
  /\ IF files[op.path] = op.memory[op.path].before
     THEN SaveRestored(op.path)
     ELSE End /\ UNCHANGED records
  /\ UNCHANGED <<files, dirs, made, clock, blobs, people, history, faults, edits>>

-----------------------------------------------------------------------------
(* prune(): the tool checkpoint_prune.                                     *)

\* One directory without a record, as a crash may leave it, stops pruning.
BeginPrune(p, keep) ==
  /\ op = Idle /\ request[p] # None /\ view[p] = None
  /\ dirs = DOMAIN records
  /\ op' = [Idle EXCEPT !.at = "pruning", !.by = p, !.keep = keep,
                        !.left = DOMAIN records]
  /\ UNCHANGED <<disk, people, history, faults, edits>>

\* Mutant: unfinished records count like the others.
Retained_Finished(r) == r \in leases
\* What pruning spares beside the newest `keep`.
Retained(r) == Unfinished(records[r]) \/ r \in leases

Keeping(r) == [op EXCEPT !.left = @ \ {r}, !.named = @ \cup Named(records[r])]

\* The newest record not looked at yet; its file goes before its directory.
PruneNext(r) ==
  /\ op.at = "pruning" /\ r \in op.left
  /\ \A q \in op.left : made[q] <= made[r]
  /\ \/ /\ Retained(r)
        /\ op' = Keeping(r)
        /\ UNCHANGED records
     \/ /\ ~Retained(r) /\ op.keep > 0
        /\ op' = [Keeping(r) EXCEPT !.keep = @ - 1]
        /\ UNCHANGED records
     \/ /\ ~Retained(r) /\ op.keep = 0
        /\ op' = [op EXCEPT !.at = "dropping", !.id = r, !.left = @ \ {r}]
        /\ records' = [q \in DOMAIN records \ {r} |-> records[q]]
  /\ UNCHANGED <<files, dirs, made, clock, blobs, people, history, faults, edits>>

DropDirectory ==
  /\ op.at = "dropping"
  /\ dirs' = dirs \ {op.id}
  /\ Go("pruning")
  /\ UNCHANGED <<files, records, made, clock, blobs, people, history, faults, edits>>

\* The images no retained record names go one by one.
PruneImages ==
  /\ op.at = "pruning" /\ op.left = {}
  /\ \/ \E image \in blobs \ op.named : blobs' = blobs \ {image} /\ UNCHANGED op
     \/ blobs \subseteq op.named /\ End /\ UNCHANGED blobs
  /\ UNCHANGED <<files, dirs, records, made, clock, people, history, faults, edits>>

-----------------------------------------------------------------------------
Step(p) ==
  /\ op.by = p
  /\ \/ OpenRecord \/ MakeRecord \/ Capture \/ KeepBefore \/ KeepAfter
     \/ SaveIntent \/ Replace \/ SaveApplied
     \/ SaveRestoring \/ (\E f \in Path : Undo(f)) \/ MarkRestored
     \/ (\E r \in Request : PruneNext(r)) \/ DropDirectory \/ PruneImages

Next ==
  \/ \E p \in Process :
       \/ StartRequest(p) \/ EndRequest(p) \/ Crash(p)
       \/ \E f \in Path : ReadForEdit(p, f) \/ \E image \in Image : BeginWrite(p, f, image)
       \/ RefuseEdit(p)
       \/ \E r \in Request : \E s \in SUBSET Covered : BeginRestore(p, r, s)
       \/ \E keep \in Keeps : BeginPrune(p, keep)
       \/ Step(p)
  \/ Fail
  \/ \E f \in Path : UserEdit(f)

Spec == Init /\ [][Next]_vars

\* A thread that holds the lock is scheduled until its operation is over.
FairSpec == Spec /\ \A p \in Process : WF_vars(Step(p))

-----------------------------------------------------------------------------
(* Properties.                                                             *)

\* The type of every variable.
TypeOK ==
  /\ files \in [Path -> AnyImage]
  /\ dirs \subseteq Request
  /\ DOMAIN records \subseteq dirs
  /\ \A r \in DOMAIN records : IsRecord(records[r])
  /\ made \in [Request -> Nat] /\ clock \in Nat
  /\ blobs \subseteq Image
  /\ request \in [Process -> Request \cup {None}]
  /\ leases \subseteq Request /\ used \subseteq Request
  /\ view \in [Process -> [path : Path, image : Image] \cup {None}]
  /\ op \in [at : Steps, by : Process \cup {None}, id : Request \cup {None},
             path : Path \cup {None}, image : AnyImage, current : AnyImage,
             expected : Image \cup {None}, memory : {op.memory}, todo : SUBSET Covered,
             left : SUBSET Request, keep : Nat, named : SUBSET Image]
  /\ IsRecord(op.memory)
  /\ last \in [Path -> Request \cup {User}]
  /\ faults \in 0 .. MaxFaults /\ edits \in 0 .. MaxEdits

\* Every image that a saved record refers to is in the store: neither a
\* crash nor pruning in another process takes away what a restore needs.
ImagesRetained == \A r \in DOMAIN records : Named(records[r]) \subseteq blobs

\* What holds between the steps of an operation, and makes ImagesRetained
\* inductive: which record is open, and whose images the store has by then.
Writing == {"opening", "making", "capturing", "keepBefore", "keepAfter",
            "intent", "replacing", "applying"}
Restoring == {"journaling", "undoing", "marking"}
Pruning == {"pruning", "dropping"}

OperationOK ==
  /\ op.at \in Writing =>
       op.id \in Request /\ op.path \in Covered /\ op.image \in Image
  /\ op.at = "making" => op.id \in dirs
  /\ op.at \in (Writing \ {"opening", "making"}) \cup Restoring => op.id \in DOMAIN records
  /\ op.at \in {"keepBefore", "keepAfter", "intent", "replacing", "applying"} =>
       /\ op.path \in DOMAIN op.memory
       /\ op.memory[op.path].after = op.image
       /\ op.memory[op.path].previous = op.current
  /\ op.at \in Restoring =>
       op.todo \subseteq DOMAIN op.memory /\ (op.at = "marking" => op.path \in op.todo)
  /\ op.at \in {"capturing", "intent", "replacing", "applying"} \cup Restoring =>
       Named(op.memory) \subseteq blobs
  /\ op.at \in {"keepBefore", "keepAfter"} =>
       \A f \in DOMAIN op.memory \ {op.path} : ImagesOf(op.memory[f]) \subseteq blobs
  /\ op.at = "keepBefore" =>
       Present(op.current) \subseteq blobs \/ op.memory[op.path].before = op.current
  /\ op.at = "keepAfter" =>
       Present(op.memory[op.path].before) \cup Present(op.current) \subseteq blobs
  /\ op.at \in Pruning =>
       /\ op.left \subseteq DOMAIN records
       /\ \A r \in DOMAIN records \ op.left : Named(records[r]) \subseteq op.named
  /\ op.at = "dropping" => op.id \notin DOMAIN records

Inductive == TypeOK /\ ImagesRetained /\ OperationOK

\* An interrupted write or restore can be carried on: if nobody but request
\* r (or its restore) has written a file since, the entry of r explains it.
Recoverable ==
  \A r \in DOMAIN records : \A f \in DOMAIN records[r] :
    last[f] = r => ~Conflict(records[r][f], files[f])

\* The image a restore brings back is the one the request found when it
\* first replaced the file, however often it wrote it afterwards; unless a
\* write had failed before and somebody put its very result in the file.
OriginalKept ==
  \A r \in DOMAIN records : \A f \in DOMAIN origin[r] :
    /\ f \in DOMAIN records[r]
    /\ records[r][f].before = origin[r][f] \/ <<f, origin[r][f]>> \in wrote[r]

\* The store never holds more request directories than its limit; one more
\* and ids() refuses to read it, pruning included.
RequestLimit == Cardinality(dirs) <= MaxRequests

\* f is a protected file that Hibiscus, not a person, is replacing.
Replaced(f) == f \in Covered /\ files'[f] # files[f] /\ last'[f] # User

\* A protected file is replaced only by what a saved record announces, and
\* only if the store keeps the image that goes; so a death at any point
\* leaves a file that a record explains, and no content is lost.
ReplacementsAnnounced ==
  [][\A f \in Path : Replaced(f) =>
       LET r == last'[f]
           e == records[r][f]
       IN  /\ r \in DOMAIN records /\ f \in DOMAIN records[r]
           /\ Present(files[f]) \subseteq blobs
           /\ \/ e.phase = "pendingWrite" /\ e.previous = files[f] /\ e.after = files'[f]
              \/ e.phase = "restoring" /\ e.after = files[f] /\ e.before = files'[f]]_vars

\* A restore of request r replaces only a result that r announced: other
\* work done on the file since, by a person or a request, is never lost.
RestoresOwnResults ==
  [][\A f \in Path :
       Replaced(f) /\ op.at = "undoing" => <<f, files[f]>> \in wrote[last'[f]]]_vars

\* An edit replaces the text it was computed from: not what another process
\* or a person has written between its read and its write.
EditsWhatItRead ==
  [][\A f \in Path :
       Replaced(f) /\ op.expected # None => files[f] = op.expected]_vars

\* While a request holds its lease, only its own process changes its record:
\* nobody restores or prunes it.
ActiveUntouched ==
  [][\A r \in leases \cap DOMAIN records :
       \/ r \in DOMAIN records' /\ records'[r] = records[r]
       \/ \E p \in Process : op.by = p /\ request[p] = r]_vars

\* Pruning removes no record with an unfinished write or restore, and never
\* the newest finished one.
PruneSpares ==
  [][\A r \in DOMAIN records \ DOMAIN records' :
       /\ ~Unfinished(records[r])
       /\ \E q \in DOMAIN records : made[q] > made[r] /\ ~Unfinished(records[q])]_vars

\* No operation undoes what it has not seen or what is not finished: the text
\* another writer left, the record of a running request, an interrupted record.
OthersSpared == EditsWhatItRead /\ ActiveUntouched /\ PruneSpares

\* No operation keeps the lock for ever: every refusal and every error ends
\* it, and its loops come to an end.
OperationsEnd == \A p \in Process : op.by = p ~> op.by # p
=============================================================================
